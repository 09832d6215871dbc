----------------------------- MODULE EventRecorder -----------------------------
(***************************************************************************)
(* The recorder of earnings reactions (quant/data/recorders/events.py):    *)
(* for an announcement, the run-up before it, the reaction to it and the   *)
(* drift after it, read from the bars that the archive holds by then, kept *)
(* in one file that is read, merged and written again IN PLACE; and the    *)
(* events of the drift study made from them                                *)
(* (quant/research/mechanisms/pead.py).                                    *)
(*                                                                         *)
(* A return is the pair of closes it leads from and to.  The archive grows *)
(* bar by bar, each symbol in its own time.                                *)
(***************************************************************************)
EXTENDS Integers, Sequences, FiniteSets, SequencesExt, FiniteSetsExt

CONSTANTS
    Listed,         \* symbol -> all bars it will ever have, in order
    DaySlots,       \* moments of a day that are told apart
    PreDays, ReactionDays, DriftDays,
    DayPadding,     \* _DAY_PADDING
    Calendars,      \* lists of announcements the source may hand over
    DriftWindow,    \* drift_window_days of the study
    MinAbsSurprise, \* min_abs_surprise of the study
    TornStore       \* the file of the store cannot be read

Announcements == [symbol : DOMAIN Listed, time : Int, actual : Int, estimate : Int]

ASSUME EventAssumption ==
    /\ {PreDays, ReactionDays, DriftDays} \subseteq Nat \ {0} /\ DriftWindow > 0
    /\ Calendars \subseteq Seq(Announcements)

\* The bars of a symbol are stamped in order.
ASSUME HistoryAssumption ==
    \A s \in DOMAIN Listed :
        /\ Listed[s] \in Seq([t : Int, close : Int])
        /\ \A m, n \in DOMAIN Listed[s] : m < n => Listed[s][m].t < Listed[s][n].t

VARIABLES archived,   \* symbol -> how many of its bars the archive holds
          announced,  \* the events record() has still to look at
          records,    \* what record() returned, or has so far
          merging,    \* the rows about to be written, if any
          store,      \* rows on file, or TornStore
          study       \* the events of the last PeadSpec

eventVars == <<archived, announced, records, merging, store, study>>

------------------------------------------------------------------------------
(* The recorder.                                                           *)

\* EarningsEvent.surprise, in hundredths of the estimate.
Surprise(event) ==
    LET off == event.actual - event.estimate
    IN  IF event.estimate = 0
          THEN (IF off > 0 THEN 1 ELSE IF off < 0 THEN -1 ELSE 0)
          ELSE (100 * off) \div (IF event.estimate > 0 THEN event.estimate
                                                       ELSE - event.estimate)

\* Calendar days that surely span so many trading days.
Padded(days) == (days * 8) \div 5 + DayPadding

\* read_bars around the announcement, of a history.
Inside(history, event) ==
    {n \in DOMAIN history :
        /\ history[n].t >= event.time - DaySlots * Padded(PreDays)
        /\ history[n].t <= event.time + DaySlots * Padded(ReactionDays + DriftDays)}
BarsAround(history, event) ==
    IF Inside(history, event) = {} THEN << >>
    ELSE SubSeq(history, Min(Inside(history, event)), Max(Inside(history, event)))

\* searchsorted(side="right") - 1: the last bar stamped at or before the announcement.
Anchor(bars, event) == Cardinality({n \in DOMAIN bars : bars[n].t <= event.time})

\* A slip the runs must notice: the drift so far stands for the drift.
DriftSoFar(bars, react) ==
    IF react \in DOMAIN bars /\ react + DriftDays > Len(bars) THEN Len(bars)
    ELSE react + DriftDays

DriftEnd(bars, react) == react + DriftDays

\* _record_one: none unless the bars cover all three windows; until is not in
\* the record.
RecordOne(history, event) ==
    LET bars   == BarsAround(history, event)
        anchor == Anchor(bars, event)
        react  == anchor + ReactionDays
        drift  == DriftEnd(bars, react)
    IN  IF anchor - PreDays < 1 \/ drift > Len(bars) \/ bars[anchor].close <= 0 THEN << >>
        ELSE <<[symbol |-> event.symbol, time |-> event.time, surprise |-> Surprise(event),
                pre |-> <<bars[anchor - PreDays].close, bars[anchor].close>>,
                reaction |-> <<bars[anchor].close, bars[react].close>>,
                drift |-> <<bars[react].close, bars[drift].close>>,
                until |-> bars[drift].t]>>

Archive(symbol) == SubSeq(Listed[symbol], 1, archived[symbol])

NoRow == [key \in {} |-> << >>]

EventInit ==
    /\ archived = [s \in DOMAIN Listed |-> 0]
    /\ announced = << >> /\ records = << >> /\ merging = NoRow /\ store = NoRow /\ study = << >>

ArchiveBar(symbol) ==
    /\ archived[symbol] < Len(Listed[symbol])
    /\ archived' = [archived EXCEPT ![symbol] = @ + 1]
    /\ UNCHANGED <<announced, records, merging, store, study>>

\* record(): the events one after the other, each by what is archived by then.
RecordEvents(events) ==
    /\ announced = << >> /\ merging = NoRow
    /\ announced' = events /\ records' = << >>
    /\ UNCHANGED <<archived, merging, store, study>>

RecordNext ==
    /\ announced # << >>
    /\ announced' = Tail(announced)
    /\ LET event == Head(announced)
           found == RecordOne(Archive(event.symbol), event)
       IN  records' = IF found = << >> THEN records ELSE Append(records, Head(found))
    /\ UNCHANGED <<archived, merging, store, study>>

------------------------------------------------------------------------------
(* ParquetEventReactionStore.                                              *)

KeyOf(row) == <<row.symbol, row.time>>
WithKey(rows, key) == {n \in DOMAIN rows : KeyOf(rows[n]) = key}

\* drop_duplicates(keep="last") over the rows on file and the new ones.
WithRecords(old, new) ==
    [key \in DOMAIN old \cup {KeyOf(new[n]) : n \in DOMAIN new} |->
        IF WithKey(new, key) # {} THEN new[Max(WithKey(new, key))] ELSE old[key]]

\* write(): nothing to write changes nothing; a file that cannot be read raises.
ReadAndMerge ==
    /\ announced = << >> /\ merging = NoRow /\ records # << >> /\ store # TornStore
    /\ merging' = WithRecords(store, records)
    /\ UNCHANGED <<archived, announced, records, store, study>>

\* to_parquet over the same file, which may stop half way.
RewriteStore ==
    /\ merging # NoRow
    /\ store' \in {merging, TornStore}
    /\ merging' = NoRow
    /\ UNCHANGED <<archived, announced, records, study>>

\* The write raises before it touches the file, or the process dies.
GiveUp ==
    /\ announced # << >> \/ merging # NoRow \/ records # << >>
    /\ announced' = << >> /\ merging' = NoRow /\ records' = << >>
    /\ UNCHANGED <<archived, store, study>>

------------------------------------------------------------------------------
(* The drift study.                                                        *)

\* PeadSpec: the events whose surprise is large enough, by time; a label ends a
\* number of calendar days after its event.  No event at all raises.
BuildStudy ==
    LET kept == SelectSeq(records, LAMBDA r : r.surprise >= MinAbsSurprise
                                               \/ - r.surprise >= MinAbsSurprise)
        Event(r) == [start |-> r.time, end |-> r.time + DaySlots * DriftWindow,
                     surprise |-> r.surprise, drift |-> r.drift, until |-> r.until]
    IN  /\ announced = << >> /\ merging = NoRow /\ kept # << >>
        /\ study' = [n \in DOMAIN kept |->
                        Event(SortSeq(kept, LAMBDA a, b : a.time < b.time)[n])]
        /\ UNCHANGED <<archived, announced, records, merging, store>>

EventNext ==
    \/ \E symbol \in DOMAIN Listed : ArchiveBar(symbol)
    \/ \E events \in Calendars : RecordEvents(events)
    \/ RecordNext
    \/ ReadAndMerge \/ RewriteStore \/ GiveUp \/ BuildStudy

EventSpec == EventInit /\ [][EventNext]_eventVars

------------------------------------------------------------------------------
(* Properties.                                                             *)

\* The three returns of a row are those the complete history gives.
IsSettled(row) ==
    LET then == RecordOne(Listed[row.symbol], [symbol |-> row.symbol, time |-> row.time,
                                                actual |-> 0, estimate |-> 0])
    IN  then # << >> /\ Head(then).pre = row.pre
        /\ Head(then).reaction = row.reaction /\ Head(then).drift = row.drift

\* What is on file for an announcement is final: however early it was recorded,
\* in whatever batch, with whatever bars missing yet, its three returns are those
\* the complete history gives.
RecordsSettle ==
    store # TornStore => \A key \in DOMAIN store : IsSettled(store[key])

\* "drift_window_days: holding horizon in calendar days (the t0 -> t1 span)": the
\* return an event of the study is judged by is known by the end of its label,
\* which is all the purge keeps the training events clear of.
LabelsCoverDrift ==
    \A n \in DOMAIN study : study[n].until <= study[n].end
===============================================================================
