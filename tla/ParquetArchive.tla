---------------------------- MODULE ParquetArchive ----------------------------
(***************************************************************************)
(* The immutable cold tier (quant/data/store/parquet.py).  A write_bars    *)
(* call walks the days of its frame in ascending order.  For each day it   *)
(* looks for the partition file, skips it when the content is identical,   *)
(* refuses the whole call when it differs, and otherwise writes a ".tmp"   *)
(* neighbour and renames it into place.  Every one of those file-system    *)
(* operations is a step here, so a crash, a reader or a second process can *)
(* come between any two of them.                                           *)
(*                                                                         *)
(* A frame is abstracted to which content each day holds: two frames are   *)
(* told apart by serde.frames_equal and by nothing else.                   *)
(***************************************************************************)
EXTENDS Integers

CONSTANTS Symbols, Days, Frames,
          Writers,   \* processes that call write_bars
          Readers,   \* processes that call read_bars
          None,      \* no file, or no bars for that day
          Torn,      \* a file that write_bytes has truncated but not filled
          NoSymbol

ASSUME ParquetAssumption ==
    /\ Days \subseteq Int
    /\ None \notin Frames /\ Torn \notin Frames /\ None # Torn
    /\ NoSymbol \notin Symbols

VARIABLES file,     \* file[<<s, d>>]: what read_parquet finds in the partition
          tmp,      \* tmp[<<s, d>>]: the ".tmp" neighbour of that partition
          pc,       \* pc[w]: where the write_bars call of w stands
          symbol,   \* symbol[w]: its first argument
          asked,    \* asked[w][d]: the bars of day d in the frame it was given
          todo,     \* todo[w][d]: the same, for the days it has not passed yet
          outcome,  \* outcome[w]: how its last call ended
          target,   \* target[r]: the symbol r is reading
          listed,   \* listed[r]: the partitions it saw and has not opened yet
          got       \* got[r][d]: what it has collected

writing == <<pc, symbol, asked, todo, outcome>>
reading == <<target, listed, got>>
vars    == <<file, tmp, pc, symbol, asked, todo, outcome, target, listed, got>>

Keys   == Symbols \X Days
PerDay == [Days -> Frames \cup {None}]
NoBars == [d \in Days |-> None]

TypeOK ==
    /\ file \in [Keys -> Frames \cup {None}]
    /\ tmp  \in [Keys -> Frames \cup {None, Torn}]
    /\ pc \in [Writers -> {"idle", "look", "open", "fill", "rename"}]
    /\ symbol \in [Writers -> Symbols \cup {NoSymbol}]
    /\ asked \in [Writers -> PerDay]
    /\ todo \in [Writers -> PerDay]
    /\ outcome \in [Writers ->
            {"none", "written", "refused", "failed", "crashed"}]
    /\ target \in [Readers -> Symbols \cup {NoSymbol}]
    /\ listed \in [Readers -> SUBSET Days]
    /\ got \in [Readers -> PerDay]

Init ==
    /\ file = [k \in Keys |-> None]
    /\ tmp  = [k \in Keys |-> None]
    /\ pc = [w \in Writers |-> "idle"]
    /\ symbol = [w \in Writers |-> NoSymbol]
    /\ asked = [w \in Writers |-> NoBars]
    /\ todo = [w \in Writers |-> NoBars]
    /\ outcome = [w \in Writers |-> "none"]
    /\ target = [r \in Readers |-> NoSymbol]
    /\ listed = [r \in Readers |-> {}]
    /\ got = [r \in Readers |-> NoBars]

------------------------------------------------------------------------------
(* Writing.                                                                *)

Pending(w) == {d \in Days : todo[w][d] # None}

\* groupby(..., sort=True): the days are visited in calendar order.
IsNext(w, d) == d \in Pending(w) /\ \A e \in Pending(w) : d <= e

Partition(w, d) == <<symbol[w], d>>

Goto(w, label) ==
    /\ pc' = [pc EXCEPT ![w] = label]
    /\ UNCHANGED <<symbol, asked, todo, outcome>>

DayDone(w, d) ==
    /\ pc' = [pc EXCEPT ![w] = "look"]
    /\ todo' = [todo EXCEPT ![w][d] = None]
    /\ UNCHANGED <<symbol, asked, outcome>>

\* The call returns, or an exception leaves it; the days it has not reached
\* stay in "todo", which the code has only as the rest of its loop.
Leave(w, how) ==
    /\ pc' = [pc EXCEPT ![w] = "idle"]
    /\ outcome' = [outcome EXCEPT ![w] = how]
    /\ UNCHANGED <<symbol, asked, todo>>

\* An empty frame returns at once.
WriteBars(w, s, frame) ==
    /\ pc[w] = "idle"
    /\ symbol' = [symbol EXCEPT ![w] = s]
    /\ asked' = [asked EXCEPT ![w] = frame]
    /\ todo' = [todo EXCEPT ![w] = frame]
    /\ pc' = [pc EXCEPT ![w] = IF frame = NoBars THEN "idle" ELSE "look"]
    /\ outcome' = [outcome EXCEPT ![w] =
                       IF frame = NoBars THEN "written" ELSE "none"]
    /\ UNCHANGED <<file, tmp, reading>>

\* A slip the runs must notice: an existing partition is never compared.
SkipExisting(w, d) ==
    /\ pc[w] = "look" /\ IsNext(w, d)
    /\ file[Partition(w, d)] # None
    /\ DayDone(w, d)
    /\ UNCHANGED <<file, tmp, reading>>

\* path.exists() and frames_equal(existing, new): a no-op for this day.
SkipIdentical(w, d) ==
    /\ pc[w] = "look" /\ IsNext(w, d)
    /\ file[Partition(w, d)] = todo[w][d]
    /\ DayDone(w, d)
    /\ UNCHANGED <<file, tmp, reading>>

\* raise ImmutableArchiveError; the days before d stay written.
Refuse(w, d) ==
    /\ pc[w] = "look" /\ IsNext(w, d)
    /\ file[Partition(w, d)] \notin {None, todo[w][d]}
    /\ Leave(w, "refused")
    /\ UNCHANGED <<file, tmp, reading>>

\* A slip the runs must notice: the partition is rewritten without looking.
LookAway(w, d) ==
    /\ pc[w] = "look" /\ IsNext(w, d)
    /\ Goto(w, "open")
    /\ UNCHANGED <<file, tmp, reading>>

FindAbsent(w, d) ==
    /\ pc[w] = "look" /\ IsNext(w, d)
    /\ file[Partition(w, d)] = None
    /\ Goto(w, "open")
    /\ UNCHANGED <<file, tmp, reading>>

\* tmp.write_bytes opens with truncation ...
OpenTmp(w, d) ==
    /\ pc[w] = "open" /\ IsNext(w, d)
    /\ tmp' = [tmp EXCEPT ![Partition(w, d)] = Torn]
    /\ Goto(w, "fill")
    /\ UNCHANGED <<file, reading>>

\* ... and fills the file it opened.  If another process has renamed that
\* file in between, the bytes land where it is now.
FillTmp(w, d) ==
    /\ pc[w] = "fill" /\ IsNext(w, d)
    /\ LET k == Partition(w, d) IN
       IF tmp[k] # None
         THEN /\ tmp' = [tmp EXCEPT ![k] = todo[w][d]]
              /\ UNCHANGED file
         ELSE /\ file' = [file EXCEPT ![k] = todo[w][d]]
              /\ UNCHANGED tmp
    /\ Goto(w, "rename")
    /\ UNCHANGED reading

\* tmp.replace(path); a ".tmp" that is gone raises FileNotFoundError.
Rename(w, d) ==
    /\ pc[w] = "rename" /\ IsNext(w, d)
    /\ LET k == Partition(w, d) IN
       IF tmp[k] # None
         THEN /\ file' = [file EXCEPT ![k] = tmp[k]]
              /\ tmp'  = [tmp EXCEPT ![k] = None]
              /\ DayDone(w, d)
         ELSE /\ Leave(w, "failed")
              /\ UNCHANGED <<file, tmp>>
    /\ UNCHANGED reading

Return(w) ==
    /\ pc[w] = "look" /\ Pending(w) = {}
    /\ Leave(w, "written")
    /\ UNCHANGED <<file, tmp, reading>>

\* An OSError out of any file operation, or the end of the process; whatever
\* the ".tmp" held stays on the disk.
Abort(w, how) ==
    /\ pc[w] # "idle"
    /\ Leave(w, how)
    /\ UNCHANGED <<file, tmp, reading>>

WriterStep(w) ==
    \/ \E d \in Days : \/ SkipIdentical(w, d) \/ Refuse(w, d)
                       \/ FindAbsent(w, d)    \/ OpenTmp(w, d)
                       \/ FillTmp(w, d)       \/ Rename(w, d)
    \/ Return(w)

------------------------------------------------------------------------------
(* Reading: read_bars lists the partitions that exist, then opens them one *)
(* after the other while writers go on.                                    *)

ListPartitions(r, s) ==
    /\ listed[r] = {}
    /\ target' = [target EXCEPT ![r] = s]
    /\ listed' = [listed EXCEPT ![r] = {d \in Days : file[<<s, d>>] # None}]
    /\ got' = [got EXCEPT ![r] = NoBars]
    /\ UNCHANGED <<file, tmp, writing>>

ReadPartition(r, d) ==
    /\ d \in listed[r]
    /\ listed' = [listed EXCEPT ![r] = @ \ {d}]
    /\ got' = [got EXCEPT ![r][d] = file[<<target[r], d>>]]
    /\ UNCHANGED <<file, tmp, target, writing>>

------------------------------------------------------------------------------
Next ==
    \/ \E w \in Writers :
          \/ \E s \in Symbols, frame \in PerDay : WriteBars(w, s, frame)
          \/ WriterStep(w)
          \/ \E o \in {"failed", "crashed"} : Abort(w, o)
    \/ \E r \in Readers :
          \/ \E s \in Symbols : ListPartitions(r, s)
          \/ \E d \in Days : ReadPartition(r, d)

Spec == Init /\ [][Next]_vars

------------------------------------------------------------------------------
(* Properties.                                                             *)

\* "You never overwrite history": a partition that holds bars holds the same
\* bars ever after (the exists / frames_equal test of _write_partition).
NeverOverwritten ==
    \A k \in Keys : file[k] # None => file'[k] = file[k]
Immutable == [][NeverOverwritten]_vars

\* A write_bars call that returned, and one that failed half way, hold every
\* day they went past: the partial write is exactly the days before the failure.
PassedDaysHeld ==
    \A w \in Writers : \A d \in Days :
        asked[w][d] # None /\ todo[w][d] = None
            => file[<<symbol[w], d>>] = asked[w][d]

\* A call that reported success left nothing behind: it is the reader of this
\* outcome (BackfillJob) that advances the resume checkpoint.
WrittenMeansHeld ==
    \A w \in Writers : \A d \in Days :
        outcome[w] = "written" /\ asked[w][d] # None
            => file[<<symbol[w], d>>] = asked[w][d]

\* Both: what a call reports, of success or of failure, is what is on disk.
ReportsAreTrue == PassedDaysHeld /\ WrittenMeansHeld

\* What a read_bars call collected stays what the archive holds, however many
\* writes, crashes and refused writes overlap the read: the archive can be the
\* point-in-time source of truth.
ReadsArePermanent ==
    \A r \in Readers : \A d \in Days :
        got[r][d] # None => file[<<target[r], d>>] = got[r][d]

\* The archive implements the write-once store, with the partition file as the
\* cell and every ".tmp" step, refusal, crash and read as a stutter.
Promise == INSTANCE WriteOnce WITH Cells <- Keys, Values <- Frames,
                                   Empty <- None, cell <- file
ImplementsWriteOnce == Promise!Spec

\* The one process the operator runs at a time.  With two the archive is not
\* write-once: both find no file, and the later rename replaces the earlier.
SingleWriter == \A v, w \in Writers : v = w
==============================================================================
