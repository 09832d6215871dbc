------------------------------- MODULE Backfill -------------------------------
(***************************************************************************)
(* The resumable backfill job (quant/data/ingest/backfill.py and the       *)
(* command line around it) over a growing market: an operator starts runs  *)
(* of the job with a tier, an interval and a range of days; the job pages  *)
(* through the broker's history symbol by symbol, writes each symbol once  *)
(* and records in a JSON checkpoint how far that symbol is complete.  A    *)
(* process may die between any two steps, a request or a file operation    *)
(* may fail, and the market keeps trading meanwhile.                       *)
(*                                                                         *)
(* Abstractions.  A day of bars is one value: which interval it was        *)
(* fetched with, and whether the session was over.  The command line only  *)
(* passes whole days (parse_ist_date).  The window of the hot tier counts  *)
(* days, not bars.  A partition of the cold tier is written atomically and *)
(* once: WriteOnce, which ParquetArchive is proved to implement when one   *)
(* process writes.                                                         *)
(***************************************************************************)
EXTENDS Integers, FiniteSets

CONSTANTS Symbols,
          LastDay,     \* bound: the days are 1 .. LastDay
          ChunkDays,   \* config.ingest.backfill_chunk_days
          MaxBars,     \* storage.live_max_bars_per_symbol, in days
          Tiers,       \* the --tier values operators use
          Intervals,   \* the --interval values operators use
          Starts,      \* the --start days operators use
          EndsMayLead, \* may --end name a day whose session is not over?
          None         \* no bars, no file, no checkpoint entry

Days == 1 .. LastDay

ASSUME BackfillAssumption ==
    /\ LastDay \in Nat \ {0} /\ ChunkDays \in Nat \ {0} /\ MaxBars \in Nat \ {0}
    /\ Tiers \subseteq {"parquet", "arctic", "redis"}
    /\ Starts \subseteq Days
    /\ EndsMayLead \in BOOLEAN

\* "mixed": the hot tier merged the candles of two intervals into one day.
Contents == Intervals \X {"part", "full", "mixed"}
Bars     == [Days -> Contents \cup {None}]
NoBars   == [d \in Days |-> None]

ASSUME NoneAssumption == None \notin Contents

VARIABLES
    clock,     \* half days gone by: day d opens at 2d-1 and is over at 2d
    archive,   \* parquet: archive[<<s, d>>]
    latest,    \* arctic: the newest version of each symbol
    window,    \* redis: the rolling window of each symbol
    saved,     \* the checkpoint file: saved[<<s, i>>] is a day, 0 for no entry
    memory,    \* the job's copy of it (JsonBackfillCheckpoint._state)
    pc,        \* where the run stands
    args,      \* the run's arguments: tier, interval, first and last day
    left,      \* symbols the run has not started
    current,   \* the symbol it is at
    cursor,    \* first day not fetched yet
    fetched,   \* the accumulated frames
    unwritten, \* parquet: days of "fetched" not yet passed by write_bars
    result,    \* SymbolBackfill per symbol of the run
    promised   \* history: closed days that parquet runs have marked

stores == <<archive, latest, window>>
locals == <<current, cursor, fetched, unwritten>>
vars == <<clock, archive, latest, window, saved, memory, pc, args, left,
          current, cursor, fetched, unwritten, result, promised>>

Entries == Symbols \X Intervals

TypeOK ==
    /\ clock \in 0 .. 2 * LastDay
    /\ archive \in [Symbols \X Days -> Contents \cup {None}]
    /\ latest \in [Symbols -> Bars]
    /\ window \in [Symbols -> Bars]
    /\ saved \in [Entries -> 0 .. LastDay]
    /\ memory \in [Entries -> 0 .. LastDay]
    /\ pc \in {"idle", "symbol", "fetch", "write", "mark", "save"}
    /\ args \in [tier : Tiers, interval : Intervals, first : Days, last : Days,
                 symbols : SUBSET Symbols, started : 0 .. 2 * LastDay]
                \cup {None}
    /\ left \subseteq Symbols
    /\ current \in Symbols \cup {None}
    /\ cursor \in 1 .. LastDay + 1
    /\ fetched \in Bars
    /\ unwritten \subseteq Days
    /\ result \in [Symbols -> {"none", "ok", "skipped", "failed", "refused"}]
    /\ promised \in [Entries -> SUBSET Days]

Init ==
    /\ clock = 0
    /\ archive = [k \in Symbols \X Days |-> None]
    /\ latest = [s \in Symbols |-> NoBars]
    /\ window = [s \in Symbols |-> NoBars]
    /\ saved = [e \in Entries |-> 0]
    /\ memory = saved
    /\ pc = "idle"
    /\ args = None
    /\ left = {} /\ current = None /\ cursor = 1
    /\ fetched = NoBars /\ unwritten = {}
    /\ result = [s \in Symbols |-> "none"]
    /\ promised = [e \in Entries |-> {}]

------------------------------------------------------------------------------
(* The market.                                                             *)

Over(d, t) == 2 * d <= t
Candles(d) == CASE Over(d, clock)       -> <<args.interval, "full">>
                [] clock = 2 * d - 1    -> <<args.interval, "part">>
                [] OTHER                -> None

Tick == /\ clock < 2 * LastDay
        /\ clock' = clock + 1
        /\ UNCHANGED <<stores, saved, memory, pc, args, left, locals, result,
                       promised>>

------------------------------------------------------------------------------
(* The run.                                                                *)

Key == <<current, args.interval>>

\* main(): build the repository, load the checkpoint, run the symbols.
StartRun(tier, interval, first, last, symbols) ==
    /\ pc = "idle"
    /\ first <= last
    /\ EndsMayLead \/ Over(last, clock)
    /\ args' = [tier |-> tier, interval |-> interval, first |-> first,
                last |-> last, symbols |-> symbols, started |-> clock]
    /\ memory' = saved
    /\ left' = symbols
    /\ result' = [s \in Symbols |-> "none"]
    /\ pc' = "symbol"
    /\ UNCHANGED <<clock, stores, saved, locals, promised>>

\* The symbol is already complete through the requested end: no fetch.
SkipCompleted(s) ==
    /\ pc = "symbol" /\ s \in left
    /\ memory[<<s, args.interval>>] >= args.last
    /\ left' = left \ {s}
    /\ result' = [result EXCEPT ![s] = "skipped"]
    /\ UNCHANGED <<clock, stores, saved, memory, pc, args, locals, promised>>

BeginSymbol(s) ==
    /\ pc = "symbol" /\ s \in left
    /\ memory[<<s, args.interval>>] < args.last
    /\ left' = left \ {s} /\ current' = s
    /\ cursor' = args.first
    /\ pc' = "fetch"
    /\ UNCHANGED <<clock, stores, saved, memory, args, fetched, unwritten,
                   result, promised>>

\* One window of iter_chunks: at most ChunkDays whole days, none shared with
\* the window before it.  The market may move on before the next one.
ChunkEnd == IF cursor + ChunkDays - 1 < args.last
              THEN cursor + ChunkDays - 1 ELSE args.last

\* A slip the runs must notice: the next window is the same one.
FetchSameAgain ==
    /\ pc = "fetch" /\ cursor <= args.last
    /\ fetched' = [d \in Days |-> IF d \in cursor .. ChunkEnd
                                    THEN Candles(d) ELSE fetched[d]]
    /\ cursor' = cursor
    /\ UNCHANGED <<clock, stores, saved, memory, pc, args, left, current,
                   unwritten, result, promised>>

FetchChunk ==
    /\ pc = "fetch" /\ cursor <= args.last
    /\ fetched' = [d \in Days |-> IF d \in cursor .. ChunkEnd
                                    THEN Candles(d) ELSE fetched[d]]
    /\ cursor' = ChunkEnd + 1
    /\ UNCHANGED <<clock, stores, saved, memory, pc, args, left, current,
                   unwritten, result, promised>>

\* A slip the runs must notice: the checkpoint is written before the bars.
MarkFirst ==
    /\ pc = "fetch" /\ cursor > args.last
    /\ unwritten' = {d \in Days : fetched[d] # None}
    /\ pc' = "mark"
    /\ UNCHANGED <<clock, stores, saved, memory, args, left, current, cursor,
                   fetched, result, promised>>

AllFetched ==
    /\ pc = "fetch" /\ cursor > args.last
    /\ unwritten' = {d \in Days : fetched[d] # None}
    /\ pc' = "write"
    /\ UNCHANGED <<clock, stores, saved, memory, args, left, current, cursor,
                   fetched, result, promised>>

\* ParquetArchive.write_bars, one partition after the other.
Cold == INSTANCE WriteOnce WITH Cells <- Symbols \X Days, Values <- Contents,
                                Empty <- None, cell <- archive

NextPartition(d) ==
    /\ pc = "write" /\ args.tier = "parquet"
    /\ d \in unwritten /\ \A e \in unwritten : d <= e

WritePartition(d) ==
    /\ NextPartition(d)
    /\ \/ Cold!Fill(<<current, d>>, fetched[d])
       \/ archive[<<current, d>>] = fetched[d] /\ UNCHANGED archive
    /\ unwritten' = unwritten \ {d}
    /\ UNCHANGED <<clock, latest, window, saved, memory, pc, args, left,
                   current, cursor, fetched, result, promised>>

\* _do_symbol returns or raises: its locals are gone.
DropLocals == /\ current' = None /\ cursor' = 1
              /\ fetched' = NoBars /\ unwritten' = {}
EndSymbol(outcome) ==
    /\ result' = [result EXCEPT ![current] = outcome]
    /\ pc' = "symbol"
    /\ DropLocals

\* ImmutableArchiveError, isolated into the symbol's result.
RefusePartition(d) ==
    /\ NextPartition(d)
    /\ archive[<<current, d>>] \notin {None, fetched[d]}
    /\ EndSymbol("refused")
    /\ UNCHANGED <<clock, stores, saved, memory, args, left, promised>>

\* ArcticRepository.write_bars: the frame becomes the newest version as a
\* whole; an empty frame writes nothing.
WriteVersion ==
    /\ pc = "write" /\ args.tier = "arctic" /\ unwritten # {}
    /\ latest' = [latest EXCEPT ![current] = fetched]
    /\ unwritten' = {}
    /\ UNCHANGED <<clock, archive, window, saved, memory, pc, args, left,
                   current, cursor, fetched, result, promised>>

\* RedisLiveStore._merge_window: incoming wins, only the newest bars stay.
Merge(old, new) ==
    CASE new = None                             -> old
      [] old = None \/ new = old                -> new
      [] old # None /\ old = <<new[1], "part">> -> new
      [] OTHER                                  -> <<new[1], "mixed">>
Merged == [d \in Days |-> Merge(window[current][d], fetched[d])]
Newest(bars) ==
    [d \in Days |-> IF Cardinality({e \in Days : e > d /\ bars[e] # None})
                         < MaxBars THEN bars[d] ELSE None]

WriteWindow ==
    /\ pc = "write" /\ args.tier = "redis" /\ unwritten # {}
    /\ window' = [window EXCEPT ![current] = Newest(Merged)]
    /\ unwritten' = {}
    /\ UNCHANGED <<clock, archive, latest, saved, memory, pc, args, left,
                   current, cursor, fetched, result, promised>>

Written ==
    /\ pc = "write" /\ unwritten = {}
    /\ pc' = "mark"
    /\ UNCHANGED <<clock, stores, saved, memory, args, left, current, cursor,
                   fetched, unwritten, result, promised>>

\* mark_completed: first the dictionary ...
MarkMemory ==
    /\ pc = "mark"
    /\ memory' = [memory EXCEPT ![Key] = args.last]
    /\ promised' = IF args.tier = "parquet"
                     THEN [promised EXCEPT ![Key] = @ \cup
                             {d \in args.first .. args.last : Over(d, args.started)}]
                     ELSE promised
    /\ pc' = "save"
    /\ UNCHANGED <<clock, stores, saved, args, left, locals, result>>

\* ... then the whole dictionary, temp file and rename.
SaveCheckpoint ==
    /\ pc = "save"
    /\ saved' = memory
    /\ EndSymbol("ok")
    /\ UNCHANGED <<clock, stores, memory, args, left, promised>>

\* A slip the runs must notice: an exception leaves the run.
StepEndsRun ==
    /\ pc \in {"fetch", "write", "save"}
    /\ pc' = "idle" /\ DropLocals
    /\ UNCHANGED <<clock, stores, saved, memory, args, left, result, promised>>

\* Any exception out of the broker, the store or the checkpoint file ends the
\* symbol, not the run.
StepFails ==
    /\ pc \in {"fetch", "write", "save"}
    /\ EndSymbol("failed")
    /\ UNCHANGED <<clock, stores, saved, memory, args, left, promised>>

\* The process ends, and its copy of the checkpoint with it.
FinishRun ==
    /\ pc = "symbol" /\ left = {}
    /\ pc' = "idle" /\ memory' = saved
    /\ UNCHANGED <<clock, stores, saved, args, left, locals, result, promised>>

\* The process dies: only the stores and the checkpoint file survive.
Crash ==
    /\ pc # "idle"
    /\ pc' = "idle" /\ args' = None /\ left' = {} /\ memory' = saved
    /\ result' = [s \in Symbols |-> "none"]
    /\ DropLocals
    /\ UNCHANGED <<clock, stores, saved, promised>>

JobStep ==
    \/ \E s \in Symbols : SkipCompleted(s) \/ BeginSymbol(s)
    \/ FetchChunk \/ AllFetched
    \/ \E d \in Days : WritePartition(d) \/ RefusePartition(d)
    \/ WriteVersion \/ WriteWindow \/ Written
    \/ MarkMemory \/ SaveCheckpoint \/ FinishRun

Next ==
    \/ Tick
    \/ \E tier \in Tiers, interval \in Intervals, first \in Starts,
          last \in Days, symbols \in SUBSET Symbols \ {{}} :
             StartRun(tier, interval, first, last, symbols)
    \/ JobStep
    \/ StepFails
    \/ Crash

\* The job is one thread of a process that runs until it is done.
Spec == Init /\ [][Next]_vars /\ WF_vars(JobStep)

------------------------------------------------------------------------------
(* Properties.                                                             *)

Readable(tier, s) ==
    CASE tier = "parquet" -> [d \in Days |-> archive[<<s, d>>]]
      [] tier = "arctic"  -> latest[s]
      [] tier = "redis"   -> window[s]

Reported == pc = "idle" /\ args # None
Clean(s) == result[s] \in {"ok", "skipped"}

\* The checkpoint never runs ahead of the archive, across crashes, failed saves
\* and re-runs over any range, tier and interval: every session that was over when
\* a run that marked it began stays in its partition, whole (the windows of
\* iter_chunks, the order of write_bars and mark_completed in _do_symbol).
ArchiveHoldsMarked ==
    \A e \in Entries : \A d \in promised[e] :
        archive[<<e[1], d>>] = <<e[2], "full">>

\* One bad symbol does not abort the run, and its failure is not lost: a run
\* that ends without a crash has a result for each of its symbols, and an "ok"
\* is already durable in the checkpoint file.
EverySymbolReported ==
    Reported => \A s \in args.symbols :
        /\ result[s] # "none"
        /\ Clean(s) => saved[<<s, args.interval>>] >= args.last

\* Every run ends.
RunEnds == (pc # "idle") ~> (pc = "idle")
==============================================================================
