---------------------------- MODULE BackfillProofs ----------------------------
(***************************************************************************)
(* What the backfill job promises across runs, crashes and failed steps.   *)
(* The inductive invariant follows one symbol through a run: what has been *)
(* fetched of it (Fetched), what of that is in the archive (Archived), how *)
(* the copy of the checkpoint in memory is related to the file             *)
(* (MemoryLeads), and what the results say of both (Accounts).             *)
(***************************************************************************)
EXTENDS Backfill, FiniteSetTheorems, TLAPS

Running == pc # "idle"
AtSymbol == pc \in {"fetch", "write", "mark", "save"}
Args == [tier : Tiers, interval : Intervals, first : Days, last : Days,
         symbols : SUBSET Symbols, started : 0 .. 2 * LastDay]

\* A run has its arguments, a symbol under way has left the queue, and the market
\* does not run backwards.
Underway ==
    /\ Running => /\ args \in Args /\ args.first <= args.last
                  /\ args.started <= clock /\ left \subseteq args.symbols
    /\ AtSymbol => /\ current \in Symbols \ left
                   /\ args.first <= cursor /\ cursor <= args.last + 1
    /\ pc \in {"write", "mark", "save"} => cursor > args.last

\* The days of the run whose session was over when it began.
Closed == {d \in args.first .. args.last : Over(d, args.started)}

Fetched ==
    pc \in {"fetch", "write", "mark"} =>
        \A d \in Closed : d < cursor => fetched[d] = <<args.interval, "full">>

\* A day that waits to be written has bars.
HasBars == pc = "write" => \A d \in unwritten : fetched[d] # None

Archived ==
    /\ pc = "write" /\ args.tier = "parquet" =>
          \A d \in Closed : d \in unwritten \/ archive[<<current, d>>] = fetched[d]
    /\ pc = "mark" /\ args.tier = "parquet" =>
          \A d \in Closed : archive[<<current, d>>] = <<args.interval, "full">>

\* The file is never ahead of the memory, and only for symbols that the run has
\* dealt with may it be behind.
MemoryLeads ==
    Running =>
        /\ \A e \in Entries : saved[e] <= memory[e]
        /\ \A s \in left : memory[<<s, args.interval>>] = saved[<<s, args.interval>>]
        /\ pc \in {"fetch", "write", "mark"} => memory[Key] < args.last
        /\ pc = "save" => memory[Key] = args.last

Accounts ==
    Running \/ args # None =>
        /\ args \in Args
        /\ \A s \in args.symbols :
              result[s] = "none" => Running /\ (s \in left \/ (AtSymbol /\ s = current))
        /\ \A s \in Symbols : Clean(s) => saved[<<s, args.interval>>] >= args.last

IInv == /\ TypeOK /\ Underway /\ Fetched /\ HasBars /\ Archived /\ MemoryLeads
        /\ Accounts /\ ArchiveHoldsMarked

LEMMA IInvStarts == Init => IInv
<1> SUFFICES ASSUME Init PROVE IInv
  OBVIOUS
<1>1. TypeOK
  BY BackfillAssumption DEF Init, TypeOK, Entries, NoBars, Bars
<1>2. ArchiveHoldsMarked
  BY DEF Init, ArchiveHoldsMarked
<1> QED BY <1>1, <1>2 DEF Init, IInv, Underway, Fetched, HasBars, Archived, MemoryLeads,
                          Accounts, Running, AtSymbol

\* The arguments of a run, and the days it will mark.
LEMMA RunFacts ==
    ASSUME IInv, Running
    PROVE  /\ args \in Args /\ args.interval \in Intervals /\ args.symbols \subseteq Symbols
           /\ args.first \in Nat /\ args.last \in Nat /\ args.started \in Nat
           /\ 1 <= args.first /\ args.first <= args.last /\ args.last <= LastDay
           /\ \A d \in Closed :
                 /\ d \in Days /\ d \in Nat /\ args.first <= d /\ d <= args.last
                 /\ Over(d, clock)
<1>1. /\ args \in Args /\ args.first \in Days /\ args.last \in Days
      /\ args.first <= args.last /\ args.started \in 0 .. 2 * LastDay
      /\ args.started <= clock /\ clock \in Nat
  BY BackfillAssumption DEF IInv, TypeOK, Underway, Args
<1>2. /\ args.first \in Nat /\ args.last \in Nat /\ args.started \in Nat
      /\ 1 <= args.first /\ args.last <= LastDay
  BY <1>1, BackfillAssumption DEF Days
<1>3. ASSUME NEW d \in Closed
      PROVE  d \in Days /\ d \in Nat /\ args.first <= d /\ d <= args.last /\ Over(d, clock)
  BY <1>1, <1>2, BackfillAssumption DEF Closed, Over, Days
<1> QED BY <1>1, <1>2, <1>3 DEF Args

\* Only the last conjunct of Over looks at the clock, and it looks at the run's.
LEMMA TickKeeps == IInv /\ Tick => IInv'
<1> SUFFICES ASSUME IInv, Tick PROVE IInv'
  OBVIOUS
<1>1. /\ clock < 2 * LastDay /\ clock' = clock + 1
      /\ UNCHANGED <<archive, latest, window, saved, memory, pc, args, left, current,
                     cursor, fetched, unwritten, result, promised>>
  BY DEF Tick, stores, locals
<1>2. TypeOK'
  BY <1>1, BackfillAssumption DEF IInv, TypeOK
<1>3. Underway'
  BY <1>1 DEF IInv, TypeOK, Underway, Running, AtSymbol, Args
<1>4. Fetched' /\ HasBars' /\ Archived' /\ ArchiveHoldsMarked'
  BY <1>1 DEF IInv, Fetched, HasBars, Archived, ArchiveHoldsMarked, Closed
<1>5. MemoryLeads' /\ Accounts'
  BY <1>1 DEF IInv, MemoryLeads, Accounts, Running, AtSymbol, Key, Clean
<1> QED BY <1>2, <1>3, <1>4, <1>5 DEF IInv

LEMMA StartRunKeeps ==
    ASSUME IInv, NEW tier \in Tiers, NEW interval \in Intervals, NEW first \in Starts,
           NEW last \in Days, NEW symbols \in SUBSET Symbols,
           StartRun(tier, interval, first, last, symbols)
    PROVE  IInv'
<1>1. /\ pc = "idle" /\ first <= last
      /\ args' = [tier |-> tier, interval |-> interval, first |-> first,
                  last |-> last, symbols |-> symbols, started |-> clock]
      /\ memory' = saved /\ left' = symbols
      /\ result' = [s \in Symbols |-> "none"] /\ pc' = "symbol"
      /\ UNCHANGED <<clock, archive, latest, window, saved, current, cursor, fetched,
                     unwritten, promised>>
  BY DEF StartRun, stores, locals
<1>2. args' \in Args
  BY <1>1, BackfillAssumption DEF IInv, TypeOK, Args
<1>3. TypeOK'
  BY <1>1, <1>2 DEF IInv, TypeOK, Args
<1>4. Underway'
  BY <1>1, <1>2 DEF IInv, TypeOK, Underway, Running, AtSymbol
<1>5. Fetched' /\ HasBars' /\ Archived' /\ ArchiveHoldsMarked'
  BY <1>1 DEF IInv, Fetched, HasBars, Archived, ArchiveHoldsMarked
<1>6. MemoryLeads'
  BY <1>1 DEF IInv, TypeOK, MemoryLeads, Running
<1>7. Accounts'
  BY <1>1, <1>2 DEF Accounts, Running, Clean
<1> QED BY <1>3, <1>4, <1>5, <1>6, <1>7 DEF IInv

LEMMA SkipKeeps == ASSUME IInv, NEW s \in Symbols, SkipCompleted(s) PROVE IInv'
<1>1. /\ pc = "symbol" /\ s \in left /\ memory[<<s, args.interval>>] >= args.last
      /\ left' = left \ {s} /\ result' = [result EXCEPT ![s] = "skipped"]
      /\ UNCHANGED <<clock, archive, latest, window, saved, memory, pc, args, current,
                     cursor, fetched, unwritten, promised>>
  BY DEF SkipCompleted, stores, locals
<1>2. TypeOK'
  BY <1>1 DEF IInv, TypeOK
<1>3. Underway'
  BY <1>1 DEF IInv, Underway, Running, AtSymbol
<1>4. Fetched' /\ HasBars' /\ Archived' /\ ArchiveHoldsMarked'
  BY <1>1 DEF IInv, Fetched, HasBars, Archived, ArchiveHoldsMarked
<1>5. MemoryLeads'
  BY <1>1 DEF IInv, MemoryLeads, Running
<1>6. Accounts'
  <2>1. saved[<<s, args.interval>>] >= args.last
    BY <1>1 DEF IInv, MemoryLeads, Running
  <2>2. \A r \in Symbols : result'[r] = IF r = s THEN "skipped" ELSE result[r]
    BY <1>1 DEF IInv, TypeOK
  <2>3. args.symbols \subseteq Symbols
    BY <1>1 DEF IInv, Underway, Running, Args
  <2> QED BY <1>1, <2>1, <2>2, <2>3 DEF IInv, Accounts, Running, AtSymbol, Clean
<1> QED BY <1>2, <1>3, <1>4, <1>5, <1>6 DEF IInv

LEMMA BeginKeeps == ASSUME IInv, NEW s \in Symbols, BeginSymbol(s) PROVE IInv'
<1>1. /\ pc = "symbol" /\ s \in left /\ memory[<<s, args.interval>>] < args.last
      /\ left' = left \ {s} /\ current' = s /\ cursor' = args.first /\ pc' = "fetch"
      /\ UNCHANGED <<clock, archive, latest, window, saved, memory, args, fetched,
                     unwritten, result, promised>>
  BY DEF BeginSymbol, stores
<1>2. /\ args \in Args /\ args.first \in Nat /\ args.last \in Nat
      /\ 1 <= args.first /\ args.first <= args.last /\ args.last <= LastDay
      /\ \A d \in Closed : d \in Nat /\ args.first <= d
  BY <1>1, RunFacts DEF Running
<1>3. Underway'
  BY <1>1, <1>2 DEF IInv, Underway, Running, AtSymbol
<1>4. TypeOK'
  <2>1. cursor' \in 1 .. LastDay + 1
    BY <1>1, <1>2, BackfillAssumption
  <2> QED BY <2>1, <1>1 DEF IInv, TypeOK
<1>5. Fetched' /\ HasBars' /\ Archived' /\ ArchiveHoldsMarked'
  <2>1. Fetched'
    BY <1>1, <1>2 DEF Fetched, Closed
  <2> QED BY <2>1, <1>1 DEF IInv, HasBars, Archived, ArchiveHoldsMarked
<1>6. MemoryLeads'
  BY <1>1 DEF IInv, MemoryLeads, Running, Key
<1>7. Accounts'
  BY <1>1 DEF IInv, Accounts, Running, AtSymbol, Clean
<1> QED BY <1>3, <1>4, <1>5, <1>6, <1>7 DEF IInv

\* What is fetched now was fetched after the run began: a session that was over
\* then is whole.
LEMMA FetchKeeps == IInv /\ FetchChunk => IInv'
<1> SUFFICES ASSUME IInv, FetchChunk PROVE IInv'
  OBVIOUS
<1>1. /\ pc = "fetch" /\ cursor <= args.last /\ cursor' = ChunkEnd + 1
      /\ fetched' = [d \in Days |-> IF d \in cursor .. ChunkEnd THEN Candles(d)
                                    ELSE fetched[d]]
      /\ UNCHANGED <<clock, archive, latest, window, saved, memory, pc, args, left,
                     current, unwritten, result, promised>>
  BY DEF FetchChunk, stores
<1>2. /\ args \in Args /\ args.interval \in Intervals
      /\ args.first \in Nat /\ args.last \in Nat /\ cursor \in Nat
      /\ 1 <= args.first /\ args.last <= LastDay /\ args.first <= cursor
      /\ \A d \in Closed : d \in Days /\ d \in Nat /\ d <= args.last /\ Over(d, clock)
  BY <1>1, RunFacts, BackfillAssumption DEF IInv, TypeOK, Underway, Running, AtSymbol
<1>3. ChunkEnd \in cursor .. args.last
  BY <1>1, <1>2, BackfillAssumption DEF ChunkEnd, Days
<1>4. Underway'
  <2>1. args.first <= cursor' /\ cursor' <= args.last + 1
    BY <1>1, <1>2, <1>3
  <2> QED BY <2>1, <1>1 DEF IInv, Underway, Running, AtSymbol
<1>5. fetched' \in Bars
  <2>1. \A d \in Days : Candles(d) \in Contents \cup {None}
    BY <1>2 DEF Candles, Contents
  <2> QED BY <2>1, <1>1 DEF IInv, TypeOK, Bars
<1>6. TypeOK'
  <2>1. cursor' \in 1 .. LastDay + 1
    BY <1>1, <1>2, <1>3, BackfillAssumption DEF Days
  <2> QED BY <2>1, <1>1, <1>5 DEF IInv, TypeOK
<1>7. Fetched'
  <2> SUFFICES ASSUME NEW d \in Closed, d < cursor'
               PROVE  fetched'[d] = <<args.interval, "full">>
    BY <1>1 DEF Fetched, Closed
  <2>1. d \in Days /\ d \in Nat /\ Over(d, clock) /\ ChunkEnd \in Nat
    BY <1>2, <1>3
  <2>2. CASE d < cursor
    <3>1. d \notin cursor .. ChunkEnd
      BY <2>2, <1>2, <1>3
    <3> QED BY <3>1, <2>1, <2>2, <1>1 DEF IInv, Fetched
  <2>3. CASE ~ (d < cursor)
    <3>1. d \in cursor .. ChunkEnd
      <4>1. cursor' = ChunkEnd + 1 /\ cursor \in Nat
        BY <1>1, <1>2
      <4>2. cursor <= d /\ d <= ChunkEnd
        BY <4>1, <2>1, <2>3
      <4> QED BY <4>1, <4>2, <2>1
    <3>2. Candles(d) = <<args.interval, "full">>
      <4>1. clock \in Nat /\ 2 * d <= clock /\ clock # 2 * d - 1
        BY <2>1, BackfillAssumption DEF IInv, TypeOK, Over
      <4> QED BY <4>1, <2>1 DEF Candles
    <3> QED BY <3>1, <3>2, <2>1, <1>1
  <2> QED BY <2>2, <2>3
<1>8. HasBars' /\ Archived' /\ ArchiveHoldsMarked'
  BY <1>1 DEF HasBars, Archived, IInv, ArchiveHoldsMarked
<1>9. MemoryLeads' /\ Accounts'
  BY <1>1 DEF IInv, MemoryLeads, Accounts, Running, AtSymbol, Key, Clean
<1> QED BY <1>4, <1>6, <1>7, <1>8, <1>9 DEF IInv

LEMMA AllFetchedKeeps == IInv /\ AllFetched => IInv'
<1> SUFFICES ASSUME IInv, AllFetched PROVE IInv'
  OBVIOUS
<1>1. /\ pc = "fetch" /\ cursor > args.last /\ pc' = "write"
      /\ unwritten' = {d \in Days : fetched[d] # None}
      /\ UNCHANGED <<clock, archive, latest, window, saved, memory, args, left, current,
                     cursor, fetched, result, promised>>
  BY DEF AllFetched, stores
<1>2. /\ args \in Args /\ args.last \in Nat
      /\ args.interval \in Intervals /\ cursor \in Nat
      /\ \A d \in Closed : d \in Days /\ d \in Nat /\ d <= args.last
  BY <1>1, RunFacts, BackfillAssumption DEF IInv, TypeOK, Running
<1>3. \A d \in Closed : fetched[d] = <<args.interval, "full">> /\ d \in Days
  BY <1>1, <1>2 DEF IInv, Fetched
<1>4. TypeOK' /\ Underway'
  BY <1>1 DEF IInv, TypeOK, Underway, Running, AtSymbol
<1>5. Fetched' /\ HasBars'
  BY <1>1 DEF IInv, Fetched, HasBars, Closed
<1>6. Archived'
  <2>1. <<args.interval, "full">> # None
    BY <1>2, NoneAssumption DEF Contents
  <2>2. Closed' = Closed
    BY <1>1 DEF Closed
  <2> QED BY <2>1, <2>2, <1>1, <1>3 DEF Archived
<1>7. MemoryLeads' /\ Accounts' /\ ArchiveHoldsMarked'
  BY <1>1 DEF IInv, MemoryLeads, Accounts, Running, AtSymbol, Key, Clean,
              ArchiveHoldsMarked
<1> QED BY <1>4, <1>5, <1>6, <1>7 DEF IInv

\* The cold tier fills an empty cell, or finds what it was going to write.
LEMMA PartitionKeeps == ASSUME IInv, NEW d \in Days, WritePartition(d) PROVE IInv'
<1>1. /\ pc = "write" /\ args.tier = "parquet" /\ d \in unwritten
      /\ unwritten' = unwritten \ {d}
      /\ UNCHANGED <<clock, latest, window, saved, memory, pc, args, left, current,
                     cursor, fetched, result, promised>>
  BY DEF WritePartition, NextPartition
<1>2. /\ current \in Symbols /\ fetched[d] \in Contents
  BY <1>1 DEF IInv, TypeOK, Underway, AtSymbol, HasBars, Bars
<1>3. /\ archive' \in [Symbols \X Days -> Contents \cup {None}]
      /\ archive'[<<current, d>>] = fetched[d]
      /\ \A k \in Symbols \X Days : archive[k] # None => archive'[k] = archive[k]
  <2>1. \/ /\ archive[<<current, d>>] = None
           /\ archive' = [archive EXCEPT ![<<current, d>>] = fetched[d]]
        \/ archive[<<current, d>>] = fetched[d] /\ archive' = archive
    BY DEF WritePartition, Cold!Fill
  <2>2. archive \in [Symbols \X Days -> Contents \cup {None}]
    BY DEF IInv, TypeOK
  <2> QED BY <2>1, <2>2, <1>2
<1>4. TypeOK'
  BY <1>1, <1>3 DEF IInv, TypeOK
<1>5. Underway' /\ HasBars' /\ MemoryLeads' /\ Accounts'
  BY <1>1 DEF IInv, Underway, HasBars, MemoryLeads, Accounts, Running, AtSymbol, Key, Clean
<1>6. Fetched' /\ Closed' = Closed
  BY <1>1 DEF IInv, Fetched, Closed
<1>7. Archived'
  <2> SUFFICES ASSUME NEW e \in Closed
               PROVE  e \in unwritten' \/ archive'[<<current, e>>] = fetched[e]
    BY <1>1, <1>6 DEF Archived
  <2>1. e \in Days /\ e \in Nat /\ e <= args.last /\ args.last \in Nat /\ cursor \in Nat
    BY <1>1, RunFacts, BackfillAssumption DEF IInv, TypeOK, Running
  <2>2. e \in unwritten \/ archive[<<current, e>>] = fetched[e]
    BY <1>1 DEF IInv, Archived
  <2>3. CASE e = d
    BY <2>3, <1>3
  <2>4. CASE e # d /\ e \in unwritten
    BY <2>4, <1>1
  <2>5. CASE archive[<<current, e>>] = fetched[e]
    <3>1. fetched[e] = <<args.interval, "full">>
      <4>1. e < cursor
        BY <1>1, <2>1 DEF IInv, Underway
      <4> QED BY <4>1, <1>1 DEF IInv, Fetched
    <3>2. archive[<<current, e>>] # None
      BY <3>1, <2>5, <1>1, NoneAssumption DEF IInv, Underway, Running, Args, Contents
    <3> QED BY <3>2, <2>5, <2>1, <1>2, <1>3
  <2> QED BY <2>2, <2>3, <2>4, <2>5
<1>8. ArchiveHoldsMarked'
  <2> SUFFICES ASSUME NEW e \in Entries, NEW f \in promised[e]
               PROVE  archive'[<<e[1], f>>] = <<e[2], "full">>
    BY <1>1 DEF ArchiveHoldsMarked
  <2>1. /\ <<e[1], f>> \in Symbols \X Days /\ e[2] \in Intervals
        /\ archive[<<e[1], f>>] = <<e[2], "full">>
    BY DEF IInv, TypeOK, ArchiveHoldsMarked, Entries
  <2>2. archive[<<e[1], f>>] # None
    BY <2>1, NoneAssumption DEF Contents
  <2> QED BY <2>1, <2>2, <1>3
<1> QED BY <1>4, <1>5, <1>6, <1>7, <1>8 DEF IInv

LEMMA LocalsDropped == NoBars \in Bars /\ 1 \in 1 .. LastDay + 1
BY BackfillAssumption DEF NoBars, Bars

\* The other two tiers leave the cold one alone.
LEMMA OtherTiersKeep == IInv /\ (WriteVersion \/ WriteWindow) => IInv'
<1> SUFFICES ASSUME IInv, WriteVersion \/ WriteWindow PROVE IInv'
  OBVIOUS
<1>1. /\ pc = "write" /\ args.tier # "parquet" /\ unwritten' = {}
      /\ UNCHANGED <<clock, archive, saved, memory, pc, args, left, current, cursor,
                     fetched, result, promised>>
  BY DEF WriteVersion, WriteWindow
<1>2. current \in Symbols /\ fetched \in Bars
  BY <1>1 DEF IInv, TypeOK, Underway, AtSymbol
<1>3. latest' \in [Symbols -> Bars]
  BY <1>2 DEF WriteVersion, WriteWindow, IInv, TypeOK
<1>4. window' \in [Symbols -> Bars]
  <2>1. Merged \in Bars
    <3>1. \A old, new \in Contents \cup {None} : Merge(old, new) \in Contents \cup {None}
      BY DEF Merge, Contents
    <3>2. \A d \in Days : /\ window[current][d] \in Contents \cup {None}
                          /\ fetched[d] \in Contents \cup {None}
      BY <1>2 DEF IInv, TypeOK, Bars
    <3> QED BY <3>1, <3>2 DEF Merged, Bars
  <2>2. \A bars \in Bars : Newest(bars) \in Bars
    BY DEF Newest, Bars
  <2> QED BY <2>1, <2>2, <1>2 DEF WriteVersion, WriteWindow, IInv, TypeOK
<1>5. TypeOK'
  BY <1>1, <1>3, <1>4 DEF IInv, TypeOK
<1>6. Underway' /\ HasBars' /\ MemoryLeads' /\ Accounts'
  BY <1>1 DEF IInv, Underway, HasBars, MemoryLeads, Accounts, Running, AtSymbol, Key, Clean
<1>7. Fetched' /\ Archived' /\ ArchiveHoldsMarked'
  BY <1>1 DEF IInv, Fetched, Archived, ArchiveHoldsMarked, Closed
<1> QED BY <1>5, <1>6, <1>7 DEF IInv

LEMMA WrittenKeeps == IInv /\ Written => IInv'
<1> SUFFICES ASSUME IInv, Written PROVE IInv'
  OBVIOUS
<1>1. /\ pc = "write" /\ unwritten = {} /\ pc' = "mark"
      /\ UNCHANGED <<clock, archive, latest, window, saved, memory, args, left, current,
                     cursor, fetched, unwritten, result, promised>>
  BY DEF Written, stores
<1>2. TypeOK' /\ Underway' /\ HasBars' /\ ArchiveHoldsMarked'
  BY <1>1 DEF IInv, TypeOK, Underway, HasBars, ArchiveHoldsMarked, Running, AtSymbol
<1>3. MemoryLeads' /\ Accounts'
  BY <1>1 DEF IInv, MemoryLeads, Accounts, Running, AtSymbol, Key, Clean
<1>4. \A d \in Closed : fetched[d] = <<args.interval, "full">>
  <2>1. \A d \in Closed : d \in Nat /\ d <= args.last /\ args.last \in Nat
    BY <1>1, RunFacts DEF Running
  <2> QED BY <2>1, <1>1 DEF IInv, TypeOK, Underway, Fetched
<1>5. Closed' = Closed
  BY <1>1 DEF Closed
<1>6. Fetched' /\ Archived'
  BY <1>1, <1>4, <1>5 DEF IInv, Fetched, Archived
<1> QED BY <1>2, <1>3, <1>6 DEF IInv

\* What is marked now is in the archive; what was marked before still is.
LEMMA MarkKeeps == IInv /\ MarkMemory => IInv'
<1> SUFFICES ASSUME IInv, MarkMemory PROVE IInv'
  OBVIOUS
<1>1. /\ pc = "mark" /\ pc' = "save" /\ memory' = [memory EXCEPT ![Key] = args.last]
      /\ UNCHANGED <<clock, archive, latest, window, saved, args, left, current, cursor,
                     fetched, unwritten, result>>
  BY DEF MarkMemory, stores, locals
<1>2. /\ args \in Args /\ args.last \in Nat /\ args.last <= LastDay
      /\ \A d \in Closed : d \in Days
      /\ Key \in Entries /\ current \in Symbols \ left
  BY <1>1, RunFacts DEF IInv, Underway, Running, AtSymbol, Key, Entries
<1>3. Closed = {d \in args.first .. args.last : Over(d, args.started)}
  BY DEF Closed
<1>4. \/ UNCHANGED promised
      \/ /\ args.tier = "parquet"
         /\ promised' = [promised EXCEPT ![Key] = @ \cup Closed]
  BY <1>3 DEF MarkMemory
<1>5. \A e \in Entries : memory'[e] = IF e = Key THEN args.last ELSE memory[e]
  BY <1>1 DEF IInv, TypeOK
<1>6. TypeOK'
  <2>1. promised' \in [Entries -> SUBSET Days]
    BY <1>2, <1>4 DEF IInv, TypeOK
  <2>2. memory' \in [Entries -> 0 .. LastDay]
    BY <1>1, <1>2, BackfillAssumption DEF IInv, TypeOK
  <2> QED BY <2>1, <2>2, <1>1 DEF IInv, TypeOK
<1>7. Underway' /\ Fetched' /\ HasBars' /\ Archived'
  BY <1>1 DEF IInv, Underway, Fetched, HasBars, Archived, Running, AtSymbol
<1>8. Accounts'
  BY <1>1 DEF IInv, Accounts, Running, AtSymbol, Clean
<1>9. MemoryLeads'
  <2>1. Key' = Key
    BY <1>1 DEF Key
  <2>2. \A e \in Entries : saved[e] <= memory'[e]
    <3>1. \A e \in Entries : saved[e] <= memory[e] /\ saved[e] \in Nat
      BY <1>1, BackfillAssumption DEF IInv, TypeOK, MemoryLeads, Running
    <3>2. memory[Key] < args.last /\ memory[Key] \in Nat
      BY <1>1, <1>2, BackfillAssumption DEF IInv, TypeOK, MemoryLeads, Running
    <3>3. saved[Key] <= args.last
      BY <3>1, <3>2, <1>2
    <3> QED BY <3>1, <3>3, <1>5
  <2>3. \A s \in left : /\ <<s, args.interval>> \in Entries /\ <<s, args.interval>> # Key
                        /\ memory[<<s, args.interval>>] = saved[<<s, args.interval>>]
    BY <1>1, <1>2 DEF IInv, TypeOK, MemoryLeads, Running, Key, Entries, Args
  <2> QED BY <2>1, <2>2, <2>3, <1>1, <1>2, <1>5 DEF MemoryLeads
<1>10. ArchiveHoldsMarked'
  <2> SUFFICES ASSUME NEW e \in Entries, NEW d \in promised'[e]
               PROVE  archive[<<e[1], d>>] = <<e[2], "full">>
    BY <1>1 DEF ArchiveHoldsMarked
  <2>1. CASE d \in promised[e]
    BY <2>1 DEF IInv, ArchiveHoldsMarked
  <2>2. CASE d \notin promised[e]
    <3>1. args.tier = "parquet" /\ e = Key /\ d \in Closed
      BY <2>2, <1>2, <1>4 DEF IInv, TypeOK
    <3>2. archive[<<current, d>>] = <<args.interval, "full">>
      BY <3>1, <1>1 DEF IInv, Archived
    <3> QED BY <3>1, <3>2 DEF Key
  <2> QED BY <2>1, <2>2
<1> QED BY <1>6, <1>7, <1>8, <1>9, <1>10 DEF IInv

LEMMA SaveKeeps == IInv /\ SaveCheckpoint => IInv'
<1> SUFFICES ASSUME IInv, SaveCheckpoint PROVE IInv'
  OBVIOUS
<1>1. /\ pc = "save" /\ pc' = "symbol" /\ saved' = memory
      /\ result' = [result EXCEPT ![current] = "ok"]
      /\ current' = None /\ cursor' = 1 /\ fetched' = NoBars /\ unwritten' = {}
      /\ UNCHANGED <<clock, archive, latest, window, memory, args, left, promised>>
  BY DEF SaveCheckpoint, EndSymbol, DropLocals, stores
<1>2. TypeOK'
  BY <1>1, LocalsDropped DEF IInv, TypeOK
<1>3. Underway' /\ Fetched' /\ HasBars' /\ Archived' /\ ArchiveHoldsMarked'
  BY <1>1 DEF IInv, Underway, Fetched, HasBars, Archived, ArchiveHoldsMarked, Running,
              AtSymbol
<1>4. MemoryLeads'
  <2>1. \A e \in Entries : memory[e] \in Nat
    BY BackfillAssumption DEF IInv, TypeOK
  <2> QED BY <2>1, <1>1 DEF MemoryLeads
<1>5. Accounts'
  <2>1. /\ args \in Args /\ args.last \in Nat /\ args.interval \in Intervals
        /\ args.symbols \subseteq Symbols /\ current \in Symbols
    BY <1>1, RunFacts DEF IInv, Underway, Running, AtSymbol
  <2>2. \A s \in Symbols : result'[s] = IF s = current THEN "ok" ELSE result[s]
    BY <1>1 DEF IInv, TypeOK
  <2>3. \A s \in Symbols : Clean(s) => memory[<<s, args.interval>>] >= args.last
    <3> SUFFICES ASSUME NEW s \in Symbols, Clean(s)
                 PROVE  memory[<<s, args.interval>>] >= args.last
      OBVIOUS
    <3> DEFINE e == <<s, args.interval>>
    <3>1. e \in Entries
      BY <2>1 DEF Entries
    <3>2. /\ saved[e] >= args.last /\ saved[e] <= memory[e]
          /\ saved[e] \in Nat /\ memory[e] \in Nat
      BY <3>1, <1>1, BackfillAssumption
         DEF IInv, TypeOK, MemoryLeads, Accounts, Running
    <3> QED BY <3>2, <2>1
  <2>4. memory[<<current, args.interval>>] = args.last
    BY <1>1 DEF IInv, MemoryLeads, Running, Key
  <2>5. \A s \in Symbols : Clean(s)' => saved'[<<s, args.interval>>] >= args.last
    BY <2>1, <2>2, <2>3, <2>4, <1>1 DEF Clean
  <2>6. \A s \in args.symbols : result'[s] = "none" => s \in left
    BY <2>1, <2>2, <1>1 DEF IInv, Accounts, Running
  <2> QED BY <2>1, <2>5, <2>6, <1>1 DEF Accounts, Running
<1> QED BY <1>2, <1>3, <1>4, <1>5 DEF IInv

\* A symbol that fails has its result, and the checkpoint file is as it was.
LEMMA FailureKeeps ==
    ASSUME IInv, StepFails \/ \E d \in Days : RefusePartition(d) PROVE IInv'
<1>1. PICK outcome \in {"failed", "refused"} :
      /\ AtSymbol /\ pc' = "symbol" /\ result' = [result EXCEPT ![current] = outcome]
      /\ current' = None /\ cursor' = 1 /\ fetched' = NoBars /\ unwritten' = {}
      /\ UNCHANGED <<clock, archive, latest, window, saved, memory, args, left, promised>>
  BY DEF StepFails, RefusePartition, NextPartition, EndSymbol, DropLocals, stores, AtSymbol
<1>2. TypeOK'
  BY <1>1, LocalsDropped DEF IInv, TypeOK
<1>3. Underway' /\ Fetched' /\ HasBars' /\ Archived' /\ ArchiveHoldsMarked'
  BY <1>1 DEF IInv, Underway, Fetched, HasBars, Archived, ArchiveHoldsMarked, Running,
              AtSymbol
<1>4. MemoryLeads'
  BY <1>1 DEF IInv, MemoryLeads, Running, AtSymbol
<1>5. Accounts'
  <2>1. Running /\ Running' /\ args.symbols \subseteq Symbols /\ current \in Symbols
    BY <1>1, RunFacts DEF IInv, Underway, Running, AtSymbol
  <2>2. \A s \in Symbols : result'[s] = IF s = current THEN outcome ELSE result[s]
    BY <1>1 DEF IInv, TypeOK
  <2> QED BY <2>1, <2>2, <1>1 DEF IInv, Accounts, Clean
<1> QED BY <1>2, <1>3, <1>4, <1>5 DEF IInv

LEMMA RunEndKeeps == IInv /\ (FinishRun \/ Crash) => IInv'
<1>1. ASSUME IInv, FinishRun PROVE IInv'
  <2>1. /\ pc = "symbol" /\ left = {} /\ pc' = "idle" /\ memory' = saved
        /\ UNCHANGED <<clock, archive, latest, window, saved, args, left, current, cursor,
                       fetched, unwritten, result, promised>>
    BY <1>1 DEF FinishRun, stores, locals
  <2>2. TypeOK'
    BY <1>1, <2>1 DEF IInv, TypeOK
  <2>3. /\ Underway' /\ Fetched' /\ HasBars' /\ Archived' /\ ArchiveHoldsMarked'
        /\ MemoryLeads'
    BY <1>1, <2>1 DEF IInv, Underway, Fetched, HasBars, Archived, ArchiveHoldsMarked,
                      MemoryLeads, Running, AtSymbol
  <2>4. Accounts'
    BY <1>1, <2>1 DEF IInv, Accounts, Running, AtSymbol, Clean
  <2> QED BY <2>2, <2>3, <2>4 DEF IInv
<1>2. ASSUME IInv, Crash PROVE IInv'
  <2>1. /\ pc' = "idle" /\ args' = None /\ left' = {} /\ memory' = saved
        /\ result' = [s \in Symbols |-> "none"]
        /\ current' = None /\ cursor' = 1 /\ fetched' = NoBars /\ unwritten' = {}
        /\ UNCHANGED <<clock, archive, latest, window, saved, promised>>
    BY <1>2 DEF Crash, DropLocals, stores
  <2>2. TypeOK'
    BY <1>2, <2>1, BackfillAssumption DEF IInv, TypeOK, NoBars, Bars
  <2>3. /\ Underway' /\ Fetched' /\ HasBars' /\ Archived' /\ ArchiveHoldsMarked'
        /\ MemoryLeads' /\ Accounts'
    BY <1>2, <2>1 DEF IInv, Underway, Fetched, HasBars, Archived, ArchiveHoldsMarked,
                      MemoryLeads, Accounts, Running, AtSymbol
  <2> QED BY <2>2, <2>3 DEF IInv
<1> QED BY <1>1, <1>2

LEMMA IInvKept == IInv /\ [Next]_vars => IInv'
<1> SUFFICES ASSUME IInv, [Next]_vars PROVE IInv'
  OBVIOUS
<1>1. ASSUME NEW tier \in Tiers, NEW interval \in Intervals, NEW first \in Starts,
             NEW last \in Days, NEW symbols \in SUBSET Symbols \ {{}},
             StartRun(tier, interval, first, last, symbols)
      PROVE  IInv'
  BY <1>1, StartRunKeeps
<1>2. CASE JobStep
  <2>1. ASSUME NEW s \in Symbols, SkipCompleted(s) \/ BeginSymbol(s) PROVE IInv'
    BY <2>1, SkipKeeps, BeginKeeps
  <2>2. ASSUME NEW d \in Days, WritePartition(d) \/ RefusePartition(d) PROVE IInv'
    BY <2>2, PartitionKeeps, FailureKeeps
  <2> QED BY <1>2, <2>1, <2>2, FetchKeeps, AllFetchedKeeps, OtherTiersKeep,
             WrittenKeeps, MarkKeeps, SaveKeeps, RunEndKeeps DEF JobStep
<1>3. CASE UNCHANGED vars
  BY <1>3 DEF vars, stores, locals, IInv, TypeOK, Underway, Fetched, HasBars, Archived,
              MemoryLeads, Accounts, ArchiveHoldsMarked, Running, AtSymbol, Key, Clean,
              Closed
<1> QED BY <1>1, <1>2, <1>3, TickKeeps, FailureKeeps, RunEndKeeps DEF Next

\* Whatever runs, re-runs, failed steps and crashes: the invariant.
THEOREM Invariance == Spec => []IInv
BY IInvStarts, IInvKept, PTL DEF Spec

\* Types of the job, the checkpoint and the three stores, for every set of symbols,
\* tiers and intervals, and every length of the market and of a window.
THEOREM TypeCorrect == Spec => []TypeOK
<1>1. IInv => TypeOK
  BY DEF IInv
<1> QED BY <1>1, Invariance, PTL

\* Every session a parquet run marked is in its partition, whole.
THEOREM MarkedIsArchived == Spec => []ArchiveHoldsMarked
<1>1. IInv => ArchiveHoldsMarked
  BY DEF IInv
<1> QED BY <1>1, Invariance, PTL

\* A run that ended by itself has a result for each symbol, and what it reports as
\* done is in the checkpoint file.
THEOREM ReportsAreComplete == Spec => []EverySymbolReported
<1>1. IInv => EverySymbolReported
  BY DEF IInv, Accounts, Running, Args, EverySymbolReported, Reported
<1> QED BY <1>1, Invariance, PTL

\* Whatever runs, re-runs and failures, the cold tier is an archive that is written
\* once: each step fills an empty cell or leaves the archive alone.
THEOREM ColdTierIsWriteOnce == Spec => Cold!Spec
<1>1. Init => Cold!Init
  BY DEF Init, Cold!Init
<1>2. IInv /\ [Next]_vars => [Cold!Next]_archive
  <2> SUFFICES ASSUME IInv, [Next]_vars, archive' # archive PROVE Cold!Next
    OBVIOUS
  <2>1. PICK d \in Days : WritePartition(d)
    BY DEF Next, JobStep, vars, stores, Tick, StartRun, SkipCompleted, BeginSymbol,
           FetchChunk, AllFetched, RefusePartition, WriteVersion, WriteWindow, Written,
           MarkMemory, SaveCheckpoint, FinishRun, StepFails, Crash
  <2>2. Cold!Fill(<<current, d>>, fetched[d])
    BY <2>1 DEF WritePartition
  <2>3. current \in Symbols /\ fetched[d] \in Contents
    BY <2>1 DEF IInv, TypeOK, Underway, AtSymbol, HasBars, Bars, WritePartition,
                NextPartition
  <2> QED BY <2>2, <2>3 DEF Cold!Next
<1> QED BY <1>1, <1>2, Invariance, PTL DEF Spec, Cold!Spec
===============================================================================
