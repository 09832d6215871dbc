------------------------- MODULE ParquetArchiveProofs -------------------------
(***************************************************************************)
(* The immutability of the archive for every set of symbols, days and      *)
(* contents, and any number of readers, when one process writes.           *)
(*                                                                         *)
(* None of the properties is inductive by itself: a rename overwrites      *)
(* unless the exists() test that preceded it by three steps still holds,   *)
(* and it publishes a torn file unless the ".tmp" was filled.  InFlight    *)
(* says both; Bookkeeping ties the two copies of the request together.     *)
(***************************************************************************)
EXTENDS ParquetArchive, TLAPS

Past(w) == {"open", "fill", "rename"}

InFlight ==
    \A w \in Writers : \A d \in Days : IsNext(w, d) =>
        /\ pc[w] \in Past(w) => file[<<symbol[w], d>>] = None
        /\ pc[w] = "fill"    => tmp[<<symbol[w], d>>] = Torn
        /\ pc[w] = "rename"  => tmp[<<symbol[w], d>>] = todo[w][d]

Bookkeeping ==
    \A w \in Writers :
        /\ \A d \in Days : todo[w][d] \in {None, asked[w][d]}
        /\ symbol[w] = NoSymbol =>
              pc[w] = "idle" /\ \A d \in Days : asked[w][d] = None
        /\ outcome[w] = "written" =>
              pc[w] = "idle" /\ \A d \in Days : todo[w][d] = None

Listing ==
    \A r \in Readers :
        /\ \A d \in listed[r] : file[<<target[r], d>>] # None
        /\ target[r] = NoSymbol =>
              listed[r] = {} /\ \A d \in Days : got[r][d] = None

IInv == /\ TypeOK
        /\ InFlight
        /\ Bookkeeping
        /\ Listing
        /\ PassedDaysHeld
        /\ ReadsArePermanent

------------------------------------------------------------------------------
LEMMA InitInv == Init => IInv
  <1> SUFFICES ASSUME Init PROVE IInv
    OBVIOUS
  <1> USE ParquetAssumption DEF Init, NoBars, PerDay, Keys
  <1>1. TypeOK  BY DEF TypeOK
  <1>2. InFlight  BY DEF InFlight, IsNext, Pending
  <1>3. Bookkeeping  BY DEF Bookkeeping
  <1>4. Listing  BY DEF Listing
  <1>5. PassedDaysHeld /\ ReadsArePermanent
    BY DEF PassedDaysHeld, ReadsArePermanent
  <1> QED  BY <1>1, <1>2, <1>3, <1>4, <1>5 DEF IInv

LEMMA WriteBarsInv ==
    ASSUME SingleWriter, IInv,
           NEW w \in Writers, NEW s \in Symbols, NEW frame \in PerDay,
           WriteBars(w, s, frame)
    PROVE  IInv' /\ UNCHANGED file
  <1> USE ParquetAssumption DEF IInv, WriteBars, reading
  <1>1. TypeOK'  BY DEF TypeOK, PerDay, NoBars
  <1>2. InFlight'  BY DEF InFlight, IsNext, Pending, Past, TypeOK, SingleWriter
  <1>3. Bookkeeping'  BY DEF Bookkeeping, TypeOK, NoBars, PerDay
  <1>4. Listing' /\ ReadsArePermanent'  BY DEF Listing, ReadsArePermanent
  <1>5. PassedDaysHeld'  BY DEF PassedDaysHeld, TypeOK
  <1>6. UNCHANGED file  OBVIOUS
  <1> QED  BY <1>1, <1>2, <1>3, <1>4, <1>5, <1>6

LEMMA SkipIdenticalInv ==
    ASSUME SingleWriter, IInv,
           NEW w \in Writers, NEW d \in Days, SkipIdentical(w, d)
    PROVE  IInv' /\ UNCHANGED file
  <1> USE ParquetAssumption DEF IInv, reading, SkipIdentical, DayDone, Partition
  <1>1. TypeOK'  BY DEF TypeOK, PerDay
  <1>2. InFlight'
    BY DEF InFlight, IsNext, Pending, Past, TypeOK, SingleWriter
  <1>3. Bookkeeping'  BY DEF Bookkeeping, TypeOK, IsNext, Pending, PerDay
  <1>4. Listing' /\ ReadsArePermanent'  BY DEF Listing, ReadsArePermanent
  <1>5. PassedDaysHeld'
    <2> SUFFICES ASSUME NEW u \in Writers, NEW e \in Days,
                        asked[u][e] # None, todo'[u][e] = None
                 PROVE  file[<<symbol[u], e>>] = asked[u][e]
      BY DEF PassedDaysHeld
    <2>1. u = w  BY DEF SingleWriter
    <2>2. CASE e = d
      BY <2>1, <2>2 DEF Bookkeeping, TypeOK, PerDay, IsNext, Pending
    <2>3. CASE e # d
      BY <2>1, <2>3 DEF PassedDaysHeld, TypeOK, PerDay
    <2> QED  BY <2>2, <2>3
  <1>6. UNCHANGED file  OBVIOUS
  <1> QED  BY <1>1, <1>2, <1>3, <1>4, <1>5, <1>6

LEMMA RefuseInv ==
    ASSUME SingleWriter, IInv,
           NEW w \in Writers, NEW d \in Days, Refuse(w, d)
    PROVE  IInv' /\ UNCHANGED file
  <1> USE ParquetAssumption DEF IInv, reading, Refuse, Leave
  <1>1. TypeOK'  BY DEF TypeOK, PerDay
  <1>2. InFlight'
    <2>1. \A u \in Writers, e \in Days : IsNext(u, e)' = IsNext(u, e)
      BY DEF IsNext, Pending
    <2>2. \A u \in Writers : pc'[u] = pc[u] \/ pc'[u] = "idle"
      BY DEF TypeOK
    <2> QED  BY <2>1, <2>2 DEF InFlight, Past
  <1>3. Bookkeeping'  BY DEF Bookkeeping, TypeOK
  <1>4. Listing' /\ ReadsArePermanent'  BY DEF Listing, ReadsArePermanent
  <1>5. PassedDaysHeld'  BY DEF PassedDaysHeld, TypeOK
  <1>6. UNCHANGED file  OBVIOUS
  <1> QED  BY <1>1, <1>2, <1>3, <1>4, <1>5, <1>6

LEMMA FindAbsentInv ==
    ASSUME SingleWriter, IInv,
           NEW w \in Writers, NEW d \in Days, FindAbsent(w, d)
    PROVE  IInv' /\ UNCHANGED file
  <1> USE ParquetAssumption DEF IInv, reading, FindAbsent, Goto, Partition
  <1>1. TypeOK'  BY DEF TypeOK, PerDay
  <1>2. InFlight'
    BY DEF InFlight, IsNext, Pending, Past, TypeOK, SingleWriter
  <1>3. Bookkeeping'
    BY DEF Bookkeeping, TypeOK, IsNext, Pending, PerDay
  <1>4. Listing' /\ ReadsArePermanent'  BY DEF Listing, ReadsArePermanent
  <1>5. PassedDaysHeld'  BY DEF PassedDaysHeld, TypeOK
  <1>6. UNCHANGED file  OBVIOUS
  <1> QED  BY <1>1, <1>2, <1>3, <1>4, <1>5, <1>6

LEMMA OpenTmpInv ==
    ASSUME SingleWriter, IInv,
           NEW w \in Writers, NEW d \in Days, OpenTmp(w, d)
    PROVE  IInv' /\ UNCHANGED file
  <1> USE ParquetAssumption DEF IInv, reading, OpenTmp, Goto, Partition
  <1>1. TypeOK'  BY DEF TypeOK, PerDay, Keys
  <1>2. <<symbol[w], d>> \in Keys
    BY DEF TypeOK, Bookkeeping, Keys
  <1>3. InFlight'
    <2> SUFFICES ASSUME NEW u \in Writers, NEW e \in Days, IsNext(u, e)'
                 PROVE  /\ file'[<<symbol[u], e>>] = None
                        /\ pc'[u] = "fill" => tmp'[<<symbol[u], e>>] = Torn
                        /\ pc'[u] = "rename" =>
                              tmp'[<<symbol[u], e>>] = todo[u][e]
      BY DEF InFlight
    <2>1. u = w  BY DEF SingleWriter
    <2>2. IsNext(w, e)  BY <2>1 DEF IsNext, Pending
    <2>3. e = d  BY <2>2 DEF IsNext, Pending
    <2> QED  BY <1>2, <2>1, <2>3 DEF InFlight, Past, TypeOK
  <1>4. Bookkeeping'
    BY DEF Bookkeeping, TypeOK, IsNext, Pending, PerDay
  <1>5. Listing' /\ ReadsArePermanent'  BY DEF Listing, ReadsArePermanent
  <1>6. PassedDaysHeld'  BY DEF PassedDaysHeld, TypeOK
  <1>7. UNCHANGED file  OBVIOUS
  <1> QED  BY <1>1, <1>3, <1>4, <1>5, <1>6, <1>7

LEMMA FillTmpInv ==
    ASSUME SingleWriter, IInv,
           NEW w \in Writers, NEW d \in Days, FillTmp(w, d)
    PROVE  IInv' /\ UNCHANGED file
  <1> USE ParquetAssumption DEF IInv, reading, FillTmp, Goto, Partition
  <1> DEFINE k == <<symbol[w], d>>
  <1>1. k \in Keys /\ tmp[k] = Torn
    BY DEF TypeOK, Bookkeeping, Keys, InFlight
  <1>2. tmp' = [tmp EXCEPT ![k] = todo[w][d]] /\ UNCHANGED file
    BY <1>1
  <1>3. TypeOK'  BY <1>1, <1>2 DEF TypeOK, PerDay
  <1>4. InFlight'
    <2> SUFFICES ASSUME NEW u \in Writers, NEW e \in Days, IsNext(u, e)'
                 PROVE  /\ file'[<<symbol[u], e>>] = None
                        /\ pc'[u] = "fill" => tmp'[<<symbol[u], e>>] = Torn
                        /\ pc'[u] = "rename" =>
                              tmp'[<<symbol[u], e>>] = todo[u][e]
      BY DEF InFlight
    <2>1. u = w  BY DEF SingleWriter
    <2>2. IsNext(w, e)  BY <2>1 DEF IsNext, Pending
    <2>3. e = d  BY <2>2 DEF IsNext, Pending
    <2> QED  BY <1>1, <1>2, <2>1, <2>3 DEF InFlight, Past, TypeOK
  <1>5. Bookkeeping'
    BY DEF Bookkeeping, TypeOK, IsNext, Pending, PerDay
  <1>6. Listing' /\ ReadsArePermanent'
    BY <1>2 DEF Listing, ReadsArePermanent
  <1>7. PassedDaysHeld'  BY <1>2 DEF PassedDaysHeld, TypeOK
  <1>8. UNCHANGED file  BY <1>2
  <1> QED  BY <1>3, <1>4, <1>5, <1>6, <1>7, <1>8

\* The one step that changes a partition: what it replaces was absent when the
\* call looked, and nobody else writes.
LEMMA RenameInv ==
    ASSUME SingleWriter, IInv,
           NEW w \in Writers, NEW d \in Days, Rename(w, d)
    PROVE  IInv' /\ Promise!Next
  <1> USE ParquetAssumption DEF IInv, reading, Rename, DayDone, Partition
  <1> DEFINE k == <<symbol[w], d>>
             v == todo[w][d]
  <1>1. k \in Keys /\ v \in Frames /\ file[k] = None /\ tmp[k] = v
    BY DEF TypeOK, Bookkeeping, Keys, InFlight, Past, IsNext, Pending, PerDay
  <1>2. file' = [file EXCEPT ![k] = v] /\ tmp' = [tmp EXCEPT ![k] = None]
    BY <1>1
  <1>3. DayDone(w, d)
    BY <1>1
  <1>4. TypeOK'  BY <1>1, <1>2, <1>3 DEF TypeOK, PerDay
  <1>5. InFlight'
    BY <1>3 DEF InFlight, IsNext, Pending, Past, TypeOK, SingleWriter
  <1>6. Bookkeeping'
    BY <1>3 DEF Bookkeeping, TypeOK, IsNext, Pending, PerDay
  <1>7. Listing' /\ ReadsArePermanent'
    BY <1>1, <1>2 DEF Listing, ReadsArePermanent, TypeOK, Keys, PerDay
  <1>8. PassedDaysHeld'
    <2> SUFFICES ASSUME NEW u \in Writers, NEW e \in Days,
                        asked'[u][e] # None, todo'[u][e] = None
                 PROVE  file'[<<symbol'[u], e>>] = asked'[u][e]
      BY DEF PassedDaysHeld
    <2>1. u = w  BY DEF SingleWriter
    <2>2. CASE e = d
      BY <1>1, <1>2, <1>3, <2>1, <2>2 DEF Bookkeeping, TypeOK, PerDay
    <2>3. CASE e # d
      BY <1>1, <1>2, <1>3, <2>1, <2>3
         DEF PassedDaysHeld, Bookkeeping, TypeOK, PerDay, Keys
    <2> QED  BY <2>2, <2>3
  <1>9. Promise!Next
    BY <1>1, <1>2 DEF Promise!Next, Promise!Fill
  <1> QED  BY <1>4, <1>5, <1>6, <1>7, <1>8, <1>9

LEMMA ReturnInv ==
    ASSUME SingleWriter, IInv, NEW w \in Writers, Return(w)
    PROVE  IInv' /\ UNCHANGED file
  <1> USE ParquetAssumption DEF IInv, reading, Return, Leave
  <1>1. TypeOK'  BY DEF TypeOK, PerDay
  <1>2. InFlight'
    <2>1. \A u \in Writers, e \in Days : IsNext(u, e)' = IsNext(u, e)
      BY DEF IsNext, Pending
    <2>2. \A u \in Writers : pc'[u] = pc[u] \/ pc'[u] = "idle"
      BY DEF TypeOK
    <2> QED  BY <2>1, <2>2 DEF InFlight, Past
  <1>3. Bookkeeping'  BY DEF Bookkeeping, TypeOK, Pending
  <1>4. Listing' /\ ReadsArePermanent'  BY DEF Listing, ReadsArePermanent
  <1>5. PassedDaysHeld'  BY DEF PassedDaysHeld, TypeOK
  <1>6. UNCHANGED file  OBVIOUS
  <1> QED  BY <1>1, <1>2, <1>3, <1>4, <1>5, <1>6

LEMMA AbortInv ==
    ASSUME SingleWriter, IInv, NEW w \in Writers,
           NEW o \in {"failed", "crashed"}, Abort(w, o)
    PROVE  IInv' /\ UNCHANGED file
  <1> USE ParquetAssumption DEF IInv, reading, Abort, Leave
  <1>1. TypeOK'  BY DEF TypeOK, PerDay
  <1>2. InFlight'
    <2>1. \A u \in Writers, e \in Days : IsNext(u, e)' = IsNext(u, e)
      BY DEF IsNext, Pending
    <2>2. \A u \in Writers : pc'[u] = pc[u] \/ pc'[u] = "idle"
      BY DEF TypeOK
    <2> QED  BY <2>1, <2>2 DEF InFlight, Past
  <1>3. Bookkeeping'  BY DEF Bookkeeping, TypeOK
  <1>4. Listing' /\ ReadsArePermanent'  BY DEF Listing, ReadsArePermanent
  <1>5. PassedDaysHeld'  BY DEF PassedDaysHeld, TypeOK
  <1>6. UNCHANGED file  OBVIOUS
  <1> QED  BY <1>1, <1>2, <1>3, <1>4, <1>5, <1>6

LEMMA ListPartitionsInv ==
    ASSUME IInv, NEW r \in Readers, NEW s \in Symbols, ListPartitions(r, s)
    PROVE  IInv' /\ UNCHANGED file
  <1> USE ParquetAssumption DEF IInv, ListPartitions, writing
  <1>1. TypeOK'  BY DEF TypeOK, PerDay, NoBars
  <1>2. InFlight' /\ Bookkeeping' /\ PassedDaysHeld'
    BY DEF InFlight, IsNext, Pending, Bookkeeping, PassedDaysHeld
  <1>3. Listing'  BY DEF Listing, TypeOK
  <1>4. ReadsArePermanent'  BY DEF ReadsArePermanent, TypeOK, NoBars
  <1>5. UNCHANGED file  OBVIOUS
  <1> QED  BY <1>1, <1>2, <1>3, <1>4, <1>5

LEMMA ReadPartitionInv ==
    ASSUME IInv, NEW r \in Readers, NEW d \in Days, ReadPartition(r, d)
    PROVE  IInv' /\ UNCHANGED file
  <1> USE ParquetAssumption DEF IInv, ReadPartition, writing
  <1>1. target[r] \in Symbols /\ <<target[r], d>> \in Keys
    BY DEF Listing, TypeOK, Keys
  <1>2. TypeOK'  BY <1>1 DEF TypeOK, PerDay
  <1>3. InFlight' /\ Bookkeeping' /\ PassedDaysHeld'
    BY DEF InFlight, IsNext, Pending, Bookkeeping, PassedDaysHeld
  <1>4. Listing'  BY <1>1 DEF Listing, TypeOK
  <1>5. ReadsArePermanent'  BY DEF ReadsArePermanent, TypeOK, PerDay
  <1>6. UNCHANGED file  OBVIOUS
  <1> QED  BY <1>2, <1>3, <1>4, <1>5, <1>6

LEMMA NextInv ==
    ASSUME SingleWriter, IInv, [Next]_vars
    PROVE  IInv' /\ [Promise!Next]_file
  <1>1. CASE UNCHANGED vars
    BY <1>1 DEF vars, IInv, TypeOK, InFlight, Bookkeeping, Listing, IsNext,
       Pending, PassedDaysHeld, ReadsArePermanent
  <1>2. ASSUME NEW w \in Writers, NEW s \in Symbols, NEW frame \in PerDay,
               WriteBars(w, s, frame)
        PROVE  IInv' /\ [Promise!Next]_file
    BY <1>2, WriteBarsInv
  <1>3. ASSUME NEW w \in Writers, WriterStep(w)
        PROVE  IInv' /\ [Promise!Next]_file
    <2>1. CASE Return(w)  BY <2>1, ReturnInv
    <2>2. ASSUME NEW d \in Days,
                 \/ SkipIdentical(w, d) \/ Refuse(w, d)  \/ FindAbsent(w, d)
                 \/ OpenTmp(w, d)       \/ FillTmp(w, d) \/ Rename(w, d)
          PROVE  IInv' /\ [Promise!Next]_file
      BY <2>2, SkipIdenticalInv, RefuseInv, FindAbsentInv, OpenTmpInv,
         FillTmpInv, RenameInv
    <2> QED  BY <1>3, <2>1, <2>2 DEF WriterStep
  <1>4. ASSUME NEW w \in Writers, NEW o \in {"failed", "crashed"}, Abort(w, o)
        PROVE  IInv' /\ [Promise!Next]_file
    BY <1>4, AbortInv
  <1>5. ASSUME NEW r \in Readers, NEW s \in Symbols, ListPartitions(r, s)
        PROVE  IInv' /\ [Promise!Next]_file
    BY <1>5, ListPartitionsInv
  <1>6. ASSUME NEW r \in Readers, NEW d \in Days, ReadPartition(r, d)
        PROVE  IInv' /\ [Promise!Next]_file
    BY <1>6, ReadPartitionInv
  <1> QED  BY <1>1, <1>2, <1>3, <1>4, <1>5, <1>6 DEF Next

LEMMA FilledStaysFilled ==
    ASSUME TypeOK, [Promise!Next]_file
    PROVE  NeverOverwritten
  BY DEF TypeOK, Promise!Next, Promise!Fill, NeverOverwritten

------------------------------------------------------------------------------
\* The strengthened invariant holds in every state, for any symbols, days,
\* contents and readers, as long as one process writes.
THEOREM Invariance == ASSUME SingleWriter PROVE Spec => []IInv
  <1>1. Init => IInv  BY InitInv
  <1>2. IInv /\ [Next]_vars => IInv'  BY NextInv
  <1> QED  BY <1>1, <1>2, PTL DEF Spec

\* The variables have their types: in particular no partition is ever torn,
\* at any crash point of _write_partition.
THEOREM TypeCorrect == ASSUME SingleWriter PROVE Spec => []TypeOK
  <1>1. IInv => TypeOK  BY DEF IInv
  <1> QED  BY <1>1, Invariance, PTL

\* A call that returned normally holds every day it was given; one that failed
\* holds exactly the days it went past.
THEOREM Durability ==
    ASSUME SingleWriter PROVE Spec => []ReportsAreTrue
  <1>1. IInv => ReportsAreTrue
    BY DEF IInv, ReportsAreTrue, PassedDaysHeld, WrittenMeansHeld, Bookkeeping
  <1> QED  BY <1>1, Invariance, PTL

\* What a reader collected while writers, crashes and refusals went on is what
\* the archive holds.
THEOREM ReadStability == ASSUME SingleWriter PROVE Spec => []ReadsArePermanent
  <1>1. IInv => ReadsArePermanent  BY DEF IInv
  <1> QED  BY <1>1, Invariance, PTL

\* "You never overwrite history" (parquet.py, module docstring): no step changes
\* a partition that is filled.
THEOREM Immutability == ASSUME SingleWriter PROVE Spec => Immutable
  <1>1. IInv /\ [Next]_vars => NeverOverwritten \/ UNCHANGED vars
    BY NextInv, FilledStaysFilled DEF IInv
  <1> QED  BY <1>1, Invariance, PTL DEF Spec, Immutable

\* The archive implements the write-once store: every step is a Fill of an
\* empty cell or a stutter.
THEOREM Refinement == ASSUME SingleWriter PROVE Spec => ImplementsWriteOnce
  <1>1. Init => Promise!Init  BY DEF Init, Promise!Init
  <1>2. IInv /\ [Next]_vars => [Promise!Next]_file  BY NextInv
  <1> QED
    BY <1>1, <1>2, Invariance, PTL DEF Spec, ImplementsWriteOnce, Promise!Spec
==============================================================================
