----------------------------- MODULE DepthRecorder -----------------------------
(***************************************************************************)
(* The forward recorder of order-book depth                                *)
(* (quant/data/recorders/depth.py).  record() buffers the snapshots of the *)
(* live feed; a full buffer, or flush(), merges them into the partitions   *)
(* they belong to, one after the other: read the file, concatenate, keep   *)
(* the last row of each timestamp, and write the file again IN PLACE.      *)
(*                                                                         *)
(* A partition stands for a (symbol, IST date) pair; a snapshot is the     *)
(* partition it belongs to, its timestamp and the book it carries.         *)
(***************************************************************************)
EXTENDS Integers, Sequences, FiniteSets

CONSTANTS Partitions,   \* (symbol, date) pairs, numbered in groupby order
          Times, Books,
          BatchSize,
          MaxSnapshots, \* bound: snapshots offered to one process
          MaxRestarts,  \* bound: processes, less one
          WritesFail,   \* may a write raise before it touches the file?
          RewritesTear, \* may the process or the write stop in to_parquet?
          None,         \* no row, no file
          Torn          \* a file that is not a readable Parquet file

ASSUME DepthAssumption ==
    /\ Partitions \subseteq Nat /\ Times \subseteq Nat /\ IsFiniteSet(Times)
    /\ BatchSize \in Nat \ {0} /\ MaxSnapshots \in Nat /\ MaxRestarts \in Nat
    /\ WritesFail \in BOOLEAN /\ RewritesTear \in BOOLEAN

Snapshots == [part : Partitions, time : Times, book : Books]
Rows      == [Times -> Books \cup {None}]

\* What a file holds is told from no file, and from one that cannot be read.
ASSUME RowsAreTold == None # Torn /\ None \notin Rows /\ Torn \notin Rows

VARIABLES file,      \* file[p]: Rows, None or Torn
          buffer,    \* _buffer
          recorded,  \* _recorded
          step,        \* "idle", "merge" or "rewrite"
          todo,      \* partitions of the flush still to be written
          merged,    \* the rows about to be written
          written,   \* rows written by this flush so far
          offered,   \* history: snapshots given to record() by this process
          newest,    \* history: the last book this process offered, per row
          restarts

recorder == <<buffer, recorded, step, todo, merged, written, offered>>
recorderVars == <<file, recorder, newest, restarts>>

NoRows   == [t \in Times |-> None]
RowsOf(content) == IF content \in {None, Torn} THEN NoRows ELSE content
Count(rows)     == Cardinality({t \in Times : rows[t] # None})

\* A slip the runs must notice: keep="first".
MergeKeepFirst(old, batch, p) ==
    [t \in Times |->
        LET at == {i \in 1 .. Len(batch) : batch[i].part = p /\ batch[i].time = t}
        IN  IF at = {} \/ old[t] # None THEN old[t]
            ELSE batch[CHOOSE i \in at : \A j \in at : i <= j].book]
\* drop_duplicates(keep="last") over old rows followed by the batch.
Merge(old, batch, p) ==
    [t \in Times |->
        LET at == {i \in 1 .. Len(batch) : batch[i].part = p /\ batch[i].time = t}
        IN  IF at = {} THEN old[t]
            ELSE batch[CHOOSE i \in at : \A j \in at : j <= i].book]

RecorderTypeOK ==
    /\ file \in [Partitions -> Rows \cup {None, Torn}]
    /\ buffer \in Seq(Snapshots) /\ Len(buffer) <= offered
    /\ recorded \in Nat /\ written \in Nat /\ offered \in 0 .. MaxSnapshots
    /\ step \in {"idle", "merge", "rewrite"}
    /\ todo \subseteq {buffer[i].part : i \in 1 .. Len(buffer)}
    /\ step = "idle" <=> todo = {}
    /\ merged \in Rows
    /\ newest \in [Partitions -> Rows]
    /\ restarts \in 0 .. MaxRestarts

RecorderInit ==
    /\ file = [p \in Partitions |-> None]
    /\ buffer = <<>> /\ recorded = 0
    /\ step = "idle" /\ todo = {} /\ merged = NoRows /\ written = 0
    /\ offered = 0
    /\ newest = [p \in Partitions |-> NoRows]
    /\ restarts = 0

------------------------------------------------------------------------------
(* The recorder.                                                           *)

\* flush() of a buffer: the partitions of its snapshots, in order.
StartFlush(snapshots) ==
    /\ todo' = {snapshots[i].part : i \in 1 .. Len(snapshots)}
    /\ step' = "merge" /\ written' = 0

\* An update without depth changes nothing.  A buffer that reached the batch
\* size is flushed at once, by the same call.
Record(s) ==
    /\ step = "idle" /\ offered < MaxSnapshots
    /\ buffer' = Append(buffer, s)
    /\ offered' = offered + 1
    /\ newest' = [newest EXCEPT ![s.part][s.time] = s.book]
    /\ IF Len(buffer') >= BatchSize THEN StartFlush(buffer')
                                    ELSE UNCHANGED <<todo, step, written>>
    /\ UNCHANGED <<file, recorded, merged, restarts>>

\* flush() at the end of the session; an empty buffer is a no-op.
Flush ==
    /\ step = "idle" /\ buffer # <<>>
    /\ StartFlush(buffer)
    /\ UNCHANGED <<file, buffer, recorded, merged, offered, newest, restarts>>

IsNext(p) == p \in todo /\ \A q \in todo : p <= q

\* _write_partition: read what is there and merge ...
MergePartition(p) ==
    /\ step = "merge" /\ IsNext(p) /\ file[p] # Torn
    /\ merged' = Merge(RowsOf(file[p]), buffer, p)
    /\ step' = "rewrite"
    /\ UNCHANGED <<file, buffer, recorded, todo, written, offered, newest,
                   restarts>>

\* ... then to_parquet over the same file.  Its return value is the number of
\* rows of the whole partition.  After the last partition, flush() adds up and
\* clears the buffer.
RewritePartition(p) ==
    /\ step = "rewrite" /\ IsNext(p)
    /\ file' = [file EXCEPT ![p] = merged]
    /\ merged' = NoRows
    /\ todo' = todo \ {p}
    /\ IF todo' = {}
         THEN /\ step' = "idle" /\ buffer' = <<>> /\ written' = 0
              /\ recorded' = recorded + written + Count(merged)
         ELSE /\ step' = "merge" /\ written' = written + Count(merged)
              /\ UNCHANGED <<buffer, recorded>>
    /\ UNCHANGED <<offered, newest, restarts>>

\* An exception leaves flush() before it touches the counter or the buffer; a
\* file that cannot be read raises one.
Raise == /\ step' = "idle" /\ todo' = {} /\ merged' = NoRows /\ written' = 0
         /\ UNCHANGED <<buffer, recorded, offered, newest, restarts>>

WriteRaises(p) ==
    /\ step = "merge" /\ IsNext(p)
    /\ WritesFail \/ file[p] = Torn
    /\ Raise
    /\ UNCHANGED file

RewriteTears(p) ==
    /\ step = "rewrite" /\ IsNext(p) /\ RewritesTear
    /\ file' = [file EXCEPT ![p] = Torn]
    /\ Raise

\* The process dies, and the next one starts with an empty buffer.
Restart ==
    /\ restarts < MaxRestarts
    /\ restarts' = restarts + 1
    /\ \/ UNCHANGED file
       \/ /\ step = "rewrite" /\ RewritesTear
          /\ \E p \in todo : IsNext(p) /\ file' = [file EXCEPT ![p] = Torn]
    /\ buffer' = <<>> /\ recorded' = 0 /\ offered' = 0
    /\ step' = "idle" /\ todo' = {} /\ merged' = NoRows /\ written' = 0
    /\ newest' = [p \in Partitions |-> NoRows]

RecorderNext ==
    \/ \E s \in Snapshots : Record(s)
    \/ Flush \/ Restart
    \/ \E p \in Partitions : \/ MergePartition(p) \/ RewritePartition(p)
                             \/ WriteRaises(p) \/ RewriteTears(p)

RecorderSpec == RecorderInit /\ [][RecorderNext]_recorderVars

------------------------------------------------------------------------------
(* Properties.                                                             *)

\* "The partition stays the single point-in-time record": with an empty buffer
\* the archive holds, for every timestamp the process was offered, the last book
\* offered, whatever batches, failed flushes and retries it went through.
ArchiveIsLatest ==
    buffer = <<>> => \A p \in Partitions, t \in Times :
        newest[p][t] # None => RowsOf(file[p])[t] = newest[p][t]

==============================================================================
