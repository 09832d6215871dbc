------------------------------- MODULE AuditLog -------------------------------
(***************************************************************************)
(* The hash-chained audit log (quant/core/audit.py): threads of one        *)
(* process append under a lock, the process dies and opens the file again, *)
(* a write may stop half way, and somebody may edit the file.              *)
(*                                                                         *)
(* The file is its complete lines and the text after the last newline.     *)
(* SHA-256 is taken to be injective, so the hash of an entry is the tuple  *)
(* of the fields it covers; the timestamp, the correlation id, the action  *)
(* and the redacted data are one value.                                    *)
(***************************************************************************)
EXTENDS Integers, Sequences

CONSTANTS Threads, Data,
          MaxEntries,  \* bound: lines in the file
          Edits,       \* may the file be edited from outside?
          Nobody,      \* the lock is free
          Nothing,     \* no text after the last newline
          Junk         \* text that json.loads refuses

ASSUME AuditAssumption ==
    /\ MaxEntries \in Nat /\ Edits \in BOOLEAN
    /\ Nobody \notin Threads /\ Junk # Nothing

VARIABLES lines,     \* the complete lines: entries, or Junk
          tail,      \* the text after the last newline
          up,        \* is the log open in the process?
          lastSeq, lastHash,
          lock, pc, entry,  \* the lock, and each thread's append call
          stray,     \* history: a whole line whose append raised is nowhere ("no"),
                     \* last in the file, or followed by what the same process wrote
          edited     \* history: "no", "tail" (only last lines removed), "history"

calls == <<lock, pc, entry>>
state == <<up, lastSeq, lastHash>>
vars  == <<lines, tail, state, calls, stray, edited>>

GENESIS_HASH == <<>>
Hash(seq, data, prev) == <<seq, data, prev>>
Entry(seq, data, prev) ==
    [seq |-> seq, data |-> data, prev |-> prev, hash |-> Hash(seq, data, prev)]
NoEntry == [seq |-> 0]

Init ==
    /\ lines = <<>> /\ tail = Nothing
    /\ up = FALSE /\ lastSeq = 0 /\ lastHash = GENESIS_HASH
    /\ lock = Nobody
    /\ pc = [t \in Threads |-> "idle"]
    /\ entry = [t \in Threads |-> NoEntry]
    /\ stray = "no" /\ edited = "no"

------------------------------------------------------------------------------
(* Reading.                                                                *)

\* __iter__: what the file holds, an unterminated last line included.
Content  == IF tail = Nothing THEN lines ELSE Append(lines, tail)
Readable == \A i \in 1 .. Len(Content) : Content[i] # Junk

PrevHash(i) == IF i = 1 THEN GENESIS_HASH ELSE Content[i - 1].hash

\* A slip the runs must notice: every hash is recomputed, no link is followed.
VerifyHashes ==
    /\ Readable
    /\ \A i \in 1 .. Len(Content) :
          Content[i].hash = Hash(Content[i].seq, Content[i].data, Content[i].prev)

\* verify(); on text it cannot parse it raises.
Verify ==
    /\ Readable
    /\ \A i \in 1 .. Len(Content) :
          /\ Content[i].seq = i
          /\ Content[i].prev = PrevHash(i)
          /\ Content[i].hash =
                Hash(Content[i].seq, Content[i].data, Content[i].prev)

\* FileAuditLog(path): the last entry of the file continues the chain, a stray
\* one as well.
OpenLog ==
    /\ ~ up /\ Readable
    /\ up' = TRUE
    /\ IF Content = <<>>
         THEN lastSeq' = 0 /\ lastHash' = GENESIS_HASH
         ELSE /\ lastSeq' = Content[Len(Content)].seq
              /\ lastHash' = Content[Len(Content)].hash
    /\ stray' = IF stray = "last" THEN "no" ELSE stray
    /\ UNCHANGED <<lines, tail, calls, edited>>

------------------------------------------------------------------------------
(* append().                                                               *)

\* A slip the runs must notice: the entry is built before the lock is taken.
AcquireUnlocked(t, data) ==
    /\ up /\ pc[t] = "idle"
    /\ entry' = [entry EXCEPT ![t] = Entry(lastSeq + 1, data, lastHash)]
    /\ pc' = [pc EXCEPT ![t] = "write"]
    /\ UNCHANGED <<lines, tail, state, lock, stray, edited>>

Acquire(t, data) ==
    /\ up /\ pc[t] = "idle" /\ lock = Nobody
    /\ lock' = t
    /\ entry' = [entry EXCEPT ![t] = Entry(lastSeq + 1, data, lastHash)]
    /\ pc' = [pc EXCEPT ![t] = "write"]
    /\ UNCHANGED <<lines, tail, state, stray, edited>>

\* What a process writes behind a stray line.
Behind(how) == IF stray = "no" THEN how ELSE "inside"

\* One line in append mode, after whatever the file ends with.
WriteLine(t) ==
    /\ pc[t] = "write" /\ Len(lines) < MaxEntries
    /\ lines' = Append(lines, IF tail = Nothing THEN entry[t] ELSE Junk)
    /\ tail' = Nothing

Write(t) ==
    /\ WriteLine(t)
    /\ pc' = [pc EXCEPT ![t] = "commit"]
    /\ stray' = Behind("no")
    /\ UNCHANGED <<state, lock, entry, edited>>

Leave(t) ==
    /\ lock' = Nobody
    /\ pc' = [pc EXCEPT ![t] = "idle"]
    /\ entry' = [entry EXCEPT ![t] = NoEntry]

Commit(t) ==
    /\ pc[t] = "commit"
    /\ lastSeq' = entry[t].seq /\ lastHash' = entry[t].hash
    /\ Leave(t)
    /\ UNCHANGED <<lines, tail, up, stray, edited>>

\* The line is in the file but closing it raises, or an interrupt comes before
\* the counters move.
CloseFails(t) ==
    /\ WriteLine(t)
    /\ stray' = Behind("last")
    /\ Leave(t)
    /\ UNCHANGED <<state, edited>>

\* How much of a line reaches the file when its write stops: nothing, a piece
\* of it, or all of it but the newline.
Remains(e) == {Nothing, Junk, e}
AfterTear(r) == CASE r = Nothing    -> tail
                  [] tail = Nothing -> r
                  [] OTHER          -> Junk

Tear(t) ==
    /\ pc[t] = "write"
    /\ \E r \in Remains(entry[t]) :
          /\ tail' = AfterTear(r)
          /\ stray' = IF r = Nothing THEN stray ELSE Behind("no")

\* The write raises: the lock is released, the chain has not moved.
WriteFails(t) ==
    /\ Tear(t)
    /\ Leave(t)
    /\ UNCHANGED <<lines, state, edited>>

\* The process dies, perhaps in the middle of a write.
Crash ==
    /\ up
    /\ up' = FALSE /\ lastSeq' = 0 /\ lastHash' = GENESIS_HASH
    /\ UNCHANGED <<tail, stray>> \/ \E t \in Threads : Tear(t)
    /\ lock' = Nobody
    /\ pc' = [t \in Threads |-> "idle"]
    /\ entry' = [t \in Threads |-> NoEntry]
    /\ UNCHANGED <<lines, edited>>

------------------------------------------------------------------------------
(* One edit of the file, by anything but append(), while the chain is      *)
(* whole.                                                                  *)

CanEdit(i) == Edits /\ edited = "no" /\ stray # "inside" /\ i \in 1 .. Len(lines)

Alter(i, data) ==
    /\ CanEdit(i) /\ lines[i] # Junk /\ lines[i].data # data
    /\ lines' = [lines EXCEPT ![i].data = data]
    /\ edited' = "history"
    /\ UNCHANGED <<tail, state, calls, stray>>

RemoveLine(i) ==
    /\ CanEdit(i)
    /\ lines' = SubSeq(lines, 1, i - 1) \o SubSeq(lines, i + 1, Len(lines))
    /\ edited' = IF i = Len(lines) THEN "tail" ELSE "history"
    /\ UNCHANGED <<tail, state, calls, stray>>

Repeat(i) ==
    /\ CanEdit(i)
    /\ lines' = SubSeq(lines, 1, i) \o SubSeq(lines, i, Len(lines))
    /\ edited' = "history"
    /\ UNCHANGED <<tail, state, calls, stray>>

Next ==
    \/ OpenLog \/ Crash
    \/ \E t \in Threads : \/ \E data \in Data : Acquire(t, data)
                          \/ Write(t) \/ Commit(t)
                          \/ WriteFails(t) \/ CloseFails(t)
    \/ \E i \in 1 .. MaxEntries :
          \E data \in Data : Alter(i, data) \/ RemoveLine(i) \/ Repeat(i)

Spec == Init /\ [][Next]_vars

------------------------------------------------------------------------------
(* Properties.                                                             *)

IsEntry(e) ==
    /\ e = [seq |-> e.seq, data |-> e.data, prev |-> e.prev, hash |-> e.hash]
    /\ e.seq \in Nat /\ e.data \in Data

TypeOK ==
    /\ Len(lines) \in Nat /\ lines = [i \in 1 .. Len(lines) |-> lines[i]]
    /\ \A i \in 1 .. Len(lines) : lines[i] # Junk => IsEntry(lines[i])
    /\ tail \notin {Nothing, Junk} => IsEntry(tail)
    /\ up \in BOOLEAN /\ lastSeq \in Nat
    /\ lock \in Threads \cup {Nobody}
    /\ pc \in [Threads -> {"idle", "write", "commit"}]
    /\ DOMAIN entry = Threads
    /\ \A t \in Threads : pc[t] # "idle" => lock = t /\ up /\ IsEntry(entry[t])
    /\ stray \in {"no", "last", "inside"} /\ edited \in {"no", "tail", "history"}

\* A log that can be read verifies exactly as long as its history is untouched,
\* unless a process wrote on behind a line whose append had raised.  Of every
\* interleaving of appends, torn and failing writes, crashes and restarts the
\* entries are neither skipped, repeated nor reordered; and an altered, repeated
\* or missing entry is detected at once and for ever after, whoever appends
\* however many behind it.  Lines cut off the end are not seen.
VerifyTells ==
    /\ edited = "no" /\ stray # "inside" /\ Readable => Verify
    /\ edited = "history" => ~ Verify

\* "Opening an existing log continues its chain, so the append-only guarantee
\* and tamper-evidence hold across process restarts" (FileAuditLog).
OpensAgain == edited = "no" => Readable
==============================================================================
