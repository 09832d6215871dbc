---------------------------- MODULE RecordersProofs ----------------------------
(***************************************************************************)
(* What the recorders that run beside the market promise.                  *)
(***************************************************************************)
EXTENDS AuditLog, DepthRecorder, TickStream, EventRecorder, SequenceTheorems, FiniteOrder

------------------------------------------------------------------------------
(* The audit log.  A line that was torn pushes the numbers ahead of the    *)
(* positions and never back, so a whole entry is at its position or at an  *)
(* earlier one; and it is at its position, behind the entry it names, as   *)
(* long as no line before it is torn (IsChain).  A stray line belongs to   *)
(* the chain until its process writes behind it, but that process is no    *)
(* longer right about the end of the file.  An edit of the history of a    *)
(* chain leaves a flaw at one position (IsFlawed), which no later append   *)
(* can repair.                                                             *)

IsClean(s) == \A i \in 1 .. Len(s) : s[i] # Junk
EndHash(s) == IF s = <<>> THEN GENESIS_HASH ELSE s[Len(s)].hash

IsChain(s) ==
    \A i \in 1 .. Len(s) : s[i] # Junk =>
        /\ s[i] = Entry(s[i].seq, s[i].data, s[i].prev)
        /\ s[i].seq \in Nat /\ s[i].seq >= i
        /\ (\A j \in 1 .. i : s[j] # Junk) =>
              /\ s[i].seq = i
              /\ s[i].prev = IF i = 1 THEN GENESIS_HASH ELSE s[i - 1].hash

IsFlawed(s) ==
    \E i \in 1 .. Len(s) :
        \/ s[i] = Junk
        \/ s[i].seq # i
        \/ s[i].hash # Hash(s[i].seq, s[i].data, s[i].prev)

\* Between two calls, what the process remembers is the end of the file or, behind
\* a torn line or tail, a number beyond it.
Remembers ==
    (\A t \in Threads : pc[t] # "commit") =>
        /\ lastSeq >= Len(lines)
        /\ tail = Nothing /\ IsClean(lines) =>
              lastSeq = Len(lines) /\ lastHash = EndHash(lines)

\* Within a call the entry continues what the process remembers; once written it
\* is the end of the file.
Continues ==
    \A t \in Threads :
        /\ pc[t] = "write" =>
              \E data \in Data : entry[t] = Entry(lastSeq + 1, data, lastHash)
        /\ pc[t] = "commit" =>
              /\ tail = Nothing /\ entry[t].seq >= Len(lines)
              /\ IsClean(lines) => /\ entry[t].seq = Len(lines)
                                   /\ entry[t].hash = EndHash(lines)

LogInv ==
    /\ TypeOK
    /\ edited = "no" /\ stray # "inside" => IsChain(Content)
    /\ edited = "no" /\ stray = "no" /\ up => Remembers /\ Continues
    /\ edited = "history" => IsFlawed(lines)

IsSeq(s) == Len(s) \in Nat /\ s = [i \in 1 .. Len(s) |-> s[i]]

\* A sequence is one of its own members, whatever these are.
LEMMA OwnMembers ==
    ASSUME NEW s, IsSeq(s)
    PROVE  s \in Seq({s[i] : i \in 1 .. Len(s)})
BY DEF IsSeq

LEMMA Members ==
    ASSUME NEW S, NEW s \in Seq(S)
    PROVE  IsSeq(s) /\ \A i \in 1 .. Len(s) : s[i] \in S
BY LenProperties DEF IsSeq

LEMMA Appended ==
    ASSUME NEW s, IsSeq(s), NEW e
    PROVE  /\ IsSeq(Append(s, e)) /\ Len(Append(s, e)) = Len(s) + 1
           /\ Append(s, e)[Len(s) + 1] = e
           /\ \A i \in 1 .. Len(s) : Append(s, e)[i] = s[i]
<1> DEFINE S == {s[i] : i \in 1 .. Len(s)} \cup {e}
<1>1. s \in Seq(S) /\ e \in S
  <2>1. {s[i] : i \in 1 .. Len(s)} \subseteq S
    OBVIOUS
  <2>2. s \in Seq({s[i] : i \in 1 .. Len(s)})
    BY OwnMembers
  <2> HIDE DEF S
  <2>3. s \in Seq(S)
    BY <2>1, <2>2, SeqMonotonic
  <2> QED BY <2>3 DEF S
<1> HIDE DEF S
<1>2. /\ Append(s, e) \in Seq(S) /\ Len(Append(s, e)) = Len(s) + 1
      /\ Append(s, e)[Len(s) + 1] = e
      /\ \A i \in 1 .. Len(s) : Append(s, e)[i] = s[i]
  BY <1>1, AppendProperties, LenProperties
<1>3. IsSeq(Append(s, e))
  BY <1>2, Members
<1> QED BY <1>2, <1>3

LEMMA Removed ==
    ASSUME NEW s, IsSeq(s), NEW i \in 1 .. Len(s)
    PROVE  LET t == SubSeq(s, 1, i - 1) \o SubSeq(s, i + 1, Len(s)) IN
           /\ IsSeq(t) /\ Len(t) = Len(s) - 1
           /\ \A j \in 1 .. Len(t) : t[j] = IF j < i THEN s[j] ELSE s[j + 1]
<1> DEFINE S == {s[j] : j \in 1 .. Len(s)}
           a == SubSeq(s, 1, i - 1)
           b == SubSeq(s, i + 1, Len(s))
<1>1. s \in Seq(S) /\ Len(s) \in Nat /\ i \in Int
  BY OwnMembers DEF IsSeq
<1>2. \A j \in 1 .. Len(s) : s[j] \in S
  OBVIOUS
<1> HIDE DEF S
<1>3. /\ a \in Seq(S) /\ Len(a) = i - 1
      /\ \A j \in 1 .. i - 1 : a[j] = s[j]
  <2>1. \A j \in 1 .. i - 1 : s[j] \in S
    BY <1>1, <1>2
  <2> QED BY <1>1, <2>1, SubSeqProperties
<1>4. /\ b \in Seq(S) /\ Len(b) = Len(s) - i
      /\ \A j \in 1 .. Len(s) - i : b[j] = s[i + j]
  <2>1. \A j \in i + 1 .. Len(s) : s[j] \in S
    BY <1>1, <1>2
  <2> QED BY <1>1, <2>1, SubSeqProperties
<1> HIDE DEF a, b
<1>5. /\ a \o b \in Seq(S) /\ Len(a \o b) = Len(s) - 1
      /\ \A j \in 1 .. Len(s) - 1 : (a \o b)[j] = IF j < i THEN s[j] ELSE s[j + 1]
  <2>1. /\ a \o b \in Seq(S) /\ Len(a \o b) = Len(a) + Len(b)
        /\ \A j \in 1 .. Len(a) + Len(b) :
              (a \o b)[j] = IF j <= Len(a) THEN a[j] ELSE b[j - Len(a)]
    BY <1>3, <1>4, ConcatProperties
  <2>2. Len(a) + Len(b) = Len(s) - 1
    BY <1>1, <1>3, <1>4
  <2>3. ASSUME NEW j \in 1 .. Len(s) - 1, j < i PROVE (a \o b)[j] = s[j]
    BY <2>1, <2>2, <2>3, <1>1, <1>3
  <2>4. ASSUME NEW j \in 1 .. Len(s) - 1, j >= i PROVE (a \o b)[j] = s[j + 1]
    <3>1. j - (i - 1) \in 1 .. Len(s) - i /\ i + (j - (i - 1)) = j + 1
      BY <2>4, <1>1
    <3>2. (a \o b)[j] = b[j - (i - 1)]
      BY <2>1, <2>2, <2>4, <1>1, <1>3
    <3> QED BY <3>1, <3>2, <1>4
  <2> QED BY <2>1, <2>2, <2>3, <2>4, <1>1
<1>6. IsSeq(a \o b)
  BY <1>5, Members
<1> QED BY <1>5, <1>6 DEF a, b

LEMMA Repeated ==
    ASSUME NEW s, IsSeq(s), NEW i \in 1 .. Len(s)
    PROVE  LET t == SubSeq(s, 1, i) \o SubSeq(s, i, Len(s)) IN
           /\ IsSeq(t) /\ Len(t) = Len(s) + 1
           /\ \A j \in 1 .. Len(t) : t[j] = IF j <= i THEN s[j] ELSE s[j - 1]
<1> DEFINE S == {s[j] : j \in 1 .. Len(s)}
           a == SubSeq(s, 1, i)
           b == SubSeq(s, i, Len(s))
<1>1. s \in Seq(S) /\ Len(s) \in Nat /\ i \in Int
  BY OwnMembers DEF IsSeq
<1>2. \A j \in 1 .. Len(s) : s[j] \in S
  OBVIOUS
<1> HIDE DEF S
<1>3. /\ a \in Seq(S) /\ Len(a) = i
      /\ \A j \in 1 .. i : a[j] = s[j]
  <2>1. \A j \in 1 .. i : s[j] \in S
    BY <1>1, <1>2
  <2> QED BY <1>1, <2>1, SubSeqProperties
<1>4. /\ b \in Seq(S) /\ Len(b) = Len(s) - i + 1
      /\ \A j \in 1 .. Len(s) - i + 1 : b[j] = s[i + j - 1]
  <2>1. \A j \in i .. Len(s) : s[j] \in S
    BY <1>1, <1>2
  <2> QED BY <1>1, <2>1, SubSeqProperties
<1> HIDE DEF a, b
<1>5. /\ a \o b \in Seq(S) /\ Len(a \o b) = Len(s) + 1
      /\ \A j \in 1 .. Len(s) + 1 : (a \o b)[j] = IF j <= i THEN s[j] ELSE s[j - 1]
  <2>1. /\ a \o b \in Seq(S) /\ Len(a \o b) = Len(a) + Len(b)
        /\ \A j \in 1 .. Len(a) + Len(b) :
              (a \o b)[j] = IF j <= Len(a) THEN a[j] ELSE b[j - Len(a)]
    BY <1>3, <1>4, ConcatProperties
  <2>2. Len(a) + Len(b) = Len(s) + 1
    BY <1>1, <1>3, <1>4
  <2>3. ASSUME NEW j \in 1 .. Len(s) + 1, j <= i PROVE (a \o b)[j] = s[j]
    BY <2>1, <2>2, <2>3, <1>1, <1>3
  <2>4. ASSUME NEW j \in 1 .. Len(s) + 1, j > i PROVE (a \o b)[j] = s[j - 1]
    <3>1. j - i \in 1 .. Len(s) - i + 1 /\ i + (j - i) - 1 = j - 1
      BY <2>4, <1>1
    <3>2. (a \o b)[j] = b[j - i]
      BY <2>1, <2>2, <2>4, <1>1, <1>3
    <3> QED BY <3>1, <3>2, <1>4
  <2> QED BY <2>1, <2>2, <2>3, <2>4, <1>1
<1>6. IsSeq(a \o b)
  BY <1>5, Members
<1> QED BY <1>5, <1>6 DEF a, b

\* A line extends a chain if its number is beyond the end, and follows the end
\* where no line is torn.
Extends(s, e) ==
    e # Junk =>
        /\ e = Entry(e.seq, e.data, e.prev)
        /\ e.seq \in Nat /\ e.seq >= Len(s) + 1
        /\ IsClean(s) => e.seq = Len(s) + 1 /\ e.prev = EndHash(s)

LEMMA ChainGrows ==
    ASSUME NEW s, IsSeq(s), NEW e, IsChain(s), Extends(s, e)
    PROVE  IsChain(Append(s, e))
<1> DEFINE t == Append(s, e)
           n == Len(s)
<1>1. /\ n \in Nat /\ Len(t) = n + 1 /\ t[n + 1] = e
      /\ \A i \in 1 .. n : t[i] = s[i]
  BY Appended DEF IsSeq
<1> HIDE DEF t
<1>2. ASSUME NEW i \in 1 .. n, t[i] # Junk
      PROVE  /\ t[i] = Entry(t[i].seq, t[i].data, t[i].prev)
             /\ t[i].seq \in Nat /\ t[i].seq >= i
             /\ (\A j \in 1 .. i : t[j] # Junk) =>
                   /\ t[i].seq = i
                   /\ t[i].prev = IF i = 1 THEN GENESIS_HASH ELSE t[i - 1].hash
  <2>1. \A j \in 1 .. i : t[j] = s[j]
    BY <1>1
  <2>2. i = 1 \/ i - 1 \in 1 .. i
    BY <1>1
  <2> QED BY <1>2, <2>1, <2>2, <1>1 DEF IsChain
<1>3. ASSUME e # Junk, \A j \in 1 .. n + 1 : t[j] # Junk
      PROVE  /\ e.seq = n + 1
             /\ e.prev = IF n + 1 = 1 THEN GENESIS_HASH ELSE t[n + 1 - 1].hash
  <2>1. IsClean(s)
    BY <1>1, <1>3 DEF IsClean
  <2>2. e.seq = n + 1 /\ e.prev = EndHash(s)
    BY <1>3, <2>1 DEF Extends
  <2>3. s = <<>> <=> n = 0
    BY OwnMembers, EmptySeq
  <2>4. n # 0 => t[n + 1 - 1] = s[n]
    BY <1>1
  <2> QED BY <2>2, <2>3, <2>4, <1>1 DEF EndHash
<1>4. ASSUME NEW i \in 1 .. n + 1 PROVE i \in 1 .. n \/ i = n + 1
  BY <1>1
<1>5. IsChain(t)
  <2> SUFFICES ASSUME NEW i \in 1 .. n + 1, t[i] # Junk
               PROVE  /\ t[i] = Entry(t[i].seq, t[i].data, t[i].prev)
                      /\ t[i].seq \in Nat /\ t[i].seq >= i
                      /\ (\A j \in 1 .. i : t[j] # Junk) =>
                            /\ t[i].seq = i
                            /\ t[i].prev = IF i = 1 THEN GENESIS_HASH ELSE t[i - 1].hash
    BY <1>1 DEF IsChain
  <2>1. CASE i \in 1 .. n
    BY <2>1, <1>2
  <2>2. CASE i = n + 1
    BY <2>2, <1>1, <1>3 DEF Extends
  <2> QED BY <2>1, <2>2, <1>4
<1> QED BY <1>5 DEF t

LEMMA ChainShrinks ==
    ASSUME NEW s, IsSeq(s), NEW e, IsChain(Append(s, e))
    PROVE  IsChain(s)
<1> DEFINE t == Append(s, e)
           n == Len(s)
<1>1. /\ n \in Nat /\ Len(t) = n + 1 /\ \A i \in 1 .. n : t[i] = s[i]
  BY Appended DEF IsSeq
<1> HIDE DEF t
<1>2. IsChain(t)
  BY DEF t
<1> SUFFICES ASSUME NEW i \in 1 .. n, s[i] # Junk
             PROVE  /\ s[i] = Entry(s[i].seq, s[i].data, s[i].prev)
                    /\ s[i].seq \in Nat /\ s[i].seq >= i
                    /\ (\A j \in 1 .. i : s[j] # Junk) =>
                          /\ s[i].seq = i
                          /\ s[i].prev = IF i = 1 THEN GENESIS_HASH ELSE s[i - 1].hash
  BY DEF IsChain
<1>3. \A j \in 1 .. i : t[j] = s[j]
  BY <1>1
<1>4. i \in 1 .. Len(t) /\ (i = 1 \/ i - 1 \in 1 .. i)
  BY <1>1
<1> QED BY <1>2, <1>3, <1>4, <1>1 DEF IsChain

\* A flaw stays where it is, whatever is appended.
LEMMA FlawStays ==
    ASSUME NEW s, IsSeq(s), NEW e, IsFlawed(s)
    PROVE  IsFlawed(Append(s, e))
<1>1. /\ Len(s) \in Nat /\ Len(Append(s, e)) = Len(s) + 1
      /\ \A i \in 1 .. Len(s) : Append(s, e)[i] = s[i]
  BY Appended DEF IsSeq
<1>2. PICK i \in 1 .. Len(s) :
         \/ s[i] = Junk \/ s[i].seq # i
         \/ s[i].hash # Hash(s[i].seq, s[i].data, s[i].prev)
  BY DEF IsFlawed
<1>3. i \in 1 .. Len(Append(s, e)) /\ Append(s, e)[i] = s[i]
  BY <1>1
<1> QED BY <1>2, <1>3 DEF IsFlawed

LEMMA ContentFacts ==
    ASSUME TypeOK
    PROVE  /\ IsSeq(lines) /\ IsSeq(Content)
           /\ IsChain(Content) => IsChain(lines)
           /\ IsFlawed(lines) => IsFlawed(Content)
<1>1. IsSeq(lines)
  BY DEF TypeOK, IsSeq
<1>2. CASE tail = Nothing
  BY <1>1, <1>2 DEF Content
<1>3. CASE tail # Nothing
  BY <1>1, <1>3, Appended, ChainShrinks, FlawStays DEF Content
<1> QED BY <1>1, <1>2, <1>3

\* What verify() makes of a chain and of a flaw.
LEMMA Verdicts ==
    /\ IsChain(Content) /\ Readable => Verify
    /\ IsFlawed(Content) => ~ Verify
<1>1. ASSUME IsChain(Content), Readable PROVE Verify
  <2> SUFFICES ASSUME NEW i \in 1 .. Len(Content)
               PROVE  /\ Content[i].seq = i
                      /\ Content[i].prev = PrevHash(i)
                      /\ Content[i].hash =
                           Hash(Content[i].seq, Content[i].data, Content[i].prev)
    BY <1>1 DEF Verify
  <2> DEFINE c == Content
  <2>1. /\ c[i] # Junk /\ \A j \in 1 .. i : c[j] # Junk
    BY <1>1 DEF Readable
  <2>2. /\ c[i] = Entry(c[i].seq, c[i].data, c[i].prev)
        /\ c[i].seq = i
        /\ c[i].prev = IF i = 1 THEN GENESIS_HASH ELSE c[i - 1].hash
    BY <2>1, <1>1 DEF IsChain
  <2> HIDE DEF c
  <2>3. c[i].hash = Hash(c[i].seq, c[i].data, c[i].prev)
    BY <2>2 DEF Entry
  <2> QED BY <2>2, <2>3 DEF c, PrevHash
<1>2. ASSUME IsFlawed(Content), Verify PROVE FALSE
  BY <1>2 DEF IsFlawed, Verify, Readable
<1> QED BY <1>1, <1>2

\* A thread that writes is alone in the call, and its line may be appended as long
\* as the file ends with a newline.
LEMMA WriterFacts ==
    ASSUME LogInv, NEW t \in Threads, pc[t] = "write"
    PROVE  /\ \A u \in Threads : u # t => pc[u] = "idle"
           /\ lock = t /\ up /\ lastSeq \in Nat /\ IsEntry(entry[t])
           /\ edited = "no" /\ stray = "no" =>
                 /\ \E data \in Data : entry[t] = Entry(lastSeq + 1, data, lastHash)
                 /\ lastSeq >= Len(lines)
                 /\ tail = Nothing /\ IsClean(lines) =>
                       lastSeq = Len(lines) /\ lastHash = EndHash(lines)
                 /\ tail = Nothing => Extends(lines, entry[t])
<1>1. \A u \in Threads : u # t => pc[u] = "idle"
  BY DEF LogInv, TypeOK
<1>2. lock = t /\ up /\ lastSeq \in Nat /\ IsEntry(entry[t])
  BY DEF LogInv, TypeOK
<1>3. ASSUME edited = "no", stray = "no"
      PROVE  /\ \E data \in Data : entry[t] = Entry(lastSeq + 1, data, lastHash)
             /\ lastSeq >= Len(lines)
             /\ tail = Nothing /\ IsClean(lines) =>
                   lastSeq = Len(lines) /\ lastHash = EndHash(lines)
  BY <1>1, <1>2, <1>3 DEF LogInv, Remembers, Continues
<1>4. ASSUME edited = "no", stray = "no", tail = Nothing PROVE Extends(lines, entry[t])
  <2>1. PICK data \in Data : entry[t] = Entry(lastSeq + 1, data, lastHash)
    BY <1>3, <1>4
  <2>2. /\ entry[t].seq = lastSeq + 1 /\ entry[t].prev = lastHash
        /\ entry[t] = Entry(entry[t].seq, entry[t].data, entry[t].prev)
    BY <2>1 DEF Entry
  <2>3. Len(lines) \in Nat
    BY DEF LogInv, TypeOK
  <2> QED BY <2>2, <2>3, <1>2, <1>3, <1>4 DEF Extends
<1> QED BY <1>1, <1>2, <1>3, <1>4

LEMMA OpenLogKeeps == LogInv /\ OpenLog => LogInv'
<1> SUFFICES ASSUME LogInv, OpenLog PROVE LogInv'
  OBVIOUS
<1> DEFINE c == Content
           n == Len(c)
<1>1. /\ ~ up /\ Readable /\ up' = TRUE
      /\ IF c = <<>> THEN lastSeq' = 0 /\ lastHash' = GENESIS_HASH
                     ELSE lastSeq' = c[n].seq /\ lastHash' = c[n].hash
      /\ stray' = IF stray = "last" THEN "no" ELSE stray
      /\ UNCHANGED <<lines, tail, lock, pc, entry, edited>>
  BY DEF OpenLog, calls
<1>2. IsSeq(c) /\ n \in Nat /\ (c = <<>> <=> n = 0) /\ Len(lines) \in Nat
  BY ContentFacts, OwnMembers, EmptySeq DEF LogInv, IsSeq
<1>3. /\ tail = Nothing => c = lines
      /\ tail # Nothing => n = Len(lines) + 1 /\ c[n] = tail
  BY ContentFacts, Appended DEF Content, LogInv
<1>4. \A t \in Threads : pc[t] = "idle"
  BY <1>1 DEF LogInv, TypeOK
<1>5. n # 0 => c[n] # Junk
  BY <1>1, <1>2 DEF Readable
<1> HIDE DEF c
<1>6. lastSeq' \in Nat
  <2>1. n # 0 /\ c[n] # Junk => IsEntry(c[n])
    BY <1>2, <1>3 DEF LogInv, TypeOK
  <2> QED BY <2>1, <1>1, <1>2, <1>5 DEF IsEntry
<1>7. TypeOK'
  BY <1>1, <1>6 DEF LogInv, TypeOK, IsEntry
<1>8. Content' = Content
  BY <1>1 DEF Content
<1>9. ASSUME edited = "no", stray' = "no" PROVE Remembers' /\ Continues'
  <2>1. n # 0 => c[n].seq = n
    <3>1. IsChain(c) /\ \A j \in 1 .. n : c[j] # Junk
      <4>1. stray # "inside"
        BY <1>9, <1>1
      <4> QED BY <4>1, <1>9, <1>1 DEF LogInv, Readable, c
    <3> QED BY <3>1, <1>2 DEF IsChain
  <2>2. lastSeq' = n /\ (tail = Nothing => lastHash' = EndHash(lines))
    BY <2>1, <1>1, <1>2, <1>3 DEF EndHash
  <2>3. lastSeq' >= Len(lines) /\ (tail = Nothing => lastSeq' = Len(lines))
    BY <2>2, <1>2, <1>3
  <2>4. Remembers'
    BY <2>2, <2>3, <1>1 DEF Remembers, IsClean, EndHash
  <2>5. Continues'
    BY <1>1, <1>4 DEF Continues
  <2> QED BY <2>4, <2>5
<1> QED BY <1>1, <1>7, <1>8, <1>9 DEF LogInv, IsChain, IsFlawed

LEMMA AcquireKeeps ==
    ASSUME LogInv, NEW t \in Threads, NEW data \in Data, Acquire(t, data)
    PROVE  LogInv'
<1> DEFINE e == Entry(lastSeq + 1, data, lastHash)
<1>1. /\ up /\ pc[t] = "idle" /\ lock = Nobody /\ lock' = t
      /\ entry' = [entry EXCEPT ![t] = e] /\ pc' = [pc EXCEPT ![t] = "write"]
      /\ UNCHANGED <<lines, tail, up, lastSeq, lastHash, stray, edited>>
  BY DEF Acquire, state
<1>2. \A u \in Threads : pc[u] = "idle"
  BY <1>1, AuditAssumption DEF LogInv, TypeOK
<1>3. IsEntry(e) /\ e.seq = lastSeq + 1
  BY DEF IsEntry, Entry, LogInv, TypeOK
<1>4. TypeOK'
  <2> HIDE DEF e
  <2> QED BY <1>1, <1>2, <1>3 DEF LogInv, TypeOK, IsEntry
<1>5. Content' = Content
  BY <1>1 DEF Content
<1>6. edited = "no" /\ stray = "no" => Remembers' /\ Continues'
  <2>1. edited = "no" /\ stray = "no" => Remembers
    BY <1>1 DEF LogInv
  <2>2. edited = "no" /\ stray = "no" => Remembers'
    BY <2>1, <1>1, <1>2 DEF Remembers, IsClean, EndHash
  <2>3. Continues'
    <3> SUFFICES ASSUME NEW u \in Threads
                 PROVE  /\ pc'[u] = "write" => u = t
                        /\ pc'[u] # "commit" /\ entry'[t] = e
      BY <1>1 DEF Continues
    <3> HIDE DEF e
    <3> QED BY <1>1, <1>2 DEF LogInv, TypeOK
  <2> QED BY <2>2, <2>3
<1> QED BY <1>1, <1>4, <1>5, <1>6 DEF LogInv, IsChain, IsFlawed

\* A line at the end of the file keeps the chain and the flaw.
LEMMA LineAdded ==
    ASSUME LogInv, NEW t \in Threads, WriteLine(t)
    PROVE  LET x == IF tail = Nothing THEN entry[t] ELSE Junk IN
           /\ pc[t] = "write" /\ tail' = Nothing /\ Content' = lines'
           /\ IsSeq(lines') /\ Len(lines) \in Nat
           /\ Len(lines') = Len(lines) + 1 /\ lines'[Len(lines) + 1] = x
           /\ \A i \in 1 .. Len(lines) : lines'[i] = lines[i]
           /\ \A i \in 1 .. Len(lines') : lines'[i] # Junk => IsEntry(lines'[i])
           /\ edited = "no" /\ stray = "no" => IsChain(lines')
           /\ edited = "history" => IsFlawed(lines')
<1> DEFINE x == IF tail = Nothing THEN entry[t] ELSE Junk
<1>1. /\ pc[t] = "write" /\ lines' = Append(lines, x) /\ tail' = Nothing
  BY DEF WriteLine
<1>2. /\ IsSeq(lines) /\ IsSeq(lines') /\ Len(lines) \in Nat
      /\ Len(lines') = Len(lines) + 1 /\ lines'[Len(lines) + 1] = x
      /\ \A i \in 1 .. Len(lines) : lines'[i] = lines[i]
  BY <1>1, ContentFacts, Appended DEF LogInv, IsSeq
<1>3. x # Junk => IsEntry(x)
  BY <1>1, WriterFacts
<1>4. \A i \in 1 .. Len(lines') : lines'[i] # Junk => IsEntry(lines'[i])
  <2> HIDE DEF x
  <2>1. \A i \in 1 .. Len(lines') : i \in 1 .. Len(lines) \/ i = Len(lines) + 1
    BY <1>2
  <2> QED BY <2>1, <1>2, <1>3 DEF LogInv, TypeOK
<1>5. Content' = lines'
  BY <1>1 DEF Content
<1>6. edited = "no" /\ stray = "no" => IsChain(lines')
  <2>1. edited = "no" /\ stray = "no" => IsChain(lines)
    BY ContentFacts DEF LogInv
  <2>2. edited = "no" /\ stray = "no" => Extends(lines, x)
    BY <1>1, WriterFacts DEF Extends
  <2> QED BY <2>1, <2>2, <1>1, <1>2, ChainGrows
<1>7. edited = "history" => IsFlawed(lines')
  BY <1>1, <1>2, FlawStays DEF LogInv
<1> QED BY <1>1, <1>2, <1>4, <1>5, <1>6, <1>7

LEMMA WriteKeeps ==
    ASSUME LogInv, NEW t \in Threads, Write(t)
    PROVE  LogInv'
<1> DEFINE x == IF tail = Nothing THEN entry[t] ELSE Junk
<1>1. /\ pc' = [pc EXCEPT ![t] = "commit"]
      /\ stray' = IF stray = "no" THEN "no" ELSE "inside"
      /\ UNCHANGED <<up, lastSeq, lastHash, lock, entry, edited>>
  BY DEF Write, state, Behind
<1>2. /\ pc[t] = "write" /\ tail' = Nothing /\ Content' = lines'
      /\ IsSeq(lines') /\ Len(lines) \in Nat
      /\ Len(lines') = Len(lines) + 1 /\ lines'[Len(lines) + 1] = x
      /\ \A i \in 1 .. Len(lines) : lines'[i] = lines[i]
      /\ \A i \in 1 .. Len(lines') : lines'[i] # Junk => IsEntry(lines'[i])
      /\ edited = "no" /\ stray = "no" => IsChain(lines')
      /\ edited = "history" => IsFlawed(lines')
  BY LineAdded DEF Write
<1>3. TypeOK'
  BY <1>1, <1>2 DEF LogInv, TypeOK, IsEntry, IsSeq
<1>4. edited = "no" /\ stray = "no" => Remembers' /\ Continues'
  <2>1. ~ \A u \in Threads : pc'[u] # "commit"
    BY <1>1 DEF LogInv, TypeOK
  <2>2. \A u \in Threads : pc'[u] # "idle" => u = t /\ pc'[u] = "commit"
    BY <1>1, <1>2, WriterFacts DEF LogInv, TypeOK
  <2>3. ASSUME edited = "no", stray = "no"
        PROVE  /\ entry[t].seq >= Len(lines')
               /\ IsClean(lines') => /\ entry[t].seq = Len(lines')
                                     /\ entry[t].hash = EndHash(lines')
    <3>1. entry[t].seq = lastSeq + 1 /\ lastSeq \in Nat /\ lastSeq >= Len(lines)
      <4>1. PICK data \in Data : entry[t] = Entry(lastSeq + 1, data, lastHash)
        BY <2>3, <1>2, WriterFacts
      <4>2. lastSeq \in Nat /\ lastSeq >= Len(lines)
        BY <2>3, <1>2, WriterFacts
      <4> QED BY <4>1, <4>2 DEF Entry
    <3>2. IsClean(lines') => x # Junk /\ IsClean(lines)
      BY <1>2 DEF IsClean
    <3>3. IsClean(lines') => lastSeq = Len(lines) /\ x = entry[t]
      BY <3>2, <2>3, <1>2, WriterFacts
    <3>4. lines' # <<>>
      BY <1>2, EmptySeq
    <3>5. EndHash(lines') = x.hash
      BY <3>4, <1>2 DEF EndHash
    <3> QED BY <3>1, <3>3, <3>5, <1>2
  <2> QED BY <2>1, <2>2, <2>3, <1>1, <1>2 DEF Remembers, Continues
<1> QED BY <1>1, <1>2, <1>3, <1>4 DEF LogInv

\* A line whose append raises still ends a chain.
LEMMA CloseFailsKeeps ==
    ASSUME LogInv, NEW t \in Threads, CloseFails(t)
    PROVE  LogInv'
<1>1. /\ lock' = Nobody /\ pc' = [pc EXCEPT ![t] = "idle"]
      /\ entry' = [entry EXCEPT ![t] = NoEntry]
      /\ stray' = IF stray = "no" THEN "last" ELSE "inside"
      /\ UNCHANGED <<up, lastSeq, lastHash, edited>>
  BY DEF CloseFails, Leave, state, Behind
<1>2. /\ pc[t] = "write" /\ tail' = Nothing /\ Content' = lines'
      /\ IsSeq(lines')
      /\ \A i \in 1 .. Len(lines') : lines'[i] # Junk => IsEntry(lines'[i])
      /\ edited = "no" /\ stray = "no" => IsChain(lines')
      /\ edited = "history" => IsFlawed(lines')
  BY LineAdded DEF CloseFails
<1>3. \A u \in Threads : u # t => pc[u] = "idle"
  BY <1>2, WriterFacts
<1>4. TypeOK'
  BY <1>1, <1>2, <1>3 DEF LogInv, TypeOK, IsEntry, IsSeq
<1> QED BY <1>1, <1>2, <1>4 DEF LogInv

LEMMA CommitKeeps ==
    ASSUME LogInv, NEW t \in Threads, Commit(t)
    PROVE  LogInv'
<1>1. /\ pc[t] = "commit" /\ lastSeq' = entry[t].seq /\ lastHash' = entry[t].hash
      /\ lock' = Nobody /\ pc' = [pc EXCEPT ![t] = "idle"]
      /\ entry' = [entry EXCEPT ![t] = NoEntry]
      /\ UNCHANGED <<lines, tail, up, stray, edited>>
  BY DEF Commit, Leave
<1>2. /\ up /\ IsEntry(entry[t]) /\ \A u \in Threads : u # t => pc[u] = "idle"
  BY <1>1 DEF LogInv, TypeOK
<1>3. entry[t].seq \in Nat
  BY <1>2 DEF IsEntry
<1>4. TypeOK'
  BY <1>1, <1>2, <1>3 DEF LogInv, TypeOK, IsEntry
<1>5. Content' = Content
  BY <1>1 DEF Content
<1>6. edited = "no" /\ stray = "no" => Remembers' /\ Continues'
  <2>1. edited = "no" /\ stray = "no" =>
           /\ tail = Nothing /\ entry[t].seq >= Len(lines)
           /\ IsClean(lines) => /\ entry[t].seq = Len(lines)
                                /\ entry[t].hash = EndHash(lines)
    BY <1>1, <1>2 DEF LogInv, Continues
  <2>2. edited = "no" /\ stray = "no" => Remembers'
    BY <2>1, <1>1 DEF Remembers, IsClean, EndHash
  <2>3. Continues'
    BY <1>1, <1>2 DEF Continues, LogInv, TypeOK
  <2> QED BY <2>2, <2>3
<1> QED BY <1>1, <1>4, <1>5, <1>6 DEF LogInv, IsChain, IsFlawed

\* A write that stops half way leaves a chain, torn or whole.
LEMMA TearKeepsChain ==
    ASSUME LogInv, NEW t \in Threads, Tear(t), lines' = lines
    PROVE  /\ tail' \notin {Nothing, Junk} => IsEntry(tail')
           /\ stray' \in {"no", "last", "inside"}
           /\ stray' = "no" => stray = "no"
           /\ edited = "no" /\ stray' # "inside" => IsChain(Content')
           /\ tail' = Nothing => tail = Nothing
<1>1. PICK r \in {Nothing, Junk, entry[t]} :
         /\ tail' = AfterTear(r)
         /\ stray' = IF r = Nothing THEN stray
                     ELSE IF stray = "no" THEN "no" ELSE "inside"
  BY DEF Tear, Behind, Remains
<1>2. \/ r = Nothing /\ tail' = tail
      \/ r # Nothing /\ tail = Nothing /\ tail' = r
      \/ r # Nothing /\ tail # Nothing /\ tail' = Junk
  BY <1>1 DEF AfterTear
<1>3. /\ pc[t] = "write" /\ IsEntry(entry[t])
      /\ stray \in {"no", "last", "inside"}
  BY WriterFacts DEF Tear, LogInv, TypeOK
<1>4. /\ IsSeq(lines)
      /\ edited = "no" /\ stray = "no" => IsChain(lines)
  BY ContentFacts DEF LogInv
<1>5. CASE r = Nothing /\ tail' = tail
  BY <1>1, <1>3, <1>5 DEF LogInv, TypeOK, Content
<1>6. CASE r # Nothing /\ tail = Nothing /\ tail' = r
  <2>1. edited = "no" /\ stray = "no" => Extends(lines, r)
    BY <1>1, <1>3, <1>6, WriterFacts DEF Extends
  <2>2. Content' = Append(lines, r)
    BY <1>6 DEF Content
  <2> QED BY <2>1, <2>2, <1>1, <1>3, <1>4, <1>6, ChainGrows
<1>7. CASE r # Nothing /\ tail # Nothing /\ tail' = Junk
  <2>1. Content' = Append(lines, Junk) /\ Junk # Nothing
    BY <1>7, AuditAssumption DEF Content
  <2>2. Extends(lines, Junk)
    BY DEF Extends
  <2> QED BY <2>1, <2>2, <1>1, <1>3, <1>4, <1>7, ChainGrows
<1> QED BY <1>2, <1>5, <1>6, <1>7

LEMMA WriteFailsKeeps ==
    ASSUME LogInv, NEW t \in Threads, WriteFails(t)
    PROVE  LogInv'
<1>1. /\ pc[t] = "write" /\ lock' = Nobody /\ pc' = [pc EXCEPT ![t] = "idle"]
      /\ entry' = [entry EXCEPT ![t] = NoEntry]
      /\ UNCHANGED <<lines, up, lastSeq, lastHash, edited>>
  BY DEF WriteFails, Tear, Leave, state
<1>2. /\ tail' \notin {Nothing, Junk} => IsEntry(tail')
      /\ stray' \in {"no", "last", "inside"} /\ (stray' = "no" => stray = "no")
      /\ edited = "no" /\ stray' # "inside" => IsChain(Content')
      /\ tail' = Nothing => tail = Nothing
  BY <1>1, TearKeepsChain DEF WriteFails
<1>3. TypeOK'
  BY <1>1, <1>2 DEF LogInv, TypeOK, IsEntry
<1>4. edited = "no" /\ stray' = "no" => Remembers' /\ Continues'
  <2>1. edited = "no" /\ stray' = "no" =>
           /\ lastSeq >= Len(lines)
           /\ tail = Nothing /\ IsClean(lines) =>
                 lastSeq = Len(lines) /\ lastHash = EndHash(lines)
    BY <1>1, <1>2, WriterFacts
  <2>2. edited = "no" /\ stray' = "no" => Remembers'
    BY <2>1, <1>1, <1>2 DEF Remembers, IsClean, EndHash
  <2>3. Continues'
    BY <1>1, WriterFacts DEF Continues, LogInv, TypeOK
  <2> QED BY <2>2, <2>3
<1> QED BY <1>1, <1>2, <1>3, <1>4 DEF LogInv, IsFlawed

LEMMA LogCrashKeeps == LogInv /\ Crash => LogInv'
<1> SUFFICES ASSUME LogInv, Crash PROVE LogInv'
  OBVIOUS
<1>1. /\ up' = FALSE /\ lastSeq' = 0 /\ lock' = Nobody
      /\ pc' = [t \in Threads |-> "idle"] /\ entry' = [t \in Threads |-> NoEntry]
      /\ UNCHANGED <<lines, edited>>
  BY DEF Crash
<1>2. /\ tail' \notin {Nothing, Junk} => IsEntry(tail')
      /\ stray' \in {"no", "last", "inside"}
      /\ edited = "no" /\ stray' # "inside" => IsChain(Content')
  <2>1. CASE UNCHANGED <<tail, stray>>
    BY <2>1, <1>1 DEF LogInv, TypeOK, Content
  <2>2. ASSUME NEW t \in Threads, Tear(t)
        PROVE  /\ tail' \notin {Nothing, Junk} => IsEntry(tail')
               /\ stray' \in {"no", "last", "inside"}
               /\ edited = "no" /\ stray' # "inside" => IsChain(Content')
    BY <2>2, <1>1, TearKeepsChain
  <2> QED BY <2>1, <2>2 DEF Crash
<1>3. TypeOK'
  BY <1>1, <1>2 DEF LogInv, TypeOK, IsEntry
<1> QED BY <1>1, <1>2, <1>3 DEF LogInv, IsFlawed

\* An altered line no longer hashes to its hash.
LEMMA AlterKeeps ==
    ASSUME LogInv, NEW i \in Int, NEW data \in Data, Alter(i, data)
    PROVE  LogInv'
<1> DEFINE old == lines[i]
           new == [old EXCEPT !.data = data]
<1>1. /\ edited = "no" /\ stray # "inside" /\ i \in 1 .. Len(lines)
      /\ old # Junk /\ old.data # data
      /\ lines' = [lines EXCEPT ![i] = new] /\ edited' = "history"
      /\ UNCHANGED <<tail, up, lastSeq, lastHash, lock, pc, entry, stray>>
  BY DEF Alter, CanEdit, state, calls
<1>2. /\ IsSeq(lines) /\ IsEntry(old)
      /\ old.hash = Hash(old.seq, old.data, old.prev)
  <2>1. IsSeq(lines) /\ IsChain(lines)
    BY <1>1, ContentFacts DEF LogInv
  <2>2. old = Entry(old.seq, old.data, old.prev)
    BY <2>1, <1>1 DEF IsChain
  <2> QED BY <2>1, <2>2, <1>1 DEF LogInv, TypeOK, Entry
<1>3. /\ new.seq = old.seq /\ new.data = data /\ new.prev = old.prev
      /\ new.hash = old.hash /\ IsEntry(new)
  <2> HIDE DEF old
  <2>1. old = [seq |-> old.seq, data |-> old.data, prev |-> old.prev, hash |-> old.hash]
    BY <1>2 DEF IsEntry
  <2>2. new = [seq |-> old.seq, data |-> data, prev |-> old.prev, hash |-> old.hash]
    BY <2>1
  <2> HIDE DEF new
  <2> QED BY <2>2, <1>2 DEF IsEntry
<1>4. Hash(new.seq, new.data, new.prev) # new.hash
  <2> HIDE DEF old, new
  <2> QED BY <1>1, <1>2, <1>3 DEF Hash, old
<1> HIDE DEF new
<1>5. /\ Len(lines') = Len(lines) /\ IsSeq(lines') /\ lines'[i] = new
      /\ \A j \in 1 .. Len(lines) : j # i => lines'[j] = lines[j]
  <2> DEFINE S == {lines[j] : j \in 1 .. Len(lines)} \cup {new}
  <2>1. lines \in Seq(S)
    <3>1. {lines[j] : j \in 1 .. Len(lines)} \subseteq S
      OBVIOUS
    <3>2. lines \in Seq({lines[j] : j \in 1 .. Len(lines)})
      BY <1>2, OwnMembers
    <3> HIDE DEF S
    <3> QED BY <3>1, <3>2, SeqMonotonic
  <2>2. new \in S
    OBVIOUS
  <2> HIDE DEF S
  <2>3. /\ lines' \in Seq(S) /\ Len(lines') = Len(lines)
        /\ \A j \in 1 .. Len(lines) : lines'[j] = IF j = i THEN new ELSE lines[j]
    BY <2>1, <2>2, <1>1, ExceptSeq
  <2> QED BY <2>3, <1>1, Members
<1>6. TypeOK'
  <2>1. \A j \in 1 .. Len(lines') : lines'[j] # Junk => IsEntry(lines'[j])
    BY <1>3, <1>5 DEF LogInv, TypeOK
  <2> QED BY <2>1, <1>1, <1>5 DEF LogInv, TypeOK, IsEntry, IsSeq
<1>7. IsFlawed(lines')
  BY <1>1, <1>4, <1>5 DEF IsFlawed
<1> QED BY <1>1, <1>6, <1>7 DEF LogInv

\* After a line that is taken out comes one whose number is too large.
LEMMA RemoveLineKeeps ==
    ASSUME LogInv, NEW i \in Int, RemoveLine(i)
    PROVE  LogInv'
<1>1. /\ edited = "no" /\ stray # "inside" /\ i \in 1 .. Len(lines)
      /\ lines' = SubSeq(lines, 1, i - 1) \o SubSeq(lines, i + 1, Len(lines))
      /\ edited' = IF i = Len(lines) THEN "tail" ELSE "history"
      /\ UNCHANGED <<tail, up, lastSeq, lastHash, lock, pc, entry, stray>>
  BY DEF RemoveLine, CanEdit, state, calls
<1>2. IsSeq(lines) /\ IsChain(lines) /\ Len(lines) \in Nat
  BY <1>1, ContentFacts DEF LogInv, IsSeq
<1>3. /\ IsSeq(lines') /\ Len(lines') = Len(lines) - 1
      /\ \A j \in 1 .. Len(lines') : lines'[j] = IF j < i THEN lines[j] ELSE lines[j + 1]
  BY <1>1, <1>2, Removed
<1>4. TypeOK'
  <2>1. \A j \in 1 .. Len(lines') : j \in 1 .. Len(lines) /\ j + 1 \in 1 .. Len(lines)
    BY <1>2, <1>3
  <2>2. \A j \in 1 .. Len(lines') : lines'[j] # Junk => IsEntry(lines'[j])
    BY <2>1, <1>3 DEF LogInv, TypeOK
  <2> QED BY <2>2, <1>1, <1>3 DEF LogInv, TypeOK, IsEntry, IsSeq
<1>5. ASSUME i # Len(lines) PROVE IsFlawed(lines')
  <2>1. i \in 1 .. Len(lines') /\ i + 1 \in 1 .. Len(lines)
    <3>1. i \in 1 .. Len(lines)
      BY <1>1
    <3>2. Len(lines') = Len(lines) - 1
      BY <1>3
    <3> QED BY <3>1, <3>2, <1>2, <1>5
  <2>2. lines'[i] = lines[i + 1]
    BY <2>1, <1>3
  <2>3. lines[i + 1] = Junk \/ (lines[i + 1].seq \in Nat /\ lines[i + 1].seq >= i + 1)
    BY <2>1, <1>2 DEF IsChain
  <2> QED BY <2>1, <2>2, <2>3 DEF IsFlawed
<1> QED BY <1>1, <1>4, <1>5 DEF LogInv

\* A line that is repeated is at the wrong position once, or behind a torn line.
LEMMA RepeatKeeps ==
    ASSUME LogInv, NEW i \in Int, Repeat(i)
    PROVE  LogInv'
<1>1. /\ edited = "no" /\ stray # "inside" /\ i \in 1 .. Len(lines)
      /\ lines' = SubSeq(lines, 1, i) \o SubSeq(lines, i, Len(lines))
      /\ edited' = "history"
      /\ UNCHANGED <<tail, up, lastSeq, lastHash, lock, pc, entry, stray>>
  BY DEF Repeat, CanEdit, state, calls
<1>2. IsSeq(lines) /\ IsChain(lines) /\ Len(lines) \in Nat
  BY <1>1, ContentFacts DEF LogInv, IsSeq
<1>3. /\ IsSeq(lines') /\ Len(lines') = Len(lines) + 1
      /\ \A j \in 1 .. Len(lines') : lines'[j] = IF j <= i THEN lines[j] ELSE lines[j - 1]
  BY <1>1, <1>2, Repeated
<1>4. TypeOK'
  <2>1. \A j \in 1 .. Len(lines') : j <= i => j \in 1 .. Len(lines)
    BY <1>1, <1>2, <1>3
  <2>2. \A j \in 1 .. Len(lines') : ~ (j <= i) => j - 1 \in 1 .. Len(lines)
    BY <1>1, <1>2, <1>3
  <2>3. \A j \in 1 .. Len(lines') : lines'[j] # Junk => IsEntry(lines'[j])
    BY <2>1, <2>2, <1>3 DEF LogInv, TypeOK
  <2> QED BY <2>3, <1>1, <1>3 DEF LogInv, TypeOK, IsEntry, IsSeq
<1>5. IsFlawed(lines')
  <2>1. CASE \E j \in 1 .. i : lines[j] = Junk
    <3>1. PICK j \in 1 .. i : lines[j] = Junk
      BY <2>1
    <3>2. j \in 1 .. Len(lines') /\ lines'[j] = Junk
      BY <3>1, <1>1, <1>2, <1>3
    <3> QED BY <3>2 DEF IsFlawed
  <2>2. CASE \A j \in 1 .. i : lines[j] # Junk
    <3>1. lines[i].seq = i
      <4>1. i \in 1 .. i /\ lines[i] # Junk
        BY <2>2, <1>1, <1>2
      <4> QED BY <2>2, <4>1, <1>1, <1>2 DEF IsChain
    <3>2. i + 1 \in 1 .. Len(lines') /\ lines'[i + 1] = lines[i] /\ i + 1 # i
      BY <1>1, <1>2, <1>3
    <3> QED BY <3>1, <3>2 DEF IsFlawed
  <2> QED BY <2>1, <2>2
<1> QED BY <1>1, <1>4, <1>5 DEF LogInv

LEMMA LogInvStarts == Init => LogInv
<1> SUFFICES ASSUME Init PROVE LogInv
  OBVIOUS
<1>1. lines = <<>> /\ Len(lines) = 0 /\ Content = lines
  BY EmptySeq DEF Init, Content
<1>2. IsSeq(lines)
  <2>1. <<>> \in Seq({})
    BY EmptySeq
  <2>2. IsSeq(<<>>)
    BY <2>1, Members
  <2> QED BY <2>2, <1>1
<1>3. TypeOK
  <2>1. Len(lines) \in Nat /\ lines = [i \in 1 .. Len(lines) |-> lines[i]]
    BY <1>2 DEF IsSeq
  <2>2. \A i \in 1 .. Len(lines) : lines[i] # Junk => IsEntry(lines[i])
    BY <1>1
  <2>3. /\ tail = Nothing /\ up = FALSE /\ lastSeq = 0 /\ lock = Nobody
        /\ pc = [t \in Threads |-> "idle"] /\ entry = [t \in Threads |-> NoEntry]
        /\ stray = "no" /\ edited = "no"
    BY DEF Init
  <2> QED BY <2>1, <2>2, <2>3 DEF TypeOK
<1>4. IsChain(Content)
  BY <1>1 DEF IsChain
<1> QED BY <1>3, <1>4 DEF Init, LogInv

LEMMA LogInvKept == LogInv /\ [Next]_vars => LogInv'
<1> SUFFICES ASSUME LogInv, [Next]_vars PROVE LogInv'
  OBVIOUS
<1>1. ASSUME NEW t \in Threads,
             \/ \E data \in Data : Acquire(t, data)
             \/ Write(t) \/ Commit(t) \/ WriteFails(t) \/ CloseFails(t)
      PROVE  LogInv'
  BY <1>1, AcquireKeeps, WriteKeeps, CommitKeeps, WriteFailsKeeps,
     CloseFailsKeeps
<1>2. ASSUME NEW i \in 1 .. MaxEntries, NEW data \in Data,
             Alter(i, data) \/ RemoveLine(i) \/ Repeat(i)
      PROVE  LogInv'
  BY <1>2, AlterKeeps, RemoveLineKeeps, RepeatKeeps
<1>3. CASE UNCHANGED vars
  BY <1>3 DEF vars, state, calls, LogInv, TypeOK, IsEntry, Content, IsChain, IsFlawed,
              Remembers, Continues, IsClean, EndHash
<1> QED BY <1>1, <1>2, <1>3, OpenLogKeeps, LogCrashKeeps DEF Next

\* Types of the log for every set of threads and data; a thread inside append() has
\* the lock, and the log is open.
THEOREM LogTypeCorrect == Spec => []TypeOK
<1>1. LogInv => TypeOK
  BY DEF LogInv
<1> QED BY <1>1, LogInvStarts, LogInvKept, PTL DEF Spec

\* verify() tells an untouched log from an edited one, for every number of threads
\* and entries, and wherever writes fail, tear or the process dies, as long as no
\* process writes on behind a line whose append had raised.
THEOREM TamperEvidence == Spec => []VerifyTells
<1>1. LogInv => VerifyTells
  <2> SUFFICES ASSUME LogInv PROVE VerifyTells
    OBVIOUS
  <2>1. edited = "no" /\ stray # "inside" => IsChain(Content)
    BY DEF LogInv
  <2>2. edited = "history" => IsFlawed(Content)
    BY ContentFacts DEF LogInv
  <2> QED BY <2>1, <2>2, Verdicts DEF VerifyTells
<1> QED BY <1>1, LogInvStarts, LogInvKept, PTL DEF Spec

------------------------------------------------------------------------------
(* The depth recorder.  The last book offered for a row is the last one of *)
(* the buffer, or on file if the buffer has none (IsCovered).  A flush is  *)
(* done with the partitions that are no longer to do (AreWritten); and a   *)
(* torn partition of which this process has a row stays in the buffer,     *)
(* for no flush gets past it.                                              *)

PositionsOf(s, p, t) == {i \in 1 .. Len(s) : s[i].part = p /\ s[i].time = t}
LastOf(s, p, t) ==
    CHOOSE i \in PositionsOf(s, p, t) : \A j \in PositionsOf(s, p, t) : j <= i
BookOf(s, p, t) == s[LastOf(s, p, t)].book
PartsOf(s) == {s[i].part : i \in 1 .. Len(s)}

IsOnFile(p, t) == newest[p][t] # None => RowsOf(file[p])[t] = newest[p][t]

IsCovered ==
    \A p \in Partitions, t \in Times :
        IF PositionsOf(buffer, p, t) # {}
          THEN newest[p][t] = BookOf(buffer, p, t)
          ELSE IsOnFile(p, t) \/ (file[p] = Torn /\ p \in PartsOf(buffer))

AreWritten ==
    step # "idle" =>
        \A p \in PartsOf(buffer) \ todo : \A t \in Times : IsOnFile(p, t)

IsMerged ==
    step = "rewrite" =>
        \A p \in todo : IsNext(p) =>
            file[p] # Torn /\ merged = Merge(RowsOf(file[p]), buffer, p)

DepthInv == RecorderTypeOK /\ IsCovered /\ AreWritten /\ IsMerged

\* The last position of a row in the buffer exists, is the greatest, and is the one
\* whose book a merge writes.
LEMMA LastFacts ==
    ASSUME NEW s \in Seq(Snapshots), NEW p, NEW t, PositionsOf(s, p, t) # {}
    PROVE  /\ LastOf(s, p, t) \in PositionsOf(s, p, t)
           /\ \A j \in PositionsOf(s, p, t) : j <= LastOf(s, p, t)
<1>1. PositionsOf(s, p, t) \in SUBSET Int /\ IsFiniteSet(PositionsOf(s, p, t))
  <2>1. IsFiniteSet(1 .. Len(s)) /\ 1 .. Len(s) \subseteq Int
    BY FS_Interval
  <2>2. PositionsOf(s, p, t) \subseteq 1 .. Len(s)
    BY DEF PositionsOf
  <2> QED BY <2>1, <2>2, FS_Subset
<1>2. \E i \in PositionsOf(s, p, t) : \A j \in PositionsOf(s, p, t) : j <= i
  BY <1>1, GreatestElement
<1> QED BY <1>2 DEF LastOf

LEMMA MergeFacts ==
    ASSUME NEW s \in Seq(Snapshots), NEW p, NEW old \in Rows
    PROVE  /\ Merge(old, s, p) \in Rows
           /\ \A t \in Times : Merge(old, s, p)[t] =
                 IF PositionsOf(s, p, t) = {} THEN old[t] ELSE BookOf(s, p, t)
<1>1. \A t \in Times : Merge(old, s, p)[t] =
         IF PositionsOf(s, p, t) = {} THEN old[t] ELSE BookOf(s, p, t)
  BY DEF Merge, PositionsOf, LastOf, BookOf
<1>2. ASSUME NEW t \in Times, PositionsOf(s, p, t) # {}
      PROVE  BookOf(s, p, t) \in Books
  <2>1. LastOf(s, p, t) \in 1 .. Len(s)
    BY <1>2, LastFacts DEF PositionsOf
  <2>2. s[LastOf(s, p, t)] \in Snapshots
    BY <2>1, ElementOfSeq
  <2> QED BY <2>2 DEF Snapshots, BookOf
<1>3. Merge(old, s, p) = [t \in Times |-> Merge(old, s, p)[t]]
  BY DEF Merge
<1> QED BY <1>1, <1>2, <1>3 DEF Rows

\* What one more snapshot does to the last position of every row.
LEMMA AppendedLast ==
    ASSUME NEW s \in Seq(Snapshots), NEW x \in Snapshots, NEW p, NEW t
    PROVE  /\ x.part = p /\ x.time = t =>
                 /\ PositionsOf(Append(s, x), p, t) # {}
                 /\ BookOf(Append(s, x), p, t) = x.book
           /\ ~ (x.part = p /\ x.time = t) =>
                 /\ PositionsOf(Append(s, x), p, t) = PositionsOf(s, p, t)
                 /\ PositionsOf(s, p, t) # {} =>
                       BookOf(Append(s, x), p, t) = BookOf(s, p, t)
<1> DEFINE u == Append(s, x)
           n == Len(s)
<1>1. /\ u \in Seq(Snapshots) /\ n \in Nat /\ Len(u) = n + 1 /\ u[n + 1] = x
      /\ \A i \in 1 .. n : u[i] = s[i]
  BY AppendProperties, LenProperties
<1>2. 1 .. n + 1 = (1 .. n) \cup {n + 1}
  BY <1>1
<1> HIDE DEF u, n
<1>3. CASE x.part = p /\ x.time = t
  <2>1. n + 1 \in PositionsOf(u, p, t)
    BY <1>1, <1>2, <1>3 DEF PositionsOf
  <2>2. /\ LastOf(u, p, t) \in PositionsOf(u, p, t) /\ n + 1 <= LastOf(u, p, t)
    BY <1>1, <2>1, LastFacts
  <2>3. LastOf(u, p, t) \in 1 .. n + 1
    BY <2>2, <1>1 DEF PositionsOf
  <2>4. LastOf(u, p, t) = n + 1
    BY <2>2, <2>3, <1>1
  <2>5. PositionsOf(u, p, t) # {} /\ BookOf(u, p, t) = x.book
    BY <2>1, <2>4, <1>1 DEF BookOf
  <2> QED BY <2>5, <1>3 DEF u
<1>4. CASE ~ (x.part = p /\ x.time = t)
  <2>1. PositionsOf(u, p, t) = PositionsOf(s, p, t)
    BY <1>1, <1>2, <1>4 DEF PositionsOf, n
  <2>2. LastOf(u, p, t) = LastOf(s, p, t)
    BY <2>1 DEF LastOf
  <2>3. PositionsOf(s, p, t) # {} => LastOf(s, p, t) \in 1 .. n
    BY LastFacts DEF PositionsOf, n
  <2>4. PositionsOf(s, p, t) # {} => BookOf(u, p, t) = BookOf(s, p, t)
    BY <2>2, <2>3, <1>1 DEF BookOf
  <2> QED BY <2>1, <2>4, <1>4 DEF u
<1> QED BY <1>3, <1>4

LEMMA PartFacts ==
    ASSUME NEW s \in Seq(Snapshots), NEW p, NEW t
    PROVE  /\ PositionsOf(s, p, t) # {} =>
                 p \in PartsOf(s) /\ BookOf(s, p, t) \in Books
           /\ PartsOf(s) \subseteq Partitions
<1>1. \A i \in 1 .. Len(s) : s[i] \in Snapshots
  BY ElementOfSeq
<1>2. PositionsOf(s, p, t) # {} => LastOf(s, p, t) \in 1 .. Len(s)
  BY LastFacts DEF PositionsOf
<1>3. ASSUME PositionsOf(s, p, t) # {} PROVE p \in PartsOf(s)
  BY <1>3 DEF PositionsOf, PartsOf
<1>4. PartsOf(s) \subseteq Partitions
  BY <1>1 DEF PartsOf, Snapshots
<1>5. \A x \in Snapshots : x.book \in Books
  BY DEF Snapshots
<1> QED BY <1>1, <1>2, <1>3, <1>4, <1>5 DEF BookOf

\* The partitions are flushed in order: at most one is next.
LEMMA OneIsNext ==
    ASSUME DepthInv, NEW p \in todo, NEW q \in todo, IsNext(p), IsNext(q)
    PROVE  p = q
<1>1. p \in Nat /\ q \in Nat
  <2>1. todo \subseteq Partitions
    BY PartFacts DEF DepthInv, RecorderTypeOK, PartsOf
  <2> QED BY <2>1, DepthAssumption
<1> QED BY <1>1 DEF IsNext

\* A row that is not covered is None; its file is read as rows.
LEMMA RowFacts ==
    ASSUME DepthInv, NEW p \in Partitions
    PROVE  /\ RowsOf(file[p]) \in Rows
           /\ newest[p] \in Rows
           /\ file[p] # Torn => file[p] \in Rows \cup {None}
BY RowsAreTold DEF DepthInv, RecorderTypeOK, RowsOf, NoRows, Rows

LEMMA RecordKeeps ==
    ASSUME DepthInv, NEW s \in Snapshots, Record(s)
    PROVE  DepthInv'
<1>1. /\ step = "idle" /\ offered < MaxSnapshots
      /\ buffer' = Append(buffer, s) /\ offered' = offered + 1
      /\ newest' = [newest EXCEPT ![s.part][s.time] = s.book]
      /\ UNCHANGED <<file, recorded, merged, restarts>>
  BY DEF Record
<1>2. buffer \in Seq(Snapshots) /\ Len(buffer) \in Nat /\ todo = {}
      /\ s.part \in Partitions /\ s.time \in Times /\ s.book \in Books
  BY <1>1, LenProperties DEF DepthInv, RecorderTypeOK, Snapshots
<1>3. /\ buffer' \in Seq(Snapshots) /\ Len(buffer') = Len(buffer) + 1
      /\ buffer'[Len(buffer) + 1] = s
      /\ \A i \in 1 .. Len(buffer) : buffer'[i] = buffer[i]
  BY <1>1, <1>2, AppendProperties, LenProperties
<1>4. PartsOf(buffer') = PartsOf(buffer) \cup {s.part}
  <2>1. 1 .. Len(buffer') = (1 .. Len(buffer)) \cup {Len(buffer) + 1}
    BY <1>2, <1>3
  <2> QED BY <2>1, <1>3 DEF PartsOf
<1>5. /\ newest' \in [Partitions -> Rows]
      /\ \A p \in Partitions, t \in Times : newest'[p][t] =
            IF p = s.part /\ t = s.time THEN s.book ELSE newest[p][t]
  BY <1>1, <1>2 DEF DepthInv, RecorderTypeOK, Rows
<1>6. \/ step' = "idle" /\ todo' = {} /\ written' = written
      \/ step' = "merge" /\ todo' = PartsOf(buffer') /\ written' = 0
  BY <1>1, <1>2 DEF Record, StartFlush, PartsOf
<1>7. PartsOf(buffer') # {}
  BY <1>4
<1>8. RecorderTypeOK'
  <2>1. Len(buffer') <= offered' /\ offered' \in 0 .. MaxSnapshots
    BY <1>1, <1>2, <1>3, DepthAssumption DEF DepthInv, RecorderTypeOK
  <2>2. todo' \subseteq PartsOf(buffer') /\ (step' = "idle" <=> todo' = {})
    BY <1>6, <1>7
  <2>3. written' \in Nat /\ step' \in {"idle", "merge", "rewrite"}
    BY <1>6 DEF DepthInv, RecorderTypeOK
  <2> QED BY <1>1, <1>3, <1>5, <2>1, <2>2, <2>3 DEF DepthInv, RecorderTypeOK, PartsOf
<1>9. IsCovered'
  <2> SUFFICES ASSUME NEW p \in Partitions, NEW t \in Times
               PROVE  IF PositionsOf(buffer', p, t) # {}
                        THEN newest'[p][t] = BookOf(buffer', p, t)
                        ELSE \/ newest'[p][t] # None => RowsOf(file'[p])[t] = newest'[p][t]
                             \/ file'[p] = Torn /\ p \in PartsOf(buffer')
    BY DEF IsCovered, IsOnFile
  <2>1. /\ s.part = p /\ s.time = t =>
              PositionsOf(buffer', p, t) # {} /\ BookOf(buffer', p, t) = s.book
        /\ ~ (s.part = p /\ s.time = t) =>
              /\ PositionsOf(buffer', p, t) = PositionsOf(buffer, p, t)
              /\ PositionsOf(buffer, p, t) # {} =>
                    BookOf(buffer', p, t) = BookOf(buffer, p, t)
    BY <1>1, <1>2, AppendedLast
  <2>2. CASE s.part = p /\ s.time = t
    BY <2>1, <2>2, <1>5
  <2>3. CASE ~ (s.part = p /\ s.time = t)
    <3>1. newest'[p][t] = newest[p][t] /\ file'[p] = file[p]
      BY <2>3, <1>1, <1>5
    <3> QED BY <2>1, <2>3, <3>1, <1>4 DEF DepthInv, IsCovered, IsOnFile
  <2> QED BY <2>2, <2>3
<1> QED BY <1>6, <1>8, <1>9 DEF DepthInv, AreWritten, IsMerged

LEMMA FlushKeeps == DepthInv /\ Flush => DepthInv'
<1> SUFFICES ASSUME DepthInv, Flush PROVE DepthInv'
  OBVIOUS
<1>1. /\ step = "idle" /\ buffer # <<>>
      /\ step' = "merge" /\ todo' = PartsOf(buffer) /\ written' = 0
      /\ UNCHANGED <<file, buffer, recorded, merged, offered, newest, restarts>>
  BY DEF Flush, StartFlush, PartsOf
<1>2. PartsOf(buffer) # {}
  <2>1. buffer \in Seq(Snapshots)
    BY DEF DepthInv, RecorderTypeOK
  <2>2. Len(buffer) \in Nat \ {0}
    BY <2>1, <1>1, EmptySeq, LenProperties
  <2>3. 1 \in 1 .. Len(buffer)
    BY <2>2
  <2> QED BY <2>3 DEF PartsOf
<1>3. RecorderTypeOK'
  BY <1>1, <1>2 DEF DepthInv, RecorderTypeOK, PartsOf
<1>4. IsCovered'
  BY <1>1 DEF DepthInv, IsCovered, IsOnFile
<1> QED BY <1>1, <1>3, <1>4 DEF DepthInv, AreWritten, IsMerged

LEMMA MergeKeeps ==
    ASSUME DepthInv, NEW p \in Partitions, MergePartition(p)
    PROVE  DepthInv'
<1>1. /\ step = "merge" /\ IsNext(p) /\ file[p] # Torn
      /\ merged' = Merge(RowsOf(file[p]), buffer, p) /\ step' = "rewrite"
      /\ UNCHANGED <<file, buffer, recorded, todo, written, offered, newest, restarts>>
  BY DEF MergePartition
<1>2. merged' \in Rows
  BY <1>1, RowFacts, MergeFacts DEF DepthInv, RecorderTypeOK
<1>3. RecorderTypeOK'
  BY <1>1, <1>2 DEF DepthInv, RecorderTypeOK
<1>4. IsCovered' /\ AreWritten'
  BY <1>1 DEF DepthInv, IsCovered, AreWritten, IsOnFile, PositionsOf, LastOf, PartsOf
<1>5. IsMerged'
  BY <1>1, OneIsNext DEF IsMerged, IsNext
<1> QED BY <1>3, <1>4, <1>5 DEF DepthInv

\* With the partition written, all its rows are on file: those of the buffer are
\* the last ones of it, the others were on file before.
LEMMA RewriteKeeps ==
    ASSUME DepthInv, NEW p \in Partitions, RewritePartition(p)
    PROVE  DepthInv'
<1>1. /\ step = "rewrite" /\ IsNext(p) /\ p \in todo
      /\ file' = [file EXCEPT ![p] = merged] /\ merged' = NoRows
      /\ todo' = todo \ {p}
      /\ UNCHANGED <<offered, newest, restarts>>
  BY DEF RewritePartition, IsNext
<1>2. /\ file[p] # Torn /\ merged = Merge(RowsOf(file[p]), buffer, p)
      /\ merged \in Rows /\ buffer \in Seq(Snapshots) /\ merged \notin {None, Torn}
  BY <1>1, RowsAreTold DEF DepthInv, IsMerged, RecorderTypeOK
<1>3. \A q \in Partitions : file'[q] = IF q = p THEN merged ELSE file[q]
  BY <1>1 DEF DepthInv, RecorderTypeOK
<1>4. ASSUME NEW t \in Times
      PROVE  newest[p][t] # None => RowsOf(file'[p])[t] = newest[p][t]
  <2>1. RowsOf(file'[p])[t] =
           IF PositionsOf(buffer, p, t) = {} THEN RowsOf(file[p])[t]
           ELSE BookOf(buffer, p, t)
    BY <1>2, <1>3, RowFacts, MergeFacts DEF RowsOf
  <2> QED BY <2>1, <1>2 DEF DepthInv, IsCovered, IsOnFile
<1>5. ASSUME NEW q \in PartsOf(buffer) \ todo', NEW t \in Times
      PROVE  newest[q][t] # None => RowsOf(file'[q])[t] = newest[q][t]
  <2>1. q \in Partitions
    BY <1>2, PartFacts
  <2>2. q # p => q \in PartsOf(buffer) \ todo
    BY <1>1, <1>5
  <2>3. q # p => IsOnFile(q, t)
    BY <2>2, <1>1 DEF DepthInv, AreWritten
  <2> QED BY <2>1, <2>3, <1>3, <1>4 DEF IsOnFile
<1>6. Count(merged) \in Nat
  BY DepthAssumption, FS_Subset, FS_CardinalityType DEF Count
<1>7. CASE todo' # {}
  <2>1. step' = "merge" /\ written' = written + Count(merged)
        /\ UNCHANGED <<buffer, recorded>>
    BY <1>7 DEF RewritePartition
  <2>2. RecorderTypeOK'
    <3>1. file' \in [Partitions -> Rows \cup {None, Torn}] /\ NoRows \in Rows
      BY <1>1, <1>2 DEF DepthInv, RecorderTypeOK, NoRows, Rows
    <3>2. written' \in Nat
      BY <2>1, <1>6 DEF DepthInv, RecorderTypeOK
    <3> QED BY <3>1, <3>2, <2>1, <1>1, <1>7 DEF DepthInv, RecorderTypeOK
  <2>3. AreWritten'
    BY <2>1, <1>1, <1>5 DEF AreWritten, IsOnFile
  <2>4. IsCovered'
    <3> SUFFICES ASSUME NEW q \in Partitions, NEW t \in Times
                 PROVE  IF PositionsOf(buffer, q, t) # {}
                          THEN newest[q][t] = BookOf(buffer, q, t)
                          ELSE \/ newest[q][t] # None => RowsOf(file'[q])[t] = newest[q][t]
                               \/ file'[q] = Torn /\ q \in PartsOf(buffer)
      BY <2>1, <1>1 DEF IsCovered, IsOnFile
    <3>1. CASE q = p
      BY <3>1, <1>4 DEF DepthInv, IsCovered
    <3>2. CASE q # p
      BY <3>2, <1>3 DEF DepthInv, IsCovered, IsOnFile
    <3> QED BY <3>1, <3>2
  <2> QED BY <2>1, <2>2, <2>3, <2>4 DEF DepthInv, IsMerged
<1>8. CASE todo' = {}
  <2>1. /\ step' = "idle" /\ buffer' = <<>> /\ written' = 0
        /\ recorded' = recorded + written + Count(merged)
    BY <1>8 DEF RewritePartition
  <2>2. Len(buffer') = 0 /\ buffer' \in Seq(Snapshots)
    BY <2>1, EmptySeq
  <2>3. RecorderTypeOK'
    <3>1. file' \in [Partitions -> Rows \cup {None, Torn}] /\ NoRows \in Rows
      BY <1>1, <1>2 DEF DepthInv, RecorderTypeOK, NoRows, Rows
    <3>2. recorded' \in Nat
      BY <2>1, <1>6 DEF DepthInv, RecorderTypeOK
    <3>3. 0 <= offered
      BY DepthAssumption DEF DepthInv, RecorderTypeOK
    <3> QED BY <3>1, <3>2, <3>3, <2>1, <2>2, <1>1, <1>8 DEF DepthInv, RecorderTypeOK
  <2>4. IsCovered'
    <3> SUFFICES ASSUME NEW q \in Partitions, NEW t \in Times
                 PROVE  newest[q][t] # None => RowsOf(file'[q])[t] = newest[q][t]
      BY <2>2, <1>1 DEF IsCovered, IsOnFile, PositionsOf
    <3>1. CASE q \in PartsOf(buffer)
      BY <3>1, <1>5, <1>8
    <3>2. CASE q \notin PartsOf(buffer)
      <4>1. q # p
        BY <3>2, <1>1 DEF DepthInv, RecorderTypeOK, PartsOf
      <4>2. PositionsOf(buffer, q, t) = {}
        BY <3>2, <1>2, PartFacts
      <4> QED BY <4>1, <4>2, <3>2, <1>3 DEF DepthInv, IsCovered, IsOnFile
    <3> QED BY <3>1, <3>2
  <2> QED BY <2>1, <2>3, <2>4, <1>8 DEF DepthInv, AreWritten, IsMerged
<1> QED BY <1>7, <1>8

\* A flush that raises keeps the buffer, and with it every row it covers; a
\* partition that tears is one of the buffer.
LEMMA FlushRaises ==
    ASSUME DepthInv, NEW p \in Partitions, WriteRaises(p) \/ RewriteTears(p)
    PROVE  DepthInv'
<1>1. /\ step' = "idle" /\ todo' = {} /\ merged' = NoRows /\ written' = 0
      /\ UNCHANGED <<buffer, recorded, offered, newest, restarts>>
  BY DEF WriteRaises, RewriteTears, Raise
<1>2. \/ UNCHANGED file
      \/ p \in todo /\ file' = [file EXCEPT ![p] = Torn]
  BY DEF WriteRaises, RewriteTears, IsNext
<1>3. p \in todo => p \in PartsOf(buffer)
  BY DEF DepthInv, RecorderTypeOK, PartsOf
<1>4. /\ file' \in [Partitions -> Rows \cup {None, Torn}]
      /\ \A q \in Partitions :
            file'[q] = file[q] \/ (file'[q] = Torn /\ q \in PartsOf(buffer))
  BY <1>2, <1>3 DEF DepthInv, RecorderTypeOK
<1>5. RecorderTypeOK'
  BY <1>1, <1>4 DEF DepthInv, RecorderTypeOK, NoRows, Rows
<1>6. IsCovered'
  <2> SUFFICES ASSUME NEW q \in Partitions, NEW t \in Times
               PROVE  IF PositionsOf(buffer, q, t) # {}
                        THEN newest[q][t] = BookOf(buffer, q, t)
                        ELSE \/ newest[q][t] # None => RowsOf(file'[q])[t] = newest[q][t]
                             \/ file'[q] = Torn /\ q \in PartsOf(buffer)
    BY <1>1 DEF IsCovered, IsOnFile
  <2> QED BY <1>4 DEF DepthInv, IsCovered, IsOnFile
<1> QED BY <1>1, <1>5, <1>6 DEF DepthInv, AreWritten, IsMerged

LEMMA NothingBuffered ==
    ASSUME buffer' = <<>>, newest' = [p \in Partitions |-> NoRows],
           file' \in [Partitions -> Rows \cup {None, Torn}],
           offered' = 0, recorded' = 0, step' = "idle", todo' = {}, merged' = NoRows,
           written' = 0, restarts' \in 0 .. MaxRestarts
    PROVE  DepthInv'
<1>1. Len(buffer') = 0 /\ buffer' \in Seq(Snapshots) /\ NoRows \in Rows
  BY EmptySeq DEF NoRows, Rows
<1>2. RecorderTypeOK'
  BY <1>1, DepthAssumption DEF RecorderTypeOK
<1>3. IsCovered'
  BY <1>1 DEF IsCovered, IsOnFile, NoRows, PositionsOf
<1> QED BY <1>2, <1>3 DEF DepthInv, AreWritten, IsMerged

LEMMA RestartKeeps == DepthInv /\ Restart => DepthInv'
<1> SUFFICES ASSUME DepthInv, Restart PROVE DepthInv'
  OBVIOUS
<1>1. file' \in [Partitions -> Rows \cup {None, Torn}]
  BY DEF Restart, DepthInv, RecorderTypeOK
<1>2. restarts' \in 0 .. MaxRestarts
  BY DepthAssumption DEF Restart, DepthInv, RecorderTypeOK
<1> QED BY <1>1, <1>2, NothingBuffered DEF Restart

LEMMA DepthInvStarts == RecorderInit => DepthInv
<1> SUFFICES ASSUME RecorderInit PROVE DepthInv
  OBVIOUS
<1>1. Len(buffer) = 0 /\ buffer \in Seq(Snapshots) /\ NoRows \in Rows
  BY EmptySeq DEF RecorderInit, NoRows, Rows
<1>2. RecorderTypeOK
  BY <1>1, DepthAssumption DEF RecorderInit, RecorderTypeOK
<1>3. IsCovered
  BY <1>1 DEF RecorderInit, IsCovered, IsOnFile, NoRows, PositionsOf
<1> QED BY <1>2, <1>3 DEF RecorderInit, DepthInv, AreWritten, IsMerged

LEMMA DepthInvKept == DepthInv /\ [RecorderNext]_recorderVars => DepthInv'
<1> SUFFICES ASSUME DepthInv, [RecorderNext]_recorderVars PROVE DepthInv'
  OBVIOUS
<1>1. CASE UNCHANGED recorderVars
  BY <1>1 DEF recorderVars, recorder, DepthInv, RecorderTypeOK, IsCovered, AreWritten,
              IsMerged, IsOnFile, IsNext
<1>2. ASSUME NEW p \in Partitions,
             \/ MergePartition(p) \/ RewritePartition(p)
             \/ WriteRaises(p) \/ RewriteTears(p)
      PROVE  DepthInv'
  BY <1>2, MergeKeeps, RewriteKeeps, FlushRaises
<1> QED BY <1>1, <1>2, RecordKeeps, FlushKeeps, RestartKeeps DEF RecorderNext

\* Types of the recorder for every partition, timestamp, book and batch size; the
\* partitions still to be written are partitions of the buffer.
THEOREM RecorderTypeCorrect == RecorderSpec => []RecorderTypeOK
<1>1. DepthInv => RecorderTypeOK
  BY DEF DepthInv
<1> QED BY <1>1, DepthInvStarts, DepthInvKept, PTL DEF RecorderSpec

\* With an empty buffer the archive holds the last book offered of every row,
\* wherever writes raise, tear a file or the process dies.
THEOREM ArchiveIsTheLatest == RecorderSpec => []ArchiveIsLatest
<1>1. DepthInv => ArchiveIsLatest
  <2> SUFFICES ASSUME DepthInv, buffer = <<>>, NEW p \in Partitions, NEW t \in Times
               PROVE  newest[p][t] # None => RowsOf(file[p])[t] = newest[p][t]
    BY DEF ArchiveIsLatest
  <2>1. PositionsOf(buffer, p, t) = {} /\ PartsOf(buffer) = {}
    BY EmptySeq DEF PositionsOf, PartsOf
  <2> QED BY <2>1 DEF DepthInv, IsCovered, IsOnFile
<1> QED BY <1>1, DepthInvStarts, DepthInvKept, PTL DEF RecorderSpec

------------------------------------------------------------------------------
(* The tick stream.  From start() on the heartbeat is touched by every     *)
(* batch and by every connection, so it is never behind the last ticks.    *)

IsTouched ==
    IF link = "off" THEN lastActivity = Never /\ ~ inform /\ subscribed = {}
    ELSE lastTick \in 0 .. now /\ lastActivity \in lastTick .. now

StreamInv == StreamTypeOK /\ EveryTickAccounted /\ IsTouched

\* A batch is a sequence of at least one tick.
LEMMA BatchFacts ==
    ASSUME NEW ticks \in Batches
    PROVE  /\ Len(ticks) \in 1 .. MaxBatch
           /\ \A i \in 1 .. Len(ticks) :
                 ticks[i].token \in Tokens \cup {Unknown} /\ ticks[i].kind \in Kinds
<1> DEFINE Tick == [token : Tokens \cup {Unknown}, kind : Kinds]
<1>1. PICK k \in 1 .. MaxBatch : ticks \in [1 .. k -> Tick]
  BY DEF Batches
<1>2. \A i \in 1 .. k : ticks[i].token \in Tokens \cup {Unknown} /\ ticks[i].kind \in Kinds
  BY <1>1
<1> HIDE DEF Tick
<1>3. k \in Nat /\ ticks \in Seq(Tick)
  BY <1>1
<1>4. Len(ticks) = k
  BY <1>1, <1>3
<1> QED BY <1>2, <1>4

LEMMA OnTicksKeeps ==
    ASSUME StreamInv, NEW ticks \in Batches, OnTicks(ticks)
    PROVE  StreamInv'
<1>1. /\ subscribed # {} /\ batch = <<>> /\ Len(received) + Len(ticks) <= MaxTicks
      /\ batch' = [i \in 1 .. Len(ticks) |->
                      [n |-> Len(received) + i, token |-> ticks[i].token,
                       kind |-> ticks[i].kind]]
      /\ received' = received \o batch'
      /\ lastActivity' = now /\ lastTick' = now
      /\ UNCHANGED <<link, subscribed, inform, queue, counters, now, taken, cut>>
  BY DEF OnTicks
<1>2. /\ received \in Seq(Raw) /\ Len(received) \in Nat /\ Len(ticks) \in 1 .. MaxBatch
      /\ Len(ticks) \in Nat
  BY BatchFacts, LenProperties, StreamAssumption DEF StreamInv, StreamTypeOK
<1>3. batch' \in Seq(Raw) /\ Len(batch') = Len(ticks)
  <2>1. \A i \in 1 .. Len(ticks) : batch'[i] \in Raw
    <3> SUFFICES ASSUME NEW i \in 1 .. Len(ticks) PROVE batch'[i] \in Raw
      OBVIOUS
    <3>1. Len(received) + i \in 1 .. MaxTicks
      BY <1>1, <1>2, StreamAssumption
    <3> QED BY <3>1, <1>1, BatchFacts DEF Raw
  <2>2. batch' \in [1 .. Len(ticks) -> Raw]
    BY <2>1, <1>1
  <2> QED BY <2>2, <1>2
<1>4. received' \in Seq(Raw) /\ Len(received') = Len(received) + Len(batch')
  BY <1>1, <1>2, <1>3, ConcatProperties
<1>5. Len(batch) = 0 /\ link # "off"
  BY <1>1, EmptySeq DEF StreamInv, StreamTypeOK
<1>6. StreamTypeOK'
  BY <1>1, <1>2, <1>3, <1>4 DEF StreamInv, StreamTypeOK, counters
<1>7. EveryTickAccounted'
  <2>1. Len(queue) \in Nat /\ Len(taken) \in Nat /\ dropped \in Nat /\ unknown \in Nat
        /\ cut \in Nat
    BY LenProperties DEF StreamInv, StreamTypeOK
  <2> QED BY <2>1, <1>1, <1>2, <1>3, <1>4, <1>5
          DEF StreamInv, EveryTickAccounted, counters
<1>8. IsTouched'
  BY <1>1, <1>5 DEF StreamInv, StreamTypeOK, IsTouched
<1> QED BY <1>6, <1>7, <1>8 DEF StreamInv

\* A tick leaves its batch for the queue or for one of the counters.
LEMMA ParseKeeps == StreamInv /\ (ParseTick \/ ParseRaises) => StreamInv'
<1> SUFFICES ASSUME StreamInv, ParseTick \/ ParseRaises PROVE StreamInv'
  OBVIOUS
<1>1. batch # <<>> /\ batch \in Seq(Raw) /\ queue \in Seq(Raw) /\ taken \in Seq(Raw)
      /\ received \in Seq(Raw)
  BY DEF StreamInv, StreamTypeOK, ParseTick, ParseRaises
<1>2. /\ Head(batch) \in Raw /\ Tail(batch) \in Seq(Raw)
      /\ Len(Tail(batch)) = Len(batch) - 1 /\ Len(batch) \in Nat /\ Len(queue) \in Nat
      /\ Len(taken) \in Nat /\ Len(received) \in Nat
  BY <1>1, HeadTailProperties, LenProperties
<1>3. /\ UNCHANGED <<link, subscribed, inform, lastActivity, now, taken, received,
                     lastTick>>
  BY DEF ParseTick, ParseRaises
<1>4. IsTouched'
  BY <1>3 DEF StreamInv, IsTouched
<1>5. /\ dropped \in Nat /\ unknown \in Nat /\ cut \in Nat /\ Capacity \in Nat \ {0}
      /\ Len(received) = Len(batch) + Len(queue) + Len(taken) + dropped + unknown + cut
      /\ Len(queue) <= Capacity /\ Len(batch) <= MaxBatch /\ MaxBatch \in Nat
  BY StreamAssumption DEF StreamInv, StreamTypeOK, EveryTickAccounted
<1>6. CASE ParseTick
  <2>1. batch' = Tail(batch) /\ cut' = cut
    BY <1>6 DEF ParseTick
  <2>2. \/ unknown' = unknown + 1 /\ UNCHANGED <<queue, dropped>>
        \/ /\ Len(queue) < Capacity /\ queue' = Append(queue, Head(batch))
           /\ UNCHANGED <<dropped, unknown>>
        \/ dropped' = dropped + 1 /\ UNCHANGED <<queue, unknown>>
    BY <1>6 DEF ParseTick, Enqueue
  <2>3. /\ queue' \in Seq(Raw) /\ Len(queue') \in Nat /\ Len(queue') <= Capacity
        /\ dropped' \in Nat /\ unknown' \in Nat
    <3>1. /\ Append(queue, Head(batch)) \in Seq(Raw)
          /\ Len(Append(queue, Head(batch))) = Len(queue) + 1
      BY <1>1, <1>2, AppendProperties
    <3>2. CASE unknown' = unknown + 1 /\ UNCHANGED <<queue, dropped>>
      BY <3>2, <1>1, <1>2, <1>5
    <3>3. CASE /\ Len(queue) < Capacity /\ queue' = Append(queue, Head(batch))
               /\ UNCHANGED <<dropped, unknown>>
      <4>1. queue' \in Seq(Raw) /\ Len(queue') = Len(queue) + 1
        BY <3>1, <3>3
      <4> QED BY <4>1, <3>3, <1>2, <1>5
    <3>4. CASE dropped' = dropped + 1 /\ UNCHANGED <<queue, unknown>>
      BY <3>4, <1>1, <1>2, <1>5
    <3> QED BY <2>2, <3>2, <3>3, <3>4
  <2>4. batch' \in Seq(Raw) /\ Len(batch') = Len(batch) - 1
    BY <2>1, <1>2
  <2>5. StreamTypeOK'
    <3>1. Len(batch') <= MaxBatch
      BY <2>4, <1>2, <1>5
    <3> QED BY <3>1, <2>4, <2>1, <2>3, <1>3 DEF StreamInv, StreamTypeOK
  <2>6. EveryTickAccounted'
    <3>1. Len(received) = Len(batch') + Len(queue) + Len(taken) + dropped + unknown + cut + 1
      BY <2>4, <1>2, <1>5
    <3>2. CASE unknown' = unknown + 1 /\ UNCHANGED <<queue, dropped>>
      <4>1. Len(queue') = Len(queue) /\ Len(taken') = Len(taken)
        BY <3>2, <1>3
      <4>2. /\ received' = received /\ cut' = cut /\ dropped' = dropped
            /\ unknown' = unknown + 1
        BY <3>2, <2>1, <1>3
      <4> QED BY <4>1, <4>2, <3>1, <1>2, <1>5 DEF EveryTickAccounted
    <3>3. CASE /\ Len(queue) < Capacity /\ queue' = Append(queue, Head(batch))
               /\ UNCHANGED <<dropped, unknown>>
      <4>1. Len(queue') = Len(queue) + 1
        BY <3>3, <1>1, <1>2, AppendProperties
      <4>2. /\ received' = received /\ cut' = cut /\ dropped' = dropped
            /\ unknown' = unknown /\ Len(taken') = Len(taken)
        BY <3>3, <2>1, <1>3
      <4> QED BY <4>1, <4>2, <3>1, <1>2, <1>5 DEF EveryTickAccounted
    <3>4. CASE dropped' = dropped + 1 /\ UNCHANGED <<queue, unknown>>
      BY <3>1, <3>4, <2>1, <2>4, <1>2, <1>3, <1>5 DEF EveryTickAccounted
    <3> QED BY <2>2, <3>2, <3>3, <3>4
  <2> QED BY <2>5, <2>6, <1>4 DEF StreamInv
<1>7. CASE ParseRaises
  <2>1. batch' = <<>> /\ cut' = cut + Len(batch) /\ UNCHANGED <<queue, counters>>
    BY <1>7 DEF ParseRaises
  <2>2. Len(batch') = 0 /\ batch' \in Seq(Raw)
    BY <2>1, EmptySeq
  <2>3. StreamTypeOK'
    BY <2>1, <2>2, <1>2, <1>3, <1>5 DEF StreamInv, StreamTypeOK, counters
  <2>4. EveryTickAccounted'
    BY <2>1, <2>2, <1>2, <1>3, <1>5 DEF EveryTickAccounted, counters
  <2> QED BY <2>3, <2>4, <1>4 DEF StreamInv
<1> QED BY <1>6, <1>7

LEMMA TakeKeeps == StreamInv /\ Take => StreamInv'
<1> SUFFICES ASSUME StreamInv, Take PROVE StreamInv'
  OBVIOUS
<1>1. /\ queue # <<>> /\ queue \in Seq(Raw) /\ taken \in Seq(Raw)
      /\ queue' = Tail(queue) /\ taken' = Append(taken, Head(queue))
      /\ UNCHANGED <<link, subscribed, inform, batch, counters, lastActivity, now,
                     received, lastTick, cut>>
  BY DEF StreamInv, StreamTypeOK, Take
<1>2. /\ Head(queue) \in Raw /\ queue' \in Seq(Raw) /\ Len(queue') = Len(queue) - 1
      /\ Len(queue) \in Nat
  BY <1>1, HeadTailProperties, LenProperties
<1>3. taken' \in Seq(Raw) /\ Len(taken') = Len(taken) + 1 /\ Len(taken) \in Nat
  BY <1>1, <1>2, AppendProperties, LenProperties
<1>4. StreamTypeOK'
  BY <1>1, <1>2, <1>3, StreamAssumption DEF StreamInv, StreamTypeOK, counters
<1>5. EveryTickAccounted'
  <2>1. /\ Len(batch) \in Nat /\ Len(received) \in Nat
        /\ dropped \in Nat /\ unknown \in Nat /\ cut \in Nat
    BY LenProperties DEF StreamInv, StreamTypeOK
  <2>2. Len(received) = Len(batch) + Len(queue') + Len(taken') + dropped + unknown + cut
    BY <2>1, <1>2, <1>3 DEF StreamInv, EveryTickAccounted
  <2> QED BY <2>2, <1>1 DEF EveryTickAccounted, counters
<1> QED BY <1>1, <1>4, <1>5 DEF StreamInv, IsTouched

LEMMA SocketKeeps ==
    /\ StreamInv
    /\ Start \/ Open \/ OnConnect \/ Drop \/ AttemptsUsedUp \/ Stop
    => StreamInv'
<1> SUFFICES ASSUME StreamInv,
                    Start \/ Open \/ OnConnect \/ Drop \/ AttemptsUsedUp \/ Stop
             PROVE  StreamInv'
  OBVIOUS
<1>1. UNCHANGED <<batch, queue, counters, now, taken, received, cut>>
  BY DEF Start, Open, OnConnect, Drop, AttemptsUsedUp, Stop
<1>2. StreamTypeOK'
  <2>1. /\ link' \in Links /\ inform' \in BOOLEAN /\ subscribed' \subseteq Tokens
        /\ subscribed' # {} => link' = "open"
    BY DEF StreamInv, StreamTypeOK, Links,
           Start, Open, OnConnect, Drop, AttemptsUsedUp, Stop
  <2>2. lastActivity' \in {lastActivity, now} /\ lastTick' \in {lastTick, now}
    BY DEF Start, Open, OnConnect, Drop, AttemptsUsedUp, Stop
  <2>3. now \in Nat
    BY StreamAssumption DEF StreamInv, StreamTypeOK
  <2> QED BY <2>1, <2>2, <2>3, <1>1 DEF StreamInv, StreamTypeOK, counters
<1>3. IsTouched'
  BY <1>1 DEF StreamInv, StreamTypeOK, IsTouched,
              Start, Open, OnConnect, Drop, AttemptsUsedUp, Stop
<1> QED BY <1>1, <1>2, <1>3 DEF StreamInv, EveryTickAccounted, counters

LEMMA StreamInvStarts == StreamInit => StreamInv
<1> SUFFICES ASSUME StreamInit PROVE StreamInv
  OBVIOUS
<1>1. <<>> \in Seq(Raw) /\ Len(<<>>) = 0
  BY EmptySeq
<1>2. StreamTypeOK
  <2>1. /\ Len(batch) <= MaxBatch /\ Len(queue) <= Capacity /\ Len(received) <= MaxTicks
        /\ now \in 0 .. MaxTime
    BY <1>1, StreamAssumption DEF StreamInit
  <2>2. /\ batch \in Seq(Raw) /\ queue \in Seq(Raw) /\ taken \in Seq(Raw)
        /\ received \in Seq(Raw)
    BY <1>1 DEF StreamInit
  <2> QED BY <2>1, <2>2 DEF StreamInit, StreamTypeOK, Links
<1>3. EveryTickAccounted
  <2>1. /\ Len(received) = 0 /\ Len(batch) = 0 /\ Len(queue) = 0 /\ Len(taken) = 0
        /\ dropped = 0 /\ unknown = 0 /\ cut = 0
    BY <1>1 DEF StreamInit
  <2> QED BY <2>1 DEF EveryTickAccounted
<1> QED BY <1>2, <1>3 DEF StreamInit, StreamInv, IsTouched

LEMMA StreamInvKept == StreamInv /\ [StreamNext]_streamVars => StreamInv'
<1> SUFFICES ASSUME StreamInv, [StreamNext]_streamVars PROVE StreamInv'
  OBVIOUS
<1>1. CASE UNCHANGED streamVars
  BY <1>1 DEF streamVars, counters, StreamInv, StreamTypeOK, EveryTickAccounted, IsTouched
<1>2. CASE SecondPasses
  BY <1>2, StreamAssumption
     DEF SecondPasses, counters, StreamInv, StreamTypeOK, EveryTickAccounted, IsTouched
<1> QED BY <1>1, <1>2, OnTicksKeeps, ParseKeeps, TakeKeeps, SocketKeeps DEF StreamNext

\* Types of the tick stream; the queue never outgrows its capacity.
THEOREM StreamTypeCorrect == StreamSpec => []StreamTypeOK
<1>1. StreamInv => StreamTypeOK
  BY DEF StreamInv
<1> QED BY <1>1, StreamInvStarts, StreamInvKept, PTL DEF StreamSpec

\* Every tick delivered is in its callback, queued, taken, or counted, for every
\* capacity, batch and number of ticks, and however slow the draining thread is.
THEOREM TicksAreAccounted == StreamSpec => []EveryTickAccounted
<1>1. StreamInv => EveryTickAccounted
  BY DEF StreamInv
<1> QED BY <1>1, StreamInvStarts, StreamInvKept, PTL DEF StreamSpec

\* A stale feed is one on which no tick came for longer than the timeout.
THEOREM AlarmsAreTrue == StreamSpec => []NoFalseAlarm
<1>1. StreamInv => NoFalseAlarm
  BY StreamAssumption DEF StreamInv, StreamTypeOK, IsTouched, NoFalseAlarm, IsStale
<1> QED BY <1>1, StreamInvStarts, StreamInvKept, PTL DEF StreamSpec

------------------------------------------------------------------------------
(* The recorder of reactions.  The bars it finds around an announcement are a  *)
(* beginning of those the complete history has there; once there is one behind *)
(* the announcement, the anchor is the one the complete history gives, and with *)
(* the last bar of the drift in it so are all the others.                       *)

Bar == [t : Int, close : Int]
InOrder(h) == \A m, n \in DOMAIN h : m < n => h[m].t < h[n].t
Begins(p, h) == /\ p \in Seq(Bar) /\ h \in Seq(Bar) /\ Len(p) <= Len(h)
                  /\ \A n \in 1 .. Len(p) : p[n] = h[n]

\* What is read of a history is the part between its first and its last bar around
\* the announcement.
LEMMA WindowFacts ==
    ASSUME NEW h \in Seq(Bar), NEW e, Inside(h, e) # {}
    PROVE  \E lo, hi \in Inside(h, e) :
              /\ \A n \in Inside(h, e) : lo <= n /\ n <= hi
              /\ BarsAround(h, e) \in Seq(Bar) /\ Len(BarsAround(h, e)) = hi - lo + 1
              /\ \A i \in 1 .. hi - lo + 1 : BarsAround(h, e)[i] = h[lo + i - 1]
<1> DEFINE I == Inside(h, e)
           lo == Min(I)
           hi == Max(I)
<1>1. I \in SUBSET Int /\ I \subseteq 1 .. Len(h) /\ IsFiniteSet(I) /\ I # {}
  <2>1. I \subseteq 1 .. Len(h) /\ Len(h) \in Nat
    BY LenProperties DEF Inside
  <2>2. IsFiniteSet(1 .. Len(h))
    BY <2>1, FS_Interval
  <2> QED BY <2>1, <2>2, FS_Subset
<1> HIDE DEF I
<1>2. lo \in I /\ \A n \in I : lo <= n
  <2>1. \E x \in I : \A y \in I : x <= y
    BY <1>1, LeastElement
  <2> QED BY <2>1 DEF Min
<1>3. hi \in I /\ \A n \in I : n <= hi
  <2>1. \E x \in I : \A y \in I : y <= x
    BY <1>1, GreatestElement
  <2>2. \E x \in I : \A y \in I : x >= y
    BY <1>1, <2>1
  <2>3. hi \in I /\ \A y \in I : hi >= y
    BY <2>2 DEF Max
  <2> QED BY <1>1, <2>3
<1> HIDE DEF lo, hi
<1>4. BarsAround(h, e) = SubSeq(h, lo, hi)
  BY DEF BarsAround, I, lo, hi
<1>5. lo \in Int /\ hi \in Int /\ lo <= hi /\ \A i \in lo .. hi : i \in 1 .. Len(h)
  BY <1>1, <1>2, <1>3
<1>6. \A i \in lo .. hi : h[i] \in Bar
  BY <1>5, ElementOfSeq
<1>7. /\ SubSeq(h, lo, hi) \in Seq(Bar) /\ Len(SubSeq(h, lo, hi)) = hi - lo + 1
      /\ \A i \in 1 .. hi - lo + 1 : SubSeq(h, lo, hi)[i] = h[lo + i - 1]
  BY <1>5, <1>6, SubSeqProperties
<1> QED BY <1>2, <1>3, <1>4, <1>7 DEF I

\* The bars around an announcement in a part of the history begin those in all of it.
LEMMA LongerHistory ==
    ASSUME NEW p, NEW h, Begins(p, h), InOrder(h), NEW e, BarsAround(p, e) # << >>
    PROVE  Begins(BarsAround(p, e), BarsAround(h, e)) /\ InOrder(BarsAround(h, e))
<1>1. Inside(p, e) # {}
  BY DEF BarsAround
<1>2. /\ Len(p) \in Nat /\ Len(h) \in Nat /\ p \in Seq(Bar) /\ h \in Seq(Bar)
      /\ Inside(p, e) \subseteq 1 .. Len(p) /\ Inside(h, e) \subseteq 1 .. Len(h)
  BY LenProperties DEF Begins, Inside
<1>3. \A n \in 1 .. Len(p) : n \in Inside(p, e) <=> n \in Inside(h, e)
  BY <1>2 DEF Begins, Inside
<1>4. PICK lo \in Inside(p, e), hi \in Inside(p, e) :
         /\ \A n \in Inside(p, e) : lo <= n /\ n <= hi
         /\ BarsAround(p, e) \in Seq(Bar) /\ Len(BarsAround(p, e)) = hi - lo + 1
         /\ \A i \in 1 .. hi - lo + 1 : BarsAround(p, e)[i] = p[lo + i - 1]
  <2>1. p \in Seq(Bar)
    BY <1>2
  <2> QED BY ONLY <2>1, <1>1, WindowFacts
<1>5. Inside(h, e) # {}
  BY <1>1, <1>2, <1>3
<1>6. PICK first \in Inside(h, e), last \in Inside(h, e) :
         /\ \A n \in Inside(h, e) : first <= n /\ n <= last
         /\ BarsAround(h, e) \in Seq(Bar) /\ Len(BarsAround(h, e)) = last - first + 1
         /\ \A i \in 1 .. last - first + 1 : BarsAround(h, e)[i] = h[first + i - 1]
  <2>1. h \in Seq(Bar)
    BY <1>2
  <2> QED BY ONLY <2>1, <1>5, WindowFacts
<1>7. /\ lo \in Int /\ hi \in Int /\ first \in Int /\ last \in Int
      /\ 1 <= first /\ 1 <= lo /\ hi <= Len(p) /\ last <= Len(h)
      /\ lo \in Inside(h, e) /\ hi \in Inside(h, e)
  <2>1. lo \in 1 .. Len(p) /\ hi \in 1 .. Len(p)
    BY <1>2
  <2>2. first \in 1 .. Len(h) /\ last \in 1 .. Len(h)
    BY <1>2
  <2>3. lo \in Inside(h, e) /\ hi \in Inside(h, e)
    BY <2>1, <1>3
  <2>4. Len(p) \in Nat /\ Len(h) \in Nat
    BY <1>2
  <2> QED BY ONLY <2>1, <2>2, <2>3, <2>4
<1>8. first = lo /\ hi <= last
  <2>1. first <= lo /\ hi <= last
    BY <1>6, <1>7
  <2>2. first \in 1 .. Len(p)
    BY <1>2, <1>7, <2>1
  <2>3. lo <= first
    BY <1>3, <1>4, <2>2
  <2> QED BY <1>7, <2>1, <2>3
<1>9. ASSUME NEW i \in 1 .. hi - lo + 1 PROVE BarsAround(p, e)[i] = BarsAround(h, e)[i]
  <2>1. i \in 1 .. last - first + 1 /\ lo + i - 1 \in 1 .. Len(p)
    BY <1>2, <1>7, <1>8
  <2>2. p[lo + i - 1] = h[lo + i - 1]
    BY <2>1 DEF Begins
  <2> QED BY <1>4, <1>6, <1>8, <2>1, <2>2
<1>10. InOrder(BarsAround(h, e))
  <2>1. DOMAIN BarsAround(h, e) = 1 .. last - first + 1 /\ DOMAIN h = 1 .. Len(h)
    BY <1>2, <1>6, LenProperties
  <2>2. ASSUME NEW m \in 1 .. last - first + 1, NEW n \in 1 .. last - first + 1, m < n
        PROVE  BarsAround(h, e)[m].t < BarsAround(h, e)[n].t
    <3>1. /\ first + m - 1 \in 1 .. Len(h) /\ first + n - 1 \in 1 .. Len(h)
          /\ first + m - 1 < first + n - 1
      BY <1>2, <1>7, <2>2
    <3>2. h[first + m - 1].t < h[first + n - 1].t
      BY <2>1, <3>1 DEF InOrder
    <3> QED BY <1>6, <3>2
  <2> QED BY <2>1, <2>2 DEF InOrder
<1> QED BY <1>4, <1>6, <1>7, <1>8, <1>9, <1>10 DEF Begins

\* With a bar behind the announcement the anchor is settled.
LEMMA SameAnchor ==
    ASSUME NEW p, NEW h, Begins(p, h), InOrder(h), NEW e, e.time \in Int,
           Anchor(p, e) < Len(p)
    PROVE  Anchor(p, e) \in Nat /\ Anchor(h, e) = Anchor(p, e)
<1> DEFINE B(s) == {n \in DOMAIN s : s[n].t <= e.time}
<1>1. /\ Len(p) \in Nat /\ Len(h) \in Nat /\ DOMAIN p = 1 .. Len(p) /\ DOMAIN h = 1 .. Len(h)
      /\ Len(p) <= Len(h)
      /\ \A n \in 1 .. Len(p) : p[n] = h[n]
      /\ \A n \in 1 .. Len(h) : h[n].t \in Int
  <2>1. \A n \in 1 .. Len(h) : h[n] \in Bar
    BY ElementOfSeq DEF Begins
  <2> QED BY <2>1, LenProperties DEF Begins, Bar
<1>2. PICK n \in 1 .. Len(p) : ~ (p[n].t <= e.time)
  <2> SUFFICES ASSUME \A n \in 1 .. Len(p) : p[n].t <= e.time PROVE FALSE
    OBVIOUS
  <2>1. B(p) = 1 .. Len(p)
    BY <1>1
  <2>2. Cardinality(1 .. Len(p)) = IF 1 > Len(p) THEN 0 ELSE Len(p) - 1 + 1
    <3>1. 1 \in Int /\ Len(p) \in Int
      BY <1>1
    <3> QED BY <3>1, FS_Interval
  <2>3. Anchor(p, e) = Cardinality(B(p))
    BY DEF Anchor
  <2> HIDE DEF B
  <2>4. Anchor(p, e) = Len(p)
    BY <1>1, <2>1, <2>2, <2>3
  <2> QED BY <1>1, <2>4
<1>3. ASSUME NEW k \in B(h) PROVE k \in B(p)
  <2>1. k \in 1 .. Len(h) /\ n \in 1 .. Len(h) /\ h[k].t <= e.time /\ ~ (h[n].t <= e.time)
    BY <1>1, <1>2, <1>3
  <2>2. h[k].t < h[n].t
    BY <1>1, <2>1
  <2>3. ~ (n < k)
    <3>1. n < k => h[n].t < h[k].t
      BY <1>1, <2>1 DEF InOrder
    <3> QED BY <1>1, <2>1, <2>2, <3>1
  <2>4. k \in 1 .. Len(p)
    BY <1>1, <2>1, <2>3
  <2> QED BY <1>1, <2>1, <2>4
<1>4. B(p) \subseteq B(h)
  BY <1>1
<1>5. B(p) = B(h)
  BY <1>3, <1>4
<1>6. Cardinality(B(p)) \in Nat
  <2>1. IsFiniteSet(1 .. Len(p)) /\ B(p) \subseteq 1 .. Len(p)
    BY <1>1, FS_Interval
  <2>2. IsFiniteSet(B(p))
    BY <2>1, FS_Subset
  <2> HIDE DEF B
  <2> QED BY <2>2, FS_CardinalityType
<1>7. Anchor(p, e) = Cardinality(B(p)) /\ Anchor(h, e) = Cardinality(B(h))
  BY DEF Anchor
<1> HIDE DEF B
<1> QED BY <1>5, <1>6, <1>7

\* So a record that a part of the history gives is the record of all of it.
LEMMA RecordSettles ==
    ASSUME NEW s \in DOMAIN Listed, NEW p, Begins(p, Listed[s]), NEW e \in Announcements,
           e.symbol = s, RecordOne(p, e) # << >>
    PROVE  IsSettled(Head(RecordOne(p, e)))
<1> DEFINE h == Listed[s]
           asked == [symbol |-> s, time |-> e.time, actual |-> 0, estimate |-> 0]
           b == BarsAround(p, e)
           c == BarsAround(h, e)
           anchor == Anchor(b, e)
           react == anchor + ReactionDays
           drift == react + DriftDays
<1>1. h \in Seq(Bar) /\ InOrder(h) /\ e.time \in Int
  BY HistoryAssumption DEF Bar, InOrder, Announcements
<1>2. /\ ReactionDays \in Nat /\ ReactionDays > 0 /\ DriftDays \in Nat /\ DriftDays > 0
      /\ PreDays \in Nat /\ PreDays > 0
  BY EventAssumption
<1>3. /\ ~ (anchor - PreDays < 1) /\ ~ (drift > Len(b)) /\ ~ (b[anchor].close <= 0)
      /\ Head(RecordOne(p, e)).symbol = s /\ Head(RecordOne(p, e)).time = e.time
      /\ Head(RecordOne(p, e)).pre = <<b[anchor - PreDays].close, b[anchor].close>>
      /\ Head(RecordOne(p, e)).reaction = <<b[anchor].close, b[react].close>>
      /\ Head(RecordOne(p, e)).drift = <<b[react].close, b[drift].close>>
  BY DEF RecordOne, DriftEnd
<1>4. BarsAround(h, asked) = c /\ \A x : Anchor(x, asked) = Anchor(x, e)
  BY DEF BarsAround, Inside, Anchor
<1> HIDE DEF h, b, c, anchor, asked
<1>5. anchor \in Nat
  <2>1. b \in Seq(Bar)
    <3>1. CASE Inside(p, e) = {}
      BY <3>1 DEF BarsAround, b
    <3>2. CASE Inside(p, e) # {}
      BY <3>2, WindowFacts DEF b, Begins
    <3> QED BY <3>1, <3>2
  <2>2. IsFiniteSet(1 .. Len(b)) /\ DOMAIN b = 1 .. Len(b)
    BY <2>1, LenProperties, FS_Interval
  <2>3. IsFiniteSet({n \in DOMAIN b : b[n].t <= e.time})
    BY <2>2, FS_Subset
  <2> QED BY <2>3, FS_CardinalityType DEF Anchor, anchor
<1>6. b # << >>
  BY <1>2, <1>3, <1>5
<1>7. Begins(b, c) /\ InOrder(c)
  BY <1>1, <1>6, LongerHistory DEF b, c, h
<1>8. Len(b) \in Nat /\ Len(c) \in Nat /\ Len(b) <= Len(c)
      /\ \A n \in 1 .. Len(b) : b[n] = c[n]
  BY <1>7, LenProperties DEF Begins
<1>9. Anchor(c, e) = anchor
  <2>1. anchor < Len(b)
    BY <1>2, <1>3, <1>5, <1>8
  <2> QED BY <1>1, <1>7, <2>1, SameAnchor DEF anchor
<1>10. /\ anchor - PreDays \in 1 .. Len(b) /\ anchor \in 1 .. Len(b) /\ react \in 1 .. Len(b)
       /\ drift \in 1 .. Len(b) /\ ~ (drift > Len(c))
  BY <1>2, <1>3, <1>5, <1>8
<1>11. /\ c[anchor - PreDays] = b[anchor - PreDays] /\ c[anchor] = b[anchor]
       /\ c[react] = b[react] /\ c[drift] = b[drift]
  BY <1>8, <1>10
<1>12. /\ RecordOne(h, asked) # << >>
       /\ Head(RecordOne(h, asked)).pre = <<b[anchor - PreDays].close, b[anchor].close>>
       /\ Head(RecordOne(h, asked)).reaction = <<b[anchor].close, b[react].close>>
       /\ Head(RecordOne(h, asked)).drift = <<b[react].close, b[drift].close>>
  <2> DEFINE row == [symbol |-> asked.symbol, time |-> asked.time,
                     surprise |-> Surprise(asked),
                     pre |-> <<c[anchor - PreDays].close, c[anchor].close>>,
                     reaction |-> <<c[anchor].close, c[react].close>>,
                     drift |-> <<c[react].close, c[drift].close>>,
                     until |-> c[drift].t]
  <2>1. BarsAround(h, asked) = c /\ Anchor(c, asked) = anchor
    BY <1>4, <1>9
  <2>2. c[anchor].close = b[anchor].close
    BY <1>11
  <2>3. ~ (anchor - PreDays < 1 \/ drift > Len(c) \/ c[anchor].close <= 0)
    BY <1>3, <1>10, <2>2
  <2>4. RecordOne(h, asked) = <<row>>
    BY ONLY <2>1, <2>3 DEF RecordOne, DriftEnd, react, drift
  <2>5. RecordOne(h, asked) # << >> /\ Head(RecordOne(h, asked)) = row
    BY <2>4
  <2>6. /\ row.pre = <<c[anchor - PreDays].close, c[anchor].close>>
        /\ row.reaction = <<c[anchor].close, c[react].close>>
        /\ row.drift = <<c[react].close, c[drift].close>>
    OBVIOUS
  <2> HIDE DEF row
  <2> QED BY <2>5, <2>6, <1>11
<1> QED BY <1>3, <1>12 DEF IsSettled, h, asked

------------------------------------------------------------------------------

EventTypeOK ==
    /\ archived \in [DOMAIN Listed -> Nat]
    /\ \A s \in DOMAIN Listed : archived[s] <= Len(Listed[s])
    /\ announced \in Seq(Announcements) /\ IsSeq(records)

\* Whatever record() has returned, write() is about to write, or is on file.
EventInv ==
    /\ EventTypeOK
    /\ \A n \in 1 .. Len(records) : IsSettled(records[n])
    /\ \A key \in DOMAIN merging : IsSettled(merging[key])
    /\ RecordsSettle

LEMMA ArchiveIsPrefix ==
    ASSUME EventTypeOK, NEW s \in DOMAIN Listed
    PROVE  Begins(Archive(s), Listed[s])
<1>1. Listed[s] \in Seq(Bar) /\ Len(Listed[s]) \in Nat /\ archived[s] \in Nat
      /\ archived[s] <= Len(Listed[s])
  BY HistoryAssumption, LenProperties DEF EventTypeOK, Bar
<1>2. \A i \in 1 .. archived[s] : Listed[s][i] \in Bar
  BY <1>1, ElementOfSeq
<1>3. /\ Archive(s) \in Seq(Bar) /\ Len(Archive(s)) = archived[s]
      /\ \A i \in 1 .. archived[s] : Archive(s)[i] = Listed[s][i]
  <2> DEFINE a == SubSeq(Listed[s], 1, archived[s])
  <2>1. /\ a \in Seq(Bar) /\ Len(a) = IF 1 <= archived[s] THEN archived[s] - 1 + 1 ELSE 0
        /\ \A i \in 1 .. archived[s] - 1 + 1 : a[i] = Listed[s][1 + i - 1]
    BY <1>1, <1>2, SubSeqProperties
  <2> HIDE DEF a
  <2>2. Len(a) = archived[s] /\ \A i \in 1 .. archived[s] : a[i] = Listed[s][i]
    BY <1>1, <2>1
  <2> QED BY <2>1, <2>2 DEF Archive, a
<1> QED BY <1>1, <1>3 DEF Begins

\* The last row of a key is one of the rows.
LEMMA MergedRows ==
    ASSUME IsSeq(records), NEW old, NEW key \in DOMAIN WithRecords(old, records)
    PROVE  \/ \E n \in 1 .. Len(records) : WithRecords(old, records)[key] = records[n]
           \/ key \in DOMAIN old /\ WithRecords(old, records)[key] = old[key]
<1> DEFINE W == WithKey(records, key)
<1>1. W \subseteq 1 .. Len(records) /\ Len(records) \in Nat
      /\ DOMAIN records = 1 .. Len(records)
  BY DEF IsSeq, WithKey
<1>2. CASE W # {}
  <2>1. W \in SUBSET Int /\ IsFiniteSet(W)
    <3>1. IsFiniteSet(1 .. Len(records))
      BY <1>1, FS_Interval
    <3> QED BY <1>1, <3>1, FS_Subset
  <2> HIDE DEF W
  <2>2. \E x \in W : \A y \in W : y <= x
    BY <1>2, <2>1, GreatestElement
  <2>3. Max(W) \in W
    <3>1. \E x \in W : \A y \in W : x >= y
      BY <2>1, <2>2
    <3> QED BY <3>1 DEF Max
  <2>4. WithRecords(old, records)[key] = records[Max(W)]
    BY <1>2 DEF WithRecords, W
  <2> QED BY <1>1, <2>3, <2>4
<1>3. CASE W = {}
  BY <1>1, <1>3 DEF WithRecords, WithKey
<1> QED BY <1>2, <1>3

\* One more event is looked up in what is archived by now.
LEMMA RecordNextKeeps == EventInv /\ RecordNext => EventInv'
<1> SUFFICES ASSUME EventInv, RecordNext PROVE EventInv'
  OBVIOUS
<1> DEFINE event == Head(announced)
           found == RecordOne(Archive(event.symbol), event)
<1>1. /\ announced \in Seq(Announcements) /\ announced # << >> /\ IsSeq(records)
      /\ announced' = Tail(announced)
      /\ UNCHANGED <<archived, merging, store>>
      /\ records' = IF found = << >> THEN records ELSE Append(records, Head(found))
  BY DEF EventInv, EventTypeOK, RecordNext
<1>2. event \in Announcements /\ Tail(announced) \in Seq(Announcements)
  BY <1>1, HeadTailProperties
<1> HIDE DEF event
<1>3. found # << >> => IsSettled(Head(found))
  <2>1. event.symbol \in DOMAIN Listed
    BY <1>2 DEF Announcements
  <2>2. Begins(Archive(event.symbol), Listed[event.symbol])
    BY <2>1, ArchiveIsPrefix DEF EventInv
  <2> QED BY <1>2, <2>1, <2>2, RecordSettles
<1> HIDE DEF found
<1>4. IsSeq(records') /\ \A n \in 1 .. Len(records') : IsSettled(records'[n])
  <2>1. CASE found = << >>
    BY <1>1, <2>1 DEF EventInv
  <2>2. CASE found # << >>
    <3> DEFINE r == Append(records, Head(found))
    <3>1. /\ IsSeq(r) /\ Len(r) = Len(records) + 1 /\ r[Len(records) + 1] = Head(found)
          /\ \A i \in 1 .. Len(records) : r[i] = records[i]
      BY <1>1, Appended
    <3> HIDE DEF r
    <3>2. ASSUME NEW n \in 1 .. Len(r) PROVE IsSettled(r[n])
      <4>1. n \in 1 .. Len(records) \/ n = Len(records) + 1
        BY <1>1, <3>1 DEF IsSeq
      <4> QED BY <1>3, <2>2, <3>1, <4>1 DEF EventInv
    <3>3. records' = r
      BY <1>1, <2>2 DEF r
    <3> QED BY <3>1, <3>2, <3>3
  <2> QED BY <2>1, <2>2
<1>5. RecordsSettle' /\ \A key \in DOMAIN merging' : IsSettled(merging'[key])
  BY <1>1 DEF EventInv, RecordsSettle
<1> QED BY <1>1, <1>2, <1>4, <1>5 DEF EventInv, EventTypeOK

\* The other steps move rows without changing them.
LEMMA EventInvKept == EventInv /\ [EventNext]_eventVars => EventInv'
<1> SUFFICES ASSUME EventInv, [EventNext]_eventVars PROVE EventInv'
  OBVIOUS
<1>1. ASSUME NEW s \in DOMAIN Listed, ArchiveBar(s) PROVE EventInv'
  <2>1. archived' \in [DOMAIN Listed -> Nat]
        /\ \A q \in DOMAIN Listed : archived'[q] <= Len(Listed[q])
    <3>1. Len(Listed[s]) \in Nat
      BY HistoryAssumption, LenProperties
    <3> QED BY <1>1, <3>1 DEF ArchiveBar, EventInv, EventTypeOK
  <2> QED BY <1>1, <2>1 DEF ArchiveBar, EventInv, EventTypeOK, RecordsSettle
<1>2. ASSUME NEW events \in Calendars, RecordEvents(events) PROVE EventInv'
  <2>1. announced' \in Seq(Announcements) /\ IsSeq(records') /\ Len(records') = 0
    BY <1>2, EventAssumption DEF RecordEvents, IsSeq
  <2> QED BY <1>2, <2>1 DEF RecordEvents, EventInv, EventTypeOK, RecordsSettle
<1>3. CASE ReadAndMerge
  <2>1. \A key \in DOMAIN merging' : IsSettled(merging'[key])
    BY <1>3, MergedRows DEF ReadAndMerge, EventInv, EventTypeOK, RecordsSettle
  <2> QED BY <1>3, <2>1 DEF ReadAndMerge, EventInv, EventTypeOK, RecordsSettle
<1>4. CASE RewriteStore
  BY <1>4 DEF RewriteStore, NoRow, EventInv, EventTypeOK, RecordsSettle
<1>5. CASE GiveUp
  <2>1. IsSeq(<< >>) /\ Len(<< >>) = 0 /\ << >> \in Seq(Announcements)
    BY DEF IsSeq
  <2> QED BY <1>5, <2>1 DEF GiveUp, NoRow, EventInv, EventTypeOK, RecordsSettle
<1>6. CASE BuildStudy \/ UNCHANGED eventVars
  <2>1. UNCHANGED <<archived, announced, records, merging, store>>
    BY <1>6 DEF BuildStudy, eventVars
  <2> QED BY <2>1 DEF EventInv, EventTypeOK, RecordsSettle
<1> QED BY <1>1, <1>2, <1>3, <1>4, <1>5, <1>6, RecordNextKeeps DEF EventNext

\* A reaction on file is what the complete history gives, however early it was
\* recorded, in whatever batches and with whatever bars missing at the time, for
\* every history in order, every calendar and windows of every length
\* (EventReactionRecorder._record_one, ParquetEventReactionStore.write).
THEOREM ReactionsSettle == EventSpec => []RecordsSettle
<1>1. EventInit => EventInv
  <2>1. IsSeq(<< >>) /\ Len(<< >>) = 0 /\ << >> \in Seq(Announcements)
    BY DEF IsSeq
  <2>2. \A s \in DOMAIN Listed : 0 <= Len(Listed[s])
    BY HistoryAssumption, LenProperties
  <2> QED BY <2>1, <2>2 DEF EventInit, NoRow, EventInv, EventTypeOK, RecordsSettle
<1>2. EventInv => RecordsSettle
  BY DEF EventInv
<1> QED BY <1>1, <1>2, EventInvKept, PTL DEF EventSpec
===============================================================================
