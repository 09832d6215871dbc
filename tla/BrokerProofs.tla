------------------------------ MODULE BrokerProofs ------------------------------
(***************************************************************************)
(* The token bucket keeps its promise for every rate, burst and number of  *)
(* threads.  RateBounded relates pairs of past requests, so it is not      *)
(* inductive: a step that grants a request needs to know what the bucket   *)
(* still holds.  Credit is that link: what is in the bucket and what was   *)
(* let through since request i never exceed the burst and what the ticks   *)
(* since request i earned.                                                 *)
(*                                                                         *)
(* The session that calls through the limiter comes last: its steps are    *)
(* the limiter's or none, a lone call is sent with a token no older than   *)
(* it found, and one writer's set() of a secret is all or nothing.         *)
(***************************************************************************)
EXTENDS BrokerSession, TLAPS

Credit ==
    \A i \in 1 .. Len(granted) :
        /\ granted[i] <= updated
        /\ tokens + (Len(granted) - i + 1) * Unit
             <= Capacity + (updated - granted[i]) * Rate

IInv == TypeOK /\ Credit /\ RateBounded

\* What a refill leaves in the bucket: no more than its capacity, and no more than
\* what was there with what the ticks since then earned.
LEMMA RefillFacts ==
    ASSUME TypeOK
    PROVE  /\ Refilled \in Int /\ 0 <= Refilled /\ Refilled <= Capacity
           /\ Refilled <= tokens + (now - updated) * Rate
<1>1. /\ Rate \in Nat /\ Capacity \in Nat /\ tokens \in Int /\ 0 <= tokens
      /\ tokens <= Capacity /\ now \in Int /\ updated \in Int /\ updated <= now
  BY LimiterAssumption DEF TypeOK
<1>2. (now - updated) * Rate \in Int /\ 0 <= (now - updated) * Rate
  BY <1>1
<1> DEFINE earned == tokens + (now - updated) * Rate
<1>3. earned \in Int /\ 0 <= earned
  BY <1>1, <1>2
<1>4. Refilled = IF earned < Capacity THEN earned ELSE Capacity
  BY DEF Refilled
<1> HIDE DEF earned
<1>5. /\ Refilled \in Int /\ 0 <= Refilled /\ Refilled <= Capacity
      /\ Refilled <= earned
  BY <1>1, <1>3, <1>4
<1> QED BY <1>5 DEF earned

\* The longest a token takes to earn.
TokenTime == (Unit + Rate - 1) \div Rate

\* A sleep ends no earlier than now, is long enough for the token that is missing,
\* and no longer than a whole token takes.
LEMMA WaitFacts ==
    ASSUME TypeOK, Refilled < Unit
    PROVE  /\ Wait \in Nat /\ TokenTime \in Nat /\ Wait <= TokenTime
           /\ Refilled + Wait * Rate >= Unit
<1>1. /\ Refilled \in Int /\ Refilled >= 0 /\ Unit \in Int /\ Rate \in Int
      /\ Rate > 0
  BY RefillFacts, LimiterAssumption
<1> DEFINE need == Unit - Refilled + Rate - 1
           full == Unit + Rate - 1
<1>2. need \in Int /\ need >= 0 /\ full \in Int /\ need <= full
  BY <1>1
<1> HIDE DEF need, full
<1>3. /\ need \div Rate \in Int /\ Rate * (need \div Rate) <= need
      /\ need < Rate * (need \div Rate) + Rate
  BY <1>1, <1>2
<1>4. full \div Rate \in Int /\ full < Rate * (full \div Rate) + Rate
  BY <1>1, <1>2
<1> DEFINE wait == need \div Rate
           most == full \div Rate
<1>5. /\ wait \in Int /\ Rate * wait <= need /\ need < Rate * wait + Rate
      /\ most \in Int /\ full < Rate * most + Rate
  BY <1>3, <1>4
<1> HIDE DEF wait, most
<1>6. wait >= 0
  BY <1>1, <1>2, <1>5
<1>7. wait <= most
  BY <1>1, <1>2, <1>5
<1>8. Rate * wait = wait * Rate /\ wait * Rate \in Int
  BY <1>1, <1>5
<1>9. Refilled + wait * Rate >= Unit
  <2>1. need = Unit - Refilled + Rate - 1
    BY DEF need
  <2> QED BY <1>1, <1>5, <1>8, <2>1
<1>10. Wait = wait /\ TokenTime = most
  BY DEF Wait, TokenTime, wait, most, need, full
<1> QED BY <1>5, <1>6, <1>7, <1>9, <1>10

\* Credit survives the refill: with the bucket as the refill leaves it, and the
\* ticks counted up to now.
LEMMA RefillKeepsCredit ==
    ASSUME IInv, NEW i \in 1 .. Len(granted)
    PROVE  /\ granted[i] \in Nat /\ granted[i] <= now
           /\ Refilled + (Len(granted) - i + 1) * Unit
                <= Capacity + (now - granted[i]) * Rate
<1>1. /\ granted \in Seq(Nat) /\ now \in Nat /\ updated \in Nat
      /\ updated <= now /\ Unit \in Nat /\ Rate \in Nat /\ Capacity \in Nat
      /\ tokens \in Int
  BY LimiterAssumption DEF IInv, TypeOK
<1>2. Refilled \in Int /\ Refilled <= tokens + (now - updated) * Rate
  BY RefillFacts DEF IInv
<1>3. /\ granted[i] \in Nat /\ granted[i] <= updated
      /\ tokens + (Len(granted) - i + 1) * Unit
           <= Capacity + (updated - granted[i]) * Rate
  BY <1>1 DEF IInv, Credit
<1> DEFINE passed == (Len(granted) - i + 1) * Unit
           old    == (updated - granted[i]) * Rate
           new    == (now - updated) * Rate
<1>4. passed \in Int /\ old \in Int /\ new \in Int
  BY <1>1, <1>3
<1>5. tokens + passed <= Capacity + old /\ Refilled <= tokens + new
  BY <1>2, <1>3
<1>6. (now - granted[i]) * Rate = old + new
  BY <1>1, <1>3
<1>7. granted[i] <= now
  BY <1>1, <1>3
<1> HIDE DEF passed, old, new
<1>8. Refilled + passed <= Capacity + (old + new)
  BY <1>1, <1>2, <1>4, <1>5
<1> QED BY <1>3, <1>6, <1>7, <1>8 DEF passed

\* Letting a request through keeps every window of requests within bounds.
LEMMA GrantKeeps ==
    ASSUME IInv, NEW t \in Threads, Grant(t)
    PROVE  Credit' /\ RateBounded'
<1> DEFINE n == Len(granted)
           cost(i, m)   == (m - i + 1) * Unit
           gain(g, x)   == (x - g) * Rate
           credit(i, m) ==
             /\ granted'[i] <= now
             /\ Refilled - Unit + cost(i, m) <= Capacity + gain(granted'[i], now)
           bounded(i, j) == cost(i, j) <= Capacity + gain(granted'[i], granted'[j])
<1>1. /\ granted \in Seq(Nat) /\ n \in Nat /\ now \in Nat
      /\ Unit \in Int /\ Rate \in Int /\ Capacity \in Int
  BY LimiterAssumption DEF IInv, TypeOK
<1>2. tokens' = Refilled - Unit /\ updated' = now /\ Refilled >= Unit
  BY DEF Grant
<1>3. /\ Len(granted') = n + 1 /\ granted'[n + 1] = now
      /\ \A i \in 1 .. n : granted'[i] = granted[i]
  BY <1>1 DEF Grant
<1>4. Refilled \in Int /\ Refilled <= Capacity
  BY RefillFacts DEF IInv
<1>5. \A i \in 1 .. n : /\ granted[i] \in Nat /\ granted[i] <= now
                        /\ Refilled + cost(i, n) <= Capacity + gain(granted[i], now)
  BY RefillKeepsCredit
<1>6. \A i \in 1 .. n : cost(i, n) \in Int /\ gain(granted[i], now) \in Int
  BY <1>1, <1>5
<1>7. \A i \in 1 .. n : cost(i, n + 1) = cost(i, n) + Unit
  BY <1>1
<1>8. cost(n + 1, n + 1) = Unit /\ gain(now, now) = 0
  BY <1>1
<1>9. \A i \in 1 .. (n + 1) : i \in 1 .. n \/ i = n + 1
  BY <1>1
<1>10. \A i, j \in 1 .. n : i <= j => bounded(i, j)
  BY <1>3 DEF IInv, RateBounded
<1> HIDE DEF n, cost, gain
<1>11. ASSUME NEW i \in 1 .. n
       PROVE  credit(i, n + 1) /\ bounded(i, n + 1)
  <2>1. /\ granted'[i] = granted[i] /\ granted[i] <= now /\ granted'[n + 1] = now
        /\ cost(i, n + 1) = cost(i, n) + Unit
    BY <1>3, <1>5, <1>7
  <2>2. /\ Refilled + cost(i, n) <= Capacity + gain(granted[i], now)
        /\ cost(i, n) \in Int /\ gain(granted[i], now) \in Int
    BY <1>5, <1>6
  <2>3. /\ Refilled - Unit + (cost(i, n) + Unit) <= Capacity + gain(granted[i], now)
        /\ cost(i, n) + Unit <= Capacity + gain(granted[i], now)
    BY <1>1, <1>2, <1>4, <2>2
  <2> QED BY <2>1, <2>3
<1>12. credit(n + 1, n + 1) /\ bounded(n + 1, n + 1)
  <2>1. Refilled - Unit + Unit <= Capacity + 0 /\ now <= now /\ Unit <= Capacity + 0
    BY <1>1, <1>2, <1>4
  <2> QED BY <1>3, <1>8, <2>1
<1>13. Credit'
  <2> HIDE DEF credit
  <2>1. \A i \in 1 .. (n + 1) : credit(i, n + 1)
    BY <1>9, <1>11, <1>12
  <2>2. \A i \in 1 .. Len(granted') : credit(i, Len(granted'))
    BY <1>3, <2>1
  <2> QED BY <1>2, <2>2 DEF Credit, credit, cost, gain
<1>14. RateBounded'
  <2> HIDE DEF bounded
  <2>1. ASSUME NEW i \in 1 .. (n + 1), NEW j \in 1 .. (n + 1), i <= j
        PROVE  bounded(i, j)
    <3>1. CASE j \in 1 .. n
      <4>1. i \in 1 .. n
        BY <1>1, <2>1, <3>1
      <4> QED BY <1>10, <2>1, <3>1, <4>1
    <3>2. CASE j = n + 1
      BY <1>9, <1>11, <1>12, <3>2
    <3> QED BY <1>9, <3>1, <3>2
  <2> QED BY <1>3, <2>1 DEF RateBounded, bounded, cost, gain
<1> QED BY <1>13, <1>14

\* A sleep refills the bucket and lets no request through.
LEMMA SleepKeeps ==
    ASSUME IInv, NEW t \in Threads, Sleep(t)
    PROVE  Credit' /\ RateBounded'
<1>1. tokens' = Refilled /\ updated' = now /\ granted' = granted
  BY DEF Sleep
<1>2. Credit'
  BY <1>1, RefillKeepsCredit DEF Credit
<1>3. RateBounded'
  BY <1>1 DEF IInv, RateBounded
<1> QED BY <1>2, <1>3

\* The inductive invariant holds in every state the limiter reaches.
THEOREM Invariance == Spec => []IInv
<1>1. Init => IInv
  BY LimiterAssumption DEF Init, IInv, TypeOK, Credit, RateBounded
<1>2. IInv /\ [Next]_vars => IInv'
  <2> SUFFICES ASSUME IInv, [Next]_vars
               PROVE  IInv'
    OBVIOUS
  <2> USE LimiterAssumption
  <2>1. ASSUME NEW t \in Threads, Request(t)
        PROVE  IInv'
    <3>1. TypeOK'
      BY <2>1 DEF IInv, TypeOK, Request
    <3> QED BY <2>1, <3>1 DEF IInv, Credit, RateBounded, Request
  <2>2. ASSUME NEW t \in Threads, Lock(t)
        PROVE  IInv'
    <3>1. TypeOK'
      BY <2>2 DEF IInv, TypeOK, Lock
    <3> QED BY <2>2, <3>1 DEF IInv, Credit, RateBounded, Lock
  <2>3. ASSUME NEW t \in Threads, Grant(t)
        PROVE  IInv'
    <3>1. Refilled \in Int /\ Refilled <= Capacity
      BY RefillFacts DEF IInv
    <3>2. granted' \in Seq(Nat)
      BY <2>3 DEF IInv, TypeOK, Grant
    <3>3. TypeOK'
      BY <2>3, <3>1, <3>2 DEF IInv, TypeOK, Grant
    <3> QED BY <2>3, <3>3, GrantKeeps DEF IInv
  <2>4. ASSUME NEW t \in Threads, Sleep(t)
        PROVE  IInv'
    <3>1. Refilled \in Int /\ 0 <= Refilled /\ Refilled <= Capacity
      BY RefillFacts DEF IInv
    <3>2. wakeAt' \in Nat
      BY <2>4, WaitFacts DEF IInv, TypeOK, Sleep
    <3>3. TypeOK'
      BY <2>4, <3>1, <3>2 DEF IInv, TypeOK, Sleep
    <3> QED BY <2>4, <3>3, SleepKeeps DEF IInv
  <2>5. ASSUME NEW t \in Threads, Wake(t)
        PROVE  IInv'
    <3>1. TypeOK'
      BY <2>5 DEF IInv, TypeOK, Wake
    <3> QED BY <2>5, <3>1 DEF IInv, Credit, RateBounded, Wake
  <2>6. CASE Tick
    <3>1. TypeOK'
      BY <2>6 DEF IInv, TypeOK, Tick
    <3> QED BY <2>6, <3>1 DEF IInv, Credit, RateBounded, Tick
  <2>7. CASE UNCHANGED vars
    BY <2>7 DEF IInv, TypeOK, Credit, RateBounded, vars
  <2> QED BY <2>1, <2>2, <2>3, <2>4, <2>5, <2>6, <2>7 DEF Next
<1> QED BY <1>1, <1>2, PTL DEF Spec

\* The state of the limiter keeps its type; in particular the bucket never goes
\* below zero or above its capacity, and only the holder of the lock is inside.
THEOREM TypeCorrect == Spec => []TypeOK
<1> QED BY Invariance, PTL DEF IInv

\* For every rate, burst, oversleep and set of threads: no run of requests exceeds
\* the burst and what its ticks earned.
THEOREM RateIsBounded == Spec => []RateBounded
<1> QED BY Invariance, PTL DEF IInv

------------------------------------------------------------------------------
(* How long the lock is held.  HeldBriefly looks only at the holder, so it *)
(* too is strengthened: the sleeper wakes in time with its token earned,   *)
(* and a pass of the loop is the first one, at the very tick the lock was  *)
(* taken, or finds the token there.                                        *)

Earned(when) == tokens + (when - updated) * Rate

OnTime(t) ==
    /\ pc[t] = "asleep" => /\ wakeAt <= since + TokenTime
                           /\ now <= wakeAt + MaxOversleep
                           /\ Earned(wakeAt) >= Unit
    /\ pc[t] = "look" => \/ now = since
                         \/ /\ now <= since + TokenTime + MaxOversleep
                            /\ Earned(now) >= Unit

HInv == TypeOK /\ \A t \in Threads : OnTime(t)

\* A pass that finds no token is the first one of its acquire(), so that the sleep
\* after it is the only one.
LEMMA SleepOnTime ==
    ASSUME HInv, Capacity >= Unit, NEW t \in Threads, Sleep(t)
    PROVE  OnTime(t)'
<1>1. /\ now \in Int /\ since \in Int /\ since <= now /\ Unit \in Int
      /\ Capacity \in Int /\ Rate \in Int /\ MaxOversleep \in Int
      /\ MaxOversleep >= 0
  BY LimiterAssumption DEF HInv, TypeOK
<1>2. /\ pc[t] = "look" /\ Refilled < Unit /\ tokens' = Refilled
      /\ updated' = now /\ wakeAt' = now + Wait /\ pc'[t] = "asleep"
      /\ since' = since /\ now' = now
  BY DEF HInv, TypeOK, Sleep
<1>3. /\ Wait \in Nat /\ TokenTime \in Nat /\ Wait <= TokenTime
      /\ Refilled + Wait * Rate >= Unit
  BY <1>2, WaitFacts DEF HInv
<1>4. ~ (Earned(now) >= Unit)
  <2>1. Refilled = IF Earned(now) < Capacity THEN Earned(now) ELSE Capacity
    BY DEF Refilled, Earned
  <2>2. Refilled \in Int
    BY RefillFacts DEF HInv
  <2> QED BY <1>1, <1>2, <2>1, <2>2
<1>5. now = since
  BY <1>2, <1>4 DEF HInv, OnTime
<1>6. wakeAt' <= since' + TokenTime
  BY <1>1, <1>2, <1>3, <1>5
<1>7. now' <= wakeAt' + MaxOversleep
  BY <1>1, <1>2, <1>3
<1>8. tokens' + (wakeAt' - updated') * Rate >= Unit
  <2>1. (now + Wait) - now = Wait
    BY <1>1, <1>3
  <2>2. wakeAt' - updated' = Wait
    BY <1>2, <2>1
  <2> QED BY <1>2, <1>3, <2>2
<1> QED BY <1>2, <1>6, <1>7, <1>8 DEF OnTime, Earned

\* After the sleep the token is there, and the sleeper is not late.
LEMMA WakeOnTime ==
    ASSUME HInv, NEW t \in Threads, Wake(t)
    PROVE  OnTime(t)'
<1>1. /\ now \in Int /\ since \in Int /\ wakeAt \in Int /\ updated \in Int
      /\ tokens \in Int /\ Rate \in Int /\ Rate > 0 /\ Unit \in Int
      /\ MaxOversleep \in Int
  BY LimiterAssumption DEF HInv, TypeOK
<1>2. TokenTime \in Int
  BY LimiterAssumption DEF TokenTime
<1>3. /\ pc[t] = "asleep" /\ now >= wakeAt /\ pc'[t] = "look"
      /\ UNCHANGED <<tokens, updated, wakeAt, now, since>>
  BY DEF HInv, TypeOK, Wake
<1>4. /\ wakeAt <= since + TokenTime /\ now <= wakeAt + MaxOversleep
      /\ tokens + (wakeAt - updated) * Rate >= Unit
  BY <1>3 DEF HInv, OnTime, Earned
<1>5. (wakeAt - updated) * Rate <= (now - updated) * Rate
  BY <1>1, <1>3
<1>6. (wakeAt - updated) * Rate \in Int /\ (now - updated) * Rate \in Int
  BY <1>1
<1>7. tokens + (now - updated) * Rate >= Unit
  BY <1>1, <1>4, <1>5, <1>6
<1>8. now <= since + TokenTime + MaxOversleep
  BY <1>1, <1>2, <1>4
<1> QED BY <1>3, <1>7, <1>8 DEF OnTime, Earned

\* With a bucket that can hold a token, a caller holds the lock no longer than one
\* token takes to earn plus an oversleep; with a smaller one it never returns.
THEOREM LockHeldBriefly ==
    ASSUME Capacity >= Unit
    PROVE  Spec => []HeldBriefly
<1>1. Init => HInv
  BY LimiterAssumption DEF Init, HInv, TypeOK, OnTime
<1>2. TypeOK /\ HInv /\ [Next]_vars /\ TypeOK' => HInv'
  <2> SUFFICES ASSUME TypeOK, HInv, [Next]_vars, TypeOK', NEW u \in Threads
               PROVE  OnTime(u)'
    BY DEF HInv
  <2> USE LimiterAssumption
  <2>1. ASSUME holder' # u
        PROVE  OnTime(u)'
    BY <2>1 DEF TypeOK, OnTime
  <2>2. ASSUME NEW t \in Threads, Request(t)
        PROVE  OnTime(u)'
    BY <2>2 DEF HInv, TypeOK, OnTime, Earned, Request
  <2>3. ASSUME NEW t \in Threads, Lock(t)
        PROVE  OnTime(u)'
    BY <2>1, <2>3 DEF TypeOK, OnTime, Lock
  <2>4. ASSUME NEW t \in Threads, Grant(t)
        PROVE  OnTime(u)'
    BY <2>1, <2>4 DEF TypeOK, Grant
  <2>5. ASSUME NEW t \in Threads, Sleep(t)
        PROVE  OnTime(u)'
    <3>1. holder' = t
      BY <2>5 DEF TypeOK, Sleep
    <3> QED BY <2>1, <2>5, <3>1, SleepOnTime
  <2>6. ASSUME NEW t \in Threads, Wake(t)
        PROVE  OnTime(u)'
    <3>1. holder' = t
      BY <2>6 DEF TypeOK, Wake
    <3> QED BY <2>1, <2>6, <3>1, WakeOnTime
  <2>7. CASE Tick
    <3>1. pc[u] # "look" /\ (pc[u] = "asleep" => now < wakeAt + MaxOversleep)
      BY <2>7 DEF Tick
    <3>2. /\ UNCHANGED <<pc, tokens, updated, wakeAt, since>> /\ now' = now + 1
          /\ now \in Int /\ wakeAt \in Int /\ MaxOversleep \in Int
      BY <2>7 DEF Tick, TypeOK
    <3>3. pc[u] = "asleep" => now' <= wakeAt + MaxOversleep
      BY <3>1, <3>2
    <3> QED BY <3>1, <3>2, <3>3 DEF HInv, OnTime, Earned
  <2>8. CASE UNCHANGED vars
    BY <2>8 DEF HInv, OnTime, Earned, vars
  <2> QED BY <2>2, <2>3, <2>4, <2>5, <2>6, <2>7, <2>8 DEF Next
<1>3. HInv => HeldBriefly
  <2> SUFFICES ASSUME HInv, holder # Nobody
               PROVE  now - since <= TokenTime + MaxOversleep
    BY DEF HeldBriefly, TokenTime
  <2>1. /\ now \in Int /\ since \in Int /\ wakeAt \in Int /\ MaxOversleep \in Nat
        /\ holder \in Threads /\ pc[holder] \in {"look", "asleep"}
    BY LimiterAssumption DEF HInv, TypeOK
  <2>2. TokenTime \in Int /\ TokenTime >= 0
    <3>1. /\ Unit + Rate - 1 \in Int /\ Unit + Rate - 1 >= 0
          /\ Rate \in Int /\ Rate > 0
      BY LimiterAssumption
    <3> QED BY <3>1 DEF TokenTime
  <2>3. OnTime(holder)
    BY <2>1 DEF HInv
  <2> QED BY <2>1, <2>2, <2>3 DEF OnTime
<1> QED BY <1>1, <1>2, <1>3, TypeCorrect, PTL DEF Spec

------------------------------------------------------------------------------
(* The session.  Its steps are steps of the limiter or none, so what is    *)
(* proved of the limiter holds in the session; the rest is about the token *)
(* and about the file of secrets.                                          *)

\* Whatever the processes of a session do, the limiter sees requests that wait
\* their turn: the session implements the limiter.
THEOREM SessionLimits == SessionSpec => Spec
<1>1. SessionInit => Init
  BY DEF SessionInit
<1>2. [SessionNext]_sessionVars => [Next]_vars
  <2> SUFFICES ASSUME [SessionNext]_sessionVars PROVE [Next]_vars
    OBVIOUS
  <2>1. ASSUME NEW w \in Writers,
               \/ Login(w) \/ SetSecret(w) \/ ReadAll(w) \/ OpenTmp(w)
               \/ FillTmp(w) \/ Replace(w) \/ WriterDies(w)
        PROVE  UNCHANGED vars
    BY <2>1 DEF Login, SetSecret, ReadAll, OpenTmp, FillTmp, Replace, WriterDies
  <2>2. CASE TakeUpToken \/ SeedClient \/ SeedStore
    BY <2>2 DEF TakeUpToken, SeedClient, SeedStore
  <2>3. ASSUME NEW t \in Threads, BeginFetch(t) \/ Send(t) PROVE UNCHANGED vars
    BY <2>3 DEF BeginFetch, Send
  <2>4. ASSUME NEW t \in Threads, SetToken(t) PROVE Next
    BY <2>4 DEF SetToken, Next
  <2>5. ASSUME NEW t \in Threads, Acquire(t) PROVE Next
    BY <2>5 DEF Acquire, Next
  <2>6. CASE TimePasses
    BY <2>6 DEF TimePasses, Next
  <2>7. CASE UNCHANGED sessionVars
    BY <2>7 DEF sessionVars
  <2> QED BY <2>1, <2>2, <2>3, <2>4, <2>5, <2>6, <2>7 DEF SessionNext
<1> QED BY <1>1, <1>2, PTL DEF SessionSpec, Spec

\* The rate and the lock, whatever else the threads of a session do: the promises
\* of acquire() hold for fetch_historical().
THEOREM SessionRateBounded == SessionSpec => []RateBounded
<1>1. Spec => []RateBounded
  BY RateIsBounded
<1> QED BY <1>1, SessionLimits, PTL

\* ... and a queued thread of the session waits a bounded time for each before it,
\* when the bucket can hold a token.
THEOREM SessionLockHeldBriefly ==
    ASSUME Capacity >= Unit
    PROVE  SessionSpec => []HeldBriefly
<1>1. Spec => []HeldBriefly
  BY LockHeldBriefly
<1> QED BY <1>1, SessionLimits, PTL

Secrets == [Names -> Nat \cup {None}]

\* A set() under way.
Sets == [pc : {"idle", "read", "open", "fill", "replace"},
         name : Names, value : Nat \cup {None}, data : Secrets]

\* A historical_data() under way.
Calls == [pc : {"idle", "read", "limiter", "send"},
          token : Nat \cup {None}, floor : Nat \cup {None}, alone : BOOLEAN]

SessionTypeOK ==
    /\ issued \in Nat /\ env \in EnvTokens /\ up \in BOOLEAN
    /\ file \in [whole : BOOLEAN, data : Secrets]
    /\ tmp \in [whole : BOOLEAN, data : Secrets]
    /\ kept \in Secrets
    /\ writer \in [Writers -> Sets]
    /\ call \in [Threads -> Calls]
    /\ client \in Nat \cup {None} /\ store \in Nat \cup {None}
    /\ seeding \in Nat \cup {None}

\* No token is ahead of the broker, wherever it is.
Issued(x) == x = None \/ x <= issued

TokensIssued ==
    /\ Issued(file.data[TokenName]) /\ Issued(tmp.data[TokenName])
    /\ \A w \in Writers : /\ Issued(writer[w].data[TokenName])
                          /\ writer[w].name = TokenName => Issued(writer[w].value)
    /\ Issued(client) /\ Issued(store) /\ Issued(seeding)
    /\ up => store # None

\* A process that is not up makes no calls, and a call that no other overlapped
\* is the only one.
CallsAlone ==
    /\ \A t \in Threads : call[t].pc # "idle" => up
    /\ \A t, u \in Threads :
          call[t].pc # "idle" /\ call[t].alone /\ u # t => call[u].pc = "idle"

\* What a call read is what it found, and what a lone call is about to be sent
\* with is no older.
CallsFresh ==
    \A t \in Threads :
        /\ call[t].pc = "read" =>
              call[t].token = call[t].floor /\ call[t].floor \in 0 .. issued
        /\ call[t].pc \in {"limiter", "send"} /\ call[t].alone =>
              call[t].floor \in 0 .. issued /\ client \in Nat /\ client >= call[t].floor

SessionInv == SessionTypeOK /\ TokensIssued /\ CallsAlone /\ CallsFresh

LEMMA SessionNames == TokenName \in Names /\ ApiSecret \in Names /\ TokenName # ApiSecret
BY SessionAssumption

LEMMA SessionTypeInit == SessionInit => SessionInv
<1> SUFFICES ASSUME SessionInit PROVE SessionInv
  OBVIOUS
<1>1. NoData \in Secrets /\ NoData[TokenName] = None
  BY SessionNames DEF NoData, Secrets
<1>2. [NoData EXCEPT ![ApiSecret] = 0] \in Secrets
      /\ [NoData EXCEPT ![ApiSecret] = 0][TokenName] = None
  BY <1>1, SessionNames DEF NoData, Secrets
<1>3. SessionTypeOK
  BY <1>1, <1>2, SessionNames DEF SessionInit, SessionTypeOK, Sets, Calls, AtRest, NoCall
<1>4. TokensIssued
  BY <1>1, <1>2 DEF SessionInit, TokensIssued, Issued, AtRest
<1>5. CallsAlone /\ CallsFresh
  BY DEF SessionInit, CallsAlone, CallsFresh, NoCall
<1> QED BY <1>3, <1>4, <1>5 DEF SessionInv

LEMMA SessionTypeStep == SessionTypeOK /\ [SessionNext]_sessionVars => SessionTypeOK'
<1> SUFFICES ASSUME SessionTypeOK, [SessionNext]_sessionVars PROVE SessionTypeOK'
  OBVIOUS
<1>1. NoData \in Secrets
  BY DEF NoData, Secrets
<1>2. \A x \in Secrets, n \in Names, v \in Nat \cup {None} : [x EXCEPT ![n] = v] \in Secrets
  BY DEF Secrets
<1>3. \A x \in Secrets, n \in Names : x[n] \in Nat \cup {None}
  BY DEF Secrets
<1> USE DEF SessionTypeOK, files, process
<1>4. ASSUME NEW w \in Writers, Login(w) PROVE SessionTypeOK'
  <2>1. [pc |-> "read", name |-> TokenName, value |-> issued + 1, data |-> NoData] \in Sets
    BY <1>1, SessionNames DEF Sets
  <2> QED BY <1>4, <2>1 DEF Login
<1>5. ASSUME NEW w \in Writers, SetSecret(w) PROVE SessionTypeOK'
  <2>1. [pc |-> "read", name |-> ApiSecret, value |-> 1, data |-> NoData] \in Sets
    BY <1>1, SessionNames DEF Sets
  <2> QED BY <1>5, <2>1 DEF SetSecret
<1>6. ASSUME NEW w \in Writers, ReadAll(w) PROVE SessionTypeOK'
  <2> DEFINE after == [file.data EXCEPT ![writer[w].name] = writer[w].value]
  <2>1. after \in Secrets
    BY <1>2 DEF Sets
  <2>2. writer' = [writer EXCEPT ![w].pc = "open", ![w].data = after]
    BY <1>6 DEF ReadAll
  <2> HIDE DEF after
  <2>3. writer'[w].pc = "open" /\ writer'[w].data = after /\ writer'[w] \in Sets
    BY <2>1, <2>2 DEF Sets
  <2>4. writer' \in [Writers -> Sets]
    <3>1. DOMAIN writer' = Writers /\ \A v \in Writers : writer'[v] \in Sets
      BY <2>2, <2>3
    <3> QED BY <3>1, <2>2
  <2> QED BY <1>6, <2>4 DEF ReadAll
<1>7. ASSUME NEW w \in Writers, OpenTmp(w) PROVE SessionTypeOK'
  <2>1. [writer[w] EXCEPT !.pc = "fill"] \in Sets
    BY DEF Sets
  <2>2. writer' \in [Writers -> Sets]
    BY <1>7, <2>1 DEF OpenTmp
  <2> QED BY <1>7, <2>2 DEF OpenTmp
<1>8. ASSUME NEW w \in Writers, FillTmp(w) PROVE SessionTypeOK'
  <2>1. [writer[w] EXCEPT !.pc = "replace"] \in Sets /\ writer[w].data \in Secrets
    BY DEF Sets
  <2>2. writer' \in [Writers -> Sets]
    BY <1>8, <2>1 DEF FillTmp
  <2> QED BY <1>8, <2>1, <2>2 DEF FillTmp
<1> DEFINE rested(w) == [writer EXCEPT ![w] = AtRest]
<1>22. \A w \in Writers : rested(w) \in [Writers -> Sets]
  <2>1. AtRest \in Sets
    BY <1>1, SessionNames DEF AtRest, Sets
  <2> QED BY <2>1
<1>9. ASSUME NEW w \in Writers, Replace(w) PROVE SessionTypeOK'
  <2>1. writer' \in [Writers -> Sets]
    BY <1>9, <1>22 DEF Replace
  <2>2. kept' \in Secrets
    <3>1. writer[w].name \in Names /\ writer[w].value \in Nat \cup {None}
      BY DEF Sets
    <3> QED BY <1>9, <3>1, <1>2 DEF Replace
  <2> QED BY <1>9, <2>1, <2>2 DEF Replace
<1>10. ASSUME NEW w \in Writers, WriterDies(w) PROVE SessionTypeOK'
  <2>1. writer' \in [Writers -> Sets]
    BY <1>10, <1>22 DEF WriterDies
  <2> QED BY <1>10, <2>1 DEF WriterDies
<1>11. CASE TakeUpToken
  <2>1. GetOptional(TokenName) \in Nat \cup {None}
    BY <1>3, SessionNames, SessionAssumption DEF GetOptional
  <2> QED BY <1>11, <2>1 DEF TakeUpToken
<1>12. CASE SeedClient
  BY <1>12 DEF SeedClient
<1>13. CASE SeedStore
  BY <1>13 DEF SeedStore
<1>14. ASSUME NEW t \in Threads, BeginFetch(t) PROVE SessionTypeOK'
  BY <1>14 DEF BeginFetch, Calls
<1>15. ASSUME NEW t \in Threads, SetToken(t) PROVE SessionTypeOK'
  BY <1>15 DEF SetToken, Calls
<1>16. ASSUME NEW t \in Threads, Acquire(t) PROVE SessionTypeOK'
  <2>1. [call[t] EXCEPT !.pc = "send"] \in Calls
    BY DEF Calls
  <2>2. call' \in [Threads -> Calls]
    BY <1>16, <2>1 DEF Acquire
  <2> QED BY <1>16, <2>2 DEF Acquire
<1>17. ASSUME NEW t \in Threads, Send(t) PROVE SessionTypeOK'
  <2>1. NoCall \in Calls
    BY DEF NoCall, Calls
  <2>2. call' \in [Threads -> Calls]
    BY <1>17, <2>1 DEF Send
  <2> QED BY <1>17, <2>2 DEF Send
<1>18. CASE TimePasses
  BY <1>18 DEF TimePasses
<1>19. CASE UNCHANGED sessionVars
  BY <1>19 DEF sessionVars
<1> QED BY <1>4, <1>5, <1>6, <1>7, <1>8, <1>9, <1>10, <1>11, <1>12, <1>13, <1>14,
           <1>15, <1>16, <1>17, <1>18, <1>19 DEF SessionNext

LEMMA TokensIssuedStep ==
    SessionTypeOK /\ TokensIssued /\ CallsFresh /\ [SessionNext]_sessionVars => TokensIssued'
<1> SUFFICES ASSUME SessionTypeOK, TokensIssued, CallsFresh, [SessionNext]_sessionVars
             PROVE  TokensIssued'
  OBVIOUS
<1>1. issued \in Nat /\ TokenName \in Names /\ NoData[TokenName] = None /\ None \notin Nat
  BY SessionNames, SessionAssumption DEF SessionTypeOK, NoData
<1>2. ASSUME issued' \in {issued, issued + 1}, NEW x \in Nat \cup {None}, Issued(x)
      PROVE  Issued(x)'
  BY <1>1, <1>2 DEF Issued
<1> USE DEF TokensIssued, SessionTypeOK, Sets, Secrets, files, process
<1>3. ASSUME NEW w \in Writers, Login(w) PROVE TokensIssued'
  BY <1>1, <1>3 DEF Login, Issued
<1>4. ASSUME NEW w \in Writers, SetSecret(w) PROVE TokensIssued'
  BY <1>1, <1>4, SessionNames DEF SetSecret, Issued
<1>5. ASSUME NEW w \in Writers, ReadAll(w) PROVE TokensIssued'
  BY <1>1, <1>5 DEF ReadAll, Issued
<1>6. ASSUME NEW w \in Writers, OpenTmp(w) PROVE TokensIssued'
  BY <1>1, <1>6 DEF OpenTmp, Issued
<1>7. ASSUME NEW w \in Writers, FillTmp(w) PROVE TokensIssued'
  BY <1>1, <1>7 DEF FillTmp, Issued
<1>8. ASSUME NEW w \in Writers, Replace(w) PROVE TokensIssued'
  BY <1>1, <1>8 DEF Replace, AtRest, Issued
<1>9. ASSUME NEW w \in Writers, WriterDies(w) PROVE TokensIssued'
  BY <1>1, <1>9 DEF WriterDies, AtRest, Issued
<1>10. CASE TakeUpToken
  <2>1. Issued(GetOptional(TokenName)) /\ GetOptional(TokenName) # None
    BY <1>1, <1>10, SessionAssumption DEF TakeUpToken, GetOptional, Issued
  <2> QED BY <1>10, <2>1 DEF TakeUpToken, Issued
<1>11. CASE SeedClient
  BY <1>1, <1>11 DEF SeedClient, Issued
<1>12. CASE SeedStore
  BY <1>1, <1>12 DEF SeedStore, Issued
<1>13. ASSUME NEW t \in Threads, BeginFetch(t) PROVE TokensIssued'
  BY <1>13 DEF BeginFetch, Issued
<1>14. ASSUME NEW t \in Threads, SetToken(t) PROVE TokensIssued'
  BY <1>1, <1>14 DEF SetToken, Issued, CallsFresh
<1>15. ASSUME NEW t \in Threads, Acquire(t) PROVE TokensIssued'
  BY <1>15 DEF Acquire, Issued
<1>16. ASSUME NEW t \in Threads, Send(t) PROVE TokensIssued'
  BY <1>16 DEF Send, Issued
<1>17. CASE TimePasses
  BY <1>17 DEF TimePasses, Issued
<1>18. CASE UNCHANGED sessionVars
  BY <1>18 DEF sessionVars, Issued
<1> QED BY <1>3, <1>4, <1>5, <1>6, <1>7, <1>8, <1>9, <1>10, <1>11, <1>12, <1>13, <1>14,
           <1>15, <1>16, <1>17, <1>18 DEF SessionNext

\* Once up, the process stays up.
LEMMA StaysUp == SessionTypeOK /\ [SessionNext]_sessionVars /\ up => up'
BY DEF SessionNext, sessionVars, files, process, Login, SetSecret, ReadAll, OpenTmp, FillTmp,
       Replace, WriterDies, TakeUpToken, SeedClient, SeedStore, BeginFetch, SetToken,
       Acquire, Send, TimePasses

LEMMA CallsAloneStep ==
    SessionTypeOK /\ CallsAlone /\ [SessionNext]_sessionVars => CallsAlone'
<1> SUFFICES ASSUME SessionTypeOK, CallsAlone, [SessionNext]_sessionVars
             PROVE  CallsAlone'
  OBVIOUS
<1>1. up => up'
  BY StaysUp
<1>2. ASSUME UNCHANGED call PROVE CallsAlone'
  BY <1>1, <1>2 DEF CallsAlone
<1>3. ASSUME NEW t \in Threads, BeginFetch(t) PROVE CallsAlone'
  <2>1. /\ up' /\ call'[t].pc # "idle" /\ call'[t].alone = (Calling = {})
        /\ \A u \in Threads : u # t => /\ call'[u].pc = call[u].pc
                                     /\ call'[u].alone = FALSE
    BY <1>1, <1>3 DEF BeginFetch, SessionTypeOK, Calls
  <2>2. ASSUME NEW u \in Threads, NEW v \in Threads,
               call'[u].pc # "idle", call'[u].alone, v # u
        PROVE  call'[v].pc = "idle"
    BY <2>1, <2>2 DEF Calling
  <2> QED BY <2>1, <2>2 DEF CallsAlone
<1>4. ASSUME NEW t \in Threads, call[t].pc # "idle", NEW to \in {"limiter", "send"},
             call' = [call EXCEPT ![t].pc = to]
      PROVE  CallsAlone'
  BY <1>1, <1>4 DEF CallsAlone, SessionTypeOK
<1>5. ASSUME NEW t \in Threads, SetToken(t) PROVE CallsAlone'
  BY <1>4, <1>5 DEF SetToken
<1>6. ASSUME NEW t \in Threads, Acquire(t) PROVE CallsAlone'
  BY <1>2, <1>4, <1>6 DEF Acquire
<1>7. ASSUME NEW t \in Threads, Send(t) PROVE CallsAlone'
  BY <1>1, <1>7 DEF Send, NoCall, CallsAlone, SessionTypeOK
<1>8. ASSUME NEW w \in Writers,
             \/ Login(w) \/ SetSecret(w) \/ ReadAll(w) \/ OpenTmp(w)
             \/ FillTmp(w) \/ Replace(w) \/ WriterDies(w)
      PROVE  UNCHANGED call
  BY <1>8 DEF Login, SetSecret, ReadAll, OpenTmp, FillTmp, Replace, WriterDies, process
<1>9. TakeUpToken \/ SeedClient \/ SeedStore \/ TimePasses \/ UNCHANGED sessionVars
        => UNCHANGED call
  BY DEF TakeUpToken, SeedClient, SeedStore, TimePasses, sessionVars, process
<1> QED BY <1>2, <1>3, <1>5, <1>6, <1>7, <1>8, <1>9 DEF SessionNext

LEMMA CallsFreshStep ==
    SessionInv /\ [SessionNext]_sessionVars => CallsFresh'
<1> SUFFICES ASSUME SessionInv, [SessionNext]_sessionVars
             PROVE  CallsFresh'
  OBVIOUS
<1>1. /\ SessionTypeOK /\ TokensIssued /\ CallsAlone /\ CallsFresh
      /\ issued \in Nat /\ None \notin Nat
  BY SessionAssumption DEF SessionInv, SessionTypeOK
<1>2. ASSUME UNCHANGED <<call, client>>, issued' \in {issued, issued + 1} PROVE CallsFresh'
  BY <1>1, <1>2 DEF CallsFresh
<1>3. ASSUME NEW w \in Writers,
             \/ Login(w) \/ SetSecret(w) \/ ReadAll(w) \/ OpenTmp(w)
             \/ FillTmp(w) \/ Replace(w) \/ WriterDies(w)
      PROVE  CallsFresh'
  <2>1. UNCHANGED <<call, client>> /\ issued' \in {issued, issued + 1}
    BY <1>3 DEF Login, SetSecret, ReadAll, OpenTmp, FillTmp, Replace, WriterDies, process
  <2> QED BY <2>1, <1>2
<1>4. CASE TakeUpToken
  <2>1. \A t \in Threads : call[t].pc = "idle"
    BY <1>1, <1>4 DEF TakeUpToken, CallsAlone
  <2>2. UNCHANGED call
    BY <1>4 DEF TakeUpToken
  <2> QED BY <2>1, <2>2 DEF CallsFresh
<1>5. CASE SeedClient
  <2>1. client' = issued + 1 /\ issued' = issued + 1 /\ UNCHANGED call
    BY <1>5 DEF SeedClient
  <2> QED BY <1>1, <2>1 DEF CallsFresh
<1>6. CASE SeedStore \/ TimePasses \/ UNCHANGED sessionVars
  BY <1>2, <1>6 DEF SeedStore, TimePasses, sessionVars, process
<1>7. ASSUME NEW t \in Threads, BeginFetch(t) PROVE CallsFresh'
  <2>1. store \in 0 .. issued
    BY <1>1, <1>7 DEF BeginFetch, TokensIssued, Issued, SessionTypeOK
  <2>2. UNCHANGED <<issued, client>>
    BY <1>7 DEF BeginFetch
  <2>3. ASSUME NEW u \in Threads
        PROVE  \/ u = t /\ call'[u] = [pc |-> "read", token |-> store, floor |-> store,
                                       alone |-> Calling = {}]
               \/ call'[u] = [call[u] EXCEPT !.alone = FALSE]
    BY <1>7 DEF BeginFetch
  <2>4. ASSUME NEW u \in Threads
        PROVE  \/ /\ call'[u].pc = "read" /\ call'[u].token = store
                  /\ call'[u].floor = store
               \/ /\ call'[u].pc = call[u].pc /\ call'[u].token = call[u].token
                  /\ call'[u].floor = call[u].floor /\ call'[u].alone = FALSE
    <3>1. call[u] \in [pc : {"idle", "read", "limiter", "send"}, token : Nat \cup {None},
                       floor : Nat \cup {None}, alone : BOOLEAN]
      BY <1>1 DEF SessionTypeOK, Calls
    <3>2. CASE call'[u] = [pc |-> "read", token |-> store, floor |-> store,
                           alone |-> Calling = {}]
      BY <3>2
    <3>3. CASE call'[u] = [call[u] EXCEPT !.alone = FALSE]
      BY <3>1, <3>3
    <3> QED BY <2>3, <3>2, <3>3
  <2> QED BY <1>1, <2>1, <2>2, <2>4 DEF CallsFresh
<1>8. ASSUME NEW t \in Threads, SetToken(t) PROVE CallsFresh'
  <2>1. /\ call[t].pc = "read" /\ client' = call[t].token /\ issued' = issued
        /\ call' = [call EXCEPT ![t].pc = "limiter"]
    BY <1>8 DEF SetToken
  <2>2. ASSUME NEW u \in Threads, u # t, call[u].pc # "idle" PROVE ~ call[u].alone
    BY <2>1, <2>2, <1>1 DEF CallsAlone
  <2>3. client' = call[t].floor /\ call[t].floor \in 0 .. issued
    BY <2>1, <1>1 DEF CallsFresh
  <2>4. /\ call'[t].pc = "limiter" /\ call'[t].floor = call[t].floor
        /\ \A u \in Threads : u # t => call'[u] = call[u]
    BY <2>1, <1>1 DEF SessionTypeOK
  <2> QED BY <1>1, <2>1, <2>2, <2>3, <2>4 DEF CallsFresh
<1>9. ASSUME NEW t \in Threads, Acquire(t) PROVE CallsFresh'
  <2>1. CASE UNCHANGED call
    BY <2>1, <1>2, <1>9 DEF Acquire
  <2>2. CASE call' = [call EXCEPT ![t].pc = "send"]
    <3>1. call[t].pc = "limiter" /\ UNCHANGED <<issued, client>>
      BY <1>9 DEF Acquire
    <3>2. /\ call'[t].pc = "send" /\ call'[t].floor = call[t].floor
          /\ call'[t].alone = call[t].alone
          /\ \A u \in Threads : u # t => call'[u] = call[u]
      BY <2>2, <1>1 DEF SessionTypeOK
    <3> QED BY <3>1, <3>2, <1>1 DEF CallsFresh
  <2> QED BY <1>9, <2>1, <2>2 DEF Acquire
<1>10. ASSUME NEW t \in Threads, Send(t) PROVE CallsFresh'
  BY <1>1, <1>10 DEF Send, NoCall, CallsFresh, SessionTypeOK
<1> QED BY <1>3, <1>4, <1>5, <1>6, <1>7, <1>8, <1>9, <1>10 DEF SessionNext

\* The session's state keeps its type, no token is ahead of the broker, and a call
\* that no other overlapped carries what it found or something newer.
THEOREM SessionInvariance == SessionSpec => []SessionInv
<1>1. SessionInv /\ [SessionNext]_sessionVars => SessionInv'
  BY SessionTypeStep, TokensIssuedStep, CallsAloneStep, CallsFreshStep DEF SessionInv
<1> QED BY <1>1, SessionTypeInit, PTL DEF SessionSpec

\* A refreshed token is picked up on the next call, unless calls overlap: the token
\* that _ensure_authenticated sets is the store's, and nothing puts an older one on
\* the client before the call is sent.
THEOREM LoneCallsAreFresh == SessionSpec => []LoneCallIsFresh
<1>1. SessionInv => LoneCallIsFresh
  BY DEF SessionInv, CallsFresh, LoneCallIsFresh
<1> QED BY <1>1, SessionInvariance, PTL

------------------------------------------------------------------------------
(* The file of secrets, with one writer at a time.  Two writers share the  *)
(* temporary file and lose updates: that is a hazard of the code.          *)

OneWriter == \A v, w \in Writers : v = w

\* What a writer has in hand is the file with its one change.
Written ==
    /\ file.whole /\ file.data = kept
    /\ \A w \in Writers :
          LET after == [kept EXCEPT ![writer[w].name] = writer[w].value] IN
          /\ writer[w].pc \in {"open", "fill", "replace"} => writer[w].data = after
          /\ writer[w].pc = "replace" => tmp.whole /\ tmp.data = after

\* A set() that is cut short anywhere leaves the file as it was: FileSecretStore
\* writes beside it and replaces it.
THEOREM SecretsAreKept ==
    ASSUME OneWriter
    PROVE  SessionSpec => []SecretsSurvive
<1>1. SessionInit => Written
  BY DEF SessionInit, Written, AtRest
<1>2. SessionTypeOK /\ Written /\ [SessionNext]_sessionVars => Written'
  <2> SUFFICES ASSUME SessionTypeOK, Written, [SessionNext]_sessionVars PROVE Written'
    OBVIOUS
  <2>1. ASSUME NEW w \in Writers PROVE Writers = {w}
    BY OneWriter DEF OneWriter
  <2> USE DEF SessionTypeOK, Sets
  <2>2. ASSUME NEW w \in Writers, Login(w) PROVE Written'
    BY <2>1, <2>2 DEF Login, Written
  <2>3. ASSUME NEW w \in Writers, SetSecret(w) PROVE Written'
    BY <2>1, <2>3 DEF SetSecret, Written
  <2>4. ASSUME NEW w \in Writers, ReadAll(w) PROVE Written'
    <3>1. /\ writer'[w].pc = "open" /\ writer'[w].name = writer[w].name
          /\ writer'[w].value = writer[w].value
          /\ writer'[w].data = [file.data EXCEPT ![writer[w].name] = writer[w].value]
      BY <2>4 DEF ReadAll
    <3>2. UNCHANGED <<file, tmp, kept>>
      BY <2>4 DEF ReadAll
    <3> QED BY <2>1, <3>1, <3>2 DEF Written
  <2>5. ASSUME NEW w \in Writers, OpenTmp(w) PROVE Written'
    <3>1. /\ writer[w].pc = "open" /\ writer'[w].pc = "fill"
          /\ writer'[w].name = writer[w].name
          /\ writer'[w].value = writer[w].value /\ writer'[w].data = writer[w].data
      BY <2>5 DEF OpenTmp
    <3>2. UNCHANGED <<file, kept>>
      BY <2>5 DEF OpenTmp
    <3> QED BY <2>1, <3>1, <3>2 DEF Written
  <2>6. ASSUME NEW w \in Writers, FillTmp(w) PROVE Written'
    BY <2>1, <2>6 DEF FillTmp, Written
  <2>7. ASSUME NEW w \in Writers, Replace(w) PROVE Written'
    BY <2>1, <2>7 DEF Replace, Written, AtRest
  <2>8. ASSUME NEW w \in Writers, WriterDies(w) PROVE Written'
    BY <2>1, <2>8 DEF WriterDies, Written, AtRest
  <2>9. ASSUME UNCHANGED files PROVE Written'
    BY <2>9 DEF Written, files
  <2>10. CASE TakeUpToken \/ SeedClient \/ SeedStore \/ TimePasses \/ UNCHANGED sessionVars
    BY <2>9, <2>10 DEF TakeUpToken, SeedClient, SeedStore, TimePasses, sessionVars
  <2>11. ASSUME NEW t \in Threads, BeginFetch(t) \/ SetToken(t) \/ Acquire(t) \/ Send(t)
         PROVE  Written'
    BY <2>9, <2>11 DEF BeginFetch, SetToken, Acquire, Send
  <2> QED BY <2>2, <2>3, <2>4, <2>5, <2>6, <2>7, <2>8, <2>10, <2>11 DEF SessionNext
<1>3. Written => SecretsSurvive
  BY DEF Written, SecretsSurvive
<1>4. SessionInv => SessionTypeOK
  BY DEF SessionInv
<1> QED BY <1>1, <1>2, <1>3, <1>4, SessionInvariance, PTL DEF SessionSpec
==============================================================================
