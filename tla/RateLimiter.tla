------------------------------ MODULE RateLimiter ------------------------------
(***************************************************************************)
(* TokenBucketRateLimiter of quant/data/brokers/rate_limit.py and its      *)
(* caller, KiteAdapter.fetch_historical (quant/data/brokers/kite.py): every *)
(* request to the broker's data endpoint first takes a token, asleep under *)
(* the limiter's lock when there is none.                                  *)
(*                                                                         *)
(* Time is counted in clock ticks and tokens in parts, Unit parts to a     *)
(* token and Rate parts earned in a tick, so that refills are exact; the   *)
(* 1e-9 the code allows for rounding is left out.                          *)
(***************************************************************************)
EXTENDS Integers, Sequences

CONSTANTS Threads,
          Unit,         \* parts of one token
          Rate,         \* parts earned in one tick (rate_per_second)
          Capacity,     \* parts the bucket holds
          MaxOversleep, \* ticks by which sleep() may overrun
          MaxTime,      \* bound: ticks that pass
          MaxRequests,  \* bound: requests made
          Nobody

\* __init__ refuses a rate or a capacity that is not positive.
ASSUME LimiterAssumption ==
    /\ Unit \in Nat \ {0} /\ Rate \in Nat \ {0} /\ Capacity \in Nat \ {0}
    /\ MaxOversleep \in Nat
    /\ MaxTime \in Nat /\ MaxRequests \in Nat
    /\ Nobody \notin Threads

VARIABLES pc,       \* thread -> "idle", "queued", "look" or "asleep"
          holder,   \* the thread that has the lock
          tokens, updated,
          wakeAt,   \* when the sleep of the holder is over
          now,
          since,    \* history: when the holder took the lock
          granted   \* history: the times at which acquire() returned

vars == <<pc, holder, tokens, updated, wakeAt, now, since, granted>>

TypeOK ==
    /\ pc \in [Threads -> {"idle", "queued", "look", "asleep"}]
    /\ holder \in Threads \cup {Nobody}
    /\ tokens \in Int /\ 0 <= tokens /\ tokens <= Capacity
    /\ updated \in Nat /\ wakeAt \in Nat /\ now \in Nat /\ since \in Nat
    /\ updated <= now /\ since <= now
    /\ granted \in Seq(Nat)
    /\ \A t \in Threads : pc[t] \in {"look", "asleep"} <=> holder = t

Init ==
    /\ pc = [t \in Threads |-> "idle"] /\ holder = Nobody
    /\ tokens = Capacity /\ updated = 0 /\ wakeAt = 0 /\ now = 0
    /\ since = 0 /\ granted = <<>>

------------------------------------------------------------------------------

\* fetch_historical() calls acquire() before the request.
Request(t) ==
    /\ pc[t] = "idle" /\ Len(granted) < MaxRequests
    /\ pc' = [pc EXCEPT ![t] = "queued"]
    /\ UNCHANGED <<holder, tokens, updated, wakeAt, now, since, granted>>

\* with self._lock.
Lock(t) ==
    /\ pc[t] = "queued" /\ holder = Nobody
    /\ pc' = [pc EXCEPT ![t] = "look"] /\ holder' = t /\ since' = now
    /\ UNCHANGED <<tokens, updated, wakeAt, now, granted>>

\* A slip the runs must notice: the bucket fills without a limit.
RefilledUncapped == tokens + (now - updated) * Rate

\* What the bucket holds after the refill of this pass of the loop.
Refilled == LET earned == tokens + (now - updated) * Rate
            IN  IF earned < Capacity THEN earned ELSE Capacity

\* A token is there: it is consumed, the lock released, the request made.
Grant(t) ==
    /\ pc[t] = "look" /\ Refilled >= Unit
    /\ tokens' = Refilled - Unit /\ updated' = now
    /\ granted' = Append(granted, now)
    /\ pc' = [pc EXCEPT ![t] = "idle"] /\ holder' = Nobody
    /\ UNCHANGED <<wakeAt, now, since>>

\* The sleep until the missing parts are earned, rounded up to a tick.
Wait == (Unit - Refilled + Rate - 1) \div Rate

\* A slip the runs must notice: the time is noted, what it earned is not.
SleepForgetting(t) ==
    /\ pc[t] = "look" /\ Refilled < Unit
    /\ tokens' = tokens /\ updated' = now
    /\ wakeAt' = now + Wait
    /\ pc' = [pc EXCEPT ![t] = "asleep"]
    /\ UNCHANGED <<holder, now, since, granted>>

Sleep(t) ==
    /\ pc[t] = "look" /\ Refilled < Unit
    /\ tokens' = Refilled /\ updated' = now
    /\ wakeAt' = now + Wait
    /\ pc' = [pc EXCEPT ![t] = "asleep"]
    /\ UNCHANGED <<holder, now, since, granted>>

\* The next pass of the loop.
Wake(t) ==
    /\ pc[t] = "asleep" /\ now >= wakeAt
    /\ pc' = [pc EXCEPT ![t] = "look"]
    /\ UNCHANGED <<holder, tokens, updated, wakeAt, now, since, granted>>

\* Time passes; a pass of the loop takes none, and sleep() overruns its time by
\* no more than MaxOversleep.
Tick ==
    /\ now < MaxTime
    /\ \A t \in Threads : /\ pc[t] # "look"
                          /\ pc[t] = "asleep" => now < wakeAt + MaxOversleep
    /\ now' = now + 1
    /\ UNCHANGED <<pc, holder, tokens, updated, wakeAt, since, granted>>

Next == \/ \E t \in Threads : Request(t) \/ Lock(t) \/ Grant(t) \/ Sleep(t) \/ Wake(t)
        \/ Tick

Spec == Init /\ [][Next]_vars

------------------------------------------------------------------------------
(* Properties.                                                             *)

\* The promise of a token bucket: among all the requests let through between two
\* of them there are never more than the burst plus what those ticks earned,
\* whatever the threads do and however long they oversleep.
RateBounded ==
    \A i, j \in 1 .. Len(granted) :
        i <= j => (j - i + 1) * Unit <= Capacity + (granted[j] - granted[i]) * Rate

\* "Sleep exactly long enough for the next token": a caller that got the lock
\* holds it no longer than one token takes to earn, plus an oversleep, so a
\* queued thread waits a bounded time for each of those before it.
HeldBriefly ==
    holder # Nobody =>
        now - since <= (Unit + Rate - 1) \div Rate + MaxOversleep
==============================================================================
