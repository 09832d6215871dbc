------------------------------ MODULE TickStream ------------------------------
(***************************************************************************)
(* The live feed: KiteTickerTransport (quant/data/brokers/ticker.py) hands *)
(* the callbacks of the broker's socket to TickStreamConsumer              *)
(* (quant/data/ingest/stream.py), which parses every raw tick and puts it  *)
(* on a bounded queue that another thread drains, and keeps the time of    *)
(* the last activity for a heartbeat.                                      *)
(*                                                                         *)
(* External: the socket thread of the SDK runs one callback at a time,     *)
(* reconnects by itself until it is stopped or its attempts are used up,   *)
(* and a new connection starts with no subscription.  A raw tick is its    *)
(* arrival number, its instrument token and its kind: "bad" stands for a   *)
(* payload that parse_market_update cannot read.                           *)
(***************************************************************************)
EXTENDS Integers, Sequences

CONSTANTS Tokens,       \* the instrument tokens of token_to_symbol
          Capacity,     \* maxsize of the queue
          StaleTimeout, \* stale_timeout_seconds
          BadStamps,    \* may a tick carry a timestamp that is no datetime?
          MaxTicks,     \* bound: raw ticks received
          MaxBatch,     \* bound: ticks in one callback
          MaxTime,      \* bound: seconds that pass
          Unknown,      \* a token that is not in the map
          Never         \* _last_activity before start()

ASSUME StreamAssumption ==
    /\ Capacity \in Nat \ {0} /\ StaleTimeout \in Nat
    /\ MaxTicks \in Nat /\ MaxBatch \in Nat \ {0} /\ MaxTime \in Nat
    /\ BadStamps \in BOOLEAN /\ Unknown \notin Tokens

Kinds == {"good"} \cup IF BadStamps THEN {"bad"} ELSE {}
Raw   == [n : 1 .. MaxTicks, token : Tokens \cup {Unknown}, kind : Kinds]

Links == {"off", "connecting", "open", "stopped", "dead"}

VARIABLES link,        \* the socket, one of Links
          subscribed,  \* tokens the broker streams on this connection
          inform,      \* is the on_connect callback of this connection due?
          batch,       \* the ticks on_ticks has not gone through yet
          queue, dropped, unknown, lastActivity,
          now,
          taken,       \* what the draining thread took, in order
          received,    \* history: ticks the socket delivered
          cut,         \* history: ticks left when parse_market_update raised
          lastTick     \* history: when ticks last arrived, or start() ran

counters == <<dropped, unknown>>
streamVars == <<link, subscribed, inform, batch, queue, counters, lastActivity, now,
          taken, received, cut, lastTick>>

StreamTypeOK ==
    /\ link \in Links
    /\ subscribed \subseteq Tokens /\ inform \in BOOLEAN
    /\ batch \in Seq(Raw) /\ Len(batch) <= MaxBatch
    /\ queue \in Seq(Raw) /\ Len(queue) <= Capacity
    /\ taken \in Seq(Raw) /\ received \in Seq(Raw) /\ Len(received) <= MaxTicks
    /\ dropped \in Nat /\ unknown \in Nat
    /\ lastActivity \in 0 .. now \cup {Never} /\ now \in 0 .. MaxTime
    /\ subscribed # {} => link = "open"
    /\ lastTick \in 0 .. now \cup {Never} /\ cut \in Nat

StreamInit ==
    /\ link = "off" /\ subscribed = {} /\ inform = FALSE /\ batch = <<>>
    /\ queue = <<>> /\ dropped = 0 /\ unknown = 0
    /\ lastActivity = Never /\ now = 0
    /\ taken = <<>> /\ received = <<>> /\ cut = 0 /\ lastTick = Never

------------------------------------------------------------------------------
(* The socket.                                                             *)

\* start(): listener, heartbeat, connect(threaded=True).
Start ==
    /\ link = "off"
    /\ link' = "connecting" /\ lastActivity' = now /\ lastTick' = now
    /\ UNCHANGED <<subscribed, inform, batch, queue, counters, now, taken,
                   received, cut>>

Open ==
    /\ link = "connecting" /\ ~ inform /\ batch = <<>>
    /\ link' = "open" /\ inform' = TRUE
    /\ UNCHANGED <<subscribed, batch, queue, counters, lastActivity, now, taken,
                   received, lastTick, cut>>

\* A slip the runs must notice: only the first connection is subscribed.
OnFirstConnect ==
    /\ inform
    /\ inform' = FALSE
    /\ subscribed' = IF link = "open" /\ received = <<>> THEN Tokens ELSE subscribed
    /\ lastActivity' = now
    /\ UNCHANGED <<link, batch, queue, counters, now, taken, received, lastTick, cut>>

\* on_connect(): subscribe in full mode, then touch the heartbeat.
OnConnect ==
    /\ inform
    /\ inform' = FALSE
    /\ subscribed' = IF link = "open" THEN Tokens ELSE subscribed
    /\ lastActivity' = now
    /\ UNCHANGED <<link, batch, queue, counters, now, taken, received, lastTick, cut>>

\* on_close(), and on_reconnect() of the attempt after it, only log.
Drop ==
    /\ link = "open"
    /\ link' = "connecting" /\ subscribed' = {}
    /\ UNCHANGED <<inform, batch, queue, counters, lastActivity, now, taken,
                   received, lastTick, cut>>

\* The SDK's reconnect_max_tries are used up; nothing tells the listener.
AttemptsUsedUp ==
    /\ link = "connecting"
    /\ link' = "dead"
    /\ UNCHANGED <<subscribed, inform, batch, queue, counters, lastActivity, now,
                   taken, received, lastTick, cut>>

Stop ==
    /\ link \in {"connecting", "open"}
    /\ link' = "stopped" /\ subscribed' = {}
    /\ UNCHANGED <<inform, batch, queue, counters, lastActivity, now, taken,
                   received, lastTick, cut>>

------------------------------------------------------------------------------
(* on_ticks.                                                               *)

\* A slip the runs must notice: ticks do not count as activity.
OnTicksUntouched(ticks) ==
    /\ subscribed # {} /\ ~ inform /\ batch = <<>>
    /\ Len(received) + Len(ticks) <= MaxTicks
    /\ batch' = [i \in 1 .. Len(ticks) |->
                    [n |-> Len(received) + i, token |-> ticks[i].token,
                     kind |-> ticks[i].kind]]
    /\ received' = received \o batch'
    /\ lastTick' = now
    /\ UNCHANGED <<link, subscribed, inform, queue, counters, lastActivity, now,
                   taken, cut>>

OnTicks(ticks) ==
    /\ subscribed # {} /\ ~ inform /\ batch = <<>>
    /\ Len(received) + Len(ticks) <= MaxTicks
    /\ batch' = [i \in 1 .. Len(ticks) |->
                    [n |-> Len(received) + i, token |-> ticks[i].token,
                     kind |-> ticks[i].kind]]
    /\ received' = received \o batch'
    /\ lastActivity' = now /\ lastTick' = now
    /\ UNCHANGED <<link, subscribed, inform, queue, counters, now, taken, cut>>

\* A slip the runs must notice: a drop without a count.
EnqueueQuietly(update) ==
    /\ queue' = IF Len(queue) < Capacity THEN Append(queue, update) ELSE queue
    /\ dropped' = dropped

\* _enqueue() of an update: put_nowait, and on Full the update is dropped, counted.
Enqueue(update) ==
    IF Len(queue) < Capacity
      THEN queue' = Append(queue, update) /\ dropped' = dropped
      ELSE queue' = queue /\ dropped' = dropped + 1

\* The next raw tick of the batch: an unknown token is counted and skipped.
ParseTick ==
    /\ batch # <<>>
    /\ Head(batch).token = Unknown \/ Head(batch).kind = "good"
    /\ batch' = Tail(batch)
    /\ IF Head(batch).token = Unknown
         THEN unknown' = unknown + 1 /\ UNCHANGED <<queue, dropped>>
         ELSE Enqueue(Head(batch)) /\ UNCHANGED unknown
    /\ UNCHANGED <<link, subscribed, inform, lastActivity, now, taken, received,
                   lastTick, cut>>

\* parse_market_update raises TypeError out of on_ticks.
ParseRaises ==
    /\ batch # <<>> /\ Head(batch).token # Unknown /\ Head(batch).kind = "bad"
    /\ batch' = <<>> /\ cut' = cut + Len(batch)
    /\ UNCHANGED <<link, subscribed, inform, queue, counters, lastActivity, now,
                   taken, received, lastTick>>

\* The thread that drains the queue.
Take ==
    /\ queue # <<>>
    /\ queue' = Tail(queue) /\ taken' = Append(taken, Head(queue))
    /\ UNCHANGED <<link, subscribed, inform, batch, counters, lastActivity, now,
                   received, lastTick, cut>>

SecondPasses ==
    /\ now < MaxTime
    /\ now' = now + 1
    /\ UNCHANGED <<link, subscribed, inform, batch, queue, counters,
                   lastActivity, taken, received, lastTick, cut>>

Batches == UNION {[1 .. k -> [token : Tokens \cup {Unknown}, kind : Kinds]] :
                      k \in 1 .. MaxBatch}

StreamNext ==
    \/ Start \/ Open \/ OnConnect \/ Drop \/ AttemptsUsedUp \/ Stop
    \/ \E ticks \in Batches : OnTicks(ticks)
    \/ ParseTick \/ ParseRaises \/ Take \/ SecondPasses

\* The SDK keeps trying to connect until it gives up, and a callback that began
\* is run to its end.  The draining thread may stall for ever.
StreamFairness == /\ WF_streamVars(Open) /\ WF_streamVars(OnConnect)
                  /\ WF_streamVars(ParseTick \/ ParseRaises)

StreamSpec == StreamInit /\ [][StreamNext]_streamVars /\ StreamFairness

------------------------------------------------------------------------------
(* Properties.                                                             *)

\* is_stale(): no activity for longer than the timeout.
IsStale == lastActivity # Never /\ now - lastActivity > StaleTimeout

\* Nothing is lost without a count but the rest of a batch whose parsing raised:
\* every other tick the socket delivered is still in its callback, on the queue,
\* taken, or in one of the two counters.
EveryTickAccounted ==
    Len(received) = Len(batch) + Len(queue) + Len(taken) + dropped + unknown + cut

\* "A dropped connection auto-recovers cleanly" (the module's head): whatever drops
\* and raising callbacks came before, a connection that lasts ends up, and stays,
\* subscribed to the whole token set.
Recovers == <>[](link = "open") => <>[](subscribed = Tokens)

\* A feed on which ticks still arrive is never reported stale: an alarm means that
\* none came for longer than the timeout, start() and reconnections included.
NoFalseAlarm == IsStale => now - lastTick > StaleTimeout
==============================================================================
