------------------------------ MODULE MCRecorders ------------------------------
(***************************************************************************)
(* What runs beside the market: the feed, the depth recorder, the recorder *)
(* of earnings reactions and the audit log share no state, so a behaviour  *)
(* is one of one of them, the others idle.  Each moves by its own          *)
(* next-state relation and under its own fairness.                         *)
(***************************************************************************)
EXTENDS AuditLog, DepthRecorder, EventRecorder, TickStream

VARIABLE job

Jobs == {"audit", "depth", "events", "feed"}

RecordersInit == job \in Jobs /\ Init /\ RecorderInit /\ EventInit /\ StreamInit

RecordersNext ==
    \/ job = "audit"  /\ Next         /\ UNCHANGED <<job, recorderVars, eventVars, streamVars>>
    \/ job = "depth"  /\ RecorderNext /\ UNCHANGED <<job, vars, eventVars, streamVars>>
    \/ job = "events" /\ EventNext    /\ UNCHANGED <<job, vars, recorderVars, streamVars>>
    \/ job = "feed"   /\ StreamNext   /\ UNCHANGED <<job, vars, recorderVars, eventVars>>

RecordersSpec ==
    /\ RecordersInit
    /\ [][RecordersNext]_<<job, vars, recorderVars, eventVars, streamVars>>
    /\ StreamFairness

\* One symbol with bars missing over a weekend, and one that was suspended and
\* has a broken close.
BarOf(day, close) == [t |-> DaySlots * day, close |-> close]

MCListed ==
    [a |-> <<BarOf(0, 5), BarOf(1, 6), BarOf(4, 7), BarOf(5, 5), BarOf(6, 8), BarOf(7, 9),
             BarOf(8, 4)>>,
     b |-> <<BarOf(0, 3), BarOf(4, 0), BarOf(5, 4), BarOf(8, 5), BarOf(11, 6)>>]

\* Announcements in and between sessions, one with a corrected surprise.
On(symbol, time, actual) ==
    [symbol |-> symbol, time |-> time, actual |-> actual, estimate |-> 2]

MCCalendars ==
    {<<On("a", 3, 4)>>, <<On("a", 3, 1), On("a", 9, 2), On("a", 3, 5)>>,
     <<On("b", 9, 3), On("a", 8, 1)>>,
     <<On("b", 10, 3), [On("b", 3, 1) EXCEPT !.estimate = 0]>>}
===============================================================================
