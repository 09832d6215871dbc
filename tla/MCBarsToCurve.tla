----------------------------- MODULE MCBarsToCurve -----------------------------
(***************************************************************************)
(* The two ends of research on one symbol: rows to learn from while its    *)
(* bars arrive, and the curve that a signal earns on bars cut into         *)
(* sessions.  They share no state, so a behaviour is one of one of them.   *)
(***************************************************************************)
EXTENDS MCPointInTime, MCBacktester

VARIABLE job

AnyConfig  == CHOOSE c \in Configs : TRUE
AnyHistory == CHOOSE h \in Histories : TRUE

OneSession == [b \in DOMAIN Open |-> 1]
NoSignal   == [b \in DOMAIN Open |-> Unchanged]

CurveInit ==
    /\ \/ job = "rows"  /\ session = OneSession /\ signal = NoSignal
       \/ job = "curve" /\ config = AnyConfig /\ bars = AnyHistory
    /\ RowsInit /\ Init

CurveNext ==
    \/ job = "rows"  /\ RowsNext /\ UNCHANGED <<job, vars>>
    \/ job = "curve" /\ Next     /\ UNCHANGED <<job, rowVars>>

CurveSpec == CurveInit /\ [][CurveNext]_<<job, rowVars, vars>>
===============================================================================
