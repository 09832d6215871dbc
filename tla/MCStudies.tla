------------------------------- MODULE MCStudies -------------------------------
(***************************************************************************)
(* The scripts that judge a strategy offline: the complete pipeline over   *)
(* daily bars, the factor gate, the rotation of funds, and a mechanism     *)
(* study.  They share no state, so a behaviour is one of one of them; the  *)
(* inputs of the others are any.                                           *)
(***************************************************************************)
EXTENDS MCDailyPipeline, MCFactorDesk, MCEtfRotation, MCMechanismStudy

VARIABLE job

AnySource   == CHOOSE s \in Sources : TRUE
AnyArms     == CHOOSE a \in ArmLists : TRUE
AnyPanel    == CHOOSE p \in Panels : TRUE
AnyCalendar == CHOOSE c \in Calendars : TRUE
AnyPrices   == CHOOSE p \in PricePanels : TRUE
AnyPlan     == CHOOSE p \in Plans : TRUE

AnyBars    == source = AnySource /\ arms = AnyArms
AnyFactors == panel = AnyPanel
AnyFunds   == calendar = AnyCalendar /\ prices = AnyPrices /\ plan = AnyPlan

StudiesInit ==
    /\ \/ job = "pipeline"  /\ AnyFactors /\ AnyFunds
       \/ job = "factors"   /\ AnyBars /\ AnyFunds
       \/ job = "funds"     /\ AnyBars /\ AnyFactors
       \/ job = "mechanism" /\ AnyBars /\ AnyFactors /\ AnyFunds
    /\ PipelineInit /\ GateInit /\ RotationInit /\ StudyInit

StudiesNext ==
    \/ job = "pipeline"  /\ PipelineNext /\ UNCHANGED <<job, gateVars, rotationVars, studyVars>>
    \/ job = "factors"   /\ GateNext     /\ UNCHANGED <<job, pipelineVars, rotationVars, studyVars>>
    \/ job = "funds"     /\ RotationNext /\ UNCHANGED <<job, pipelineVars, gateVars, studyVars>>
    \/ job = "mechanism" /\ StudyNext    /\ UNCHANGED <<job, pipelineVars, gateVars, rotationVars>>

StudiesSpec ==
    StudiesInit /\ [][StudiesNext]_<<job, pipelineVars, gateVars, rotationVars, studyVars>>
===============================================================================
