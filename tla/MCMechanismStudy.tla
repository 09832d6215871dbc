--------------------------- MODULE MCMechanismStudy ---------------------------
(***************************************************************************)
(* Two pre-registrations that differ in what they promise, one with a      *)
(* field missing and one of another mechanism.                             *)
(***************************************************************************)
EXTENDS MechanismStudy

Text(says, declares, complete) == [says |-> says, declares |-> declares, complete |-> complete]

MCTexts == {Text(1, "pairs", TRUE), Text(2, "pairs", TRUE), Text(1, "pairs", FALSE),
            Text(1, "pead", TRUE)}
===============================================================================
