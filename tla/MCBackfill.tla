------------------------------ MODULE MCBackfill ------------------------------
(***************************************************************************)
(* Two instances of the backfill job, one of them per behaviour: runs over *)
(* one symbol into any tier, and runs over several symbols into the        *)
(* archive.                                                                *)
(***************************************************************************)
EXTENDS Backfill

VARIABLE instance

One == CHOOSE s \in Symbols : TRUE

BackfillInit == instance \in {"tiers", "symbols"} /\ Init

BackfillNext ==
    /\ Next
    /\ args' # None => \/ instance = "tiers"   /\ args'.symbols = {One}
                       \/ instance = "symbols" /\ args'.tier = "parquet"
    /\ UNCHANGED instance

BackfillSpec == BackfillInit /\ [][BackfillNext]_<<instance, vars>> /\ WF_vars(JobStep)
===============================================================================
