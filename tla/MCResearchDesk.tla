---------------------------- MODULE MCResearchDesk ----------------------------
(***************************************************************************)
(* Thresholds, and evidence and batteries on both sides of each of them.   *)
(* Every record but the first differs from the first in one place.         *)
(***************************************************************************)
EXTENDS ResearchDesk

MCBars == [knifeEdgeCv |-> 100, syntheticEdge |-> 50, medianSharpe |-> 1,
           dsr |-> 95, pbo |-> 20, negativePaths |-> 5, worstPath |-> 0,
           profitFactor |-> 120, concentration |-> 50, regimeMean |-> 0,
           regimeFloor |-> 2]

Order2 == <<"baseline", "stack">>

\* The baseline wins in both halves.
Fit == [baseline |-> <<2, 3, 2, 3>>, stack |-> <<1, -1, 0, 1>>]
\* The winner of each half loses the other.
Overfit == [baseline |-> <<2, 3, 0, -1>>, stack |-> <<0, -1, 2, 3>>]

Clear == [paths |-> <<2, 1, 3>>, dsr |-> 95, panel |-> Fit,
          net |-> <<3, 3, -2, 3>>, regimes |-> <<0, 0, 0, 1>>]

MCEvidence ==
    {Clear,
     [Clear EXCEPT !.panel = Overfit],
     [Clear EXCEPT !.panel = [baseline |-> <<2, 3, 2>>, stack |-> <<1, -1, 0>>]]}

Robust == [variants |-> [v \in Variants(2) |-> IF v = "ungated" THEN 1 ELSE 2],
           repeats |-> (1 :> <<1, 0>>) @@ (2 :> <<-1, 0>>), path |-> <<1, -1, 2>>,
           orders |-> <<<<2, 1, 3>>, <<1, 2, 3>>>>,
           held |-> [s1 |-> 1, s2 |-> 1],
           universes |-> <<1, Skipped, 0>>, reconciled |-> TRUE]

MCBatteries ==
    {Robust,
     [Robust EXCEPT !.variants =
         [v \in Variants(2) |-> IF v = "ungated" THEN -1 ELSE 7]],
     [Robust EXCEPT !.universes = <<Skipped>>],
     [Robust EXCEPT !.held.s2 = Undefined],
     [Robust EXCEPT !.variants = [v \in Variants(2) |-> -1],
                    !.repeats = (1 :> <<-1, 0>>) @@ (2 :> <<-2, 0>>)]}

Symmetry == Permutations(Writers) \cup Permutations(Readers \ Writers)
==============================================================================
