---------------------------- MODULE MCEtfRotation -----------------------------
(***************************************************************************)
(* Three funds over fourteen sessions of three months, with weekends, and  *)
(* in one calendar with a holiday: funds that stay, swing, rise, and fall  *)
(* before they rise, so that a rotation may beat the benchmark or not; and *)
(* six sessions, which leave one observation for three folds.              *)
(***************************************************************************)
EXTENDS EtfRotation

MCFunds == <<"gold", "nifty", "bonds">>

MCCalendars ==
    {<<0, 1, 2, 3, 4, 7, 8, 9, 10, 11, 14, 15, 16, 17>>,
     <<1, 2, 3, 4, 7, 8, 9, 11, 14, 15, 16, 17, 18, 21>>,
     <<0, 1, 2, 3, 4, 7>>}

\* A price that doubles and halves.
Path(n, moves) ==
    [t \in 1 .. n |->
        2 ^ FoldLeft(+, 4, [k \in 1 .. t - 1 |-> moves[((k - 1) % Len(moves)) + 1]])]

MCPricePanels ==
    {[gold |-> Path(14, x), nifty |-> Path(14, y), bonds |-> Path(14, <<1, 0, -1>>)] :
        x \in {<<1, -1, 0>>, <<0, 0, 1, -1>>, <<0>>},
        y \in {<<0, 1, -1, 0, -1>>, <<0, 0, 0, 1>>, <<0>>,
               <<-1, 0, -1, 0, 0, 0, 1, 0, 1, 0, 1, 0, 0>>}}
    \cup {[s \in Range(MCFunds) |-> Path(6, <<1, -1, 0>>)]}

Rotation(k, gated) == [kind |-> "rotation", topK |-> k, gate |-> gated]
MCPlans == {<<Rotation(1, FALSE), Rotation(2, TRUE)>>,
            <<[kind |-> "parity", topK |-> 3, gate |-> FALSE]>>}

MCScores == {[gold |-> 1, nifty |-> 2, bonds |-> 0], [gold |-> 2, nifty |-> 1, bonds |-> 2]}
MCSideRate == [buy |-> 4, sell |-> 6]
===============================================================================
