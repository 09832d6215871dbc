----------------------------- MODULE MCBacktester -----------------------------
(***************************************************************************)
(* Bars whose opens and closes all differ, so that a fill at the wrong bar *)
(* or a mark at the wrong price shows, and whose volumes make orders of    *)
(* both sizes slip.                                                        *)
(***************************************************************************)
EXTENDS Backtester

Opens5   == <<100, 103, 109, 98, 107>>
Closes5  == <<101, 105, 104, 96, 110>>
Volumes5 == <<2, 9, 3, 2, 9>>
Shares3  == {-1, 0, 2}
==============================================================================
