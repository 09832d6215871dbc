------------------------------ MODULE WriteOnce ------------------------------
(***************************************************************************)
(* What the cold tier promises of every symbol/date partition, and nothing *)
(* about how it is stored: a cell is empty until somebody fills it, and    *)
(* from then on it keeps that content for ever.                            *)
(***************************************************************************)
CONSTANTS Cells,    \* the addressable partitions
          Values,   \* the contents a partition may have
          Empty     \* the content of a partition that was never written

VARIABLE cell

Init == cell = [c \in Cells |-> Empty]

Fill(c, v) == /\ cell[c] = Empty
              /\ cell' = [cell EXCEPT ![c] = v]

Next == \E c \in Cells, v \in Values : Fill(c, v)

Spec == Init /\ [][Next]_cell
==============================================================================
