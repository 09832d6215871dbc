----------------------------- MODULE MCPointInTime -----------------------------
(***************************************************************************)
(* Two decision frequencies, intraday and carried; bars that rise, fall,   *)
(* and swing far enough to reach both barriers.                            *)
(***************************************************************************)
EXTENDS PointInTime

Bar(t, h, l, c, v) == [t |-> t, high |-> h, low |-> l, close |-> c, volume |-> v]

MCConfigs == {[decision |-> 1, fine |-> 1, mode |-> "mis"],
              [decision |-> 1, fine |-> 1, mode |-> "cnc"],
              [decision |-> 2, fine |-> 1, mode |-> "cnc"]}

\* Four bars fill the windows.
MCHistories == {<<Bar(0, 9, 8, 8, 1), Bar(1, 10, 8, 10, 1), Bar(2, 10, 9, 9, 2),
                  Bar(3, 11, 9, 11, 1)>>}

MCShapes == {[high |-> 2, low |-> 0, close |-> 2, volume |-> 1],
             [high |-> 0, low |-> -3, close |-> -3, volume |-> 2],
             [high |-> 5, low |-> -5, close |-> 1, volume |-> 0]}

Peer == <<Bar(0, 8, 7, 7, 1), Bar(1, 9, 7, 9, 1), Bar(2, 9, 8, 8, 1),
          Bar(3, 10, 8, 10, 2), Bar(4, 13, 10, 13, 1), Bar(5, 13, 12, 12, 1),
          Bar(6, 15, 12, 15, 1), Bar(7, 15, 15, 15, 1)>>

MCPeers == [a |-> Peer, c |-> Peer]
MCSymbols == <<"a", "b", "c">>
===============================================================================
