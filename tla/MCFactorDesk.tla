----------------------------- MODULE MCFactorDesk -----------------------------
(***************************************************************************)
(* Five names of two sectors over ten days, months of two days: steady,    *)
(* rising and falling names, one that is suspended for a day, one that is  *)
(* listed late, one that is delisted, and two-for-one splits, one before   *)
(* the first job and one between two jobs.  Prices before a split are      *)
(* even, so that halving them loses nothing.                               *)
(***************************************************************************)
EXTENDS FactorDesk

MCSectors == [s \in 1 .. 5 |-> IF s \in {1, 2, 3} THEN "bank" ELSE "tech"]

MCThesis == [momentum |-> 1, reversal |-> 0, low_vol |-> 1, amihud |-> 0,
             residual_mom |-> 1]

Up      == <<100, 102, 103, 106, 107, 112, 113, 118, 120, 121>>
Down    == <<200, 198, 190, 192, 180, 178, 176, 160, 158, 150>>
Wild    == <<96, 120, 80, 112, 88, 116, 90, 118, 84, 120>>
Split   == <<400, 404, 412, 424, 212, 208, 214, 218, 216, 224>>
Later   == <<400, 404, 412, 424, 428, 424, 440, 220, 216, 224>>
Halted  == <<50, 51, 52, NaN, 54, 53, 55, 56, 54, 57>>
Late    == <<NaN, NaN, 70, 72, 71, 75, 76, 74, 78, 80>>
Gone    == <<60, 61, 59, 58, 56, 55, 53, NaN, NaN, NaN>>
Busy    == <<9, 8, 9, 9, 8, 9, 9, 9, 9, 9>>
Quiet   == <<3, 4, 2, 3, 3, 5, 4, 3, 3, 4>>

Traded(raw, value) == [t \in DOMAIN raw |-> IF raw[t] = NaN THEN NaN ELSE value[t]]

Panel(raw, events) ==
    [raw |-> raw,
     value |-> [s \in 1 .. 5 |-> Traded(raw[s], IF s \in {1, 4} THEN Busy ELSE Quiet)],
     events |-> events]

MCPanels == {Panel(<<Up, Down, Halted, Split, Wild>>,
                   {[name |-> 4, day |-> 5, kind |-> "split"]}),
             Panel(<<Split, Wild, Late, Later, Gone>>,
                   {[name |-> 1, day |-> 5, kind |-> "bonus"],
                    [name |-> 4, day |-> 8, kind |-> "split"]}),
             Panel(<<Wild, Up, Down, Gone, Late>>,
                   {[name |-> 2, day |-> 8, kind |-> "split"]})}

\* A split and a bonus issue with one ex-date.
MCPanelsTwice == {Panel(<<Up, Down, Halted, Split, Wild>>,
                        {[name |-> 4, day |-> 5, kind |-> "split"],
                         [name |-> 4, day |-> 5, kind |-> "bonus"]})}
===============================================================================
