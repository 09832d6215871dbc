------------------------------- MODULE MisTrader -------------------------------
(***************************************************************************)
(* What the backtest promises of the simulated trader                      *)
(* (quant/research/validation/backtest.py, module docstring): he meets the *)
(* bars one at a time, decides on the close of a bar, and the decision     *)
(* fills Delay bars later at the open, never in another session; he is     *)
(* flat at the last bar of every session.  The target of a bar is read at  *)
(* that bar and never before.                                              *)
(***************************************************************************)
EXTENDS Integers, Sequences

CONSTANTS NumBars,     \* bars 1 .. NumBars
          Delay,       \* bars between a decision and its fill
          Unchanged    \* a bar without a target of its own

VARIABLES session,     \* session[b]: the session bar b belongs to
          target,      \* target[b]: shares to hold, or Unchanged
          bar,         \* bars gone by
          intents,     \* this session's decisions, one per bar
          position     \* shares held during the last bar

Opens(b)  == b = 1 \/ session[b - 1] # session[b]
Closes(b) == b = NumBars \/ session[b + 1] # session[b]

Begin == bar = 0 /\ intents = <<>> /\ position = 0

Decided(before, b) ==
    IF target[b] # Unchanged THEN target[b]
    ELSE IF before = <<>> THEN 0 ELSE before[Len(before)]

Trade ==
    /\ bar < NumBars
    /\ bar' = bar + 1
    /\ LET before == IF Opens(bar') THEN <<>> ELSE intents
       IN  intents' = Append(before, Decided(before, bar'))
    /\ position' = IF Closes(bar') \/ Len(intents') <= Delay THEN 0
                   ELSE intents'[Len(intents') - Delay]
    /\ UNCHANGED <<session, target>>

Spec == Begin /\ [][Trade]_<<bar, intents, position>>
==============================================================================
