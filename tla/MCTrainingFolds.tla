---------------------------- MODULE MCTrainingFolds ----------------------------
(***************************************************************************)
(* Tables over ten rows: one whose members agree, one with a rare class    *)
(* that leaves folds and training sets of a single class.                  *)
(***************************************************************************)
EXTENDS TrainingFolds

Row(s) == [i \in Pos |-> s[i + 1]]

\* With and without pauses; labels that end at once, as the next row begins, or
\* beyond it.
MCWindows ==
    {<<s, [i \in Pos |-> s[i] + IF i \in 3 .. 6 THEN h[i] ELSE (9 - i) % 2]>> :
        s \in {Row(<<0, 1, 2, 3, 4, 5, 6, 7, 8, 9>>),
               Row(<<0, 1, 3, 4, 6, 7, 8, 9, 10, 11>>)},
        h \in [3 .. 6 -> 0 .. 2]}

MCTables ==
    {[label |-> Row(<<1, 0, 1, 1, 0, 1, 0, 0, 0, 1>>),
      weight |-> Row(<<1, 1, 2, 1, 1, 1, 1, 1, 1, 1>>),
      look |-> <<Row(<<1, 0, 1, 0, 0, 1, 1, 0, 1, 1>>),
                 Row(<<1, 1, 0, 0, 1, 0, 1, 0, 0, 0>>)>>,
      ret |-> Row(<<2, -3, 3, 2, -2, 3, -2, 2, -3, 3>>),
      regime |-> Row(<<1, 2, 1, 2, 1, 2, 2, 1, 1, 2>>)],
     [label |-> Row(<<0, 0, 1, 0, 0, 0, 0, 0, 0, 0>>),
      weight |-> Row(<<1, 1, 1, 1, 1, 1, 1, 1, 1, 1>>),
      look |-> <<Row(<<0, 1, 1, 0, 0, 1, 0, 1, 1, 0>>),
                 Row(<<1, 0, 1, 1, 0, 0, 1, 0, 1, 1>>)>>,
      ret |-> Row(<<-2, 2, 3, -3, 2, 2, -2, 3, 2, -3>>),
      regime |-> Row(<<1, 1, 1, 2, 2, 2, 1, 2, 1, 2>>)]}

MCGrids == {<<0, 2>>, <<1, -1>>}
===============================================================================
