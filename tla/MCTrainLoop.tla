---------------------------- MODULE MCTrainLoop ----------------------------
(***************************************************************************)
(* Model-checking instance of TrainLoop.  Accuracy levels 0 < 1 < 2 are   *)
(* enough to produce improvements, ties and regressions; budgets of 2 and  *)
(* 4 epochs with patience 2 let a launch both stop early and run out its   *)
(* budget.                                                                 *)
(***************************************************************************)
EXTENDS TrainLoop

MCAcc          == {0, 1, 2}
MCEpochBudgets == {2, 4}
MCDataSizes    == {20}
MCAnyData      == {0, 5, 20}
====
