----------------------------- MODULE MCGoalGraph -----------------------------
(***************************************************************************)
(* Every graph of three goals in a fixed order.                            *)
(***************************************************************************)
EXTENDS GoalGraph, TLC

CONSTANTS g1, g2, g3

InOrder == (g1 :> 1 @@ g2 :> 2 @@ g3 :> 3)
=============================================================================
