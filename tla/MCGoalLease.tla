----------------------------- MODULE MCGoalLease -----------------------------
(***************************************************************************)
(* Two workers contending for one goal's lease of two seconds.             *)
(***************************************************************************)
EXTENDS GoalLease, TLC

CONSTANTS w1, w2

WorkerSymmetry == Permutations({w1, w2})
=============================================================================
