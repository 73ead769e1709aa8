--------------------------- MODULE MCGoalExecution ---------------------------
(***************************************************************************)
(* Small cycles for GoalExecution: two goals, dependent or not, with one   *)
(* task each or two and one, and one goal with one or two tasks.           *)
(***************************************************************************)
EXTENDS GoalExecution, TLC

CONSTANTS g1, g2, t1, t2, t3, d1, d2

OneTaskEach == (t1 :> g1 @@ t2 :> g2)
BothInOne   == (t1 :> g1 @@ t2 :> g1)
TwoAndOne   == (t1 :> g1 @@ t2 :> g1 @@ t3 :> g2)
OneTask     == (t1 :> g1)

InOrder  == (t1 :> 1 @@ t2 :> 2)
InOrder3 == (t1 :> 1 @@ t2 :> 2 @@ t3 :> 1)
First    == (t1 :> 1)

Independent == (g1 :> {} @@ g2 :> {})
Chain       == (g1 :> {} @@ g2 :> {g1})
OneGoal     == (g1 :> {})

DriverSymmetry == Permutations({d1, d2})
=============================================================================
