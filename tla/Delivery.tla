------------------------------ MODULE Delivery ------------------------------
(***************************************************************************)
(* What the execution of a cycle promises, without workers, attempts,      *)
(* leases, reservations, pauses or failures: verified tasks accumulate, a  *)
(* goal is promoted once, after all of its tasks and all of the goals it   *)
(* depends on, and nothing is delivered into a cycle that was superseded.  *)
(* GoalExecution is shown to implement it.                                 *)
(***************************************************************************)
CONSTANTS Goal, Task, GoalOf, DependsOn

VARIABLES
    delivered, \* the tasks whose work was accepted
    promoted,  \* the goals merged into the cycle
    open       \* the cycle has not been superseded

delivery == <<delivered, promoted, open>>

Deliver(t) ==
    /\ open
    /\ t \notin delivered /\ GoalOf[t] \notin promoted
    /\ delivered' = delivered \cup {t}
    /\ UNCHANGED <<promoted, open>>

Promote(g) ==
    /\ open
    /\ g \notin promoted /\ DependsOn[g] \subseteq promoted
    /\ {t \in Task : GoalOf[t] = g} \subseteq delivered
    /\ promoted' = promoted \cup {g}
    /\ UNCHANGED <<delivered, open>>

Supersede ==
    /\ open
    /\ open' = FALSE
    /\ UNCHANGED <<delivered, promoted>>

Init == delivered = {} /\ promoted = {} /\ open = TRUE

Next ==
    \/ \E t \in Task : Deliver(t)
    \/ \E g \in Goal : Promote(g)
    \/ Supersede

Spec == Init /\ [][Next]_delivery
=============================================================================
