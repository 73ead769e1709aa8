----------------------------- MODULE Navigation -----------------------------
(***************************************************************************)
(* The pure scheduling functions of the orchestrator's domain: which goal  *)
(* and which task come next, which goals are ready, and whether a plan     *)
(* with blocked goals can still make progress                              *)
(* (domain/services/navigation.py, domain/services/dependency_graph.py).   *)
(* Statuses, dependencies and positions are functions over identifiers, so *)
(* that any module that keeps goals and tasks can apply them to its state. *)
(***************************************************************************)
EXTENDS Naturals, FiniteSets

Status == {"pending", "running", "done", "skipped", "failed"}

\* A terminal node is never selected again; FAILED is one of them.
Terminal == {"done", "skipped", "failed"}

NonTerminal(nodes, state) == {n \in nodes : state[n] \notin Terminal}

DoneNodes(nodes, state) == {n \in nodes : state[n] = "done"}

-----------------------------------------------------------------------------
(* dependency_graph.py *)

\* Not the code: the dependencies are not looked at.
UnorderedNodes(nodes, deps, done) == {n \in nodes : n \notin done}

ReadyNodes(nodes, deps, done) == {n \in nodes : deps[n] \subseteq done}

\* One sweep of blocked_nodes' loop: the nodes that depend on a blocked one
\* become blocked.
Spread(nodes, deps, blocked) ==
    blocked \cup {n \in nodes : deps[n] \cap blocked # {}}

\* Not the code: one sweep only.
SweptOnce(nodes, deps, direct) == Spread(nodes, deps, direct \cap nodes)

\* The fixed point of blocked_nodes: every sweep but the last adds a node, so
\* as many sweeps as there are nodes reach it.
BlockedNodes(nodes, deps, direct) ==
    LET after[i \in 0..Cardinality(nodes)] ==
            IF i = 0 THEN direct \cap nodes
                     ELSE Spread(nodes, deps, after[i - 1])
    IN  after[Cardinality(nodes)]

-----------------------------------------------------------------------------
(* navigation.py *)

\* The earliest non-terminal node, as a set of at most one when positions
\* are distinct.
Earliest(nodes, state, position) ==
    LET live == NonTerminal(nodes, state)
    IN  {n \in live : \A m \in live : position[n] <= position[m]}

ReadyGoalIds(goals, state, deps) ==
    ReadyNodes(NonTerminal(goals, state), deps, DoneNodes(goals, state))

CanPromoteGoal(tasks, state, evidence) ==
    \A t \in tasks : state[t] = "done" /\ evidence[t]

PlanCanProgress(goals, state, deps, blocked) ==
    LET live == NonTerminal(goals, state)
    IN  live \ BlockedNodes(live, deps, blocked) # {}

(* action_for_goal, as the kind of action and the task it is about. `ready` *)
(* says which tasks' back-off has elapsed.                                  *)
ActionForGoal(tasks, state, position, ready) ==
    LET head == Earliest(tasks, state, position)
    IN  IF head # {}
          THEN IF head \subseteq ready
                 THEN [kind |-> "task", tasks |-> head]
                 ELSE [kind |-> "not_ready", tasks |-> {}]
          ELSE IF \E t \in tasks : state[t] = "failed"
                 THEN [kind |-> "goal_failed", tasks |-> {}]
                 ELSE [kind |-> "close", tasks |-> {}]
=============================================================================
