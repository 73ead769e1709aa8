------------------------------ MODULE GoalGraph ------------------------------
(***************************************************************************)
(* The goals of an active cycle as a graph that an operator edits while    *)
(* goals are driven: which goals are ready, which are stuck behind a       *)
(* block, and the plan's status derived from both                          *)
(* (domain/services/edit_service.py, the goal operations of Plan,          *)
(* app/use_cases/apply_edit.py).                                           *)
(*                                                                         *)
(* What GoalExecution has in detail is here one stage per goal: a goal is  *)
(* claimed by a worker, works on a task, or is being promoted.  What       *)
(* GoalExecution keeps fixed, the goals and their dependencies, changes.   *)
(***************************************************************************)
EXTENDS Navigation

CONSTANTS
    Goal,        \* the goals the cycle is activated with
    Position,    \* their order
    EditBound    \* how many edits of the graph the model makes

ASSUME GraphAssumption ==
    /\ IsFiniteSet(Goal)
    /\ Position \in [Goal -> Nat]
    /\ \A g, h \in Goal : Position[g] = Position[h] => g = h
    /\ EditBound \in Nat

VARIABLES
    goals,   \* the goals that are still in the cycle
    deps,    \* depends_on
    state,   \* the status of each goal
    block,   \* the kind of each goal's active block
    stage,   \* what a worker does with each goal
    plan,    \* status, paused and pause_requested
    edits    \* how many edits there were

vars == <<goals, deps, state, block, stage, plan, edits>>

TypeOK ==
    /\ goals \subseteq Goal
    /\ deps \in [Goal -> SUBSET Goal]
    /\ state \in [Goal -> Status]
    /\ block \in [Goal -> {"none", "task", "promotion"}]
    /\ stage \in [Goal -> {"free", "claimed", "working", "promoting"}]
    /\ plan \in [status: {"running", "paused", "blocked", "waiting"},
                 paused: BOOLEAN, pauseRequested: BOOLEAN]
    /\ edits \in Nat

-----------------------------------------------------------------------------
(* Derived state *)

Live == NonTerminal(goals, state)

Earlier(g) == {h \in goals : Position[h] < Position[g]}

Blocked == {g \in Goal : block[g] # "none"}

\* Not the code: BLOCKED is never taken back.
DerivedOnce(p) ==
    IF Live' = {} \/ PlanCanProgress(goals', state', deps', Blocked')
      THEN p ELSE [p EXCEPT !.status = "blocked"]

\* _recompute_cyclic_status on the goals as they are after the step.
Derived(p) ==
    IF Live' = {} THEN p
    ELSE IF ~PlanCanProgress(goals', state', deps', Blocked')
           THEN [p EXCEPT !.status = "blocked"]
         ELSE IF p.status = "blocked" THEN [p EXCEPT !.status = "running"]
         ELSE p

PauseGate == plan.paused \/ plan.pauseRequested \/ plan.status = "blocked"

\* Not the code: the status of a plan without a cycle.
SettledAsIdle(p) ==
    [status |-> "idle", paused |-> TRUE, pauseRequested |-> FALSE]

SettlePause(p) ==
    [status |-> "paused", paused |-> TRUE, pauseRequested |-> FALSE]

-----------------------------------------------------------------------------
(* The workers *)

Ready == ReadyGoalIds(goals, state, deps)

Claim(g) ==
    /\ plan.status = "running" /\ ~PauseGate
    /\ g \in Ready \ Blocked /\ stage[g] = "free"
    /\ stage' = [stage EXCEPT ![g] = "claimed"]
    /\ UNCHANGED <<goals, deps, state, block, plan, edits>>

\* The worker gives the goal up: the pause gate, a goal that is finished or gone,
\* a back-off, a lost lease.
Leave(g) ==
    /\ stage[g] = "claimed"
    /\ stage' = [stage EXCEPT ![g] = "free"]
    /\ UNCHANGED <<goals, deps, state, block, plan, edits>>

\* peek_next_for_goal finds work; it does not look at the dependencies again.
Proceeds(g) ==
    /\ stage[g] = "claimed" /\ ~PauseGate
    /\ g \in Live

StartUnit(g) ==
    /\ Proceeds(g)
    /\ stage' = [stage EXCEPT ![g] = "working"]
    /\ state' = [state EXCEPT ![g] = "running"]
    /\ UNCHANGED <<goals, deps, block, plan, edits>>

\* A task is accepted, or will be retried.
FinishUnit(g) ==
    /\ stage[g] = "working"
    /\ stage' = [stage EXCEPT ![g] = "claimed"]
    /\ plan' = IF plan.pauseRequested THEN SettlePause(plan) ELSE plan
    /\ UNCHANGED <<goals, deps, state, block, edits>>

\* Every task is done: the promotion is reserved.
Reserve(g) ==
    /\ Proceeds(g) /\ state[g] = "running"
    /\ stage' = [stage EXCEPT ![g] = "promoting"]
    /\ UNCHANGED <<goals, deps, state, block, plan, edits>>

Complete(g) ==
    /\ stage[g] = "promoting"
    /\ stage' = [stage EXCEPT ![g] = "claimed"]
    /\ state' = [state EXCEPT ![g] = "done"]
    /\ UNCHANGED <<goals, deps, block, edits>>
    /\ plan' = Derived(plan)

\* A terminal failure, of a task or of the merge, blocks the goal.
Fail(g) ==
    /\ stage[g] \in {"working", "promoting"} /\ block[g] = "none"
    /\ block' = [block EXCEPT ![g] =
                   IF stage[g] = "working" THEN "task" ELSE "promotion"]
    /\ stage' = [stage EXCEPT ![g] = "free"]
    /\ UNCHANGED <<goals, deps, state, edits>>
    /\ plan' = Derived(plan)

EnterReview ==
    /\ plan.status = "running" /\ ~PauseGate /\ Live = {}
    /\ plan' = [plan EXCEPT !.status = "waiting"]
    /\ UNCHANGED <<goals, deps, state, block, stage, edits>>

-----------------------------------------------------------------------------
(* The operator *)

RequestPause ==
    /\ plan.status = "running" /\ ~plan.paused /\ ~plan.pauseRequested
    /\ plan' = IF \E g \in goals : stage[g] = "working"
                 THEN [plan EXCEPT !.pauseRequested = TRUE]
                 ELSE SettlePause(plan)
    /\ UNCHANGED <<goals, deps, state, block, stage, edits>>

Resume ==
    /\ plan.paused
    /\ plan' = [status |-> "running", paused |-> FALSE, pauseRequested |-> FALSE]
    /\ UNCHANGED <<goals, deps, state, block, stage, edits>>

\* Plan.retry_task on the task the goal's block names.
Retry(g) ==
    /\ g \in goals /\ block[g] = "task"
    /\ block' = [block EXCEPT ![g] = "none"]
    /\ UNCHANGED <<goals, deps, state, stage, edits>>
    /\ plan' = Derived(plan)

\* _assert_editable in apply_edit: no promotion is reserved, and a goal in
\* progress is editable only while paused or by its block's edit_task.
Editable(g) ==
    /\ g \in Live
    /\ \A h \in Goal : stage[h] # "promoting"
    /\ state[g] = "pending" \/ plan.paused \/ block[g] = "task"
    /\ edits < EditBound

\* Not the code: only a cycle of dependencies is refused.
AnyOther(g, new) == new \subseteq goals \ {g}

\* What update_goal accepts as dependencies.
Acceptable(g, new) == new \subseteq Earlier(g)

UpdateGoal(g, new) ==
    /\ Editable(g) /\ Acceptable(g, new)
    /\ deps' = [deps EXCEPT ![g] = new]
    /\ edits' = edits + 1
    /\ UNCHANGED <<goals, state, block, stage, plan>>

\* Not the code: the removed goal stays a dependency.
Kept(g) == [h \in Goal |-> IF h = g THEN {} ELSE deps[h]]

\* The dependencies without a removed goal.
Stripped(g) == [h \in Goal |-> deps[h] \ {g}]

\* remove_goal; renumbering keeps the order, and the goal's block stays where
\* it is.
RemoveGoal(g) ==
    /\ Editable(g) /\ stage[g] # "working"
    /\ goals' = goals \ {g}
    /\ deps' = Stripped(g)
    /\ edits' = edits + 1
    /\ UNCHANGED <<state, block, stage, plan>>

-----------------------------------------------------------------------------
(* The specification *)

\* CycleDraft.validate_dependencies: dependencies precede.
Init ==
    /\ goals = Goal
    /\ deps \in {f \in [Goal -> SUBSET Goal] : \A g \in Goal : f[g] \subseteq Earlier(g)}
    /\ state = [g \in Goal |-> "pending"]
    /\ block = [g \in Goal |-> "none"]
    /\ stage = [g \in Goal |-> "free"]
    /\ plan = [status |-> "running", paused |-> FALSE, pauseRequested |-> FALSE]
    /\ edits = 0

Worker(g) ==
    \/ Claim(g) \/ Leave(g) \/ StartUnit(g) \/ FinishUnit(g)
    \/ Reserve(g) \/ Complete(g) \/ Fail(g)

Edit(g) == RemoveGoal(g) \/ \E new \in SUBSET Goal : UpdateGoal(g, new)

Next ==
    \/ \E g \in Goal : Worker(g) \/ Retry(g) \/ Edit(g)
    \/ EnterReview \/ RequestPause \/ Resume

Spec == Init /\ [][Next]_vars

-----------------------------------------------------------------------------
(* Properties *)

\* However goals are rewired and removed, a goal of the cycle depends only on
\* earlier goals of the cycle: the graph has no cycle and no dangling edge
\* (update_goal, remove_goal).
DependenciesPrecede == \A g \in goals : deps[g] \subseteq Earlier(g)

\* A plan that can progress has a goal a worker may claim, and only such a plan
\* has one: plan_can_progress, which follows the blocks through the graph, and
\* ready_goal_ids, which follows the finished goals, never disagree.
ProgressMeansReady ==
    PlanCanProgress(goals, state, deps, Blocked) <=> Ready \ Blocked # {}

\* blocked_nodes by its meaning: the goals from which a chain of dependencies
\* leads to a blocked goal through unfinished goals.
StuckBehind(direct) ==
    {g \in Live : \E path \in SUBSET Live :
        /\ g \in path /\ path \cap direct # {}
        /\ \A h \in path \ direct : deps[h] \cap path # {}}

\* The sweeps of blocked_nodes find exactly the goals stuck behind a block.
BlocksSpreadExactly == BlockedNodes(Live, deps, Blocked) = StuckBehind(Blocked)

\* As long as nobody edits the graph, a plan is BLOCKED only while no goal can
\* progress (_recompute_cyclic_status; no edit calls it, see the README).
BlockedMeansStuck ==
    edits = 0 /\ plan.status = "blocked" => ~PlanCanProgress(goals, state, deps, Blocked)
=============================================================================
