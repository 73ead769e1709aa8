---------------------------- MODULE GoalExecution ----------------------------
(***************************************************************************)
(* Execution of one active cycle by goal workers.                          *)
(*                                                                         *)
(* A goal worker (a driver) scans for a ready goal, takes the goal's       *)
(* lease, and repeats one transaction-sized step of the execution handler  *)
(* until the goal stops making progress.  Between two transactions it runs *)
(* an agent, verifies a candidate or performs a Git operation, and any     *)
(* other driver, an operator command, a crash, a lease expiry or a         *)
(* start-up reconciliation may come in between.  Every action below is one *)
(* database transaction or one side effect outside a transaction.          *)
(*                                                                         *)
(* The plan, the goals, the tasks and the reservations are the aggregate   *)
(* (one row, saved under a version check); the ledger of attempts and the  *)
(* goal leases are tables of their own.  A step that would raise rolls its *)
(* transaction back and ends the driver.                                   *)
(***************************************************************************)
EXTENDS Naturals, Sequences, FiniteSets, Navigation

CONSTANTS
    Driver,              \* the goal workers
    Goal, Task,          \* the goals of the active cycle and their tasks
    GoalOf,              \* the goal of a task
    Position,            \* a task's position in its goal
    DependsOn,           \* the goals a goal depends on
    None,                \* "nobody", "nothing"
    MaxAttempts,         \* RetryPolicy.max_attempts
    MaxContractRepairs,  \* MAX_CONTRACT_REPAIRS
    MaxPromotionRetries, \* MAX_PROMOTION_RETRIES
    Faults, FaultBound,  \* the kinds of fault that happen, and how many
    Commands, CommandBound, \* the operator's commands, and how many
    AttemptBound         \* how many attempts a task starts in the model

FaultKinds == {"agent", "git", "crash", "stall", "restart", "contention"}

CommandKinds == {"pause", "resume", "retry", "edit", "replan"}

ASSUME ConstantsAssumption ==
    /\ GoalOf \in [Task -> Goal]
    /\ Position \in [Task -> Nat]
    /\ IsFiniteSet(Goal)
    /\ DependsOn \in [Goal -> SUBSET Goal]
    /\ None \notin Driver /\ None \notin Goal /\ None \notin Task
    /\ MaxAttempts \in Nat
    /\ MaxContractRepairs \in Nat
    /\ MaxPromotionRetries \in Nat
    /\ Faults \subseteq FaultKinds /\ FaultBound \in Nat
    /\ Commands \subseteq CommandKinds /\ CommandBound \in Nat
    /\ AttemptBound \in Nat

VARIABLES
    plan,        \* the plan's lifecycle fields
    goalStatus,  \* the status of each goal
    block,       \* each goal's active block, or None
    reservation, \* who holds each goal's promotion reservation
    task,        \* the tasks
    ledger,      \* each task's execution attempts, in order of their number
    lease,       \* the driver that owns each goal's lease, or None
    pc,          \* where each driver is
    goal,        \* the goal each driver drives
    unit,        \* the unit of work each driver runs
    candidates,  \* <<task, attempt>> merged into the goal's branch
    merges,      \* goals merged into the cycle's branch
    repairs,     \* contract repairs recorded for each task
    retries,     \* promotion retries recorded for each goal
    circuit,     \* the provider's circuit: closed, or latched
    faults, commands \* how many faults and commands have happened

aggregate == <<plan, goalStatus, block, reservation, task>>
driving   == <<pc, goal, unit>>
git       == <<candidates, merges>>
artifacts == <<repairs, retries>>
bounds    == <<faults, commands>>
vars == <<aggregate, ledger, lease, driving, git, artifacts, circuit, bounds>>

-----------------------------------------------------------------------------
(* Types *)

PlanStatus == {"running", "paused", "blocked", "waiting"}

\* How far a replan has come.  "stale" is a submitted draft whose base version
\* an intervening save has passed.
ReplanStage == {"none", "conversation", "proposal", "approved", "draft", "stale"}

PlanRecord ==
    [status: PlanStatus, paused: BOOLEAN, pauseRequested: BOOLEAN,
     phase: {"running", "replanning", "enriching"}, replan: ReplanStage,
     active: BOOLEAN, review: BOOLEAN]

BlockKind == {"execution_failure", "not_retryable", "provider_capacity",
              "goal_promotion_failure"}

BlockRecord == [kind: BlockKind, task: Task \cup {None}]

AttemptStatus == {"running", "succeeded", "failed", "abandoned"}

TaskRecord ==
    [status: Status, attempt: Nat, cycleAttempt: Nat, revision: Nat,
     bundle: Nat, evidence: Nat, backoff: BOOLEAN]

Unit ==
    [task: Task, number: Nat, attempt: Nat, policyAttempt: Nat,
     revision: Nat, role: {"test_author", "implementer"}]

Free == [holder |-> "nobody"]
GoalToken == [holder |-> "goal"]
Attempt(t, n) == [holder |-> "attempt", task |-> t, number |-> n]

Reservation ==
    {Free, GoalToken} \cup [holder: {"attempt"}, task: Task, number: Nat]

ASSUME NoneAssumption == None \notin Unit /\ None \notin BlockRecord

PC == {"idle", "scanned", "ready", "running", "reserved", "committed",
       "stale", "failed", "merging", "merged", "unmerged"}

TypeOK ==
    /\ plan \in PlanRecord
    /\ goalStatus \in [Goal -> Status]
    /\ block \in [Goal -> BlockRecord \cup {None}]
    /\ reservation \in [Goal -> Reservation]
    /\ task \in [Task -> TaskRecord]
    /\ ledger \in [Task -> Seq(AttemptStatus)]
    /\ lease \in [Goal -> Driver \cup {None}]
    /\ pc \in [Driver -> PC]
    /\ goal \in [Driver -> Goal \cup {None}]
    /\ unit \in [Driver -> Unit \cup {None}]
    /\ candidates \subseteq Task \X Nat
    /\ merges \subseteq Goal
    /\ repairs \in [Task -> Nat] /\ retries \in [Goal -> Nat]
    /\ circuit \in {"closed", "latched"}
    /\ faults \in Nat /\ commands \in Nat

-----------------------------------------------------------------------------
(* The aggregate's own operations *)

taskStatus == [t \in Task |-> task[t].status]

TasksOf(g) == {t \in Task : GoalOf[t] = g}

BlockedGoals(blocks) == {g \in Goal : blocks[g] # None}

\* The plan, the phase and the cycle all still execute (the guard of
\* _reserve_candidate, and the negation of _abandoned_task_status).
Executing == plan.phase = "running" /\ plan.status = "running" /\ plan.active

\* Every save bumps the version, which makes an open draft stale.
Saved(p) == IF p.replan = "draft" THEN [p EXCEPT !.replan = "stale"] ELSE p

SettlePause(p) ==
    [p EXCEPT !.pauseRequested = FALSE, !.paused = TRUE, !.status = "paused"]

SettleRequestedPause(p) == IF p.pauseRequested THEN SettlePause(p) ELSE p

\* Variants for mutation: any block freezes the plan; the early return on a
\* finished cycle is missing.
RecomputeAnyBlock(p, states, blocks) ==
    IF ~p.active \/ NonTerminal(Goal, states) = {} THEN p
    ELSE IF BlockedGoals(blocks) # {} THEN [p EXCEPT !.status = "blocked"]
         ELSE IF p.status = "blocked" THEN [p EXCEPT !.status = "running"]
         ELSE p

RecomputeFinished(p, states, blocks) ==
    IF ~p.active THEN p
    ELSE IF ~PlanCanProgress(Goal, states, DependsOn, BlockedGoals(blocks))
           THEN [p EXCEPT !.status = "blocked"]
         ELSE IF p.status = "blocked" THEN [p EXCEPT !.status = "running"]
         ELSE p

\* _recompute_cyclic_status: blocked when no goal can progress, running again
\* when one can; a finished cycle is left alone.
Recompute(p, states, blocks) ==
    IF ~p.active \/ NonTerminal(Goal, states) = {} THEN p
    ELSE IF ~PlanCanProgress(Goal, states, DependsOn, BlockedGoals(blocks))
           THEN [p EXCEPT !.status = "blocked"]
         ELSE IF p.status = "blocked" THEN [p EXCEPT !.status = "running"]
         ELSE p

HasEvidence == [t \in Task |-> task[t].evidence # 0]

\* Not the code: the checks of an earlier revision count.
BundlePresent(t) == task[t].bundle # 0

BundleValid(t) == task[t].bundle = task[t].revision

RoleFor(t) == IF BundleValid(t) THEN "implementer" ELSE "test_author"

\* Not the code: the ledger's word for the task's status.
AbandonedAsLedger(rec) == [rec EXCEPT !.status = "abandoned"]

\* Task.start, Task.requeue, Task.abandon and Task.retry
Started(rec) ==
    [rec EXCEPT !.status = "running", !.backoff = FALSE,
                !.attempt = @ + 1, !.cycleAttempt = @ + 1]
Requeued(rec, wait) == [rec EXCEPT !.status = "pending", !.backoff = wait]
Abandoned(rec) == [rec EXCEPT !.status = "skipped"]
Retried(rec) ==
    [rec EXCEPT !.status = "pending", !.cycleAttempt = 0, !.backoff = FALSE]

\* Task.amend_contract with other commands, which a contract repair also makes;
\* Task.semantic_edit
Amended(rec) == [Retried(rec) EXCEPT !.evidence = 0]
Edited(rec) == [Amended(rec) EXCEPT !.revision = @ + 1]

\* open_block for a goal, with the plan's status derived again.  Its guard is
\* that the goal has no active block.
OpenBlock(g, kind, t) ==
    /\ block[g] = None
    /\ block' = [block EXCEPT ![g] = [kind |-> kind, task |-> t]]
    /\ plan' = Saved(Recompute(plan, goalStatus, block'))

-----------------------------------------------------------------------------
(* The ledger and the drivers *)

OpenAttempts(t) == {n \in DOMAIN ledger[t] : ledger[t][n] = "running"}

\* Not the code: a closed attempt takes a new outcome.
AlwaysFinishes(u, outcome) == outcome \in AttemptStatus

\* finalize_attempt: closes an open attempt, accepts a repetition of the same
\* outcome, and raises on any other.
CanFinish(u, outcome) == ledger[u.task][u.number] \in {"running", outcome}

Finish(u, outcome) ==
    ledger' = [ledger EXCEPT ![u.task][u.number] = outcome]

Mine(u) == Attempt(u.task, u.number)

\* status, revision and attempt: the fencing token of a unit.
Current(u) ==
    /\ task[u.task].status = "running"
    /\ task[u.task].revision = u.revision
    /\ task[u.task].attempt = u.attempt

Released(g, token) ==
    IF reservation[g] = token THEN [reservation EXCEPT ![g] = Free]
                              ELSE reservation

\* The driver returns, and its wrapper releases the lease if it is its own.
DriverEnds(d) ==
    /\ pc' = [pc EXCEPT ![d] = "idle"]
    /\ goal' = [goal EXCEPT ![d] = None]
    /\ unit' = [unit EXCEPT ![d] = None]
    /\ lease' = [lease EXCEPT ![goal[d]] = IF @ = d THEN None ELSE @]

\* drive_goal's loop: again while the signal is CONTINUE and the lease is held.
DriverContinues(d) ==
    IF lease[goal[d]] = d
      THEN /\ pc' = [pc EXCEPT ![d] = "ready"]
           /\ unit' = [unit EXCEPT ![d] = None]
           /\ UNCHANGED <<goal, lease>>
      ELSE DriverEnds(d)

\* PAUSED when the step settled a pause, CONTINUE otherwise.
DriverGoesOn(d) ==
    IF plan.pauseRequested THEN DriverEnds(d) ELSE DriverContinues(d)

DriverAt(d, next) ==
    /\ pc' = [pc EXCEPT ![d] = next]
    /\ UNCHANGED <<goal, unit, lease>>

\* An exception escapes the step: nothing is saved and the driver ends.
Escapes(d) ==
    /\ DriverEnds(d)
    /\ UNCHANGED <<aggregate, ledger, git, artifacts, circuit>>

Raises(d) == Escapes(d) /\ UNCHANGED bounds

Fault(kind) ==
    /\ kind \in Faults /\ faults < FaultBound
    /\ faults' = faults + 1 /\ UNCHANGED commands

Command(kind) ==
    /\ kind \in Commands /\ commands < CommandBound
    /\ commands' = commands + 1 /\ UNCHANGED faults

-----------------------------------------------------------------------------
(* Claiming a goal: claim_ready_goal reads the plan in one transaction and  *)
(* takes the lease in another.                                              *)

\* Not the code: a goal once begun is never offered again.
ClaimableFresh(g) ==
    /\ plan.status = "running" /\ plan.active
    /\ ~plan.paused /\ ~plan.pauseRequested
    /\ g \in ReadyGoalIds(Goal, goalStatus, DependsOn)
    /\ block[g] = None /\ goalStatus[g] = "pending"

Claimable(g) ==
    /\ plan.status = "running" /\ plan.active
    /\ ~plan.paused /\ ~plan.pauseRequested
    /\ g \in ReadyGoalIds(Goal, goalStatus, DependsOn)
    /\ block[g] = None

Scan(d) ==
    /\ pc[d] = "idle"
    /\ \E g \in Goal :
         /\ Claimable(g)
         /\ goal' = [goal EXCEPT ![d] = g]
    /\ pc' = [pc EXCEPT ![d] = "scanned"]
    /\ UNCHANGED <<aggregate, ledger, lease, unit, git, artifacts, circuit, bounds>>

Claim(d) ==
    /\ pc[d] = "scanned"
    /\ IF lease[goal[d]] = None
         THEN /\ lease' = [lease EXCEPT ![goal[d]] = d]
              /\ pc' = [pc EXCEPT ![d] = "ready"]
              /\ UNCHANGED goal
         ELSE /\ pc' = [pc EXCEPT ![d] = "idle"]
              /\ goal' = [goal EXCEPT ![d] = None]
              /\ UNCHANGED lease
    /\ UNCHANGED <<aggregate, ledger, unit, git, artifacts, circuit, bounds>>

-----------------------------------------------------------------------------
(* The first transaction of ExecutionHandler.handle: pick the next action   *)

\* Not the code: a settled pause does not stop a driver.
PauseGateRequested == plan.pauseRequested \/ plan.status = "blocked"

PauseGate == plan.paused \/ plan.pauseRequested \/ plan.status = "blocked"

Action(g) ==
    ActionForGoal(TasksOf(g), taskStatus, Position,
                  {t \in Task : ~task[t].backoff})

\* The transaction gets as far as the goal's next action.
Handles(d, kind) ==
    /\ pc[d] = "ready"
    /\ ~PauseGate /\ plan.active
    /\ goalStatus[goal[d]] \notin Terminal
    /\ Action(goal[d]).kind = kind

\* The pause gate is armed, the goal is finished or no longer in the active
\* cycle, or its head task backs off.
HandleStops(d) ==
    /\ pc[d] = "ready"
    /\ \/ PauseGate
       \/ ~plan.active
       \/ goalStatus[goal[d]] \in Terminal
       \/ Handles(d, "not_ready")
    /\ DriverEnds(d)
    /\ UNCHANGED <<aggregate, ledger, git, artifacts, circuit, bounds>>

\* Variants for mutation: a reclaim closes nothing; it keeps the reservation.
NothingStale(t) == {n \in OpenAttempts(t) : task[t].status = "pending"}

NothingReleased(g, t, stale) ==
    IF stale = {} THEN reservation ELSE [reservation EXCEPT ![g] = @]

\* What a reclaim of a RUNNING task closes: the attempts a lost worker left open.
StaleAttempts(t) == IF task[t].status = "running" THEN OpenAttempts(t) ELSE {}

\* The reclaim releases the goal's reservation when a stale attempt holds it.
ReleasedFrom(g, t, stale) ==
    IF \E n \in stale : reservation[g] = Attempt(t, n)
      THEN [reservation EXCEPT ![g] = Free]
      ELSE reservation

Reclaimed(t) ==
    [n \in DOMAIN ledger[t] |->
       IF n \in StaleAttempts(t) THEN "abandoned" ELSE ledger[t][n]]

\* The unit of a task's next attempt.
NextUnit(t) ==
    [task |-> t, number |-> Len(ledger[t]) + 1,
     attempt |-> task[t].attempt + 1, policyAttempt |-> task[t].cycleAttempt + 1,
     revision |-> task[t].revision, role |-> RoleFor(t)]

\* _start_unit: abandon the stale attempts and open the next one.
StartTask(d, t) ==
    /\ Len(ledger[t]) < AttemptBound
    /\ ledger' = [ledger EXCEPT ![t] = Append(Reclaimed(t), "running")]
    /\ reservation' = ReleasedFrom(goal[d], t, StaleAttempts(t))
    /\ goalStatus' = [goalStatus EXCEPT ![goal[d]] = "running"]
    /\ task' = [task EXCEPT ![t] = Started(@)]
    /\ unit' = [unit EXCEPT ![d] = NextUnit(t)]
    /\ plan' = Saved(plan)
    /\ pc' = [pc EXCEPT ![d] = "running"]
    /\ UNCHANGED <<block, lease, goal, git, artifacts, circuit, bounds>>

StartUnit(d) ==
    /\ Handles(d, "task") /\ circuit = "closed"
    /\ \E t \in Action(goal[d]).tasks : StartTask(d, t)

\* circuit_signal on a latched circuit: the goal is blocked on the provider.
CircuitBlocks(d) ==
    /\ Handles(d, "task") /\ circuit = "latched"
    /\ \E t \in Action(goal[d]).tasks : OpenBlock(goal[d], "provider_capacity", t)
    /\ DriverEnds(d)
    /\ UNCHANGED <<goalStatus, reservation, task, ledger, git, artifacts, circuit, bounds>>

\* GoalPromoter.reserve: every task is DONE with accepted evidence.
ReservePromotion(d) ==
    /\ Handles(d, "close")
    /\ CanPromoteGoal(TasksOf(goal[d]), taskStatus, HasEvidence)
    /\ reservation[goal[d]] \in {Free, GoalToken}
    /\ reservation' = [reservation EXCEPT ![goal[d]] = GoalToken]
    /\ plan' = Saved(plan)
    /\ DriverAt(d, "merging")
    /\ UNCHANGED <<goalStatus, block, task, ledger, git, artifacts, circuit, bounds>>

\* block_unpromotable: the first task that cannot merge names the block.
BlockUnpromotable(d) ==
    /\ Handles(d, "close")
    /\ ~CanPromoteGoal(TasksOf(goal[d]), taskStatus, HasEvidence)
    /\ \E t \in TasksOf(goal[d]) :
         /\ task[t].status # "done" \/ task[t].evidence = 0
         /\ OpenBlock(goal[d], "not_retryable", t)
    /\ DriverEnds(d)
    /\ UNCHANGED <<goalStatus, reservation, task, ledger, git, artifacts, circuit, bounds>>

\* _pause_on_failed_goal: the backstop for a failed task without a block.
BlockFailedGoal(d) ==
    /\ Handles(d, "goal_failed")
    /\ \E t \in TasksOf(goal[d]) :
         /\ task[t].status = "failed"
         /\ OpenBlock(goal[d], "execution_failure", t)
    /\ DriverEnds(d)
    /\ UNCHANGED <<goalStatus, reservation, task, ledger, git, artifacts, circuit, bounds>>

\* The chosen action would block a goal that already has an active block, and
\* open_block raises.
HandleRaises(d) ==
    /\ \/ Handles(d, "goal_failed")
       \/ Handles(d, "task") /\ circuit = "latched"
       \/ /\ Handles(d, "close")
          /\ ~CanPromoteGoal(TasksOf(goal[d]), taskStatus, HasEvidence)
    /\ block[goal[d]] # None
    /\ Raises(d)

-----------------------------------------------------------------------------
(* Running a unit: the agent and the verification happen outside any        *)
(* transaction; a verified candidate reserves the goal's promotion.         *)

\* The guard of _reserve_candidate: still executing, still the same task, and
\* this is the latest open attempt.
MayReserve(u) ==
    /\ Executing /\ Current(u)
    /\ u.number \in OpenAttempts(u.task)
    /\ \A n \in OpenAttempts(u.task) : n <= u.number

ReserveCandidate(d) ==
    /\ pc[d] = "running" /\ MayReserve(unit[d])
    /\ reservation[goal[d]] \in {Free, Mine(unit[d])}
    /\ reservation' = [reservation EXCEPT ![goal[d]] = Mine(unit[d])]
    /\ plan' = Saved(plan)
    /\ DriverAt(d, "reserved")
    /\ UNCHANGED <<goalStatus, block, task, ledger, git, artifacts, circuit, bounds>>

ReserveRefused(d) ==
    /\ pc[d] = "running" /\ ~MayReserve(unit[d])
    /\ DriverAt(d, "stale")
    /\ UNCHANGED <<aggregate, ledger, git, artifacts, circuit, bounds>>

\* reserve_promotion raises: another holder has the reservation.
ReserveRaises(d) ==
    /\ pc[d] = "running" /\ MayReserve(unit[d])
    /\ reservation[goal[d]] \notin {Free, Mine(unit[d])}
    /\ Raises(d)

\* _abandon_stale: close the attempt, and skip the task when it is still this
\* unit's and the plan no longer executes.
AbandonStale(d) ==
    /\ pc[d] = "stale" /\ CanFinish(unit[d], "abandoned")
    /\ LET u == unit[d]
           skips == ~Executing /\ Current(u)
       IN  /\ Finish(u, "abandoned")
           /\ task' = IF skips THEN [task EXCEPT ![u.task] = Abandoned(@)] ELSE task
           /\ plan' = IF skips THEN Saved(plan) ELSE plan
    /\ DriverEnds(d)
    /\ UNCHANGED <<goalStatus, block, reservation, git, artifacts, circuit, bounds>>

\* Workspace.checkpoint commits the checks on the attempt's branch;
\* Workspace.commit merges the candidate into the goal's branch.
CommitCandidate(d) ==
    /\ pc[d] = "reserved"
    /\ candidates' = IF unit[d].role = "implementer"
                       THEN candidates \cup {<<unit[d].task, unit[d].number>>}
                       ELSE candidates
    /\ DriverAt(d, "committed")
    /\ UNCHANGED <<aggregate, ledger, merges, artifacts, circuit, bounds>>

\* The finalizers' guard: the reservation is still this attempt's and the unit
\* is still current.
MayFinalize(d) ==
    /\ pc[d] = "committed"
    /\ reservation[goal[d]] = Mine(unit[d])
    /\ Current(unit[d])

\* The finalizer of _finalize_test_author. (Checks that were declared say nothing of the
\* provider: the circuit stays as it is.)
FinalizeTestAuthor(d) ==
    /\ MayFinalize(d) /\ unit[d].role = "test_author"
    /\ CanFinish(unit[d], "succeeded")
    /\ Finish(unit[d], "succeeded")
    /\ reservation' = [reservation EXCEPT ![goal[d]] = Free]
    /\ task' = [task EXCEPT ![unit[d].task] =
                  [Requeued(@, FALSE) EXCEPT !.bundle = unit[d].revision, !.evidence = 0]]
    /\ circuit' \in {circuit, "closed"}
    /\ plan' = Saved(SettleRequestedPause(plan))
    /\ DriverGoesOn(d)
    /\ UNCHANGED <<goalStatus, block, git, artifacts, bounds>>

\* The finalizer of _finalize_verified_implementation; accept_verification
\* needs a bundle of the current revision.
FinalizeImplementation(d) ==
    /\ MayFinalize(d) /\ unit[d].role = "implementer"
    /\ BundleValid(unit[d].task)
    /\ CanFinish(unit[d], "succeeded")
    /\ Finish(unit[d], "succeeded")
    /\ reservation' = [reservation EXCEPT ![goal[d]] = Free]
    /\ task' = [task EXCEPT ![unit[d].task] =
                  [@ EXCEPT !.status = "done", !.evidence = unit[d].revision]]
    /\ circuit' = "closed"
    /\ plan' = Saved(SettleRequestedPause(plan))
    /\ DriverGoesOn(d)
    /\ UNCHANGED <<goalStatus, block, git, artifacts, bounds>>

\* Either finalizer on a unit that lost its reservation or its task.
FinalizeLost(d) ==
    /\ pc[d] = "committed" /\ ~MayFinalize(d)
    /\ CanFinish(unit[d], "abandoned")
    /\ Finish(unit[d], "abandoned")
    /\ reservation' = Released(goal[d], Mine(unit[d]))
    /\ plan' = IF reservation' # reservation THEN Saved(plan) ELSE plan
    /\ DriverEnds(d)
    /\ UNCHANGED <<goalStatus, block, task, git, artifacts, circuit, bounds>>

\* The ledger refuses to call an abandoned attempt succeeded: the transaction
\* rolls back with the reservation still held.
FinalizeRaises(d) ==
    /\ MayFinalize(d) /\ ~CanFinish(unit[d], "succeeded")
    /\ Raises(d)

-----------------------------------------------------------------------------
(* _finalize_failure: an attempt failed with TaskFailed.  The kind of the   *)
(* failure decides what follows: a transient failure is retried within the  *)
(* budget, a capacity failure is waited out without spending it, a latched  *)
(* one has outlasted the outage ceiling, a fatal one is not retryable, and  *)
(* a contract failure is one a repair of the contract can be proposed for.  *)

FailureKinds == {"transient", "capacity", "latched", "fatal", "contract"}

WillRetry(u, kind) ==
    kind = "capacity" \/ (kind = "transient" /\ u.policyAttempt < MaxAttempts)

WillRepair(u, kind) == kind = "contract" /\ repairs[u.task] < MaxContractRepairs

\* _abandon_late_failure: the plan no longer executes.  The task is skipped
\* when it is not terminal; only that is saved.
FailLate(d) ==
    /\ pc[d] = "failed" /\ ~Executing /\ CanFinish(unit[d], "abandoned")
    /\ Finish(unit[d], "abandoned")
    /\ LET t == unit[d].task
       IN  IF task[t].status \in Terminal
             THEN UNCHANGED <<plan, task, reservation>>
             ELSE /\ task' = [task EXCEPT ![t] = Abandoned(@)]
                  /\ reservation' = Released(goal[d], Mine(unit[d]))
                  /\ plan' = Saved(plan)
    /\ DriverEnds(d)
    /\ UNCHANGED <<goalStatus, block, git, artifacts, circuit, bounds>>

\* The failure is retried: the task goes back to PENDING, and a requested
\* pause settles.
FailRetry(d, kind) ==
    /\ WillRetry(unit[d], kind)
    /\ task[unit[d].task].status \in {"running", "failed"}
    /\ CanFinish(unit[d], "failed") /\ Finish(unit[d], "failed")
    /\ \E wait \in BOOLEAN :
         task' = [task EXCEPT ![unit[d].task] = Requeued(@, wait)]
    /\ reservation' = Released(goal[d], Mine(unit[d]))
    /\ plan' = Saved(SettleRequestedPause(plan))
    /\ DriverGoesOn(d)
    /\ UNCHANGED <<block, circuit, repairs>>

\* _repair_contract: the task is requeued with an amended contract and a fresh
\* budget; a requested pause is left as it is.
FailRepair(d, kind) ==
    /\ ~WillRetry(unit[d], kind) /\ WillRepair(unit[d], kind)
    /\ task[unit[d].task].status \in {"running", "failed"}
    /\ CanFinish(unit[d], "failed") /\ Finish(unit[d], "failed")
    /\ task' = [task EXCEPT ![unit[d].task] = Amended(@)]
    /\ reservation' = Released(goal[d], Mine(unit[d]))
    /\ repairs' = [repairs EXCEPT ![unit[d].task] = @ + 1]
    /\ plan' = Saved(plan)
    /\ DriverContinues(d)
    /\ UNCHANGED <<block, circuit>>

\* Terminal: the task fails and its goal is blocked; a requested pause is left
\* as it is.
FailTerminally(d, kind) ==
    /\ ~WillRetry(unit[d], kind) /\ ~WillRepair(unit[d], kind)
    /\ task[unit[d].task].status \in {"running", "pending"}
    /\ CanFinish(unit[d], "failed") /\ Finish(unit[d], "failed")
    /\ task' = [task EXCEPT ![unit[d].task].status = "failed"]
    /\ reservation' = Released(goal[d], Mine(unit[d]))
    /\ OpenBlock(goal[d],
                 IF kind = "latched" THEN "provider_capacity" ELSE "execution_failure",
                 unit[d].task)
    /\ circuit' = IF kind = "latched" THEN "latched" ELSE circuit
    /\ DriverEnds(d)
    /\ UNCHANGED repairs

FinalizeFailure(d) ==
    /\ pc[d] = "failed" /\ Executing
    /\ \E kind \in FailureKinds :
         \/ FailRetry(d, kind)
         \/ FailRepair(d, kind)
         \/ FailTerminally(d, kind)
    /\ UNCHANGED <<goalStatus, git, retries, bounds>>

\* The ledger refuses to call an abandoned attempt failed, or the goal already
\* has an active block.
FailureRaises(d) ==
    /\ pc[d] = "failed" /\ Executing
    /\ \/ ~CanFinish(unit[d], "failed")
       \/ block[goal[d]] # None
    /\ Raises(d)

-----------------------------------------------------------------------------
(* Promoting a goal: the merge happens outside any transaction.             *)

MergeGoal(d) ==
    /\ pc[d] = "merging"
    /\ merges' = merges \cup {goal[d]}
    /\ DriverAt(d, "merged")
    /\ UNCHANGED <<aggregate, ledger, candidates, artifacts, circuit, bounds>>

\* The evidence the promotion was reserved for is gone, or its cycle is.
PromotionSuperseded(g) ==
    ~plan.active \/ ~CanPromoteGoal(TasksOf(g), taskStatus, HasEvidence)

CompleteGoal(d) ==
    /\ pc[d] = "merged" /\ reservation[goal[d]] = GoalToken
    /\ ~PromotionSuperseded(goal[d])
    /\ goalStatus[goal[d]] \notin Terminal
    /\ goalStatus' = [goalStatus EXCEPT ![goal[d]] = "done"]
    /\ reservation' = [reservation EXCEPT ![goal[d]] = Free]
    /\ plan' = Saved(Recompute(plan, goalStatus', block))
    /\ DriverContinues(d)
    /\ UNCHANGED <<block, task, ledger, git, artifacts, circuit, bounds>>

PromotionLost(d) ==
    /\ pc[d] \in {"merged", "unmerged"} /\ reservation[goal[d]] # GoalToken
    /\ DriverEnds(d)
    /\ UNCHANGED <<aggregate, ledger, git, artifacts, circuit, bounds>>

\* The goal already has an active block.  (The two TaskFailed that promote raises
\* after a merge are never raised: PromotionStaysValid.)
PromotionRaises(d) ==
    /\ pc[d] = "unmerged" /\ reservation[goal[d]] = GoalToken
    /\ block[goal[d]] # None
    /\ Raises(d)

\* GoalPromoter._retry: a transient merge failure releases the reservation, a
\* bounded number of times.
RetryMerge(d) ==
    /\ pc[d] = "unmerged" /\ reservation[goal[d]] = GoalToken
    /\ retries[goal[d]] < MaxPromotionRetries
    /\ retries' = [retries EXCEPT ![goal[d]] = @ + 1]
    /\ reservation' = [reservation EXCEPT ![goal[d]] = Free]
    /\ plan' = Saved(plan)
    /\ DriverEnds(d)
    /\ UNCHANGED <<goalStatus, block, task, ledger, git, repairs, circuit, bounds>>

\* Any other merge failure, a conflict at once, blocks the goal.
BlockPromotion(d) ==
    /\ pc[d] = "unmerged" /\ reservation[goal[d]] = GoalToken
    /\ reservation' = [reservation EXCEPT ![goal[d]] = Free]
    /\ OpenBlock(goal[d], "goal_promotion_failure", None)
    /\ DriverEnds(d)
    /\ UNCHANGED <<goalStatus, task, ledger, git, artifacts, circuit, bounds>>

-----------------------------------------------------------------------------
(* The plan-level worker enters the completion review once every goal is    *)
(* terminal.                                                                *)

EnterReview ==
    /\ plan.status = "running" /\ plan.active /\ ~plan.review
    /\ ~plan.paused /\ ~plan.pauseRequested
    /\ plan.replan \in {"none", "conversation"}
    /\ NonTerminal(Goal, goalStatus) = {}
    /\ plan' = Saved([plan EXCEPT !.review = TRUE, !.status = "waiting"])
    /\ UNCHANGED <<goalStatus, block, reservation, task, ledger, lease,
                   driving, git, artifacts, circuit, bounds>>

\* A task's retry_not_before passes.
BackoffElapses(t) ==
    /\ task[t].backoff
    /\ task' = [task EXCEPT ![t].backoff = FALSE]
    /\ UNCHANGED <<plan, goalStatus, block, reservation, ledger, lease,
                   driving, git, artifacts, circuit, bounds>>

Drives(d, g) == goal[d] = g /\ pc[d] \notin {"idle", "scanned"}

\* The lease of a goal its owner no longer drives runs out.
OrphanExpires(g) ==
    /\ lease[g] # None /\ ~Drives(lease[g], g)
    /\ lease' = [lease EXCEPT ![g] = None]
    /\ UNCHANGED <<aggregate, ledger, driving, git, artifacts, circuit, bounds>>

-----------------------------------------------------------------------------
(* Faults                                                                   *)

\* The agent, the verification or the workspace reports TaskFailed.
AgentFails(d) ==
    /\ pc[d] = "running" /\ Fault("agent")
    /\ DriverAt(d, "failed")
    /\ UNCHANGED <<aggregate, ledger, git, artifacts, circuit>>

\* The Git command that opens the worktree or commits a reserved candidate
\* fails: not a TaskFailed, so nothing handles it and the driver ends.
GitFails(d) == pc[d] \in {"running", "reserved"} /\ Fault("git") /\ Escapes(d)

\* Every retry of _reserve_candidate lost the race for the version: it gives up.
ReserveGivesUp(d) ==
    /\ pc[d] = "running" /\ MayReserve(unit[d]) /\ Fault("contention")
    /\ DriverAt(d, "stale")
    /\ UNCHANGED <<aggregate, ledger, git, artifacts, circuit>>

MergeFails(d) ==
    /\ pc[d] = "merging" /\ Fault("git")
    /\ DriverAt(d, "unmerged")
    /\ UNCHANGED <<aggregate, ledger, git, artifacts, circuit>>

\* StaleVersionError in a transaction that is not retried: another save landed
\* between its read and its write.
Contends(d) ==
    /\ pc[d] \in {"ready", "stale", "merged", "unmerged"}
    /\ Fault("contention") /\ Escapes(d)

\* The worker process dies; its lease stays until it expires.
Crash(d) ==
    /\ pc[d] # "idle" /\ Fault("crash")
    /\ pc' = [pc EXCEPT ![d] = "idle"]
    /\ goal' = [goal EXCEPT ![d] = None]
    /\ unit' = [unit EXCEPT ![d] = None]
    /\ UNCHANGED <<aggregate, ledger, lease, git, artifacts, circuit>>

\* The worker stalls past its lease and goes on not knowing.
LeaseExpires(d) ==
    /\ Drives(d, goal[d]) /\ lease[goal[d]] = d /\ Fault("stall")
    /\ lease' = [lease EXCEPT ![goal[d]] = None]
    /\ UNCHANGED <<aggregate, ledger, driving, git, artifacts, circuit>>

\* A worker starts: reconcile_stale_attempts abandons every open attempt whose
\* goal has no live lease, and leaves tasks and reservations alone.  (A live
\* claim of the whole plan spares it all: that is no step.)
Reconcile ==
    /\ Fault("restart")
    /\ ledger' = [t \in Task |->
                    [n \in DOMAIN ledger[t] |->
                       IF ledger[t][n] = "running" /\ lease[GoalOf[t]] = None
                         THEN "abandoned" ELSE ledger[t][n]]]
    /\ ledger' # ledger
    /\ UNCHANGED <<aggregate, lease, driving, git, artifacts, circuit>>

-----------------------------------------------------------------------------
(* The operator's commands                                                  *)

RequestPause ==
    /\ plan.status = "running" /\ ~plan.paused /\ ~plan.pauseRequested
    /\ Command("pause")
    /\ plan' = Saved(IF \E t \in Task : OpenAttempts(t) # {}
                       THEN [plan EXCEPT !.pauseRequested = TRUE]
                       ELSE SettlePause(plan))
    /\ UNCHANGED <<goalStatus, block, reservation, task, ledger, lease,
                   driving, git, artifacts, circuit>>

Resume ==
    /\ plan.paused /\ Command("resume")
    /\ plan' = Saved([plan EXCEPT !.paused = FALSE, !.pauseRequested = FALSE,
                                  !.status = "running"])
    /\ UNCHANGED <<goalStatus, block, reservation, task, ledger, lease,
                   driving, git, artifacts, circuit>>

Retryable == {"execution_failure", "provider_capacity"}

\* Plan.retry_task: a failed task of a paused plan, or the task its goal's block
\* names.  A blocked task that an edit already returned to PENDING only has its
\* block resolved, as "edit_task", and then no circuit is cleared.
RetryTask(t) ==
    LET g == GoalOf[t]
        blocked == block[g] # None
        edited == blocked /\ task[t].status = "pending"
    IN  /\ plan.active /\ (plan.paused \/ blocked)
        /\ blocked => block[g].task = t /\ block[g].kind \in Retryable
        /\ edited \/ task[t].status = "failed"
        /\ Command("retry")
        /\ task' = IF edited THEN task ELSE [task EXCEPT ![t] = Retried(@)]
        /\ circuit' = IF blocked /\ ~edited /\ block[g].kind = "provider_capacity"
                        THEN "closed" ELSE circuit
        /\ block' = [block EXCEPT ![g] = None]
        /\ plan' = Saved(IF blocked THEN Recompute(plan, goalStatus, block')
                                    ELSE plan)
        /\ UNCHANGED <<goalStatus, reservation, ledger, lease, driving, git, artifacts>>

\* apply_edit on one task: refused plan-wide while any reservation is held; a
\* goal in progress and a failed task are editable only in a recovery window.
Editable(t) ==
    LET g == GoalOf[t]
        window == \/ plan.paused
                  \/ block[g] # None /\ block[g].kind # "goal_promotion_failure"
    IN  /\ plan.active
        /\ \A h \in Goal : reservation[h] = Free
        /\ goalStatus[g] = "pending" \/ (goalStatus[g] = "running" /\ window)
        /\ task[t].status = "pending" \/ (task[t].status = "failed" /\ window)

\* A semantic edit makes a new revision, for which no bundle and no evidence
\* holds.
EditTask(t) ==
    /\ Editable(t) /\ Command("edit")
    /\ task' = [task EXCEPT ![t] = Edited(@)]
    /\ plan' = Saved(plan)
    /\ UNCHANGED <<goalStatus, block, reservation, ledger, lease, driving, git,
                   artifacts, circuit>>

\* An amended contract keeps the revision and the bundle, and the evidence too unless
\* its commands changed or it was narrowed.
AmendTask(t) ==
    /\ Editable(t) /\ Command("edit")
    /\ \E amended \in {Amended(task[t]), Retried(task[t])} :
         task' = [task EXCEPT ![t] = amended]
    /\ plan' = Saved(plan)
    /\ UNCHANGED <<goalStatus, block, reservation, ledger, lease, driving, git,
                   artifacts, circuit>>

\* Not the code: only the replanned cycle's finished goals are looked at.
NoReservationOfFinished ==
    \A g \in Goal : goalStatus[g] \in Terminal => reservation[g] = Free

NoReservation == \A g \in Goal : reservation[g] = Free

ReplanStep ==
    /\ NoReservation
    /\ UNCHANGED <<goalStatus, reservation, task, ledger, lease, driving, git,
                   artifacts, circuit>>

\* request_replan: every block is resolved, the pause is cleared and the source
\* cycle stays active.
RequestReplan ==
    /\ plan.active /\ Command("replan")
    /\ block' = [g \in Goal |-> None]
    /\ plan' = [plan EXCEPT !.status = "waiting", !.phase = "replanning",
                            !.paused = FALSE, !.pauseRequested = FALSE,
                            !.replan = "conversation", !.review = FALSE]
    /\ ReplanStep

ProposeIntent ==
    /\ plan.active /\ plan.replan = "conversation" /\ ~plan.review
    /\ plan' = [plan EXCEPT !.replan = "proposal", !.status = "waiting"]
    /\ ReplanStep /\ UNCHANGED <<block, bounds>>

ApproveIntent ==
    /\ plan.replan = "proposal"
    /\ plan' = [plan EXCEPT !.replan = "approved", !.status = "running"]
    /\ ReplanStep /\ UNCHANGED <<block, bounds>>

\* The planner submits a draft of the replacement cycle for review.
SubmitDraft ==
    /\ plan.replan = "approved" /\ plan.status = "running"
    /\ ~plan.paused /\ ~plan.pauseRequested
    /\ plan' = [plan EXCEPT !.replan = "draft", !.status = "waiting"]
    /\ ReplanStep /\ UNCHANGED <<block, bounds>>

\* activate_cycle: only a draft nothing was saved after; the source cycle is
\* superseded and the plan goes on with the enrichment of the new one.
ActivateCycle ==
    /\ plan.replan = "draft"
    /\ block' = [g \in Goal |-> None]
    /\ plan' = [plan EXCEPT !.active = FALSE, !.replan = "none",
                            !.paused = FALSE, !.pauseRequested = FALSE,
                            !.status = "running", !.phase = "enriching"]
    /\ ReplanStep /\ UNCHANGED bounds

\* cancel_intent and cancel_cycle_draft leave status PAUSED without a pause.
CancelReplan ==
    /\ plan.replan \in {"proposal", "draft", "stale"} /\ Command("replan")
    /\ plan' = [plan EXCEPT !.replan = "conversation", !.status = "paused"]
    /\ ReplanStep /\ UNCHANGED block

-----------------------------------------------------------------------------
(* The specification                                                        *)

Init ==
    /\ plan = [status |-> "running", paused |-> FALSE, pauseRequested |-> FALSE,
               phase |-> "running", replan |-> "none", active |-> TRUE,
               review |-> FALSE]
    /\ goalStatus = [g \in Goal |-> "pending"]
    /\ block = [g \in Goal |-> None]
    /\ reservation = [g \in Goal |-> Free]
    /\ task = [t \in Task |->
                 [status |-> "pending", attempt |-> 0, cycleAttempt |-> 0,
                  revision |-> 1, bundle |-> 0, evidence |-> 0, backoff |-> FALSE]]
    /\ ledger = [t \in Task |-> << >>]
    /\ lease = [g \in Goal |-> None]
    /\ pc = [d \in Driver |-> "idle"]
    /\ goal = [d \in Driver |-> None]
    /\ unit = [d \in Driver |-> None]
    /\ candidates = {} /\ merges = {}
    /\ repairs = [t \in Task |-> 0] /\ retries = [g \in Goal |-> 0]
    /\ circuit = "closed"
    /\ faults = 0 /\ commands = 0

Handle(d) ==
    \/ HandleStops(d) \/ StartUnit(d) \/ CircuitBlocks(d) \/ ReservePromotion(d)
    \/ BlockUnpromotable(d) \/ BlockFailedGoal(d) \/ HandleRaises(d)

RunUnit(d) ==
    \/ ReserveCandidate(d) \/ ReserveRefused(d) \/ ReserveRaises(d)
    \/ AbandonStale(d) \/ CommitCandidate(d)
    \/ FinalizeTestAuthor(d) \/ FinalizeImplementation(d)
    \/ FinalizeLost(d) \/ FinalizeRaises(d)
    \/ FailLate(d) \/ FinalizeFailure(d) \/ FailureRaises(d)

Promote(d) ==
    \/ MergeGoal(d) \/ CompleteGoal(d) \/ PromotionLost(d) \/ PromotionRaises(d)
    \/ RetryMerge(d) \/ BlockPromotion(d)

DriverStep(d) == Claim(d) \/ Handle(d) \/ RunUnit(d) \/ Promote(d)

FaultStep ==
    \/ \E d \in Driver :
         \/ AgentFails(d) \/ GitFails(d) \/ MergeFails(d) \/ ReserveGivesUp(d)
         \/ Contends(d) \/ Crash(d) \/ LeaseExpires(d)
    \/ Reconcile

CommandStep ==
    \/ RequestPause \/ Resume
    \/ \E t \in Task : RetryTask(t) \/ EditTask(t) \/ AmendTask(t)
    \/ RequestReplan \/ ProposeIntent \/ ApproveIntent \/ SubmitDraft
    \/ ActivateCycle \/ CancelReplan

Next ==
    \/ \E d \in Driver : Scan(d) \/ DriverStep(d)
    \/ EnterReview
    \/ \E t \in Task : BackoffElapses(t)
    \/ \E g \in Goal : OrphanExpires(g)
    \/ FaultStep
    \/ CommandStep

Spec == Init /\ [][Next]_vars

\* A worker keeps scanning, an action it awaits ends (an agent run has a
\* timeout), time passes; no fault has to happen and no operator has to act.
Fairness ==
    /\ \A d \in Driver : WF_vars(Scan(d)) /\ WF_vars(DriverStep(d))
    /\ WF_vars(EnterReview)
    /\ \A t \in Task : WF_vars(BackoffElapses(t))
    /\ \A g \in Goal : WF_vars(OrphanExpires(g))

FairSpec == Spec /\ Fairness
-----------------------------------------------------------------------------
(* Safety: the ledger and the tasks                                         *)

\* A task never has two open attempts: starting it again first closes what a
\* lost worker left open (_start_unit), and a task that is not RUNNING has none
\* left open (the finalizers, reconcile_stale_attempts).
SingleOpenAttempt == \A t \in Task : Cardinality(OpenAttempts(t)) <= 1

\* No attempt is left open on a task that waits, failed or is done, whatever
\* became of the worker that ran it.  A late failure may skip a task while
\* another attempt of it is open (_abandon_late_failure, see the README).
SettledTaskHasNoOpenAttempt ==
    \A t \in Task : task[t].status \in {"pending", "failed", "done"}
                      => OpenAttempts(t) = {}

\* A DONE task was accepted by its latest attempt, in the revision it has now,
\* against checks frozen for that revision, and that attempt's candidate is in
\* the goal's branch (_finalize_verified_implementation).
DoneIsVerified ==
    \A t \in Task : task[t].status = "done" =>
        /\ task[t].evidence = task[t].revision
        /\ task[t].bundle = task[t].revision
        /\ ledger[t][task[t].attempt] = "succeeded"
        /\ <<t, task[t].attempt>> \in candidates

\* A DONE goal was merged into the cycle's branch, with every task verified and
\* every dependency merged before it (GoalPromoter.promote).
DoneGoalIsMerged ==
    \A g \in Goal : goalStatus[g] = "done" =>
        /\ g \in merges
        /\ CanPromoteGoal(TasksOf(g), taskStatus, HasEvidence)
        /\ DependsOn[g] \subseteq merges

\* While a goal's promotion is reserved nothing takes back what it was reserved
\* for: the cycle stays active and the evidence stays.  The two TaskFailed that
\* GoalPromoter.promote raises after the merge are never raised.
PromotionStaysValid ==
    \A g \in Goal : reservation[g] = GoalToken =>
        ~PromotionSuperseded(g) /\ goalStatus[g] \notin Terminal

\* A reservation held for an attempt is held for an open attempt, so the next
\* driver of the goal can reclaim it (_start_unit releases the reservations of
\* open attempts only).
ReservedAttemptIsOpen ==
    \A g \in Goal : reservation[g].holder = "attempt" =>
        /\ GoalOf[reservation[g].task] = g
        /\ reservation[g].number \in OpenAttempts(reservation[g].task)

\* Of all the drivers that believe they run a task, after lost leases and
\* reclaims, at most one runs an attempt that is still open: the others can
\* settle nothing but a late outcome (_run_with_cas_retry's comment).
OneLiveUnit ==
    \A d, e \in Driver :
        /\ unit[d] # None /\ unit[e] # None
        /\ unit[d].task = unit[e].task
        /\ unit[d].number \in OpenAttempts(unit[d].task)
        /\ unit[e].number \in OpenAttempts(unit[e].task)
        => d = e

\* While goals are unfinished, and outside a pause or a replan, the plan is
\* BLOCKED exactly when none of them can progress (_recompute_cyclic_status,
\* after every block and every merge).
BlockedExactlyWhenStuck ==
    plan.active /\ plan.replan = "none" /\ ~plan.paused
      /\ NonTerminal(Goal, goalStatus) # {} =>
        (plan.status = "blocked" <=>
            ~PlanCanProgress(Goal, goalStatus, DependsOn, BlockedGoals(block)))

\* A plan whose goals are all finished is not stuck: it goes on to its review
\* (_recompute_cyclic_status' comment).
FinishedCycleIsNotBlocked ==
    plan.active /\ NonTerminal(Goal, goalStatus) = {} => plan.status # "blocked"

-----------------------------------------------------------------------------
(* What a step may never do                                                 *)

\* The ledger only grows, and a closed attempt keeps its outcome
\* (finalize_attempt).
LedgerIsHistory ==
    [][\A t \in Task : \A n \in DOMAIN ledger[t] :
          /\ n \in DOMAIN ledger'[t]
          /\ ledger[t][n] # "running" => ledger'[t][n] = ledger[t][n]]_vars

\* A pause alone never costs a task its outcome: an attempt in flight finalizes
\* normally, so no task is skipped.
PauseSkipsNothing ==
    [][\A t \in Task : task'[t].status = "skipped" =>
          task[t].status = "skipped" \/ plan.phase # "running" \/ ~plan.active]_vars

\* A settled pause leaves no attempt running: it settles only at the boundary of
\* an action (settle_pause).
PausedIsQuiescent == plan.paused => \A t \in Task : OpenAttempts(t) = {}

-----------------------------------------------------------------------------
(* The promise                                                              *)

D == INSTANCE Delivery WITH
        delivered <- {t \in Task : task[t].status = "done"},
        promoted  <- {g \in Goal : goalStatus[g] = "done"},
        open      <- plan.active

\* Through failures, lost leases, late results, pauses, edits, retries and
\* replans the workers only ever deliver: accepted work is never taken back or
\* done twice, a goal is promoted once and after what it depends on, and a
\* superseded cycle gets nothing more.
DeliversOnce == D!Spec

-----------------------------------------------------------------------------
(* Liveness                                                                 *)

\* However the agents, the workers and Git fail, and whenever leases are lost,
\* the plan always ends up again in its completion review or waiting for a human
\* at a block.
ReviewOrBlock == []<>(plan.review \/ \E g \in Goal : block[g] # None)
=============================================================================
