# Praxis Orchestrator in TLA+

Specifications of the orchestrator in `src/backend/praxis_orchestrator` and of its console
in `src/frontend/src` (paths below are relative to the former, and to the latter when they
end in `.ts` or `.tsx`): TLA+ modules that follow the code, configurations with which TLC
checks them on small instances, and theorems about them that TLAPS proves for every value of
the constants. `PROJECT.json` maps every definition to the lines it models and lists the
components, the runs, the hazards and the theorems.

    tlc -workers 2 -config GoalLease.cfg MCGoalLease.tla
    tlapm GoalExecutionProofs.tla

## The system

Praxis drives a *plan*: a human talks a project into a brief, an architecture and a *cycle*
of *goals* made of *tasks*. Workers claim ready goals, run coding agents on their tasks in
Git worktrees, verify what comes back, merge each finished goal into the cycle's branch and
end in a completion review. All state is in one SQLite database and in Git; any number of
worker processes, an HTTP API and a CLI work on it at the same time. A browser console shows
the plan, offers its commands and follows it by events.

| component | state | operations | meets the others through |
|---|---|---|---|
| Plan aggregate (`domain/aggregates`, `domain/entities`) | one row: status, phase, pause flags, goals, tasks, goal blocks, promotion reservations, replan artifacts, version | start, complete, fail, requeue, abandon a task; open, resolve a block; reserve, release, complete a promotion; pause, resume, retry, edit, replan, activate | every transaction loads it and saves it under a version check |
| Navigation (`domain/services/navigation.py`, `dependency_graph.py`) | none | ready goals, next action of a goal, spread of blocks, can the plan progress | called by the aggregate and the scan |
| Execution handler (`app/handlers/execution_handler.py`) | what a worker remembers across awaits: its unit | pick, start, run, verify, reserve, commit, finalize, abandon, fail | aggregate, ledger, workspace, promotion |
| Goal promotion (`app/handlers/goal_promotion.py`) | promotion retries | reserve, merge, complete, retry, block | aggregate, workspace |
| Execution ledger (`infra/db/execution_record_repository.py`) | runs, attempts, repairs, circuits | open, finalize, list open attempts | handler, reconciliation, pause |
| Goal leases (`infra/db/goal_lease_repository.py`) | one row per claimed goal: owner, expiry | claim, heartbeat, release, is it live | scan, worker loop, reconciliation |
| Goal worker (`app/use_cases/run_worker.py`, `infra/worker/main.py`) | the loop of `drive_goal` | scan, claim, step, beat, release | all of the above |
| Reconciliation (`app/use_cases/reconcile_runtime.py`) | none | abandon open attempts without a live lease, at every start-up | ledger, leases |
| Operator commands, edits, replan (`app/use_cases`) | none | pause, resume, retry, edit tasks and goals, request and activate a replan | aggregate |
| Agent admission (`app/handlers/agent_admission.py`) | provider circuits, agent pools | admit, block a goal, probe, clear | handler |
| Planning stages (`app/handlers/planning_handler.py`, `app/use_cases/conversation.py`) | planning attempts, back-offs, the turn of a conversation | converse, draft a roadmap, enrich a goal | aggregate, plan-level claim |
| Outbox and streams (`infra/db/outbox.py`, `api/outbox_relay.py`, `api/sse.py`) | event rows, the relay's cursor, a queue per client | append, relay, broadcast | every transaction; browsers |
| Event feed (`lib/api.ts`, `lib/queries.ts`, `store/plannerStore.ts`) | connection, seen ids, events, cached queries | connect, deliver, invalidate, fetch, acknowledge | streams, API |
| Attempt log (`infra/runtime/process_supervisor.py`, `AttemptLogViewer.tsx`, `lib/api.ts`) | a bounded file; offsets of the tail and of the client; live entries | write, rotate, follow, resume, show | agent process, ledger, browser |
| Operator console (`LifecycleRail.tsx`, `GatePanel.tsx`, `DetailPanel.tsx`, `ChatPanel.tsx`, `Overview.tsx`, `planTruth.ts`) | forms, armed buttons | offer the commands that the projection of the plan says are legal, send them | API |
| Reference data (`infra/db/reference_repos.py`, `secret_store.py`, `api/routers/reference.py`) | providers, models, agents, capabilities, projects, config; keys and tokens in a second store | add, update, delete with guards, bind | settings, wizard, planner |
| Settings and wizard (`views/settings`, `setupPlan.ts`, `Plans.tsx`) | forms; the wizard's facts | one request per form; the first thing that is missing | reference data |
| Acceptance and publication (`app/use_cases/publish_cycle.py`) | acceptance runs, pull requests | completion gate, publish | aggregate, forge |

**What is hard.** A step of a worker is two transactions with minutes of agent, test and Git
work between them. In between, the worker may lose its lease and go on not knowing, its task
may be reclaimed, edited, retried, abandoned or finished by someone else, the plan may be
paused or replanned, and another process may start and reconcile. What keeps this right is
distributed over several mechanisms that must agree: the version of the plan's row, a lease
compared to the second, a fencing token (status, revision, attempt) on the task, the outcome
of the attempt in the ledger, and a reservation on the goal. A plan's status is derived from
its blocks at each mutation; a status derived wrongly stops the plan for ever, because
nothing claims a BLOCKED plan.

The console adds three difficulties of its own. It states no transition rule and asks the
projection of the plan which commands are legal, while the guards are in the aggregate: two
descriptions that must agree over every history of a plan. It polls nothing: what is on
screen is right only if no event is lost between the outbox, a relay that repeats itself, a
bounded queue, a connection that breaks, a ring of seen ids and a cache whose fetches
overlap. And its forms send requests that are several transactions each, over rows that
refer to each other and two stores that do not.

**What makes each component correct.** A task has one live attempt, and the ledger is
history; accepted work is never lost, repeated or put into the wrong cycle; goals are
promoted after their dependencies; a pause is quiet; a reservation is always released; a
plan is BLOCKED exactly when it is stuck; a lease has one holder; edits keep the graph a
graph; and the plan always comes back to a human. What the console offers is accepted, and
someone can always move the plan; a change reaches the screen; a log is neither repeated nor
dropped; what is bound exists, and what is listed has its credentials.

## The modules

| module | models | checked with | proofs |
|---|---|---|---|
| `Navigation` | `navigation.py`, `dependency_graph.py`: pure operators | all runs | `NavigationProofs` |
| `GoalExecution` | the execution of one active cycle by workers, with faults and an operator | `MCGoalExecution` | `GoalExecutionProofs` |
| `Delivery` | the abstract promise of execution: deliver, promote, supersede | as `DeliversOnce` | `ExecutionDelivers` |
| `GoalLease` | the lease of one goal in seconds, with statements that arrive late | `MCGoalLease` | `GoalLeaseProofs` |
| `GoalTenure` | the abstract promise of a lease | as `LeaseIsLock` | `LeaseImplementsLock` |
| `GoalGraph` | the graph of goals, edited while it is driven | `MCGoalGraph` | `GoalGraphProofs` |
| `Console` | a plan's whole life: what the console offers, what the server accepts, what workers do | `MCConsole` | `ConsoleProofs` |
| `EventFeed` | events from the transaction to the cached queries of one browser tab | `MCEventFeed` | `EventFeedProofs` |
| `AttemptLog` | the log of one attempt from the agent's process to the viewer | `MCAttemptLog` | `AttemptLogProofs` |
| `Setup` | reference data, secrets, projects and plans, with the forms and the wizard that change them | `MCSetup` | `SetupProofs` |

Definitions under a comment "Not the code" are plausible mistakes in the definition that
follows them, and are used by none: `PROJECT.json` names, for every property, the one that
breaks it.

### GoalExecution

One action is one database transaction or one side effect outside a transaction. The
variables are the aggregate (`plan`, `goalStatus`, `block`, `reservation`, `task`), the
ledger (`ledger[t]`, the outcomes of the task's attempts in order), the leases, the drivers'
local state (`pc`, `goal`, `unit`), what Git holds durably (`candidates`, `merges`), and two
counters of artifacts that bound retries (`repairs`, `retries`).

A driver goes `idle -> scanned` (`Scan`: the read of `claim_ready_goal`) `-> ready`
(`Claim`: the lease, another transaction). From `ready`, the first transaction of
`ExecutionHandler.handle` is one of `HandleStops`, `StartUnit`, `CircuitBlocks`,
`ReservePromotion`, `BlockUnpromotable`, `BlockFailedGoal` or `HandleRaises`. A unit goes
`running -> reserved` (`ReserveCandidate`) `-> committed` (`CommitCandidate`, in Git) and
ends in a finalizer; a candidate that is refused, or whose reservation runs out of its five
tries of the version (`ReserveGivesUp`), is `stale` and ends in `AbandonStale`; a failure
ends in `FinalizeFailure` or, when the plan no longer executes, `FailLate`. A promotion goes
`merging -> merged | unmerged` and ends in `CompleteGoal`, `PromotionLost`, `RetryMerge` or
`BlockPromotion`. `...Raises` are the paths on which the code raises: the transaction is
rolled back and the driver ends, the way `_run_goal` ends it.

Everything below may happen between any two of these: `LeaseExpires` (a stalled worker that
goes on), `Crash`, `Reconcile`, `Contends` (a stale version where the code does not run the
body again; where it does, the body is one atomic action), and the operator's
`RequestPause`, `Resume`, `RetryTask`, `EditTask`, `AmendTask` and the steps of a replan.

Abstractions: a checks bundle and its evidence are the revision they were accepted for; a
back-off is a boolean that time clears; the kind of failure is a nondeterministic choice; an
exhausted provider is one latched circuit for the plan, which accepted tests close as well
(the code closes it on one of their branches); an amended contract loses its evidence
whatever was amended; a replan is a chain of stages with a draft that any save makes stale.
The merge into a goal's branch and into the cycle's are idempotent, as a merge of an
ancestor is.

### GoalLease

The four SQL statements, each with the comparison it has (`<`, `>=`, `>`), under a clock in
whole seconds. A worker reads the clock in one step and its statement runs in a later one,
so a renewal may arrive after another worker's claim. `grant[w]` is until when a worker was
told it holds the lease. A start-up reconciliation is three steps: `LookInto` an open
attempt and read the clock, `CheckLease` in a transaction of its own, and `Abandon` by a
later statement that asks nothing; claims, renewals and the passing of time come in between.
One attempt is looked into at a time, as the loop of `reconcile_stale_attempts` does, and
the plan's claim, which it asks for as well, is taken to be dead. `cut` are the workers
whose attempt was abandoned; `late`, history, those whose lease has come to its last second
since they claimed. In `GoalExecution` `Reconcile` is one step and a lease is a boolean,
which has no last second: the race is in this module only.

### GoalGraph

What `GoalExecution` holds fixed changes here: goals are removed and rewired, under the
guards of `_assert_editable` and `update_goal`, while each goal is claimed, worked on or
promoted. The stage of a goal stands for the driver states of `GoalExecution`.

### Console

`plan` is the aggregate as the projection shows it: status, the two pause flags, the legacy
phase that the planning stages still go by, the proposal and its approval, the draft and
whether something was saved after it, the open gate, the cycle, the block of the plan and of
each goal, the work of each goal (one task) and the reservations. `sessions` are the
reasoner sessions of workers that are under way, `talking` the turn of the conversation.
`keepsBlock` says that the cycle has an entry of a block, active or resolved, which is what
`_start_operation` goes by when it admits a turn of a running plan (`conversation.py:111`),
although its comment says "active".

For every command there is `Can...`, the guard in the aggregate, and an action that saves
what the command saves. Workers interleave: `Architect`, `Enrich` begin a session that ends,
whatever has become of the plan, in one of `SubmitDraft`, `EnrichLands`, `EnrichUnbound`,
`SessionFails`, `FailPlan`, `BacksOff`, `SessionLost`; attempts and promotions are the short
form of those in `GoalExecution`. `LegalActions`, `Resolutions` and `ChatMode` are the
projection; `RailControls`, `GateControls`, `AttentionControls`, `TaskControls`,
`ChatControls` are the components' conditions, and together `Offered`; `Accepts` is the
guard behind each control. Commands are not restricted to what is offered: other tabs, stale
screens and the CLI send any of them at any time. A session whose result can no longer be
taken becomes `Old`. One save is one step; a decision names the revision it was read from,
so that a stale one is refused and is no step.

### EventFeed

A write is its number in the order of commits; what a query would return is the number of
the last write that touched it. `Touches` is what a command or a worker's transaction
changes, `Announces` what the bridge invalidates for its event, `Refreshes` what the
mutation behind the client's own command invalidates. The relay reads a batch, publishes row
by row and marks them in one commit (`RelayStarts`, `RelayRow`, `RelayCommits`,
`RelayFails`), then takes the agent events by cursor. A command of the client (`Command`) is
answered (`Acknowledged`) or its response is lost after the commit (`ResponseLost`, or with
the API in `ApiRestarts`): then `onError` shows a toast and invalidates nothing. The
client's state is the `EventSource`, the ring of seen ids, the list of the activity view and
the cache with the rules of TanStack Query (external: modelled from how `queries.ts` uses
it): an invalidation refetches what is on screen, joins a first fetch and marks the rest.
`missed` is history: the queries of which a change was not announced to this client, because
it has no event and is another client's or the response to it was lost, or because the
announcement was dropped by a full queue or swallowed by a fetch. Any later invalidation of
the query makes up for it, that of a reconnection or of the resync button included, and so
does a fetch that reads.

### AttemptLog

The file is a sequence of records with the offset that follows each; `Write` rotates it when
a record does not fit, as `_compute_retained` cuts it: what is kept moves forward behind the
marker. `Poll`, `ReadLines`, `CheckTerminal` and `Drain` are
the awaits of `follow_attempt_log`; `Connect`, `Disconnect` and `Receive` the loop of
`subscribeToAttemptLog` with its byte offset; `Open`, `Capture...` the viewer and the
captured log it shows from the end of the stream on. An attempt ends when its worker settles
it after its process ended, or when another worker reclaims it while the process still
writes.

### Setup

Every transaction of a request is a step: `request[c]` is what client `c` still has to do,
and `Dies(c)` drops it between any two. A statement that reads before the first one that
writes is outside SQLite's write transaction, so that a guard (`CheckProvider`,
`CheckModel`, `CheckAgent`, `CheckUnnamed`, ...) and the change it guards (`RemoveProvider`,
`RemoveModel`, `SaveAgent`, `RemoveAgent`) are two steps as well. What a guard scans is what
its SQL scans: the deletion of an agent (`CheckUnnamed`) looks at plans that are neither
done nor failed and at the implementers they name, so that the agents of a plan that ends
(`EndPlan`) go unguarded, even if the plan is taken up again. A project is deleted only
without a plan (a foreign key restricts it); its config scope and its token stay. `raced` is
history: a request has committed while another was under way. The operators
`ProviderDialog`, `AgentDialog`, `ReasonerStep`, ... are the forms, with the values that
they can hold; a planner that resolves the agents of a task (`ResolveAgents`: its
implementer and the author of its tests) and saves its plan later (`NameAgents`) is one more
client. Two narrower guards are abstracted: a capability that no agent covers is deleted
here even if a plan in progress names it, which the code refuses; and the three keys of a
forge binding, which are written one by one, are one step, since a binding is read only when
all three are there. `Steps`, `Done`, `NextStep` and `CanSubmit` are the wizard. `Init` is
an empty install or one that `praxis seed demo` has filled.

## The runs

| run | question | instance | distinct states |
|---|---|---|---|
| `GoalExecutionFaults` | does each attempt have one owner and one outcome; is DONE verified; is the plan BLOCKED exactly when it is stuck? | two workers, two independent goals of one task; two faults (agent, crash, lost lease, restart) and a retry or an edit | 1 246 210 |
| `GoalExecutionOperator` | does execution implement `Delivery`; are reservations safe; is a pause quiet? | two workers, two dependent goals; two faults and two commands | 2 550 779 |
| `GoalExecutionProgress` | does the plan always come back to a human; is a finished cycle not stuck? | two workers, one goal, two tasks; two faults and one command, fair | 292 304 |
| `GoalGraph` | do what is ready, what is stuck and the status agree? | every graph of three goals, two edits | 84 179 |
| `GoalLease` | is the lease a lock; is who renews in time spared by a start-up? | two workers and a reconciliation, leases of two seconds, seven seconds | 322 269 |
| `AttemptLog` | is the live view what was written, and does it end? | a file of five units, four records of one or two, two lost connections, fair | 253 525 |
| `EventFeed` | does every change that the client is told of reach the screen, once? | two writes, one fault, a queue of one, a ring and a batch of two | 4 787 218 |
| `Setup` | is what is bound there, with its credentials; can the wizard be followed? | two tabs, two providers, two models, one agent, capability and project; five requests | 423 980 |
| `Console` | is what is offered accepted; can someone always move the plan? | two goals, any sequence of commands | 521 184 |
| `PhantomReservation`, `PauseSkips`, `TheirsWins` | see the divergences below | the smallest instance that shows it; `Console`'s for the last | |

**Bounds.** Two workers are enough for every pairwise race the code has (a lease, a task and
a reservation each have at most one rightful owner; the rest are former owners, of which one
is enough to interfere); they are interchangeable, which is the symmetry used, except in the
fair run. Two faults allow a fault in the recovery from another one, a restart after a crash
among them; two commands allow pause/resume, edit/retry and a replan beside either.
`MaxAttempts = 2`, one contract repair and one promotion retry reach both sides of each
budget. `AttemptBound` caps the attempts of a task, which only a goal with a reservation
nobody releases (PhantomReservation below) would start for ever; eight are enough for
several rounds of that. `EditBound = 2` lets an edit build on another. The seven seconds of
`MaxClock` are three leases.

`Console` is finite and has no bound: two goals are enough for a block of one to stand
beside the work, the block or the reservation of the other, and they are interchangeable. In
`AttemptLog` the third or fourth record rotates the file, a rotation can happen under a
reader and be outgrown again, and a second connection can be lost while the first is being
recovered from. In `EventFeed` two writes are enough for an event to overtake, fill the
queue before or be swallowed with another one; the one fault is a failed pass, a broken
connection, a restart of the API, a failed fetch or a lost response; `QueueSize = 1` makes
the queue full at once. In `Setup` two requests overlap in every way at five requests in
all, so that three can prepare the rows that the two race for.

Deadlock is not checked where the model really stops: when the operator's commands or
requests are used up and the plan waits for a human, a stream has ended, the writes are done
and seen, a plan is done with, or the clock has run to its end with nobody to act (the lease
run does not need this).

**Fairness** (`GoalExecution!Fairness`, used by `GoalExecutionProgress`). Weak fairness of
each worker's scan and step (the loop of `run_worker_forever` always scans again and every
await of an action ends: agents, checks and Git have timeouts), of the plan-level entry into
the review, and of time (back-offs elapse, leases nobody renews expire). No fault has to
happen or to stop, no operator has to act and no process has to restart. With it
`ReviewOrBlock` says that the plan is again and again in its review or at a block.
`AttemptLog!Fairness` is weak fairness of the tail's loop, whose awaits end, of the client's
reconnection, which a timer makes a second later, and of receiving what was sent on a
connection that holds; connections may be lost `MaxDrops` times, records are written as long
as the process lives, and nothing makes an attempt end: `StreamEnds` starts when it has.

**Why some runs are narrower than others.** `BlockedExactlyWhenStuck` is checked without the
commands of a pause, so that no plan is resumed; `ReservedAttemptIsOpen` without restarts;
`PausedIsQuiescent` with goals that depend on each other, so that one is in flight at a time
(PauseSkips below); `FinishedCycleIsNotBlocked` with one goal, without a pause or a replan;
and `BlockedMeansStuck` of `GoalGraph` as long as nobody edits. The theorems about them have
the same restrictions as hypotheses. `OfferedIsAccepted` and `WayForward` hold outside
`KnownRefusal` and `Stranded`, whose disjuncts are named one by one; `BindingsResolve` as
long as no two requests overlapped and, for the agents that plans name, for plans that have
been in progress all along; `NoLostInvalidation` outside `missed`; `PunctualIsSpared` for
workers that have not been `late`. Beyond that the code does not guarantee them, as the next
section says.

## Known divergences

Three runs exhibit one each; TLC prints the trace.

- **PhantomReservation.** A worker reserves a candidate and crashes, its lease runs out, and
  another process starts: reconciliation abandons the attempt but not the reservation, and a
  reclaim releases only reservations of attempts that are still open
  (`execution_handler.py:1196`). Every later candidate of the goal raises in
  `reserve_promotion`, its attempt is reclaimed and the agent runs again, for ever; edits
  and replans are refused plan-wide.
- **PauseSkips.** With two goals in flight, a requested pause settles at the end of the
  first attempt; the other one then finds a plan that is not RUNNING, and
  `_abandoned_task_status` takes it for abandoned: its task is SKIPPED, although "an
  in-flight attempt finalizes normally" (`planner_orchestrator.py:425`).
- **TheirsWins.** While the goals of a cycle are enriched, an operator opens a proposal; the
  enrichment then fails for good. `_handle_reasoner_failure` leaves a plan alone when it is
  paused or when its phase is none of planning, and the phase is still ENRICHING:
  `fail_plan` makes the plan FAILED and BLOCKED under the open gate, although such a failure
  is "raced by a human command; theirs wins" (`planning_handler.py:618`).

Two modules state a property that their documentation claims and the code does not keep; no
run checks it, and TLC finds the counterexample when it is added to one.

- **`GoalLease!AbandonsOnlyUnowned`** (a `PROPERTY` on the instance of `GoalLease.cfg`). A
  lease is dead to `is_claim_live` in its last second (`>`), in which the heartbeat still
  renews it (`>=`). A start-up that asks in that second and abandons the attempt by a later
  statement takes it from a worker that has renewed in between and holds a live lease,
  although reconciliation is to "abandon RUNNING attempts that NO live lease owns"
  (`reconcile_runtime.py:10`). What the code does guarantee is `PunctualIsSpared`: it never
  happens to a worker that has always renewed before the last second.
- **`Setup!AuthorsExist`** (an `INVARIANT`; it takes one client, two agents and six
  requests). Deleting an agent is refused while a plan's document contains
  `"agent_id":"..."` (`reference_repos.py:244`). The agents in `role_agent_ids` have other
  keys, so that the author of a task's tests is deleted while a plan in progress names it,
  with one request after the other, although "false negatives are impossible"
  (`reference_repos.py:18`).

The following were seen in counterexamples of the same models while the runs' instances were
chosen; each is the reason for a restriction above or for a note in the hazards.

- *Late failure of a lost attempt*: `_abandon_late_failure` acts on the task by its id: a
  worker that lost its lease skips the task under the new attempt of the worker that
  reclaimed it, although "task-identity (status/revision/attempt) is the real fencing token"
  (`execution_handler.py:989`).
- *Pause that never settles*: a terminal failure and a contract repair finalize the attempt
  without `_settle_requested_pause`; the plan keeps `pause_requested`, which nothing claims.
- *Resume over a block*: a pause settles at once while a goal is being merged; the merge
  fails and blocks the goal; `resume` assigns RUNNING without deriving the status.
- *Block of a finished goal*: two workers scan one goal, the first one's merge fails and
  blocks it, the second completes it; when the last goal finishes,
  `_recompute_cyclic_status` returns early and the plan stays BLOCKED. It takes two goals
  and two workers.
- *Scan before block*: a worker that scanned a goal before it was blocked claims and drives
  it; the handler looks at the pause gate but not at the goal's block.
- *Replan and late results*: a late failure or refused candidate gives a task of the source
  cycle the status SKIPPED while the replan is reviewed.
- *Retry of an edited task*: the resolution is `edit_task`, for which the provider's circuit
  is not cleared, so the next driver of the goal opens the block again.
- *Edits of a claimed goal*: dependencies are looked at by the scan only; a dependency added
  after the claim is not waited for.
- *Edits of a blocked plan*: `apply_edit` does not derive the status; removing the goal
  whose block stopped the plan leaves it BLOCKED.

In `Console`, what is offered and refused (`KnownRefusal`):

- every lifecycle command while a goal is being promoted, from gates and blocks that are on
  screen already;
- the replan composer while an intent or a gate is open, and a replan before there is a
  cycle, from `start_replan` among the resolutions of every block;
- a pause, advertised with a goal's block for every status but BLOCKED;
- the activation of a draft that something was saved after, or that was made for another
  cycle: nothing on the screen says so;
- the retry of a stage: the console sends it without its goal (`Overview.tsx:527`), which
  the server refuses when several goals are blocked; sent with a goal,
  `retry_planning_stage` resolves the plan's block, or the first goal's that it finds,
  whichever was named;
- the retry of a task that was removed or whose plan is blocked as well, and the repair of a
  contract whose task was skipped.

And where nobody can move the plan by what the screen offers (`Stranded`):

- *Unarmed*: cancelling a proposal or a draft over a cycle assigns PAUSED without a pause;
  resume is refused.
- *PausedAndRunning*: approving an intent over a pause assigns RUNNING; nothing claims a
  paused plan, and nothing offers resume for a RUNNING one.
- *NeverSettles*: the pause that never settles, from above.
- *ApprovedAside*: an approved intent in a plan that a block, a pause or a failure has taken
  out of RUNNING; the roadmap is not drafted, and the composer refuses another proposal.
- *BlockedByNothing*: BLOCKED by `fail_plan`, with no block to resolve.
- *NothingToRun*: RUNNING without a cycle or an approved intent: a decision on another
  screen came between, and what was revised or retried was no longer the plan's.

In the other models:

- *Rotation hides lines*: a reader whose offset lies in a file that was rotated and has
  outgrown that offset again reads on from the middle; lines are missing and nothing says
  so. `ResumesExactly` and `EndIsComplete` are about files that were not rotated;
  `LiveInOrder` holds across rotations.
- *Reclaimed process*: the stream of an attempt that was reclaimed ends while the process of
  the worker that lost it still writes.
- *Changes nobody announces*: a full queue drops an event (`sse.py:84`) and a fetch that is
  under way can land with an older reply after the invalidation; some writes (edits,
  rebindings, cancellations) have no event at all, so that other tabs see such a change with
  the next one. When the response to such a write is lost after the commit, the tab that
  sent it shows a toast that it failed, keeps the old plan on screen, fresh, and has nothing
  under way that would correct it (`queries.ts:379`, `queries.ts:533`). After a pass of the
  relay that failed, the activity list may be out of order.
- *Overlapping settings requests*: an agent may be saved with a model, or a task with an
  agent, that another request's guard no longer saw; a provider that is renamed while a
  model of it is added or removed loses or regains that row; a forge that is bound and
  unbound at once may keep the binding without the token.
- *Agents of ended plans*: the scan skips plans that are done or failed
  (`reference_repos.py:54`), so that the implementer of a task of a failed plan can be
  deleted, and is gone when the plan is taken up again.
- *Deleted projects*: their config and their token stay. (A project with a plan cannot be
  deleted.)
- *Armed confirmations*: a `ConfirmAction` that was armed for one revision of a proposal
  stays armed when the next is shown, and confirms that one.

## What is proved

All theorems hold for any sets of workers, goals and tasks, any dependencies, bounds, faults
and commands, under the modules' named assumptions (`ConstantsAssumption`, `NoneAssumption`,
`LeaseAssumption`, `GraphAssumption`, `SetupAssumption`, `NoneIsNoBinding`, `NoneIsNoPlan`,
`ConsoleAssumption`, `FeedAssumption`, `LogAssumption`: types, a finite set of goals,
positions that differ where it matters, a `None` that is not a value, a batch of the relay
that fits into the ring of seen ids (`SEEN_IDS_MAX`, 2000), records that fit into the log).
Four theorems of `GoalExecutionProofs` have a hypothesis of their own, which is stated with
them; each excludes a divergence of the section above.

- **`NavigationProofs`**: `BlockedNodesLeast`. For every finite graph, `blocked_nodes`
  returns the least set that holds the blocked nodes and whatever depends on a member. Its
  sweeps are a recursive function over the numbers of passes: it exists because the least
  number for which it would not has a predecessor, and after as many passes as there are
  nodes nothing is added, because each earlier pass added one. Those are inductions through
  a least counterexample in a well-founded set (`LeastNumber`), which needs no theorem with
  an operator for a parameter.
- **`GoalExecutionProofs`**: `ExecutionTypeOK`, `ExecutionSingleOpenAttempt`,
  `ExecutionSettled`, `ExecutionOneLiveUnit`, `ExecutionLedger`. `TypeOK` alone is not
  inductive, since the actions use `unit[d]` and `goal[d]` as records and goals; `TypeInv`
  adds `PositionOK`: a driver past `idle` has a goal, and one that runs a unit has one of its
  goal's tasks. The rest follows from `AttemptInv`, of three parts: only the *last* attempt
  of a task can be open, and then the task is RUNNING or was skipped; the attempt a driver
  runs is in the ledger, open or abandoned; no two drivers run the same attempt. A reclaim
  closes every open attempt before it appends the next, so the new one is the last and
  nobody else's; a late outcome is harmless because its attempt is either still the last
  one, so that the task is its own, or abandoned, and then `finalize_attempt` takes only the
  same outcome again. Each step is first put into one of a few classes (quiet, closes an
  attempt, opens one, reconciles), and the invariant is preserved once per class.
- **`GoalExecutionProofs`, what is delivered**: `ExecutionDelivers` (the refinement `DeliversOnce`),
  `ExecutionDoneIsVerified`, `ExecutionGoalIsMerged` and `ExecutionPromotionStaysValid`, with
  every fault, restarts included, and every command. One lemma for each part of the state
  says what a step can do to it: no step but `FinalizeImplementation` makes a task done and
  none changes what a done one was accepted with; only `CompleteGoal` finishes a goal; only
  `ActivateCycle` supersedes a cycle; a reservation is only released, unless one is taken;
  what is merged stays merged. `DeliveryInv` then says what the last transaction of a driver
  finds from its earlier ones: the dependencies of its goal are done since the scan
  (`Prepared`), a committed candidate and a merged goal are in Git, the attempt's number is
  the task's (`Numbered`, without which an outcome would count for another attempt), and a
  reservation is of an active cycle and, for a promotion, of accepted work (`CycleOK`). The
  last is why a late candidate cannot land in a superseded cycle: it needs a reservation,
  and a cycle is superseded only while none is held.
  `ExecutionReservedAttemptIsOpen`, without restarts: what closes the attempt a goal is
  reserved for is its own driver (`ReservedByItsDriver`) or a reclaim, and both release it.
  `ExecutionBlockedExactlyWhenStuck`, without pauses: a step leaves blocks and goals alone
  or derives the status (`StatusDerived`), and what it derives from is `BlockedNodesLeast`'s
  set. `ExecutionFinishedCycleIsNotBlocked`, without pauses and replans, and
  `ExecutionPausedIsQuiescent`, with both and every fault, for goals of which any two depend
  on one another (`SerialGoals`): then one goal at a time is due, whoever drives it. The
  invariant `SerialInv` ties the plan to it: what is driven, blocked or reserved is due
  (`PhaseOK`); the one open attempt is of its first unfinished task, in a plan that runs
  (`OpenOK`); a failed task has its block, and the plan is BLOCKED by it (`BlocksOK`); and
  PAUSED is a pause's (`StatusOK`).
- **`GoalLeaseProofs`**: `LeaseTypeOK`, `LeaseHolderHasRow`, `LeaseOneHolder`,
  `LeasePunctualIsSpared` and `LeaseImplementsLock`. The invariant adds that no statement
  carries a time that has not come (`ReadInThePast`): a late claim sees a time before now, so
  a row it finds expired has expired. For the reconciliation it adds that a worker at work
  whose grant is in its last second is late, and that only such a one fails to renew
  (`LateOnes`), so that whoever a check condemns is late (`CondemnedIsLate`), and stays so
  until the abandonment whatever it renews meanwhile.
- **`GoalGraphProofs`**: `GraphTypeOK` and `GraphStaysOrdered`, for any number of goals and
  edits; `GraphBlocksSpreadExactly`, which compares the sweeps with chains of dependencies
  (`BlockedNodesLeast` both ways); `GraphProgressMeansReady`, where the earliest goal that no
  block reaches is the one to claim, since a graph that stays ordered has one; and
  `GraphBlockedMeansStuck`, as long as nobody edits (`StatusInv`).
- **`EventFeedProofs`**: `FeedTypeOK`, `FeedNoLostInvalidation` and `FeedListedOnce`, for
  any number of writes and faults, any queue, and any ring that holds a batch. `CacheInv`
  follows an invalidation: a fetch that runs for a query that is known leaves it stale, and
  a reply is no newer than the truth (`Coherent`); what is on screen is right, or about to
  be, unless an announcement is still in the outbox, the queue or on the wire, or the query
  is `missed` (`Pending`): a response that is lost leaves behind only what is `Unrefreshed`,
  and an invalidation whatever the cause takes its queries out of `missed` but for the
  swallowed (`MissedAreQueries`); and whoever has the event in the ring of seen ids has
  fetched behind it (`Heard`), so that its repetition need not be heard. `ListInv` says
  where an event may be repeated: the stream as a whole, from what was published to what the
  relay is about to publish again, repeats only what lies within a batch behind (`Ordered`,
  `Paced`), and the ring is the end of what was received (`RingIsTail`), so a repetition
  finds the first one in it.
- **`SetupProofs`**: `SetupTypeOK`, `SetupCredentials`, `SetupBindings`, `SetupWizard`, for
  any clients, rows and number of requests. The inductive invariant `IInv` adds what a
  request that is under way relies on. `Aimed`: it is about rows that its operation needs.
  `Keyed` and `Distinct`: the key of a provider is stored before its row and forgotten after
  it, and since an id is given out once, no other request forgets the key of a provider that
  is being added; so `providers \subseteq secrets` needs no assumption about overlaps.
  `Undisturbed`: while nothing has overlapped, what each guard has read is still so
  (`Guarded`; for the agents that plans name, of plans in progress), since a commit that
  finds another request under way sets `raced`; the lemma `Alone` says that otherwise every
  other client is idle, and the changed rows then disturb only a request that is done. Each
  change of rows is proved once in a lemma about the rows, and once per request that makes
  it. The wizard needs little of the state: unless the settings were used by hand, a
  reasoner in mode `llm` has a provider and a model (`ModeLast`), and a request under way
  that is about to set the model or the mode finds chosen what comes before it (`Planned`).
- **`ConsoleProofs`**: `ConsoleTypeOK`, `ConsoleGate`, `ConsoleOffered` and
  `ConsoleWayForward`, for any number of goals, any commands and any sessions. The inductive invariant is `Sound(plan)`, a
  predicate of one plan, and `Enriched`. `Sound` has the type, the subject of an open gate,
  and what the screen silently relies on (`Consistent`): the work a goal can have under a
  block of each kind (`Fits`: an agent's block stands over planned work, a promotion's over
  verified work, a wedged one over skipped work), reserved goals are verified and free, a
  plan without a cycle has no work, and an open intent has its gate or a draft's. Only an
  enrichment adds blocks or work to a goal without looking at it again, so `Enriched` says
  that the goals of sessions are untouched, and `Spares` that no other step touches them.
  One lemma per command and per worker's step shows that the plan it saves is `Savable`; the
  general steps of a save (`Saved`, `Settled`, `Recompute`) are lemmas about any plan. That
  what is offered is accepted then needs one state only, and one lemma per kind of control. That
  someone can move the plan is a proof by cases of a plan that nothing is under way in: an
  open gate can be decided, a block's resolution is offered and accepted, a plan that runs
  has work that can be claimed, and a waiting plan with a cycle and no gate is being
  replanned and has no draft, so that the conversation goes on (`Converses`).

- **`AttemptLogProofs`**: `LogTypeOK`, `LogLiveInOrder`, `LogResumesExactly` and
  `LogEndIsComplete`, for any cap, sizes and numbers of records, any window and any number of
  lost connections. The lemmas about the file say what a read, a drain, a rotation and a
  window return: the records that start in front of a place are the first ones
  (`SkippedAreFirst`), and a rotation drops some of those, moves the rest forward and makes
  room (`RetainedMoves`). Order survives a rotation under a reader because of `InOrder`:
  whatever lies *behind* the cursor, a frame's id or the tail's offset is newer than what is
  shown or sent up to there (`Behind`), and a rotation only moves records forward, out of
  what is behind. What the code does when it notices a truncation cuts the frames in two, and
  the view starts again there (`Uncut`). As long as nothing was rotated, `Unbroken` says much
  more: there is a k such that the cursor is behind the first k lines, the view is their
  window, the frames are the lines that follow and the tail is behind those (`Following`),
  and the end comes last, behind everything if the worker settled the attempt (`Ending`),
  since nobody writes then (`Complete`).

Every safety property, action property and refinement that a passing run checks is stated by
one of these theorems. **Only model-checked** are `ReviewOrBlock` and `StreamEnds`, which are
liveness under fairness, out of the prover's reach as everything with `ENABLED` is; and the
three properties that are violated need no proof. The theorems are about the models: that a
model follows the code is what `PROJECT.json` maps line by line.

## What is not modelled

- Agents that wait: a full admission pool and an open circuit's retry window make a driver
  stop without a change of state, which a worker that does not scan also does.
- The legacy path of plans without cycles; goals without tasks and their enrichment.
- Runs that group attempts, planning operations, observations and other records that no
  decision reads back.
- The plan-level claim: `Console` has at most one session of a kind instead, and
  `GoalLease` takes the claim for dead when an attempt is looked into. Acceptance
  runs, publication, and the deletion of a plan beside workers that hold leases of its
  goals.
- Budgets and times of planning back-offs; what a reasoner or an agent says.
- Waves of the worker pool: every slot is a driver of its own, which has more interleavings.
- Verification, agent runtimes beyond their log, the reasoner, HTTP: I/O whose outcome is a
  nondeterministic choice of the models, or none of their state.
- What screens show beside controls: the canvas, the timelines, counts, themes; the legacy
  gate panel.
- Workers that share an id, as two processes started with the default `worker-1` do.

## Plan

1. `Capacity`: circuits with a retry window, the half-open probe and its owner, in-flight
   limits; property: at most one probe, none lost, a circuit closes after a success.
2. The plan-level claim of `plan_repository.py` under the planning stages of `Console`, with
   its heartbeat, and deletion of a plan beside workers.
3. Acceptance runs and the completion gate between `EnterReview` and publication; task edits
   (add, remove, reorder) in `GoalExecution`; shared worker ids in `GoalLease`.
4. Theorems about each of these as it is written. Of the present modules, abstract
   specifications worth stating and proving are those of a stream (`AttemptLog`: what is
   shown is a prefix of what was written, as long as nothing rotates) and of a cache
   (`EventFeed`), and a weaker hypothesis than `SerialGoals` under which a pause is quiet.
