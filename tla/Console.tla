-------------------------------- MODULE Console --------------------------------
(***************************************************************************)
(* What the operator's console offers, what the server accepts, and what   *)
(* the workers do meanwhile.                                               *)
(*                                                                         *)
(* The console reproduces no transition rule: each of its controls is      *)
(* shown when the projection of the plan says so (legal_actions, the       *)
(* blocks' resolutions, the open gate, the activity) and sends one command *)
(* whose guard is in the aggregate. Offered is what a fresh screen shows;  *)
(* Accepts is what the server does; commands of stale screens, of other    *)
(* tabs and of the command line come at any time, offered or not.          *)
(*                                                                         *)
(* A goal has one task, and the goals are independent. A decision names    *)
(* the gate and the revision it was read from, so that a stale one is      *)
(* refused and is no step here. Plans of the legacy lifecycle are left out. *)
(***************************************************************************)
EXTENDS Naturals, FiniteSets

CONSTANTS Goal, NoGoal,
          Roadmap,   \* the reasoner session that drafts a cycle
          Old        \* a session whose result will not be taken

ASSUME ConsoleAssumption ==
    /\ IsFiniteSet(Goal)
    /\ NoGoal \notin Goal /\ Roadmap \notin Goal /\ Old \notin Goal /\ Roadmap # Old

VARIABLES plan,      \* the aggregate, saved as one document
          sessions,  \* what reasoner sessions of the workers are under way
          talking,   \* the conversation turn the API is in: its kind, or "none"
          keepsBlock \* goal_blocks of the active cycle has an entry, which stays
                     \* there when the block is resolved

vars == <<plan, sessions, talking, keepsBlock>>

Status == {"idle", "running", "paused", "waiting", "blocked"}
Phase  == {"discovery", "enriching", "running", "replanning", "failed"}
Kind   == {"agent", "reasoner", "capacity", "promotion", "execution", "wedged"}
Work   == {"unplanned", "planned", "pending", "running", "failed", "skipped", "verified", "done"}

\* source: the proposal or the draft is to replace the active cycle. drift: something
\* was saved after the draft was. block is the plan-wide one, blocks those of goals.
Plan == [status : Status, paused : BOOLEAN, requested : BOOLEAN, phase : Phase,
         intent : {"none", "open", "approved"}, source : BOOLEAN,
         draft : BOOLEAN, drift : BOOLEAN,
         gate : {"none", "intent", "draft", "completion"}, cycle : BOOLEAN,
         block : {"none", "reasoner"}, blocks : [Goal -> Kind \cup {"none"}],
         work : [Goal -> Work], reserved : SUBSET Goal]

Blocked(p) == {g \in Goal : p.blocks[g] # "none"}
Open(p)    == {g \in Goal : p.work[g] # "done"}
Attempts(p) == {g \in Goal : p.work[g] = "running"}
AllWork(w) == [g \in Goal |-> w]

\* block_policy: what a block of a kind may be resolved by. A goal wedged by a skipped
\* task is blocked as an execution failure that cannot be retried.
Resolutions(kind) ==
    CASE kind \in {"agent", "reasoner"} -> {"retry_stage", "start_replan"}
      [] kind = "capacity"  -> {"wait_and_retry", "edit_task", "start_replan"}
      [] kind = "promotion" -> {"start_replan"}
      [] kind = "execution" -> {"retry_stage", "edit_task", "start_replan"}
      [] kind = "wedged"    -> {"edit_task", "start_replan"}
      [] OTHER              -> {}

RequiresHuman(kind) == kind \in {"agent", "reasoner", "capacity"}

\* The block of a task, and not of a planning stage.
NamesTask(kind) == kind \in {"capacity", "execution", "wedged"}

\* _recompute_cyclic_status
Recompute(p) ==
    IF ~p.cycle \/ Open(p) = {} THEN p
    ELSE IF Open(p) \subseteq Blocked(p) THEN [p EXCEPT !.status = "blocked"]
    ELSE IF p.status = "blocked" THEN [p EXCEPT !.status = "running"]
    ELSE p

\* A save bumps the version: a draft that is open falls behind, and a roadmap that is
\* being drawn up will be refused.
Saved(p) == [p EXCEPT !.drift = p.draft]
Outdated(under) == IF Roadmap \in under THEN (under \ {Roadmap}) \cup {Old} ELSE under
Superseded(under) == IF under = {} THEN {} ELSE {Old}

Save(p) == plan' = Saved(p) /\ sessions' = Outdated(sessions)

\* A command saves the plan and touches nothing else.
Commands(p) == Save(p) /\ UNCHANGED talking

(***************************************************************************)
(* The commands: when the server accepts each, and what it saves.          *)
(***************************************************************************)
Quiet == plan.reserved = {}   \* assert_lifecycle_mutation_allowed

\* request_pause: a second one changes nothing.
CanPause == plan.paused \/ plan.requested \/ plan.status = "running"

\* Not the code: settle_pause leaves the request.
SettledStillRequested(p) == [p EXCEPT !.paused = TRUE, !.status = "paused"]

Settled(p) == [p EXCEPT !.requested = FALSE, !.paused = TRUE, !.status = "paused"]

Pause ==
    /\ plan.status = "running" /\ ~plan.paused /\ ~plan.requested
    /\ Commands(IF Attempts(plan) # {} THEN [plan EXCEPT !.requested = TRUE] ELSE Settled(plan))

CanResume == plan.paused

Resume ==
    /\ CanResume
    /\ Commands([plan EXCEPT !.paused = FALSE, !.requested = FALSE,
           !.status = IF plan.cycle \/ plan.phase \in {"enriching", "running"}
                      THEN "running" ELSE "idle"])

\* Plan.propose_intent, from the start button, the replan composer or a conversation
\* that has come to a conclusion.
CanPropose == Quiet /\ plan.intent = "none" /\ plan.gate = "none"

Proposed(kind) ==
    [plan EXCEPT !.intent = "open", !.source = (kind = "replan" /\ plan.cycle),
                 !.draft = FALSE, !.gate = "intent", !.status = "waiting"]

ProposeIntent(kind) == CanPropose /\ Commands(Proposed(kind))

\* revise_intent replaces whatever gate is open, and asks for no revision.
CanReviseIntent == Quiet /\ plan.intent # "none"

ReviseIntent ==
    /\ CanReviseIntent
    /\ Commands([plan EXCEPT !.intent = "open", !.gate = "intent", !.status = "waiting"])

CanApproveIntent == Quiet /\ plan.gate = "intent" /\ plan.intent # "none"

\* It starts the plan whether or not it is paused.
ApproveIntent ==
    /\ CanApproveIntent
    /\ Commands([plan EXCEPT !.intent = "approved", !.gate = "none", !.status = "running"])

CanCancelIntent == Quiet /\ plan.intent = "open"

Stopped == IF plan.cycle THEN "paused" ELSE "idle"

CancelIntent ==
    /\ CanCancelIntent
    /\ Commands([plan EXCEPT !.intent = "none", !.source = FALSE, !.gate = "none",
                             !.status = Stopped])

CanReviseDraft == Quiet /\ plan.draft

ReviseDraft ==
    /\ CanReviseDraft
    /\ plan' = [plan EXCEPT !.gate = "draft", !.drift = FALSE, !.status = "waiting"]
    /\ sessions' = Outdated(sessions) /\ UNCHANGED talking

\* activate_cycle: nothing was saved since the draft was, and the cycle it replaces is
\* the active one, or there is none.
CanActivate ==
    /\ Quiet /\ plan.gate = "draft" /\ plan.draft
    /\ ~plan.drift /\ plan.source = plan.cycle

ActivateCycle ==
    /\ CanActivate
    /\ plan' = [plan EXCEPT !.status = "running", !.paused = FALSE, !.requested = FALSE,
                            !.phase = "enriching", !.intent = "none", !.source = FALSE,
                            !.draft = FALSE, !.drift = FALSE, !.gate = "none", !.cycle = TRUE,
                            !.block = "none", !.blocks = AllWork("none"),
                            !.work = AllWork("unplanned")]
    /\ sessions' = Superseded(sessions) /\ UNCHANGED talking

Discarded(p) == [p EXCEPT !.draft = FALSE, !.intent = "none", !.source = FALSE, !.gate = "none"]

CancelDraft == CanReviseDraft /\ Commands([Discarded(plan) EXCEPT !.status = Stopped])

\* record_output_disposition, whichever of the four
CanComplete == plan.gate = "completion" /\ plan.cycle

Complete ==
    /\ CanComplete
    /\ plan' = Saved([plan EXCEPT !.cycle = FALSE, !.gate = "none", !.status = "idle",
                                  !.blocks = AllWork("none"), !.work = AllWork("unplanned")])
    /\ sessions' = Superseded(sessions) /\ UNCHANGED talking

\* request_replan resolves every block, then begin_replanning supersedes the pause. With
\* no cycle it is a transition of the legacy phase, and leaves the artifacts.
CanReplan == Quiet /\ (plan.cycle \/ plan.phase = "running")

Unblocked(p) == [p EXCEPT !.block = "none", !.blocks = AllWork("none")]
Replanned(p) == [Unblocked(IF p.cycle THEN Discarded(p) ELSE p) EXCEPT
                   !.paused = FALSE, !.requested = FALSE, !.phase = "replanning", !.status = "waiting"]

\* Not the code: the open gate is forgotten about.
ReplanBesideGate == CanReplan /\ Commands([Replanned(plan) EXCEPT !.gate = plan.gate])

\* Not the code: the compatibility phase stays.
ReplanInPlace == CanReplan /\ Commands([Replanned(plan) EXCEPT !.phase = plan.phase])

Replan == CanReplan /\ Commands(Replanned(plan))

\* Plan.retry_task: a goal's own block is taken before the plan's; a task that was
\* edited is pending already.
CanRetry(g) ==
    LET kind == plan.blocks[g]
    IN  IF kind # "none"
        THEN /\ NamesTask(kind) /\ Resolutions(kind) \cap {"retry_stage", "wait_and_retry"} # {}
             /\ \/ plan.work[g] = "failed"
                \/ plan.work[g] \in {"planned", "pending"} /\ "edit_task" \in Resolutions(kind)
        ELSE plan.block = "none" /\ plan.paused /\ plan.work[g] = "failed"

Retry(g) ==
    /\ CanRetry(g)
    /\ LET retried == [plan EXCEPT !.work[g] = "pending", !.blocks[g] = "none"]
       IN  Commands(IF plan.blocks[g] = "none" THEN retried ELSE Recompute(retried))

\* _resolve_retryable_block: the block of the goal named; or the plan's, or the only one
\* of a goal. The registry has been repaired by then.
CanRetryStage(target) ==
    LET candidates == IF target # NoGoal THEN {target} ELSE Blocked(plan)
    IN  \/ target = NoGoal /\ plan.block # "none"
        \/ /\ Cardinality(candidates) = 1
           /\ \A g \in candidates : plan.blocks[g] \in {"agent", "reasoner"}

\* Plan.retry_planning_stage looks for the block again, whichever goal was named.
RetryReasoner ==
    IF plan.block # "none"
    THEN LET resolved == [plan EXCEPT !.block = "none"]
         IN  Commands(IF plan.cycle THEN Recompute(resolved) ELSE [resolved EXCEPT !.status = "running"])
    ELSE \E g \in Goal : /\ plan.blocks[g] = "reasoner"
                         /\ Commands(Recompute([plan EXCEPT !.blocks[g] = "none"]))

\* Plan.retry_agent_binding
RetryBinding(g) ==
    Commands(Recompute([plan EXCEPT !.blocks[g] = "none", !.phase = "running", !.status = "running"]))

RetryStage(target) ==
    /\ CanRetryStage(target)
    /\ LET rebound == IF target # NoGoal THEN {target} ELSE IF plan.block # "none" THEN {} ELSE Blocked(plan)
       IN  IF \E g \in rebound : plan.blocks[g] = "agent"
           THEN \E g \in rebound : RetryBinding(g)
           ELSE RetryReasoner

\* apply_edit: a task is edited or removed when it is pending, or failed in a recovery
\* window: a manual pause, or a block of its goal that can be resolved by an edit.
Window(g) ==
    \/ plan.paused
    \/ "edit_task" \in Resolutions(IF plan.blocks[g] # "none" THEN plan.blocks[g] ELSE plan.block)

CanEdit(g) ==
    /\ Quiet /\ plan.cycle
    /\ \/ plan.work[g] = "planned"
       \/ plan.work[g] \in {"pending", "failed"} /\ Window(g)

EditTask(g) ==
    /\ CanEdit(g)
    /\ Commands([plan EXCEPT !.work[g] = IF @ = "planned" THEN @ ELSE "pending"])

RemoveTask(g) == CanEdit(g) /\ Commands([plan EXCEPT !.work[g] = "unplanned"])

\* conversation._start_operation. A running plan is taken for partially blocked as long
\* as it keeps the entry of a block, resolved or not.
CanTalk(kind) ==
    /\ talking = "none" /\ plan.intent # "open" /\ plan.gate = "none"
    /\ IF kind = "initial" THEN ~plan.cycle /\ plan.status \in {"idle", "waiting"}
       ELSE /\ plan.cycle
            /\ \/ plan.status \in {"paused", "blocked", "idle"}
               \/ plan.status = "running" /\ keepsBlock
               \/ /\ plan.status = "waiting"
                  /\ \/ plan.phase = "replanning"
                     \/ \A g \in Goal : plan.work[g] \in {"done", "skipped", "verified"}

Talk(kind) == CanTalk(kind) /\ talking' = kind /\ UNCHANGED <<plan, sessions>>

\* The turn ends with an answer, or with a proposal that meets the guard of a proposal;
\* one that does not is dropped.
Answered == talking # "none" /\ talking' = "none" /\ UNCHANGED <<plan, sessions>>

Concluded ==
    /\ talking # "none" /\ CanPropose
    /\ Save(Proposed(talking)) /\ talking' = "none"

(***************************************************************************)
(* The workers.                                                            *)
(***************************************************************************)
Claimable == plan.status = "running" /\ ~plan.paused /\ ~plan.requested
Drafting  == Claimable /\ plan.intent = "approved" /\ ~plan.draft

CanArchitect == Drafting /\ Roadmap \notin sessions

Architect == CanArchitect /\ sessions' = sessions \cup {Roadmap} /\ UNCHANGED <<plan, talking>>

\* submit_cycle_draft: the plan is as the session found it.
SubmitDraft ==
    /\ Roadmap \in sessions /\ Quiet
    /\ plan' = [plan EXCEPT !.draft = TRUE, !.drift = FALSE, !.gate = "draft", !.status = "waiting"]
    /\ sessions' = sessions \ {Roadmap} /\ UNCHANGED talking

CanEnrich(g) ==
    /\ Claimable /\ ~Drafting /\ plan.cycle
    /\ plan.work[g] = "unplanned" /\ plan.blocks[g] = "none" /\ g \notin sessions

Enrich(g) == CanEnrich(g) /\ sessions' = sessions \cup {g} /\ UNCHANGED <<plan, talking>>

\* _enrich_one: the contract is committed unless the plan is paused, whatever else has
\* become of it; the phase is set, and the status with it.
Takes(g) == ~plan.paused /\ ~plan.requested /\ plan.work[g] = "unplanned"

SessionEnds(s, p) == plan' = Saved(p) /\ sessions' = Outdated(sessions \ {s}) /\ UNCHANGED talking

EnrichLands(g) ==
    /\ g \in sessions /\ Takes(g)
    /\ SessionEnds(g, [plan EXCEPT !.work[g] = "planned", !.phase = "running", !.status = "running"])

\* No registered agent fits: the tasks are kept, the goal is blocked.
EnrichUnbound(g) ==
    /\ g \in sessions /\ Takes(g) /\ plan.blocks[g] = "none"
    /\ SessionEnds(g, Recompute([plan EXCEPT !.work[g] = "planned", !.blocks[g] = "agent"]))

\* _handle_reasoner_failure on its terminal path. A failure is reported on the goal, or
\* on the plan when the goal is not in the active cycle; a plan that no longer runs is
\* left alone unless its legacy phase is one of planning, and then it fails for good.
Cyclic == plan.status = "running" /\ (plan.cycle \/ plan.intent = "approved")

SessionFails(s) ==
    /\ s \in sessions /\ Cyclic /\ ~plan.paused
    /\ \/ /\ s \in Goal /\ plan.blocks[s] = "none"
          /\ SessionEnds(s, Recompute([plan EXCEPT !.blocks[s] = "reasoner"]))
       \/ /\ s \notin Goal /\ plan.block = "none"
          /\ SessionEnds(s, [plan EXCEPT !.block = "reasoner", !.status = "blocked"])

FailPlan(s) ==
    /\ s \in sessions /\ ~Cyclic /\ ~plan.paused /\ plan.phase = "enriching"
    /\ SessionEnds(s, [plan EXCEPT !.phase = "failed", !.status = "blocked"])

\* A transient failure is recorded, and the stage is claimed again when it has backed off.
BacksOff(s) ==
    /\ s \in sessions /\ (Cyclic \/ plan.phase = "enriching") /\ ~plan.paused
    /\ SessionEnds(s, plan)

\* Its result is refused, its failure finds the plan changed, or its worker is lost.
SessionLost(s) ==
    /\ s \in sessions
    /\ sessions' = sessions \ {s} /\ UNCHANGED <<plan, talking>>

Failure(s) == SessionFails(s) \/ FailPlan(s) \/ BacksOff(s) \/ SessionLost(s)

CanStart(g) ==
    Claimable /\ plan.cycle /\ plan.blocks[g] = "none" /\ plan.work[g] \in {"planned", "pending"}

WorkerSaves(p) == Save(p) /\ UNCHANGED talking

Start(g) == CanStart(g) /\ WorkerSaves([plan EXCEPT !.work[g] = "running"])

\* An attempt ends. One that ends after the plan has left RUNNING is abandoned; a
\* terminal failure leaves a requested pause as it is.
Executing == plan.status = "running" /\ plan.phase = "running"
Boundary(p) == IF p.requested THEN Settled(p) ELSE p

Verified(g) ==
    /\ plan.work[g] = "running" /\ Executing
    /\ \E w \in {"verified", "pending"} : WorkerSaves(Boundary([plan EXCEPT !.work[g] = w]))

AttemptFails(g) ==
    /\ plan.work[g] = "running" /\ Executing /\ plan.blocks[g] = "none"
    /\ \E kind \in {"execution", "capacity"} :
         WorkerSaves(Recompute([plan EXCEPT !.work[g] = "failed", !.blocks[g] = kind]))

Abandoned(g) ==
    /\ plan.work[g] = "running" /\ ~Executing
    /\ WorkerSaves([plan EXCEPT !.work[g] = "skipped"])

CanReserve(g) ==
    Claimable /\ plan.cycle /\ plan.blocks[g] = "none" /\ plan.work[g] = "verified"
    /\ g \notin plan.reserved

Reserve(g) == CanReserve(g) /\ WorkerSaves([plan EXCEPT !.reserved = @ \cup {g}])

Merged(g) ==
    /\ g \in plan.reserved
    /\ WorkerSaves(Recompute([plan EXCEPT !.reserved = @ \ {g}, !.work[g] = "done"]))

Conflicts(g) ==
    /\ g \in plan.reserved
    /\ WorkerSaves(Recompute([plan EXCEPT !.reserved = @ \ {g}, !.blocks[g] = "promotion"]))

\* A skipped task wedges its goal; a failed one without a block is blocked again.
CanWedge(g) ==
    Claimable /\ plan.cycle /\ plan.blocks[g] = "none" /\ plan.work[g] \in {"skipped", "failed"}

Wedge(g) ==
    /\ CanWedge(g)
    /\ WorkerSaves(Recompute([plan EXCEPT !.blocks[g] =
           IF plan.work[g] = "failed" THEN "execution" ELSE "wedged"]))

CanReview == Claimable /\ ~Drafting /\ plan.cycle /\ Open(plan) = {} /\ plan.gate = "none"

EnterReview == CanReview /\ WorkerSaves([plan EXCEPT !.gate = "completion", !.status = "waiting"])

(***************************************************************************)
(* The projection the console is drawn from.                               *)
(***************************************************************************)
Uncommitted ==
    \/ plan.status = "idle"
    \/ plan.status = "waiting" /\ plan.intent = "none" /\ ~plan.cycle

\* Not the code: resume is advertised for PAUSED, armed or not.
LegalByStatus ==
    LET union == UNION {Resolutions(plan.blocks[g]) : g \in Goal}
    IN  IF plan.reserved # {} THEN {"pause"} \cap {IF plan.status = "running" THEN "pause" ELSE "none"}
        ELSE IF plan.block # "none" THEN Resolutions(plan.block) \cup union
        ELSE IF Blocked(plan) # {}
        THEN union \cup IF plan.status = "blocked" THEN {} ELSE {"pause", "start_replan"}
        ELSE IF plan.gate # "none" \/ plan.requested THEN {}
        ELSE IF plan.status = "running" THEN {"pause", "start_replan"}
        ELSE IF plan.status = "paused" THEN {"resume", "start_replan", "edit_pending_work"}
        ELSE IF Uncommitted
        THEN {"start_intent"} ELSE {}

\* Plan.legal_actions (the decisions of an open gate are read off the gate)
LegalActions ==
    LET union == UNION {Resolutions(plan.blocks[g]) : g \in Goal}
    IN  IF plan.reserved # {} THEN IF plan.status = "running" THEN {"pause"} ELSE {}
        ELSE IF plan.block # "none" THEN Resolutions(plan.block) \cup union
        ELSE IF Blocked(plan) # {}
        THEN union \cup IF plan.status = "blocked" THEN {} ELSE {"pause", "start_replan"}
        ELSE IF plan.gate # "none" \/ plan.requested THEN {}
        ELSE IF plan.status = "running" THEN {"pause", "start_replan"}
        ELSE IF plan.status = "paused" /\ plan.paused
        THEN {"resume", "start_replan", "edit_pending_work"}
        ELSE IF Uncommitted
        THEN {"start_intent"} ELSE {}

\* Plan.activity, as far as the chat panel asks: the kind of turn it opens for.
ChatMode ==
    IF plan.block # "none" \/ Blocked(plan) # {} \/ plan.gate # "none" THEN "none"
    ELSE IF plan.intent = "open" THEN "initial"
    ELSE IF plan.intent = "approved" \/ plan.draft THEN "none"
    ELSE IF plan.status = "waiting" /\ plan.cycle
    THEN IF plan.phase = "replanning" THEN "replan" ELSE "none"
    ELSE IF plan.status = "waiting" THEN "initial" ELSE "none"

(***************************************************************************)
(* The controls: <<what it sends, the goal it is about>>.                  *)
(***************************************************************************)
On(condition, controls) == IF condition THEN controls ELSE {}
Plain(command) == <<command, NoGoal>>

\* LifecycleRail
RunControls ==
    On("pause" \in LegalActions /\ ~plan.requested, {Plain("pause")})
    \cup On("resume" \in LegalActions, {Plain("resume")})
    \cup On("start_intent" \in LegalActions, {<<"propose", "initial">>})

\* Over an active cycle the button opens a composer, which sends a proposal.
ComposerControls ==
    On("start_replan" \in LegalActions,
       {IF plan.cycle THEN <<"propose", "replan">> ELSE Plain("replan")})

BlockedCard ==
    On(plan.status = "blocked" /\ "retry_stage" \in Resolutions(plan.block), {Plain("retry stage")})

FailedWork == {<<"retry", g>> : g \in {h \in Goal : plan.paused /\ plan.work[h] = "failed"}}

RailControls == RunControls \cup ComposerControls \cup BlockedCard \cup FailedWork

\* GatePanel, opened from the rail or the overview: a decision has two steps
\* (ConfirmAction), a revision is sent from an editor.
IntentEditor   == On(plan.gate = "intent", {Plain("revise intent")})
DraftEditor    == On(plan.gate = "draft", {Plain("revise draft")})
GateDecisions  ==
    CASE plan.gate = "intent"     -> {Plain("approve intent"), Plain("cancel intent")}
      [] plan.gate = "draft"      -> {Plain("activate"), Plain("cancel draft")}
      [] plan.gate = "completion" -> {Plain("complete")}
      [] OTHER                    -> {}

GateControls == IntentEditor \cup DraftEditor \cup GateDecisions

\* Overview: only the blocks that require a human carry their actions; those the
\* orchestrator is said to recover from by itself have none.
NeedsAttention == {g \in Goal : RequiresHuman(plan.blocks[g])}

\* retryBlock: a retry that is not about a task is sent without its goal.
RetryControl(g) == IF NamesTask(plan.blocks[g]) THEN <<"retry", g>> ELSE Plain("retry stage")

\* (every kind that requires a human may be retried and replanned)
BlockActions(retry) == {retry, Plain("replan")}

AttentionControls ==
    On(plan.block # "none", BlockActions(Plain("retry stage")))
    \cup UNION {BlockActions(RetryControl(g)) : g \in NeedsAttention}

\* DetailPanel of a goal's task
BlockedEdit(g) == NamesTask(plan.blocks[g]) /\ "edit_task" \in Resolutions(plan.blocks[g])

RetryButton(g) ==
    On(/\ plan.work[g] = "failed"
       /\ \/ plan.paused
          \/ /\ NamesTask(plan.blocks[g])
             /\ Resolutions(plan.blocks[g]) \cap {"retry_stage", "wait_and_retry"} # {},
       {<<"retry", g>>})

EditForm(g) ==
    On(/\ plan.work[g] \in {"planned", "pending", "failed"}
       /\ plan.paused \/ BlockedEdit(g),
       {<<"edit", g>>, <<"remove", g>>})

\* Whatever has become of the task.
ContractEditor(g) == On(BlockedEdit(g) /\ plan.work[g] # "unplanned", {<<"repair", g>>})

TaskControls(g) == RetryButton(g) \cup EditForm(g) \cup ContractEditor(g)

ChatControls == On(ChatMode # "none" /\ talking = "none", {<<"talk", ChatMode>>})

Offered ==
    RailControls \cup GateControls \cup AttentionControls \cup ChatControls
    \cup UNION {TaskControls(g) : g \in Goal}

Accepts(control) ==
    LET g == control[2]
    IN  CASE control[1] = "pause"  -> CanPause
          [] control[1] = "resume" -> CanResume
          [] control[1] = "propose" -> CanPropose
          [] control[1] = "replan" -> CanReplan
          [] control[1] = "retry"  -> CanRetry(g)
          [] control[1] = "retry stage" -> CanRetryStage(g)
          [] control[1] \in {"edit", "remove", "repair"} -> CanEdit(g)
          [] control[1] = "revise intent"  -> CanReviseIntent
          [] control[1] = "approve intent" -> CanApproveIntent
          [] control[1] = "cancel intent"  -> CanCancelIntent
          [] control[1] \in {"revise draft", "cancel draft"} -> CanReviseDraft
          [] control[1] = "activate" -> CanActivate
          [] control[1] = "complete" -> CanComplete
          [] control[1] = "talk" -> CanTalk(control[2])

(***************************************************************************)
(* A plan is created in discovery, waiting for its first message.          *)
(***************************************************************************)
Init ==
    /\ plan = [status |-> "waiting", paused |-> FALSE, requested |-> FALSE,
               phase |-> "discovery", intent |-> "none", source |-> FALSE, draft |-> FALSE,
               drift |-> FALSE, gate |-> "none", cycle |-> FALSE, block |-> "none",
               blocks |-> AllWork("none"), work |-> AllWork("unplanned"), reserved |-> {}]
    /\ sessions = {} /\ talking = "none" /\ keepsBlock = FALSE

Operator ==
    \/ Pause \/ Resume \/ Replan
    \/ \E kind \in {"initial", "replan"} : ProposeIntent(kind) \/ Talk(kind)
    \/ \E target \in Goal \cup {NoGoal} : RetryStage(target)
    \/ ReviseIntent \/ ApproveIntent \/ CancelIntent
    \/ ReviseDraft \/ ActivateCycle \/ CancelDraft \/ Complete
    \/ \E g \in Goal : Retry(g) \/ EditTask(g) \/ RemoveTask(g)

Planner ==
    \/ Answered \/ Concluded \/ Architect \/ SubmitDraft \/ EnterReview
    \/ \E g \in Goal : Enrich(g) \/ EnrichLands(g) \/ EnrichUnbound(g)
    \/ \E s \in Goal \cup {Roadmap, Old} : Failure(s)

Worker == \E g \in Goal :
    \/ Start(g) \/ Verified(g) \/ AttemptFails(g) \/ Abandoned(g)
    \/ Reserve(g) \/ Merged(g) \/ Conflicts(g) \/ Wedge(g)

\* Plan.goal_blocks is emptied by the next activation only (nothing asks for it while
\* there is no cycle).
KeepsBlock == keepsBlock' = (~ActivateCycle /\ plan'.cycle /\ (keepsBlock \/ Blocked(plan') # {}))

Next == (Operator \/ Planner \/ Worker) /\ KeepsBlock

Spec == Init /\ [][Next]_vars

(***************************************************************************)
(* Properties.                                                             *)
(***************************************************************************)
\* The plan is well formed, what is under way is known, and a pause that is armed is no
\* longer requested: request_pause and settle_pause.
TypeOK ==
    /\ plan \in Plan
    /\ sessions \subseteq Goal \cup {Roadmap, Old}
    /\ talking \in {"none", "initial", "replan"}
    /\ keepsBlock \in BOOLEAN
    /\ ~(plan.paused /\ plan.requested)

\* A gate that is open is about an artifact that is still there and still undecided: the
\* panel behind it (GatePanel) has something to show and something to decide, whatever
\* was revised, cancelled, replaced or replanned meanwhile.
GateHasSubject ==
    /\ plan.gate = "intent" => plan.intent = "open"
    /\ plan.gate = "draft" => plan.draft
    /\ plan.gate = "completion" => plan.cycle /\ Open(plan) = {}

\* The rail and the block's actions offer the replan composer beside an intent that is
\* being drafted, or beside a gate.
ComposerOverIntent == plan.intent # "none" \/ plan.gate # "none"

\* start_replan is a resolution of every block, and legal while the first cycle is drawn
\* up; the command asks for a cycle, or for the legacy phase RUNNING.
NothingToReplan == ~plan.cycle /\ plan.phase # "running"

\* With a goal's block, pause is advertised for every status but BLOCKED.
NotRunning == plan.status # "running"

\* The console sends the retry of a stage without its goal.
Ambiguous == plan.block = "none" /\ Cardinality(Blocked(plan)) > 1

\* Nothing shows that a draft has fallen behind, or that it was made for another cycle.
Outrun == plan.drift \/ plan.source # plan.cycle

\* The task whose retry a block or a pause offers has been replaced, or the plan's own
\* block is in the way.
NothingToRetry(g) == plan.work[g] = "unplanned" \/ plan.block # "none"

\* The repair of a contract is offered for a task that was skipped.
NotMutable(g) == plan.work[g] = "skipped"

KnownRefusal(control) ==
    \/ plan.reserved # {}
    \/ control[1] = "propose" /\ ComposerOverIntent
    \/ control[1] = "replan" /\ NothingToReplan
    \/ control[1] = "pause" /\ NotRunning
    \/ control[1] = "retry stage" /\ Ambiguous
    \/ control[1] = "activate" /\ Outrun
    \/ control[1] = "retry" /\ NothingToRetry(control[2])
    \/ control[1] = "repair" /\ NotMutable(control[2])

\* What a fresh screen offers, the server accepts: the controls of the rail, of the gate,
\* of the blocks, of a task and of the chat against the guards of the aggregate, outside
\* the known refusals above.
OfferedIsAccepted == \A control \in Offered : Accepts(control) \/ KnownRefusal(control)

WorkersCanMove ==
    \/ sessions # {} \/ talking # "none" \/ plan.reserved # {} \/ Attempts(plan) # {}
    \/ CanArchitect \/ CanReview
    \/ \E g \in Goal : CanEnrich(g) \/ CanStart(g) \/ CanReserve(g) \/ CanWedge(g)

OperatorCanMove ==
    \E control \in Offered :
        control[1] \notin {"pause", "edit", "remove", "repair"} /\ Accepts(control)

\* A proposal or a draft cancelled over an active cycle: PAUSED, and not paused.
Unarmed == plan.status = "paused" /\ ~plan.paused

\* An intent approved over a pause: RUNNING, and paused.
PausedAndRunning == plan.status = "running" /\ plan.paused

\* A requested pause whose attempt has ended without settling it.
NeverSettles == plan.requested /\ Attempts(plan) = {}

\* An approved intent that nobody drafts: the plan does not run, or its goals are blocked.
ApprovedAside == plan.intent = "approved" /\ (plan.status # "running" \/ Blocked(plan) # {})

\* BLOCKED, and no block to resolve.
BlockedByNothing == plan.status = "blocked" /\ plan.block = "none" /\ Blocked(plan) = {}

\* RUNNING, and nothing to run: a decision on another screen came between, and what was
\* revised or retried was no longer the plan's.
NothingToRun ==
    plan.status = "running" /\ ~plan.cycle /\ (plan.intent # "approved" \/ plan.draft)

Stranded ==
    \/ Unarmed \/ PausedAndRunning \/ NeverSettles
    \/ ApprovedAside \/ BlockedByNothing \/ NothingToRun

\* Someone can always move the plan: a worker or a turn is at work or may claim work, or
\* the screen offers a command that is accepted and does more than pause or edit.
WayForward == WorkersCanMove \/ OperatorCanMove \/ Stranded

\* A failure that is raced by a human command leaves the plan to it ("theirs wins" in
\* planning_handler): a session that fails while a proposal waits for its decision changes
\* nothing.
TheirsWins ==
    [][\A s \in sessions :
         Failure(s) /\ plan.gate = "intent" /\ plan.status = "waiting" => UNCHANGED plan]_vars
=============================================================================
