---------------------------- MODULE ConsoleProofs ----------------------------
(***************************************************************************)
(* Proofs about the console's plan, for any number of goals: its type,     *)
(* that an open gate is about something, and that what a fresh screen      *)
(* offers is accepted. Every step saves the plan it found with a few       *)
(* fields changed; that what it saves is sound, and leaves the goals that  *)
(* are being enriched alone, is shown once for each step.                  *)
(***************************************************************************)
EXTENDS Console, FiniteSetTheorems, TLAPS

HasSubject(p) ==
    /\ p.gate = "intent" => p.intent = "open"
    /\ p.gate = "draft" => p.draft
    /\ p.gate = "completion" => p.cycle /\ Open(p) = {}

\* The work a goal may have while a block of a kind is open on it.
Fits(kind) ==
    CASE kind = "agent"     -> {"planned", "unplanned"}
      [] kind = "reasoner"  -> {"unplanned"}
      [] kind = "promotion" -> {"verified"}
      [] kind = "wedged"    -> {"skipped"}
      [] kind \in {"capacity", "execution"} -> {"failed", "pending", "unplanned"}
      [] OTHER              -> Work

Untouched(p, g) == p.work[g] = "unplanned" /\ p.blocks[g] = "none"

Consistent(p) ==
    /\ \A g \in Goal : p.work[g] \in Fits(p.blocks[g])
    /\ \A g \in p.reserved : p.work[g] = "verified" /\ p.blocks[g] = "none"
    /\ ~p.cycle => \A g \in Goal : Untouched(p, g)
    /\ p.intent = "open" => p.gate \notin {"none", "completion"}

Sound(p) == p \in Plan /\ ~(p.paused /\ p.requested) /\ HasSubject(p) /\ Consistent(p)

\* What may be saved while the goals of sessions are being enriched: none but that of
\* session s, which ends with it, is touched.
Spares(p, s) ==
    /\ plan.cycle => p.cycle
    /\ \A g \in Goal \ {s} : Untouched(plan, g) => Untouched(p, g)

Savable(p, s) == Sound(p) /\ Spares(p, s)

Enriched == \A g \in Goal \cap sessions : plan.cycle /\ Untouched(plan, g)

Sessions == Goal \cup {Roadmap, Old}

IInv ==
    /\ Sound(plan) /\ Enriched
    /\ sessions \subseteq Sessions /\ talking \in {"none", "initial", "replan"}

\* The parts of a sound plan are in sight wherever Sound is.
USE DEF HasSubject, Consistent, Fits, Untouched, Plan, Open

-----------------------------------------------------------------------------
\* The status, the drift of a draft and the plan-wide block are free.
LEMMA StatusIsFree ==
    ASSUME NEW p, NEW s, Savable(p, s), NEW status \in Status
    PROVE  Savable([p EXCEPT !.status = status], s)
  BY DEF Savable, Spares, Sound

LEMMA BlockIsFree ==
    ASSUME NEW p, NEW s, Savable(p, s), NEW b \in {"none", "reasoner"}
    PROVE  Savable([p EXCEPT !.block = b], s)
  BY DEF Savable, Spares, Sound

LEMMA SavedIsSound ==
    ASSUME NEW p, NEW s, Savable(p, s)
    PROVE  Savable(Saved(p), s)
  BY DEF Saved, Savable, Spares, Sound

LEMMA SettledIsSound ==
    ASSUME NEW p, NEW s, Savable(p, s)
    PROVE  Savable(Settled(p), s) /\ Savable(Boundary(p), s)
  <1>1. Savable(Settled(p), s)
    BY DEF Settled, Status, Savable, Spares, Sound
  <1> QED  BY <1>1 DEF Boundary

LEMMA RecomputeIsSound ==
    ASSUME NEW p, NEW s, Savable(p, s)
    PROVE  Savable(Recompute(p), s)
  BY StatusIsFree DEF Recompute, Status

-----------------------------------------------------------------------------
\* What a save leaves: the plan that was saved, and sessions that are known.
LEMMA OutdatedAreKnown ==
    ASSUME NEW under \in SUBSET Sessions
    PROVE  /\ Outdated(under) \subseteq Sessions /\ Superseded(under) \subseteq Sessions
           /\ Outdated(under) \cap Goal = under \cap Goal
           /\ Superseded(under) \cap Goal = {}
  BY ConsoleAssumption DEF Outdated, Superseded, Sessions

LEMMA Assembled ==
    ASSUME Sound(plan'), Enriched', sessions' \subseteq Sessions,
           talking' \in {"none", "initial", "replan"}
    PROVE  IInv'
  BY DEF IInv, Sound, Sessions

\* The step that ends session s, or none, and saves p.
LEMMA SaveKeeps ==
    ASSUME IInv, NEW p, NEW s, Savable(p, s), plan' = p, sessions' \subseteq Sessions,
           sessions' \cap Goal \subseteq sessions \ {s},
           talking' \in {"none", "initial", "replan"}
    PROVE  IInv'
  <1>1. Sound(plan')  BY DEF Savable
  <1>2. Enriched'  BY DEF IInv, Enriched, Savable, Spares
  <1> QED  BY <1>1, <1>2, Assembled

LEMMA CommandSaves ==
    ASSUME IInv, NEW p, Savable(p, NoGoal), Save(p), talking' \in {"none", "initial", "replan"}
    PROVE  IInv'
  <1>1. Savable(Saved(p), NoGoal)  BY SavedIsSound
  <1>2. plan' = Saved(p) /\ sessions' = Outdated(sessions)  BY DEF Save
  <1>3. sessions' \subseteq Sessions /\ sessions' \cap Goal = sessions \cap Goal
    BY <1>2, OutdatedAreKnown DEF IInv
  <1>4. sessions' \cap Goal \subseteq sessions \ {NoGoal}  BY <1>3, ConsoleAssumption
  <1> QED  BY <1>1, <1>2, <1>3, <1>4, SaveKeeps

LEMMA CommandKeeps ==
    ASSUME IInv, NEW p, Savable(p, NoGoal), Commands(p)
    PROVE  IInv'
  BY CommandSaves DEF IInv, Commands

LEMMA WorkerKeeps ==
    ASSUME IInv, NEW p, Savable(p, NoGoal), WorkerSaves(p)
    PROVE  IInv'
  BY CommandSaves DEF IInv, WorkerSaves

LEMMA SessionKeeps ==
    ASSUME IInv, NEW s, NEW p, Savable(p, s), SessionEnds(s, p)
    PROVE  IInv'
  <1>1. Savable(Saved(p), s)  BY SavedIsSound
  <1>2. plan' = Saved(p) /\ sessions' = Outdated(sessions \ {s}) /\ talking' = talking
    BY DEF SessionEnds
  <1>3. /\ sessions' \subseteq Sessions
        /\ sessions' \cap Goal = (sessions \ {s}) \cap Goal
    BY <1>2, OutdatedAreKnown DEF IInv
  <1> QED  BY <1>1, <1>2, <1>3, SaveKeeps DEF IInv

LEMMA InitSound == Init => IInv
  BY ConsoleAssumption DEF Init, IInv, Enriched, Sound, AllWork, Sessions,
     Status, Phase, Work, Kind

LEMMA PauseKeeps == ASSUME IInv, Pause PROVE IInv'
  <1>1. Savable(plan, NoGoal) /\ plan.status = "running" /\ ~plan.paused /\ ~plan.requested
    BY DEF IInv, Pause, Savable, Spares
  <1>2. Savable([plan EXCEPT !.requested = TRUE], NoGoal) /\ Savable(Settled(plan), NoGoal)
    BY <1>1 DEF Savable, Spares, Sound, Settled, Status
  <1> QED  BY <1>2, CommandKeeps DEF Pause

LEMMA ResumeKeeps == ASSUME IInv, Resume PROVE IInv'
  <1> DEFINE p == [plan EXCEPT !.paused = FALSE, !.requested = FALSE,
                      !.status = IF plan.cycle \/ plan.phase \in {"enriching", "running"}
                                 THEN "running" ELSE "idle"]
  <1>1. Savable(p, NoGoal)  BY DEF IInv, Savable, Spares, Sound, Status
  <1> HIDE DEF p
  <1>2. Commands(p)  BY DEF Resume, p
  <1> QED  BY <1>1, <1>2, CommandKeeps

LEMMA ReplanKeeps == ASSUME IInv, Replan PROVE IInv'
  <1> DEFINE p == Replanned(plan)
  <1>1. Savable(p, NoGoal)
    <2>1. Sound(plan) /\ plan.reserved = {}  BY DEF IInv, Replan, CanReplan, Quiet
    <2>2. p \in Plan
      BY <2>1 DEF Sound, Replanned, Unblocked, Discarded, AllWork, Status, Phase
    <2>3. HasSubject(p) /\ ~(p.paused /\ p.requested)
      BY <2>1 DEF Sound, Replanned, Unblocked, Discarded
    <2>4. Consistent(p)
      BY <2>1 DEF Sound, Replanned, Unblocked, Discarded, AllWork
    <2>5. Spares(p, NoGoal)
      BY <2>1 DEF Sound, Replanned, Unblocked, Discarded, AllWork, Spares
    <2> QED  BY <2>2, <2>3, <2>4, <2>5 DEF Savable, Sound
  <1> HIDE DEF p
  <1>2. Commands(p)  BY DEF Replan, p
  <1> QED  BY <1>1, <1>2, CommandKeeps

LEMMA ProposeIntentKeeps ==
    ASSUME IInv, NEW kind \in {"initial", "replan"}, ProposeIntent(kind)
    PROVE  IInv'
  <1> DEFINE p == Proposed(kind)
  <1>1. Savable(p, NoGoal)
    BY DEF IInv, ProposeIntent, CanPropose, Savable, Spares, Sound, Proposed, Status
  <1> HIDE DEF p
  <1>2. Commands(p)  BY DEF ProposeIntent, p
  <1> QED  BY <1>1, <1>2, CommandKeeps

LEMMA ReviseIntentKeeps == ASSUME IInv, ReviseIntent PROVE IInv'
  <1> DEFINE p == [plan EXCEPT !.intent = "open", !.gate = "intent", !.status = "waiting"]
  <1>1. Savable(p, NoGoal)
    BY DEF IInv, ReviseIntent, Savable, Spares, Sound, Status
  <1> HIDE DEF p
  <1>2. Commands(p)  BY DEF ReviseIntent, p
  <1> QED  BY <1>1, <1>2, CommandKeeps

LEMMA ApproveIntentKeeps == ASSUME IInv, ApproveIntent PROVE IInv'
  <1> DEFINE p == [plan EXCEPT !.intent = "approved", !.gate = "none", !.status = "running"]
  <1>1. Savable(p, NoGoal)
    BY DEF IInv, ApproveIntent, Savable, Spares, Sound, Status
  <1> HIDE DEF p
  <1>2. Commands(p)  BY DEF ApproveIntent, p
  <1> QED  BY <1>1, <1>2, CommandKeeps

LEMMA CancelIntentKeeps == ASSUME IInv, CancelIntent PROVE IInv'
  <1> DEFINE p == [plan EXCEPT !.intent = "none", !.source = FALSE, !.gate = "none",
                             !.status = Stopped]
  <1>1. Savable(p, NoGoal)
    BY DEF IInv, CancelIntent, Savable, Spares, Sound, Status, Stopped
  <1> HIDE DEF p
  <1>2. Commands(p)  BY DEF CancelIntent, p
  <1> QED  BY <1>1, <1>2, CommandKeeps

LEMMA CancelDraftKeeps == ASSUME IInv, CancelDraft PROVE IInv'
  <1> DEFINE p == [Discarded(plan) EXCEPT !.status = Stopped]
  <1>1. Savable(p, NoGoal)
    BY DEF IInv, CancelDraft, Savable, Spares, Sound, Status, Stopped, Discarded
  <1> HIDE DEF p
  <1>2. Commands(p)  BY DEF CancelDraft, p
  <1> QED  BY <1>1, <1>2, CommandKeeps

LEMMA EditTaskKeeps == ASSUME IInv, NEW g \in Goal, EditTask(g) PROVE IInv'
  <1> DEFINE p == [plan EXCEPT !.work[g] = IF @ = "planned" THEN @ ELSE "pending"]
  <1>1. Savable(p, NoGoal)
    BY DEF IInv, EditTask, Quiet, Savable, Spares, Sound, CanEdit, Work
  <1> HIDE DEF p
  <1>2. Commands(p)  BY DEF EditTask, p
  <1> QED  BY <1>1, <1>2, CommandKeeps

LEMMA RemoveTaskKeeps == ASSUME IInv, NEW g \in Goal, RemoveTask(g) PROVE IInv'
  <1> DEFINE p == [plan EXCEPT !.work[g] = "unplanned"]
  <1>1. Savable(p, NoGoal)
    BY DEF IInv, RemoveTask, Quiet, Savable, Spares, Sound, CanEdit, Work
  <1> HIDE DEF p
  <1>2. Commands(p)  BY DEF RemoveTask, p
  <1> QED  BY <1>1, <1>2, CommandKeeps

LEMMA EnterReviewKeeps == ASSUME IInv, EnterReview PROVE IInv'
  <1> DEFINE p == [plan EXCEPT !.gate = "completion", !.status = "waiting"]
  <1>1. Savable(p, NoGoal)
    BY DEF IInv, EnterReview, Savable, Spares, Sound, CanReview, Status
  <1> HIDE DEF p
  <1>2. WorkerSaves(p)  BY DEF EnterReview, p
  <1> QED  BY <1>1, <1>2, WorkerKeeps

LEMMA StartKeeps == ASSUME IInv, NEW g \in Goal, Start(g) PROVE IInv'
  <1> DEFINE p == [plan EXCEPT !.work[g] = "running"]
  <1>1. Savable(p, NoGoal)
    BY DEF IInv, Start, Savable, Spares, Sound, CanStart, Work
  <1> HIDE DEF p
  <1>2. WorkerSaves(p)  BY DEF Start, p
  <1> QED  BY <1>1, <1>2, WorkerKeeps

LEMMA AbandonedKeeps == ASSUME IInv, NEW g \in Goal, Abandoned(g) PROVE IInv'
  <1> DEFINE p == [plan EXCEPT !.work[g] = "skipped"]
  <1>1. Savable(p, NoGoal)
    BY DEF IInv, Abandoned, Savable, Spares, Sound, Work
  <1> HIDE DEF p
  <1>2. WorkerSaves(p)  BY DEF Abandoned, p
  <1> QED  BY <1>1, <1>2, WorkerKeeps

LEMMA ReserveKeeps == ASSUME IInv, NEW g \in Goal, Reserve(g) PROVE IInv'
  <1> DEFINE p == [plan EXCEPT !.reserved = @ \cup {g}]
  <1>1. Savable(p, NoGoal)
    BY DEF IInv, Reserve, CanReserve, Savable, Spares, Sound
  <1> HIDE DEF p
  <1>2. WorkerSaves(p)  BY DEF Reserve, p
  <1> QED  BY <1>1, <1>2, WorkerKeeps

LEMMA MergedKeeps == ASSUME IInv, NEW g \in Goal, Merged(g) PROVE IInv'
  <1> DEFINE p == [plan EXCEPT !.reserved = @ \ {g}, !.work[g] = "done"]
  <1>1. Savable(p, NoGoal)
    <2>1. Sound(p)
      <3>1. p \in Plan  BY DEF IInv, Sound, Work
      <3>2. HasSubject(p) /\ ~(p.paused /\ p.requested)  BY DEF IInv, Merged, Sound
      <3>3. Consistent(p)
        <4>1. g \in plan.reserved /\ plan.cycle /\ plan.blocks[g] = "none"
          BY DEF IInv, Merged, Sound
        <4>2. \A h \in Goal : p.work[h] \in Fits(p.blocks[h])
          BY <4>1 DEF IInv, Sound, Work
        <4>3. \A h \in p.reserved : p.work[h] = "verified" /\ p.blocks[h] = "none"
          BY DEF IInv, Sound
        <4>4. p.cycle /\ (p.intent = "open" => p.gate \notin {"none", "completion"})
          BY <4>1 DEF IInv, Sound
        <4> QED  BY ONLY <4>2, <4>3, <4>4 DEF Consistent
      <3> QED  BY ONLY <3>1, <3>2, <3>3 DEF Sound
    <2>2. Spares(p, NoGoal)
      BY DEF IInv, Merged, Sound, Spares
    <2> QED  BY <2>1, <2>2 DEF Savable
  <1> HIDE DEF p
  <1>2. WorkerSaves(Recompute(p))  BY DEF Merged, p
  <1>3. Savable(Recompute(p), NoGoal)  BY <1>1, RecomputeIsSound
  <1> QED  BY <1>2, <1>3, WorkerKeeps

LEMMA ConflictsKeeps == ASSUME IInv, NEW g \in Goal, Conflicts(g) PROVE IInv'
  <1> DEFINE p == [plan EXCEPT !.reserved = @ \ {g}, !.blocks[g] = "promotion"]
  <1>1. Savable(p, NoGoal)
    <2>1. Sound(p)
      <3>1. p \in Plan  BY DEF IInv, Sound, Kind
      <3>2. HasSubject(p) /\ ~(p.paused /\ p.requested)  BY DEF IInv, Conflicts, Sound
      <3>3. Consistent(p)  BY DEF IInv, Conflicts, Sound
      <3> QED  BY ONLY <3>1, <3>2, <3>3 DEF Sound
    <2>2. Spares(p, NoGoal)
      BY DEF IInv, Conflicts, Sound, Spares
    <2> QED  BY <2>1, <2>2 DEF Savable
  <1> HIDE DEF p
  <1>2. WorkerSaves(Recompute(p))  BY DEF Conflicts, p
  <1>3. Savable(Recompute(p), NoGoal)  BY <1>1, RecomputeIsSound
  <1> QED  BY <1>2, <1>3, WorkerKeeps

LEMMA WedgeKeeps == ASSUME IInv, NEW g \in Goal, Wedge(g) PROVE IInv'
  <1> DEFINE p == [plan EXCEPT !.blocks[g] =
           IF plan.work[g] = "failed" THEN "execution" ELSE "wedged"]
  <1>1. Savable(p, NoGoal)
    BY DEF IInv, Wedge, CanWedge, Savable, Spares, Sound, Kind
  <1> HIDE DEF p
  <1>2. WorkerSaves(Recompute(p))  BY DEF Wedge, p
  <1>3. Savable(Recompute(p), NoGoal)  BY <1>1, RecomputeIsSound
  <1> QED  BY <1>2, <1>3, WorkerKeeps

LEMMA EnrichUnboundKeeps == ASSUME IInv, NEW g \in Goal, EnrichUnbound(g) PROVE IInv'
  <1> DEFINE p == [plan EXCEPT !.work[g] = "planned", !.blocks[g] = "agent"]
  <1>1. Savable(p, g)
    <2>1. plan.cycle /\ plan.work[g] = "unplanned" /\ plan.blocks[g] = "none"
      BY DEF IInv, Enriched, EnrichUnbound
    <2>2. Sound(p)
      <3>1. p \in Plan  BY DEF IInv, Sound, Kind, Work
      <3>2. HasSubject(p) /\ ~(p.paused /\ p.requested)  BY <2>1 DEF IInv, Sound
      <3>3. Consistent(p)  BY <2>1 DEF IInv, Sound, Work
      <3> QED  BY ONLY <3>1, <3>2, <3>3 DEF Sound
    <2>3. Spares(p, g)  BY <2>1 DEF IInv, Sound, Spares
    <2> QED  BY <2>2, <2>3 DEF Savable
  <1> HIDE DEF p
  <1>2. SessionEnds(g, Recompute(p))  BY DEF EnrichUnbound, p
  <1>3. Savable(Recompute(p), g)  BY <1>1, RecomputeIsSound
  <1> QED  BY <1>2, <1>3, SessionKeeps

LEMMA EnrichLandsKeeps == ASSUME IInv, NEW g \in Goal, EnrichLands(g) PROVE IInv'
  <1> DEFINE p == [plan EXCEPT !.work[g] = "planned", !.phase = "running",
                               !.status = "running"]
  <1>1. Savable(p, g)
    <2>1. plan.cycle /\ plan.work[g] = "unplanned" /\ plan.blocks[g] = "none"
      BY DEF IInv, Enriched, EnrichLands
    <2>2. p \in Plan  BY DEF IInv, Sound, Work, Phase, Status
    <2>3. HasSubject(p) /\ ~(p.paused /\ p.requested)  BY <2>1 DEF IInv, Sound
    <2>4. Consistent(p)  BY <2>1 DEF IInv, Sound, Work
    <2>5. Spares(p, g)  BY <2>1 DEF IInv, Sound, Spares
    <2> QED  BY <2>2, <2>3, <2>4, <2>5 DEF Savable, Sound
  <1> HIDE DEF p
  <1>2. SessionEnds(g, p)  BY DEF EnrichLands, p
  <1> QED  BY <1>1, <1>2, SessionKeeps

LEMMA FailPlanKeeps == ASSUME IInv, NEW s \in Sessions, FailPlan(s) PROVE IInv'
  <1> DEFINE p == [plan EXCEPT !.phase = "failed", !.status = "blocked"]
  <1>1. Savable(p, s)
    BY DEF IInv, FailPlan, Savable, Spares, Sound, Phase, Status
  <1> HIDE DEF p
  <1>2. SessionEnds(s, p)  BY DEF FailPlan, p
  <1> QED  BY <1>1, <1>2, SessionKeeps

LEMMA ReviseDraftKeeps == ASSUME IInv, ReviseDraft PROVE IInv'
  <1> DEFINE p == [plan EXCEPT !.gate = "draft", !.drift = FALSE, !.status = "waiting"]
  <1>1. Savable(p, NoGoal)
    BY DEF IInv, ReviseDraft, CanReviseDraft, Savable, Spares, Sound, Status
  <1> HIDE DEF p
  <1>2. plan' = p /\ sessions' = Outdated(sessions) /\ talking' = talking
    BY DEF ReviseDraft, p
  <1>3. sessions' \subseteq Sessions /\ sessions' \cap Goal \subseteq sessions \ {NoGoal}
    BY <1>2, OutdatedAreKnown, ConsoleAssumption DEF IInv
  <1> QED  BY <1>1, <1>2, <1>3, SaveKeeps DEF IInv

\* A cycle that begins or ends leaves no session that is about a goal of it.
LEMMA CycleKeeps ==
    ASSUME IInv, Sound(plan'), sessions' = Superseded(sessions), talking' = talking
    PROVE  IInv'
  <1>1. sessions' \subseteq Sessions /\ sessions' \cap Goal = {}
    BY OutdatedAreKnown DEF IInv
  <1>2. Enriched'  BY <1>1 DEF Enriched
  <1> QED  BY <1>1, <1>2, Assembled DEF IInv

LEMMA ActivateCycleKeeps == ASSUME IInv, ActivateCycle PROVE IInv'
  <1>1. Sound(plan')
    BY DEF IInv, ActivateCycle, CanActivate, Quiet, Sound, AllWork, Status, Phase, Work
  <1>2. sessions' = Superseded(sessions) /\ talking' = talking  BY DEF ActivateCycle
  <1> QED  BY <1>1, <1>2, CycleKeeps

LEMMA CompleteKeeps == ASSUME IInv, Complete PROVE IInv'
  <1>1. plan.gate = "completion" /\ Sound(plan)  BY DEF Complete, CanComplete, IInv
  <1>2. plan.reserved = {} /\ plan.intent # "open"  BY <1>1 DEF Sound
  <1>3. Sound(plan')
    BY <1>1, <1>2 DEF Complete, Saved, Sound, AllWork, Status, Work
  <1>4. sessions' = Superseded(sessions) /\ talking' = talking  BY DEF Complete
  <1> QED  BY <1>3, <1>4, CycleKeeps

LEMMA SubmitDraftKeeps == ASSUME IInv, SubmitDraft PROVE IInv'
  <1> DEFINE p == [plan EXCEPT !.draft = TRUE, !.drift = FALSE, !.gate = "draft",
                               !.status = "waiting"]
  <1>1. Savable(p, NoGoal)  BY DEF IInv, Savable, Spares, Sound, Status
  <1> HIDE DEF p
  <1>2. plan' = p /\ sessions' = sessions \ {Roadmap} /\ talking' = talking
    BY DEF SubmitDraft, p
  <1>3. sessions' \subseteq Sessions /\ sessions' \cap Goal \subseteq sessions \ {NoGoal}
    BY <1>2, ConsoleAssumption DEF IInv
  <1> QED  BY <1>1, <1>2, <1>3, SaveKeeps DEF IInv

LEMMA ConcludedKeeps == ASSUME IInv, Concluded PROVE IInv'
  <1>1. Savable(Proposed(talking), NoGoal)
    BY DEF IInv, Concluded, CanPropose, Savable, Spares, Sound, Proposed, Status
  <1>2. Save(Proposed(talking)) /\ talking' = "none"  BY DEF Concluded
  <1> QED  BY <1>1, <1>2, CommandSaves

LEMMA RetryKeeps == ASSUME IInv, NEW g \in Goal, Retry(g) PROVE IInv'
  <1> DEFINE p == [plan EXCEPT !.work[g] = "pending", !.blocks[g] = "none"]
  <1>1. plan.work[g] \in {"failed", "planned", "pending"}
    BY DEF Retry, CanRetry
  <1>2. Savable(p, NoGoal)  BY <1>1 DEF IInv, Savable, Spares, Sound, Work
  <1> HIDE DEF p
  <1>3. Commands(IF plan.blocks[g] = "none" THEN p ELSE Recompute(p))  BY DEF Retry, p
  <1>4. CASE plan.blocks[g] = "none"
    BY <1>2, <1>3, <1>4, CommandKeeps
  <1>5. CASE plan.blocks[g] # "none"
    <2>1. Commands(Recompute(p)) /\ Savable(Recompute(p), NoGoal)
      BY <1>2, <1>3, <1>5, RecomputeIsSound
    <2> QED  BY <2>1, CommandKeeps
  <1> QED  BY <1>4, <1>5

LEMMA RetryBindingKeeps == ASSUME IInv, NEW g \in Goal, RetryBinding(g) PROVE IInv'
  <1> DEFINE p == [plan EXCEPT !.blocks[g] = "none", !.phase = "running", !.status = "running"]
  <1>1. Savable(p, NoGoal)
    <2>1. p \in Plan  BY DEF IInv, Sound, Phase, Status
    <2>2. HasSubject(p) /\ ~(p.paused /\ p.requested)  BY DEF IInv, Sound
    <2>3. Consistent(p)  BY DEF IInv, Sound, Work
    <2>4. Spares(p, NoGoal)  BY DEF IInv, Sound, Spares
    <2> QED  BY <2>1, <2>2, <2>3, <2>4 DEF Savable, Sound
  <1> HIDE DEF p
  <1>2. Commands(Recompute(p))  BY DEF RetryBinding, p
  <1>3. Savable(Recompute(p), NoGoal)  BY <1>1, RecomputeIsSound
  <1> QED  BY <1>2, <1>3, CommandKeeps

LEMMA RetryReasonerKeeps == ASSUME IInv, RetryReasoner PROVE IInv'
  <1>1. CASE plan.block # "none"
    <2> DEFINE p == [plan EXCEPT !.block = "none"]
    <2>1. Savable(p, NoGoal)  BY BlockIsFree DEF IInv, Savable, Spares
    <2> HIDE DEF p
    <2>2. Commands(IF plan.cycle THEN Recompute(p) ELSE [p EXCEPT !.status = "running"])
      BY <1>1 DEF RetryReasoner, p
    <2>3. Savable(Recompute(p), NoGoal) /\ Savable([p EXCEPT !.status = "running"], NoGoal)
      BY <2>1, RecomputeIsSound, StatusIsFree DEF Status
    <2> QED  BY <2>2, <2>3, CommandKeeps
  <1>2. CASE plan.block = "none"
    <2>1. PICK g \in Goal : Commands(Recompute([plan EXCEPT !.blocks[g] = "none"]))
      BY <1>2 DEF RetryReasoner
    <2>2. Savable([plan EXCEPT !.blocks[g] = "none"], NoGoal)
      BY DEF IInv, Savable, Spares, Sound
    <2>3. Savable(Recompute([plan EXCEPT !.blocks[g] = "none"]), NoGoal)
      BY <2>2, RecomputeIsSound
    <2> QED  BY <2>1, <2>3, CommandKeeps
  <1> QED  BY <1>1, <1>2

LEMMA RetryStageKeeps ==
    ASSUME IInv, NEW target \in Goal \cup {NoGoal}, RetryStage(target)
    PROVE  IInv'
  <1>1. RetryReasoner \/ \E g \in Goal : RetryBinding(g)
    BY DEF RetryStage, Blocked
  <1> QED  BY <1>1, RetryReasonerKeeps, RetryBindingKeeps

LEMMA VerifiedKeeps == ASSUME IInv, NEW g \in Goal, Verified(g) PROVE IInv'
  <1>1. PICK w \in {"verified", "pending"} : WorkerSaves(Boundary([plan EXCEPT !.work[g] = w]))
    BY DEF Verified
  <1> DEFINE p == [plan EXCEPT !.work[g] = w]
  <1>2. Savable(p, NoGoal)  BY DEF IInv, Verified, Savable, Spares, Sound, Work
  <1> HIDE DEF p
  <1>3. Savable(Boundary(p), NoGoal)  BY <1>2, SettledIsSound
  <1>4. WorkerSaves(Boundary(p))  BY <1>1 DEF p
  <1> QED  BY <1>3, <1>4, WorkerKeeps

LEMMA AttemptFailsKeeps == ASSUME IInv, NEW g \in Goal, AttemptFails(g) PROVE IInv'
  <1>1. PICK kind \in {"execution", "capacity"} :
          WorkerSaves(Recompute([plan EXCEPT !.work[g] = "failed", !.blocks[g] = kind]))
    BY DEF AttemptFails
  <1> DEFINE p == [plan EXCEPT !.work[g] = "failed", !.blocks[g] = kind]
  <1>2. Savable(p, NoGoal)
    <2>1. Sound(p)
      <3>1. p \in Plan  BY DEF IInv, Sound, Work, Kind
      <3>2. HasSubject(p) /\ ~(p.paused /\ p.requested)  BY DEF IInv, AttemptFails, Sound
      <3>3. Consistent(p)  BY DEF IInv, AttemptFails, Sound
      <3> QED  BY ONLY <3>1, <3>2, <3>3 DEF Sound
    <2>2. Spares(p, NoGoal)
      BY DEF IInv, AttemptFails, Sound, Spares
    <2> QED  BY <2>1, <2>2 DEF Savable
  <1> HIDE DEF p
  <1>3. WorkerSaves(Recompute(p))  BY <1>1 DEF p
  <1>4. Savable(Recompute(p), NoGoal)  BY <1>2, RecomputeIsSound
  <1> QED  BY <1>3, <1>4, WorkerKeeps

LEMMA SessionFailsKeeps == ASSUME IInv, NEW s \in Sessions, SessionFails(s) PROVE IInv'
  <1>1. CASE s \in Goal /\ SessionEnds(s, Recompute([plan EXCEPT !.blocks[s] = "reasoner"]))
    <2>1. Savable([plan EXCEPT !.blocks[s] = "reasoner"], s)
      BY <1>1 DEF IInv, Enriched, SessionFails, Savable, Spares, Sound, Kind
    <2>2. Savable(Recompute([plan EXCEPT !.blocks[s] = "reasoner"]), s)
      BY <2>1, RecomputeIsSound
    <2> QED  BY <1>1, <2>2, SessionKeeps
  <1>2. CASE SessionEnds(s, [plan EXCEPT !.block = "reasoner", !.status = "blocked"])
    <2>1. Savable([plan EXCEPT !.block = "reasoner", !.status = "blocked"], s)
      <3>1. Savable(plan, s)  BY DEF IInv, Savable, Spares
      <3>2. Savable([plan EXCEPT !.block = "reasoner"], s)  BY <3>1, BlockIsFree
      <3>3. "blocked" \in Status  BY DEF Status
      <3> DEFINE q == [plan EXCEPT !.block = "reasoner"]
      <3>4. [q EXCEPT !.status = "blocked"]
              = [plan EXCEPT !.block = "reasoner", !.status = "blocked"]
        OBVIOUS
      <3> HIDE DEF q
      <3>5. Savable([q EXCEPT !.status = "blocked"], s)  BY <3>2, <3>3, StatusIsFree DEF q
      <3> QED  BY <3>4, <3>5
    <2> QED  BY <1>2, <2>1, SessionKeeps
  <1> QED  BY <1>1, <1>2 DEF SessionFails

LEMMA FailureKeeps == ASSUME IInv, NEW s \in Sessions, Failure(s) PROVE IInv'
  <1>1. CASE SessionFails(s)  BY <1>1, SessionFailsKeeps
  <1>2. CASE FailPlan(s)  BY <1>2, FailPlanKeeps
  <1>3. CASE BacksOff(s)
    <2>1. SessionEnds(s, plan) /\ Savable(plan, s)
      BY <1>3 DEF BacksOff, IInv, Savable, Spares
    <2> QED  BY <2>1, SessionKeeps
  <1>4. CASE SessionLost(s)
    <2>1. Enriched'  BY <1>4 DEF SessionLost, IInv, Enriched
    <2> QED  BY <1>4, <2>1, Assembled DEF SessionLost, IInv
  <1> QED  BY <1>1, <1>2, <1>3, <1>4 DEF Failure

\* A turn that begins or ends without a proposal, and a session that begins.
LEMMA TalkKeeps ==
    ASSUME IInv, Answered \/ \E kind \in {"initial", "replan"} : Talk(kind)
    PROVE  IInv'
  <1>1. Enriched'  BY DEF IInv, Enriched, Answered, Talk
  <1> QED  BY <1>1, Assembled DEF IInv, Answered, Talk

LEMMA SessionBegins == ASSUME IInv, Architect \/ \E g \in Goal : Enrich(g) PROVE IInv'
  <1>1. Enriched'
    BY ConsoleAssumption DEF IInv, Enriched, Architect, Enrich, CanEnrich
  <1> QED  BY <1>1, Assembled DEF IInv, Architect, Enrich, Sessions

-----------------------------------------------------------------------------
LEMMA OperatorKeeps == ASSUME IInv, Operator PROVE IInv'
  <1>1. CASE Pause \/ Resume \/ Replan
    BY <1>1, PauseKeeps, ResumeKeeps, ReplanKeeps
  <1>2. CASE \E kind \in {"initial", "replan"} : ProposeIntent(kind) \/ Talk(kind)
    BY <1>2, ProposeIntentKeeps, TalkKeeps
  <1>3. CASE \E target \in Goal \cup {NoGoal} : RetryStage(target)
    BY <1>3, RetryStageKeeps
  <1>4. CASE ReviseIntent \/ ApproveIntent \/ CancelIntent
    BY <1>4, ReviseIntentKeeps, ApproveIntentKeeps, CancelIntentKeeps
  <1>5. CASE ReviseDraft \/ ActivateCycle \/ CancelDraft \/ Complete
    BY <1>5, ReviseDraftKeeps, ActivateCycleKeeps, CancelDraftKeeps, CompleteKeeps
  <1>6. CASE \E g \in Goal : Retry(g) \/ EditTask(g) \/ RemoveTask(g)
    BY <1>6, RetryKeeps, EditTaskKeeps, RemoveTaskKeeps
  <1> QED  BY <1>1, <1>2, <1>3, <1>4, <1>5, <1>6 DEF Operator

LEMMA PlannerKeeps == ASSUME IInv, Planner PROVE IInv'
  <1>1. CASE Answered \/ Architect \/ \E g \in Goal : Enrich(g)
    BY <1>1, TalkKeeps, SessionBegins
  <1>2. CASE Concluded \/ SubmitDraft \/ EnterReview
    BY <1>2, ConcludedKeeps, SubmitDraftKeeps, EnterReviewKeeps
  <1>3. CASE \E g \in Goal : EnrichLands(g) \/ EnrichUnbound(g)
    BY <1>3, EnrichLandsKeeps, EnrichUnboundKeeps
  <1>4. CASE \E s \in Sessions : Failure(s)
    BY <1>4, FailureKeeps
  <1> QED  BY <1>1, <1>2, <1>3, <1>4 DEF Planner, Sessions

LEMMA WorkerStepKeeps == ASSUME IInv, Worker PROVE IInv'
  <1>1. CASE \E g \in Goal : Start(g) \/ Verified(g) \/ AttemptFails(g) \/ Abandoned(g)
    BY <1>1, StartKeeps, VerifiedKeeps, AttemptFailsKeeps, AbandonedKeeps
  <1>2. CASE \E g \in Goal : Reserve(g) \/ Merged(g) \/ Conflicts(g) \/ Wedge(g)
    BY <1>2, ReserveKeeps, MergedKeeps, ConflictsKeeps, WedgeKeeps
  <1> QED  BY <1>1, <1>2 DEF Worker

LEMMA StutterKeeps == ASSUME IInv, UNCHANGED vars PROVE IInv'
  <1>1. Enriched'  BY DEF IInv, Enriched, vars
  <1> QED  BY <1>1, Assembled DEF IInv, vars

\* The plan is sound in every state, whatever is sent and whatever the workers do.
THEOREM InductiveInvariant == Spec => []IInv
  <1>1. IInv /\ [Next]_vars => IInv'
    BY OperatorKeeps, PlannerKeeps, WorkerStepKeeps, StutterKeeps DEF Next
  <1> QED  BY InitSound, <1>1, PTL DEF Spec

\* Whether the cycle keeps an entry of a block is said by every step.
LEMMA KeptIsKnown == Spec => [](keepsBlock \in BOOLEAN)
  <1>1. Init => keepsBlock \in BOOLEAN  BY DEF Init
  <1>2. keepsBlock \in BOOLEAN /\ [Next]_vars => (keepsBlock \in BOOLEAN)'
    <2> SUFFICES ASSUME keepsBlock \in BOOLEAN, [Next]_vars PROVE keepsBlock' \in BOOLEAN
      OBVIOUS
    <2>1. CASE KeepsBlock  BY <2>1, Zenon DEF KeepsBlock
    <2>2. CASE UNCHANGED vars  BY <2>2 DEF vars
    <2> QED  BY <2>1, <2>2 DEF Next
  <1> QED  BY <1>1, <1>2, PTL DEF Spec

LEMMA SoundIsTyped == IInv /\ keepsBlock \in BOOLEAN => TypeOK
  BY DEF IInv, Sound, TypeOK, Sessions

LEMMA GateIsSound == IInv => GateHasSubject
  BY DEF IInv, Sound, GateHasSubject

\* The plan and all that is under way keep their types, and no pause is both requested
\* and armed.
THEOREM ConsoleTypeOK == Spec => []TypeOK
  BY InductiveInvariant, KeptIsKnown, SoundIsTyped, PTL

\* A gate that is open is about an artifact that is there and undecided, for any number
\* of goals.
THEOREM ConsoleGate == Spec => []GateHasSubject
  BY InductiveInvariant, GateIsSound, PTL
-----------------------------------------------------------------------------
(***************************************************************************)
(* What is offered is accepted: one lemma for each kind of control.        *)
(***************************************************************************)
Settles(control) == Accepts(control) \/ KnownRefusal(control)

\* What the block of a goal that may be retried as a task says about the task.
LEMMA RetrySettles ==
    ASSUME IInv, NEW g \in Goal,
           \/ plan.paused /\ plan.work[g] = "failed"
           \/ /\ NamesTask(plan.blocks[g])
              /\ Resolutions(plan.blocks[g]) \cap {"retry_stage", "wait_and_retry"} # {}
    PROVE  Settles(<<"retry", g>>)
  <1> DEFINE kind == plan.blocks[g]
  <1>1. kind \in Kind \cup {"none"} /\ plan.work[g] \in Fits(kind)
    BY DEF IInv, Sound
  <1>2. CASE kind = "none"
    <2>1. plan.paused /\ plan.work[g] = "failed"  BY <1>2 DEF NamesTask
    <2>2. CASE plan.block = "none"
      <3>1. CanRetry(g)  BY <1>2, <2>1, <2>2 DEF CanRetry
      <3> QED  BY <3>1 DEF Settles, Accepts
    <2>3. CASE plan.block # "none"
      BY <2>3 DEF Settles, KnownRefusal, NothingToRetry
    <2> QED  BY <2>2, <2>3
  <1>3. CASE kind # "none"
    <2>1. kind \in {"capacity", "execution"}
      BY <1>1, <1>3 DEF NamesTask, Resolutions, Kind
    <2>2. plan.work[g] \in {"failed", "pending", "unplanned"}  BY <1>1, <2>1
    <2>3. /\ NamesTask(kind) /\ "edit_task" \in Resolutions(kind)
          /\ Resolutions(kind) \cap {"retry_stage", "wait_and_retry"} # {}
      BY <2>1 DEF NamesTask, Resolutions
    <2>4. CASE plan.work[g] = "unplanned"
      BY <2>4 DEF Settles, KnownRefusal, NothingToRetry
    <2>5. CASE plan.work[g] # "unplanned"
      <3>1. CanRetry(g)  BY <1>3, <2>2, <2>3, <2>5 DEF CanRetry
      <3> QED  BY <3>1 DEF Settles, Accepts
    <2> QED  BY <2>4, <2>5
  <1> QED  BY <1>2, <1>3

\* The retry of a stage names no goal, and finds the one it is about if it is alone.
LEMMA StageSettles ==
    ASSUME IInv,
           plan.block # "none" \/ \E g \in Goal : plan.blocks[g] \in {"agent", "reasoner"}
    PROVE  Settles(Plain("retry stage"))
  <1>1. CASE plan.block # "none"
    <2>1. CanRetryStage(NoGoal)  BY <1>1 DEF CanRetryStage
    <2> QED  BY <2>1 DEF Settles, Accepts, Plain
  <1>2. CASE plan.block = "none" /\ Cardinality(Blocked(plan)) > 1
    BY <1>2 DEF Settles, KnownRefusal, Ambiguous, Plain
  <1>3. CASE plan.block = "none" /\ ~(Cardinality(Blocked(plan)) > 1)
    <2>1. PICK g \in Goal : plan.blocks[g] \in {"agent", "reasoner"}  BY <1>3
    <2>2. g \in Blocked(plan)  BY <2>1 DEF Blocked
    <2>3. IsFiniteSet(Blocked(plan))  BY ConsoleAssumption, FS_Subset DEF Blocked
    <2>4. Cardinality(Blocked(plan)) \in Nat /\ Cardinality(Blocked(plan)) # 0
      BY <2>2, <2>3, FS_EmptySet, FS_CardinalityType
    <2>5. Cardinality(Blocked(plan)) = 1  BY <1>3, <2>4
    <2>6. PICK h : Blocked(plan) = {h}  BY <2>3, <2>5, FS_Singleton
    <2>7. \A h2 \in Blocked(plan) : plan.blocks[h2] \in {"agent", "reasoner"}
      BY <2>1, <2>2, <2>6
    <2>8. CanRetryStage(NoGoal)  BY <2>5, <2>7 DEF CanRetryStage
    <2> QED  BY <2>8 DEF Settles, Accepts, Plain
  <1> QED  BY <1>1, <1>2, <1>3

\* A goal whose task is not unplanned belongs to a cycle.
LEMMA EditSettles ==
    ASSUME IInv, NEW g \in Goal, NEW command \in {"edit", "remove"},
           plan.work[g] \in {"planned", "pending", "failed"}, plan.paused \/ BlockedEdit(g)
    PROVE  Settles(<<command, g>>)
  <1>1. plan.cycle  BY DEF IInv, Sound
  <1>2. Window(g)
    BY DEF Window, BlockedEdit, NamesTask
  <1>3. CASE plan.reserved # {}  BY <1>3 DEF Settles, KnownRefusal
  <1>4. CASE plan.reserved = {}
    <2>1. CanEdit(g)  BY <1>1, <1>2, <1>4 DEF CanEdit, Quiet
    <2> QED  BY <2>1 DEF Settles, Accepts
  <1> QED  BY <1>3, <1>4

LEMMA RepairSettles ==
    ASSUME IInv, NEW g \in Goal, BlockedEdit(g), plan.work[g] # "unplanned"
    PROVE  Settles(<<"repair", g>>)
  <1>1. plan.cycle /\ plan.work[g] \in Fits(plan.blocks[g])  BY DEF IInv, Sound
  <1>2. plan.blocks[g] \in {"capacity", "execution", "wedged"}
    BY DEF BlockedEdit, NamesTask
  <1>3. CASE plan.work[g] = "skipped"
    BY <1>3 DEF Settles, KnownRefusal, NotMutable
  <1>4. CASE plan.reserved # {}  BY <1>4 DEF Settles, KnownRefusal
  <1>5. CASE plan.work[g] # "skipped" /\ plan.reserved = {}
    <2>1. plan.work[g] \in {"failed", "pending"}  BY <1>1, <1>2, <1>5
    <2>2. Window(g)  BY <1>2 DEF Window, BlockedEdit
    <2>3. CanEdit(g)  BY <1>1, <1>5, <2>1, <2>2 DEF CanEdit, Quiet
    <2> QED  BY <2>3 DEF Settles, Accepts
  <1> QED  BY <1>3, <1>4, <1>5

LEMMA ReplanSettles == Settles(Plain("replan"))
  BY DEF Settles, Accepts, KnownRefusal, CanReplan, Quiet, NothingToReplan, Plain

LEMMA ProposeSettles == ASSUME NEW kind PROVE Settles(<<"propose", kind>>)
  BY DEF Settles, Accepts, KnownRefusal, CanPropose, Quiet, ComposerOverIntent

LEMMA RailSettles == ASSUME IInv, NEW control \in RailControls PROVE Settles(control)
  <1>1. CASE control = Plain("pause")
    BY <1>1 DEF Settles, Accepts, KnownRefusal, CanPause, NotRunning, Plain
  <1>2. CASE control = Plain("resume") /\ "resume" \in LegalActions
    <2>1. \A kind : "resume" \notin Resolutions(kind)  BY DEF Resolutions
    <2>2. "resume" \notin UNION {Resolutions(plan.blocks[g]) : g \in Goal}  BY <2>1
    <2>3. plan.paused  BY <1>2, <2>1, <2>2 DEF LegalActions
    <2> QED  BY <1>2, <2>3 DEF Settles, Accepts, CanResume, Plain
  <1>3. CASE control = <<"propose", "initial">> \/ control = <<"propose", "replan">>
    BY <1>3, ProposeSettles
  <1>4. CASE control = Plain("replan")  BY <1>4, ReplanSettles
  <1>5. CASE control = Plain("retry stage") /\ "retry_stage" \in Resolutions(plan.block)
    <2>1. plan.block # "none"  BY <1>5 DEF Resolutions
    <2> QED  BY <1>5, <2>1, StageSettles
  <1>6. CASE control \in FailedWork
    BY <1>6, RetrySettles DEF FailedWork
  <1> QED
    BY <1>1, <1>2, <1>3, <1>4, <1>5, <1>6
    DEF RailControls, RunControls, ComposerControls, BlockedCard, On

LEMMA GateSettles == ASSUME IInv, NEW control \in GateControls PROVE Settles(control)
  <1>1. CASE plan.reserved # {}  BY <1>1 DEF Settles, KnownRefusal
  <1>2. CASE plan.reserved = {}
    <2>1. CASE plan.gate = "intent"
      <3>1. plan.intent = "open"  BY <2>1 DEF IInv, Sound
      <3>2. control \in
              {Plain("revise intent"), Plain("approve intent"), Plain("cancel intent")}
        BY <2>1 DEF GateControls, IntentEditor, DraftEditor, GateDecisions, On
      <3>3. CanReviseIntent /\ CanApproveIntent /\ CanCancelIntent
        BY <1>2, <2>1, <3>1 DEF CanReviseIntent, CanApproveIntent, CanCancelIntent, Quiet
      <3>4. CASE control = Plain("revise intent")  BY <3>3, <3>4 DEF Settles, Accepts, Plain
      <3>5. CASE control = Plain("approve intent")  BY <3>3, <3>5 DEF Settles, Accepts, Plain
      <3>6. CASE control = Plain("cancel intent")  BY <3>3, <3>6 DEF Settles, Accepts, Plain
      <3> QED  BY <3>2, <3>4, <3>5, <3>6
    <2>2. CASE plan.gate = "draft"
      <3>1. plan.draft  BY <2>2 DEF IInv, Sound
      <3>2. control \in {Plain("revise draft"), Plain("activate"), Plain("cancel draft")}
        BY <2>2 DEF GateControls, IntentEditor, DraftEditor, GateDecisions, On
      <3>3. CanReviseDraft /\ (CanActivate \/ Outrun)
        BY <1>2, <2>2, <3>1 DEF CanReviseDraft, CanActivate, Outrun, Quiet
      <3>4. CASE control = Plain("revise draft")  BY <3>3, <3>4 DEF Settles, Accepts, Plain
      <3>5. CASE control = Plain("cancel draft")  BY <3>3, <3>5 DEF Settles, Accepts, Plain
      <3>6. CASE control = Plain("activate")
        BY <3>3, <3>6 DEF Settles, Accepts, KnownRefusal, Plain
      <3> QED  BY <3>2, <3>4, <3>5, <3>6
    <2>3. CASE plan.gate = "completion"
      <3>1. plan.cycle  BY <2>3 DEF IInv, Sound
      <3>2. control = Plain("complete")
        BY <2>3 DEF GateControls, IntentEditor, DraftEditor, GateDecisions, On
      <3> QED  BY <2>3, <3>1, <3>2 DEF Settles, Accepts, CanComplete, Plain
    <2>4. CASE plan.gate \notin {"intent", "draft", "completion"}
      BY <2>4 DEF GateControls, IntentEditor, DraftEditor, GateDecisions, On
    <2> QED  BY <2>1, <2>2, <2>3, <2>4
  <1> QED  BY <1>1, <1>2

LEMMA AttentionSettles ==
    ASSUME IInv, NEW control \in AttentionControls
    PROVE  Settles(control)
  <1>1. CASE plan.block # "none" /\ control \in BlockActions(Plain("retry stage"))
    BY <1>1, StageSettles, ReplanSettles DEF BlockActions
  <1>2. CASE \E g \in NeedsAttention : control \in BlockActions(RetryControl(g))
    <2>1. PICK g \in NeedsAttention : control \in BlockActions(RetryControl(g))  BY <1>2
    <2>2. g \in Goal /\ plan.blocks[g] \in {"agent", "reasoner", "capacity"}
      BY DEF NeedsAttention, RequiresHuman
    <2>3. CASE control = Plain("replan")  BY <2>3, ReplanSettles
    <2>4. CASE control = RetryControl(g) /\ plan.blocks[g] = "capacity"
      <3>1. control = <<"retry", g>>  BY <2>4 DEF RetryControl, NamesTask
      <3>2. /\ NamesTask(plan.blocks[g])
            /\ Resolutions(plan.blocks[g]) \cap {"retry_stage", "wait_and_retry"} # {}
        BY <2>4 DEF NamesTask, Resolutions
      <3> QED  BY <2>2, <3>1, <3>2, RetrySettles
    <2>5. CASE control = RetryControl(g) /\ plan.blocks[g] \in {"agent", "reasoner"}
      <3>1. control = Plain("retry stage")  BY <2>5 DEF RetryControl, NamesTask
      <3> QED  BY <2>2, <2>5, <3>1, StageSettles
    <2> QED  BY <2>1, <2>2, <2>3, <2>4, <2>5 DEF BlockActions
  <1> QED  BY <1>1, <1>2 DEF AttentionControls, On

LEMMA TaskSettles ==
    ASSUME IInv, NEW g \in Goal, NEW control \in TaskControls(g)
    PROVE  Settles(control)
  <1>1. CASE control \in RetryButton(g)
    BY <1>1, RetrySettles DEF RetryButton, On
  <1>2. CASE control \in EditForm(g)
    BY <1>2, EditSettles DEF EditForm, On
  <1>3. CASE control \in ContractEditor(g)
    BY <1>3, RepairSettles DEF ContractEditor, On
  <1> QED  BY <1>1, <1>2, <1>3 DEF TaskControls

\* The chat opens for the turn that the conversation takes.
LEMMA ChatSettles == ASSUME IInv, NEW control \in ChatControls PROVE Settles(control)
  <1>1. control = <<"talk", ChatMode>> /\ ChatMode # "none" /\ talking = "none"
    BY DEF ChatControls, On
  <1>2. plan.gate = "none" /\ plan.intent # "open"
    BY <1>1 DEF ChatMode, IInv, Sound
  <1>3. CanTalk(ChatMode)
    BY <1>1, <1>2 DEF ChatMode, CanTalk
  <1> QED  BY <1>1, <1>3 DEF Settles, Accepts

LEMMA OfferSettles == IInv => OfferedIsAccepted
  <1> SUFFICES ASSUME IInv, NEW control \in Offered PROVE Settles(control)
    BY DEF OfferedIsAccepted, Settles
  <1>1. CASE control \in RailControls  BY <1>1, RailSettles
  <1>2. CASE control \in GateControls  BY <1>2, GateSettles
  <1>3. CASE control \in AttentionControls  BY <1>3, AttentionSettles
  <1>4. CASE control \in ChatControls  BY <1>4, ChatSettles
  <1>5. CASE \E g \in Goal : control \in TaskControls(g)  BY <1>5, TaskSettles
  <1> QED  BY <1>1, <1>2, <1>3, <1>4, <1>5 DEF Offered

\* What a fresh screen offers, the server accepts, outside the known refusals: for any
\* number of goals, whatever other screens send and whatever the workers do.
THEOREM ConsoleOffered == Spec => []OfferedIsAccepted
  BY InductiveInvariant, OfferSettles, PTL
-----------------------------------------------------------------------------
(***************************************************************************)
(* Someone can move the plan. A plan that waits at no gate waits for the   *)
(* conversation of a replan: that takes an invariant of its own.           *)
(***************************************************************************)
Converses(p) ==
    p.status = "waiting" /\ p.gate = "none" /\ p.cycle => p.phase = "replanning" /\ ~p.draft

\* Neither a save, nor a pause, nor the derived status makes a plan wait.
LEMMA ConversesKept ==
    ASSUME NEW p \in Plan, Converses(p)
    PROVE  /\ Saved(p) \in Plan /\ Converses(Saved(p))
           /\ Recompute(p) \in Plan /\ Converses(Recompute(p))
           /\ Boundary(p) \in Plan /\ Converses(Boundary(p))
  <1>1. Saved(p) \in Plan /\ Converses(Saved(p))
    BY DEF Saved, Converses
  <1>2. Recompute(p) \in Plan /\ Converses(Recompute(p))
    BY DEF Recompute, Converses, Status
  <1>3. Boundary(p) \in Plan /\ Converses(Boundary(p))
    <2>1. Settled(p) \in Plan  BY DEF Settled, Status
    <2>2. Converses(Settled(p))  BY DEF Settled, Converses
    <2> QED  BY ONLY p \in Plan, Converses(p), <2>1, <2>2 DEF Boundary
  <1> QED  BY <1>1, <1>2, <1>3

\* The plan of a save converses if what is saved does.
LEMMA SavedConverses ==
    ASSUME NEW p \in Plan, Converses(p), plan' = Saved(p) \/ plan' = p
    PROVE  Converses(plan')
  BY ConversesKept

LEMMA OperatorConverses ==
    ASSUME IInv, Converses(plan), Operator
    PROVE  Converses(plan')
  <1> USE DEF Commands, Save
  <1>0. plan \in Plan  BY DEF IInv, Sound
  <1>1. CASE Pause
    <2>1. plan' = Saved([plan EXCEPT !.requested = TRUE]) \/ plan' = Saved(Settled(plan))
      BY <1>1 DEF Pause
    <2>2. [plan EXCEPT !.requested = TRUE] \in Plan /\ Converses([plan EXCEPT !.requested = TRUE])
      BY <1>0 DEF Converses
    <2>3. Settled(plan) \in Plan /\ Converses(Settled(plan))
      BY <1>0 DEF Settled, Converses, Status
    <2> QED  BY <2>1, <2>2, <2>3, SavedConverses
  <1>2. CASE Resume
    BY <1>0, <1>2 DEF Resume, Saved, Converses
  <1>3. CASE Replan
    <2> DEFINE q == IF plan.cycle THEN Discarded(plan) ELSE plan
    <2>1. /\ q \in Plan /\ q.cycle = plan.cycle /\ q.gate = (IF plan.cycle THEN "none" ELSE plan.gate)
          /\ plan.cycle => ~q.draft
      BY <1>0 DEF Discarded
    <2>2. plan' = Saved(Replanned(plan))  BY <1>3 DEF Replan
    <2> DEFINE u == Unblocked(q)
    <2>6. u \in Plan /\ u.draft = q.draft /\ u.cycle = q.cycle
      BY <2>1 DEF Unblocked, AllWork
    <2>3. Replanned(plan) = [u EXCEPT !.paused = FALSE, !.requested = FALSE,
                                      !.phase = "replanning", !.status = "waiting"]
      BY DEF Replanned
    <2> HIDE DEF u, q
    <2>4. /\ Replanned(plan) \in Plan /\ Replanned(plan).phase = "replanning"
          /\ Replanned(plan).draft = q.draft /\ Replanned(plan).cycle = q.cycle
      BY <2>3, <2>6 DEF Phase, Status
    <2>5. Converses(Replanned(plan))  BY <2>1, <2>4 DEF Converses
    <2> QED  BY <2>2, <2>4, <2>5, SavedConverses
  <1>4. CASE \E kind \in {"initial", "replan"} : ProposeIntent(kind)
    BY <1>0, <1>4 DEF ProposeIntent, Proposed, Saved, Converses
  <1>5. CASE \E kind \in {"initial", "replan"} : Talk(kind)
    BY <1>5 DEF Talk
  <1>6. CASE \E target \in Goal \cup {NoGoal} : RetryStage(target)
    <2>1. RetryReasoner \/ \E g \in Goal : RetryBinding(g)
      BY <1>6 DEF RetryStage, Blocked
    <2>2. CASE \E g \in Goal : RetryBinding(g)
      <3>1. PICK g \in Goal : RetryBinding(g)  BY <2>2
      <3> DEFINE p == [plan EXCEPT !.blocks[g] = "none", !.phase = "running", !.status = "running"]
      <3>2. p \in Plan /\ Converses(p)  BY <1>0 DEF Converses, Phase, Status
      <3>3. plan' = Saved(Recompute(p))  BY <3>1 DEF RetryBinding
      <3> HIDE DEF p
      <3>4. Recompute(p) \in Plan /\ Converses(Recompute(p))  BY <3>2, ConversesKept
      <3> QED  BY <3>3, <3>4, SavedConverses
    <2>3. CASE RetryReasoner /\ plan.block # "none"
      <3> DEFINE p == [plan EXCEPT !.block = "none"]
      <3>1. p \in Plan /\ Converses(p)  BY <1>0 DEF Converses
      <3>2. plan' = Saved(Recompute(p)) \/ plan' = Saved([p EXCEPT !.status = "running"])
        BY <2>3 DEF RetryReasoner
      <3> HIDE DEF p
      <3>3. [p EXCEPT !.status = "running"] \in Plan /\ Converses([p EXCEPT !.status = "running"])
        BY <3>1 DEF Converses, Status
      <3>4. Recompute(p) \in Plan /\ Converses(Recompute(p))  BY <3>1, ConversesKept
      <3> QED  BY <3>2, <3>3, <3>4, SavedConverses
    <2>4. CASE RetryReasoner /\ plan.block = "none"
      <3>1. PICK g \in Goal : plan' = Saved(Recompute([plan EXCEPT !.blocks[g] = "none"]))
        BY <2>4 DEF RetryReasoner
      <3> DEFINE p == [plan EXCEPT !.blocks[g] = "none"]
      <3>2. p \in Plan /\ Converses(p)  BY <1>0 DEF Converses
      <3> HIDE DEF p
      <3>3. Recompute(p) \in Plan /\ Converses(Recompute(p))  BY <3>2, ConversesKept
      <3>4. plan' = Saved(Recompute(p))  BY <3>1 DEF p
      <3> QED  BY <3>3, <3>4, SavedConverses
    <2> QED  BY <2>1, <2>2, <2>3, <2>4
  <1>7. CASE ReviseIntent \/ ApproveIntent \/ CancelIntent
    BY <1>0, <1>7 DEF ReviseIntent, ApproveIntent, CancelIntent, Saved, Stopped, Converses
  <1>8. CASE ReviseDraft \/ ActivateCycle \/ CancelDraft
    <2>1. CASE ReviseDraft
      BY <1>0, <2>1 DEF ReviseDraft, Discarded, Saved, Converses
    <2>2. CASE ActivateCycle
      BY <1>0, <2>2 DEF ActivateCycle, Saved, Converses
    <2>3. CASE CancelDraft
      BY <1>0, <2>3 DEF CancelDraft, Discarded, Saved, Stopped, Converses
    <2> QED  BY <1>8, <2>1, <2>2, <2>3
  <1>9. CASE Complete
    BY <1>0, <1>9 DEF Complete, Saved, Converses
  <1>10. CASE \E g \in Goal : Retry(g)
    <2>1. PICK g \in Goal : Retry(g)  BY <1>10
    <2> DEFINE p == [plan EXCEPT !.work[g] = "pending", !.blocks[g] = "none"]
    <2>2. p \in Plan /\ Converses(p)  BY <1>0 DEF Converses, Work
    <2>3. plan' = Saved(p) \/ plan' = Saved(Recompute(p))  BY <2>1 DEF Retry
    <2> HIDE DEF p
    <2>4. Recompute(p) \in Plan /\ Converses(Recompute(p))  BY <2>2, ConversesKept
    <2> QED  BY <2>2, <2>3, <2>4, SavedConverses
  <1>11. CASE \E g \in Goal : EditTask(g) \/ RemoveTask(g)
    <2>1. PICK g \in Goal : \E w \in Work : plan' = Saved([plan EXCEPT !.work[g] = w])
      <3>1. PICK g \in Goal : EditTask(g) \/ RemoveTask(g)  BY <1>11
      <3>2. plan.work[g] \in Work /\ "pending" \in Work /\ "unplanned" \in Work
        BY <1>0 DEF Work
      <3> QED  BY <3>1, <3>2, <1>0 DEF EditTask, RemoveTask
    <2>2. PICK w \in Work : plan' = Saved([plan EXCEPT !.work[g] = w])  BY <2>1
    <2>3. [plan EXCEPT !.work[g] = w] \in Plan /\ Converses([plan EXCEPT !.work[g] = w])
      BY <1>0 DEF Converses
    <2> QED  BY <2>2, <2>3, SavedConverses
  <1> QED  BY <1>1, <1>2, <1>3, <1>4, <1>5, <1>6, <1>7, <1>8, <1>9, <1>10, <1>11 DEF Operator

\* A step of a worker gives a goal another work, block or reservation, and may derive the
\* status or settle the pause: it makes no plan wait.
LEMMA GoalStepConverses ==
    ASSUME NEW p \in Plan, Converses(p), NEW q \in Plan,
           q.status = p.status, q.gate = p.gate, q.cycle = p.cycle,
           q.phase = p.phase, q.draft = p.draft,
           plan' \in {Saved(q), Saved(Recompute(q)), Saved(Boundary(q))}
    PROVE  Converses(plan')
  <1>1. Converses(q)  BY DEF Converses
  <1>2. /\ Recompute(q) \in Plan /\ Converses(Recompute(q))
        /\ Boundary(q) \in Plan /\ Converses(Boundary(q))
    BY <1>1, ConversesKept
  <1> QED  BY <1>1, <1>2, ConversesKept

LEMMA WorkerConverses ==
    ASSUME IInv, Converses(plan), Worker
    PROVE  Converses(plan')
  <1> USE DEF WorkerSaves, Save
  <1>0. plan \in Plan  BY DEF IInv, Sound
  <1>a. PICK g \in Goal : \/ Start(g) \/ Verified(g) \/ AttemptFails(g) \/ Abandoned(g)
                          \/ Reserve(g) \/ Merged(g) \/ Conflicts(g) \/ Wedge(g)
    BY DEF Worker
  <1>1. CASE Start(g)
    <2>1. plan' = Saved([plan EXCEPT !.work[g] = "running"])
      BY <1>1 DEF Start
    <2> DEFINE q == [plan EXCEPT !.work[g] = "running"]
    <2>2. /\ q \in Plan /\ q.status = plan.status /\ q.gate = plan.gate
          /\ q.cycle = plan.cycle /\ q.phase = plan.phase /\ q.draft = plan.draft
      BY <1>0 DEF Work, Kind
    <2>3. plan' = Saved(q)  BY <2>1
    <2> HIDE DEF q
    <2> QED  BY <1>0, <2>2, <2>3, GoalStepConverses
  <1>2. CASE Verified(g)
    <2>1. PICK w \in {"verified", "pending"} : plan' = Saved(Boundary([plan EXCEPT !.work[g] = w]))
      BY <1>2 DEF Verified
    <2> DEFINE q == [plan EXCEPT !.work[g] = w]
    <2>2. /\ q \in Plan /\ q.status = plan.status /\ q.gate = plan.gate
          /\ q.cycle = plan.cycle /\ q.phase = plan.phase /\ q.draft = plan.draft
      BY <1>0 DEF Work, Kind
    <2>3. plan' = Saved(Boundary(q))  BY <2>1
    <2> HIDE DEF q
    <2> QED  BY <1>0, <2>2, <2>3, GoalStepConverses
  <1>3. CASE AttemptFails(g)
    <2>1. PICK kind \in {"execution", "capacity"} :
            plan' = Saved(Recompute([plan EXCEPT !.work[g] = "failed", !.blocks[g] = kind]))
      BY <1>3 DEF AttemptFails
    <2> DEFINE q == [plan EXCEPT !.work[g] = "failed", !.blocks[g] = kind]
    <2>2. /\ q \in Plan /\ q.status = plan.status /\ q.gate = plan.gate
          /\ q.cycle = plan.cycle /\ q.phase = plan.phase /\ q.draft = plan.draft
      BY <1>0 DEF Work, Kind
    <2>3. plan' = Saved(Recompute(q))  BY <2>1
    <2> HIDE DEF q
    <2> QED  BY <1>0, <2>2, <2>3, GoalStepConverses
  <1>4. CASE Abandoned(g)
    <2>1. plan' = Saved([plan EXCEPT !.work[g] = "skipped"])
      BY <1>4 DEF Abandoned
    <2> DEFINE q == [plan EXCEPT !.work[g] = "skipped"]
    <2>2. /\ q \in Plan /\ q.status = plan.status /\ q.gate = plan.gate
          /\ q.cycle = plan.cycle /\ q.phase = plan.phase /\ q.draft = plan.draft
      BY <1>0 DEF Work, Kind
    <2>3. plan' = Saved(q)  BY <2>1
    <2> HIDE DEF q
    <2> QED  BY <1>0, <2>2, <2>3, GoalStepConverses
  <1>5. CASE Reserve(g)
    <2>1. plan' = Saved([plan EXCEPT !.reserved = plan.reserved \cup {g}])
      BY <1>5 DEF Reserve
    <2> DEFINE q == [plan EXCEPT !.reserved = plan.reserved \cup {g}]
    <2>2. /\ q \in Plan /\ q.status = plan.status /\ q.gate = plan.gate
          /\ q.cycle = plan.cycle /\ q.phase = plan.phase /\ q.draft = plan.draft
      BY <1>0 DEF Work, Kind
    <2>3. plan' = Saved(q)  BY <2>1
    <2> HIDE DEF q
    <2> QED  BY <1>0, <2>2, <2>3, GoalStepConverses
  <1>6. CASE Merged(g)
    <2>1. plan' = Saved(Recompute([plan EXCEPT !.reserved = plan.reserved \ {g}, !.work[g] = "done"]))
      BY <1>6 DEF Merged
    <2> DEFINE q == [plan EXCEPT !.reserved = plan.reserved \ {g}, !.work[g] = "done"]
    <2>2. /\ q \in Plan /\ q.status = plan.status /\ q.gate = plan.gate
          /\ q.cycle = plan.cycle /\ q.phase = plan.phase /\ q.draft = plan.draft
      BY <1>0 DEF Work, Kind
    <2>3. plan' = Saved(Recompute(q))  BY <2>1
    <2> HIDE DEF q
    <2> QED  BY <1>0, <2>2, <2>3, GoalStepConverses
  <1>7. CASE Conflicts(g)
    <2>1. plan' = Saved(Recompute([plan EXCEPT !.reserved = plan.reserved \ {g}, !.blocks[g] = "promotion"]))
      BY <1>7 DEF Conflicts
    <2> DEFINE q == [plan EXCEPT !.reserved = plan.reserved \ {g}, !.blocks[g] = "promotion"]
    <2>2. /\ q \in Plan /\ q.status = plan.status /\ q.gate = plan.gate
          /\ q.cycle = plan.cycle /\ q.phase = plan.phase /\ q.draft = plan.draft
      BY <1>0 DEF Work, Kind
    <2>3. plan' = Saved(Recompute(q))  BY <2>1
    <2> HIDE DEF q
    <2> QED  BY <1>0, <2>2, <2>3, GoalStepConverses
  <1>8. CASE Wedge(g)
    <2>1. PICK kind \in {"execution", "wedged"} : plan' = Saved(Recompute([plan EXCEPT !.blocks[g] = kind]))
      BY <1>8 DEF Wedge
    <2> DEFINE q == [plan EXCEPT !.blocks[g] = kind]
    <2>2. /\ q \in Plan /\ q.status = plan.status /\ q.gate = plan.gate
          /\ q.cycle = plan.cycle /\ q.phase = plan.phase /\ q.draft = plan.draft
      BY <1>0 DEF Work, Kind
    <2>3. plan' = Saved(Recompute(q))  BY <2>1
    <2> HIDE DEF q
    <2> QED  BY <1>0, <2>2, <2>3, GoalStepConverses
  <1> QED  BY <1>a, <1>1, <1>2, <1>3, <1>4, <1>5, <1>6, <1>7, <1>8

LEMMA FailureConverses ==
    ASSUME IInv, Converses(plan), NEW s \in Sessions, Failure(s)
    PROVE  Converses(plan')
  <1> USE DEF SessionEnds
  <1>0. plan \in Plan  BY DEF IInv, Sound
  <1>1. CASE SessionFails(s)
    <2>1. CASE s \in Goal /\ plan' = Saved(Recompute([plan EXCEPT !.blocks[s] = "reasoner"]))
      <3> DEFINE p == [plan EXCEPT !.blocks[s] = "reasoner"]
      <3>1. p \in Plan /\ Converses(p)  BY <1>0, <2>1 DEF Converses, Kind
      <3> HIDE DEF p
      <3>2. Recompute(p) \in Plan /\ Converses(Recompute(p))  BY <3>1, ConversesKept
      <3>3. plan' = Saved(Recompute(p))  BY <2>1 DEF p
      <3> QED  BY <3>2, <3>3, SavedConverses
    <2>2. CASE plan' = Saved([plan EXCEPT !.block = "reasoner", !.status = "blocked"])
      BY <1>0, <2>2 DEF Converses, Saved
    <2> QED  BY <1>1, <2>1, <2>2 DEF SessionFails
  <1>2. CASE FailPlan(s)
    BY <1>0, <1>2 DEF FailPlan, Converses, Saved
  <1>3. CASE BacksOff(s) \/ SessionLost(s)
    BY <1>0, <1>3, SavedConverses DEF BacksOff, SessionLost
  <1> QED  BY <1>1, <1>2, <1>3 DEF Failure

LEMMA PlannerConverses ==
    ASSUME IInv, Converses(plan), Planner
    PROVE  Converses(plan')
  <1>0. plan \in Plan  BY DEF IInv, Sound
  <1>1. CASE Answered \/ Architect \/ \E g \in Goal : Enrich(g)
    BY <1>1 DEF Answered, Architect, Enrich
  <1>2. CASE Concluded \/ SubmitDraft \/ EnterReview
    BY <1>0, <1>2 DEF Concluded, SubmitDraft, EnterReview, Save, WorkerSaves, Proposed, Saved, Converses
  <1>3. CASE \E g \in Goal : EnrichLands(g)
    BY <1>0, <1>3 DEF EnrichLands, SessionEnds, Saved, Converses
  <1>4. CASE \E g \in Goal : EnrichUnbound(g)
    <2>1. PICK g \in Goal :
            plan' = Saved(Recompute([plan EXCEPT !.work[g] = "planned", !.blocks[g] = "agent"]))
      BY <1>4 DEF EnrichUnbound, SessionEnds
    <2> DEFINE p == [plan EXCEPT !.work[g] = "planned", !.blocks[g] = "agent"]
    <2>2. p \in Plan /\ Converses(p)  BY <1>0 DEF Converses, Kind, Work
    <2> HIDE DEF p
    <2>3. Recompute(p) \in Plan /\ Converses(Recompute(p))  BY <2>2, ConversesKept
    <2>4. plan' = Saved(Recompute(p))  BY <2>1 DEF p
    <2> QED  BY <2>3, <2>4, SavedConverses
  <1>5. CASE \E s \in Goal \cup {Roadmap, Old} : Failure(s)
    BY <1>5, FailureConverses DEF Sessions
  <1> QED  BY <1>1, <1>2, <1>3, <1>4, <1>5 DEF Planner

LEMMA StepConverses ==
    ASSUME IInv, Converses(plan), [Next]_vars
    PROVE  Converses(plan')
  <1>1. CASE UNCHANGED vars  BY <1>1 DEF vars
  <1> QED  BY <1>1, OperatorConverses, PlannerConverses, WorkerConverses DEF Next

LEMMA Conversation == Spec => []Converses(plan)
  <1>1. Init => Converses(plan)  BY DEF Init, Converses
  <1>2. IInv /\ Converses(plan) /\ [Next]_vars => Converses(plan)'
    BY StepConverses DEF Converses
  <1> QED  BY <1>1, <1>2, InductiveInvariant, PTL DEF Spec

\* A worker that finds nothing to do: nothing is under way, and no pause is requested.
Idle ==
    /\ IInv /\ Converses(plan) /\ ~WorkersCanMove /\ ~Stranded

LEMMA NothingUnderWay ==
    ASSUME Idle
    PROVE  Quiet /\ talking = "none" /\ sessions = {} /\ Attempts(plan) = {} /\ ~plan.requested
  BY DEF Idle, WorkersCanMove, Quiet, Stranded, NeverSettles

\* A gate that is open can be decided: its subject is there.
LEMMA GateMoves == ASSUME Idle, plan.gate # "none" PROVE OperatorCanMove
  <1>0. Quiet /\ Sound(plan)  BY NothingUnderWay DEF Idle, IInv
  <1>1. CASE plan.gate = "intent"
    <2>1. Plain("approve intent") \in Offered
      BY <1>1 DEF Offered, GateControls, GateDecisions
    <2>2. CanApproveIntent  BY <1>0, <1>1 DEF Sound, CanApproveIntent
    <2>3. Accepts(Plain("approve intent"))  BY <2>2 DEF Accepts, Plain
    <2> QED  BY <2>1, <2>3 DEF OperatorCanMove, Plain
  <1>2. CASE plan.gate = "draft"
    <2>1. Plain("cancel draft") \in Offered
      BY <1>2 DEF Offered, GateControls, GateDecisions
    <2>2. CanReviseDraft  BY <1>0, <1>2 DEF Sound, CanReviseDraft
    <2>3. Accepts(Plain("cancel draft"))  BY <2>2 DEF Accepts, Plain
    <2> QED  BY <2>1, <2>3 DEF OperatorCanMove, Plain
  <1>3. CASE plan.gate = "completion"
    <2>1. Plain("complete") \in Offered
      BY <1>3 DEF Offered, GateControls, GateDecisions
    <2>2. CanComplete  BY <1>0, <1>3 DEF Sound, CanComplete
    <2>3. Accepts(Plain("complete"))  BY <2>2 DEF Accepts, Plain
    <2> QED  BY <2>1, <2>3 DEF OperatorCanMove, Plain
  <1> QED  BY <1>0, <1>1, <1>2, <1>3 DEF Sound

\* The plan's own block can be retried.
LEMMA BlockMoves == ASSUME Idle, plan.block # "none" PROVE OperatorCanMove
  <1>1. Plain("retry stage") \in Offered
    BY DEF Offered, AttentionControls, On, BlockActions
  <1>2. CanRetryStage(NoGoal)  BY DEF CanRetryStage
  <1>3. Accepts(Plain("retry stage"))  BY <1>2 DEF Accepts, Plain
  <1> QED  BY <1>1, <1>3 DEF OperatorCanMove, Plain

\* Where a new proposal is accepted, one control that proposes is enough.
LEMMA ProposalMoves ==
    ASSUME CanPropose, NEW kind, <<"propose", kind>> \in Offered
    PROVE  OperatorCanMove
  <1>1. Accepts(<<"propose", kind>>)  BY DEF Accepts
  <1> QED  BY <1>1 DEF OperatorCanMove

\* Blocked goals belong to a cycle, and every block may be left by a replan.
LEMMA GoalBlocksMove ==
    ASSUME Idle, plan.gate = "none", plan.block = "none", Blocked(plan) # {}
    PROVE  OperatorCanMove
  <1>0. Quiet /\ Sound(plan)  BY NothingUnderWay DEF Idle, IInv
  <1>1. PICK g \in Goal : plan.blocks[g] # "none"  BY DEF Blocked
  <1>2. plan.cycle  BY <1>0, <1>1 DEF Sound
  <1>3. "start_replan" \in Resolutions(plan.blocks[g])
    BY <1>0, <1>1 DEF Sound, Kind, Resolutions
  <1>4. "start_replan" \in LegalActions
    <2>1. "start_replan" \in UNION {Resolutions(plan.blocks[h]) : h \in Goal}  BY <1>3
    <2> QED  BY <1>0, <2>1 DEF LegalActions, Quiet
  <1>5. <<"propose", "replan">> \in Offered
    BY <1>2, <1>4 DEF Offered, RailControls, ComposerControls, On
  <1>6. plan.intent = "none"
    BY <1>0 DEF Sound, Idle, Stranded, ApprovedAside
  <1> QED  BY <1>0, <1>5, <1>6, ProposalMoves DEF CanPropose

\* A plan that runs, and is not paused, has work to claim.
LEMMA RunningIsClaimed ==
    ASSUME Idle, plan.gate = "none", plan.block = "none", Blocked(plan) = {}
    PROVE  plan.status # "running"
  <1>0. Sound(plan) /\ Attempts(plan) = {} /\ sessions = {} /\ plan.reserved = {}
    BY NothingUnderWay DEF Idle, IInv, Quiet
  <1> SUFFICES ASSUME plan.status = "running" PROVE FALSE
    OBVIOUS
  <1>1. Claimable
    BY NothingUnderWay DEF Idle, Stranded, PausedAndRunning, Claimable
  <1>2. ~Drafting  BY <1>0 DEF Idle, WorkersCanMove, CanArchitect
  <1>3. plan.cycle
    BY <1>1, <1>2 DEF Idle, Stranded, NothingToRun, Drafting
  <1>4. Open(plan) # {}
    BY <1>1, <1>2, <1>3 DEF Idle, WorkersCanMove, CanReview
  <1>5. PICK g \in Goal : plan.work[g] # "done"  BY <1>4
  <1>6. plan.blocks[g] = "none"  BY DEF Blocked
  <1>7. plan.work[g] # "running"  BY <1>0 DEF Attempts
  <1>8. plan.work[g] \in
          {"unplanned", "planned", "pending", "failed", "skipped", "verified"}
    BY <1>0, <1>5, <1>7 DEF Sound, Work
  <1>9. CanEnrich(g) \/ CanStart(g) \/ CanReserve(g) \/ CanWedge(g)
    BY <1>0, <1>1, <1>2, <1>3, <1>6, <1>8 DEF CanEnrich, CanStart, CanReserve, CanWedge
  <1> QED  BY <1>9 DEF Idle, WorkersCanMove

\* A plan that stands still without a gate or a block is resumed, proposed to or spoken to.
LEMMA StillMoves ==
    ASSUME Idle, plan.gate = "none", plan.block = "none", Blocked(plan) = {}
    PROVE  OperatorCanMove
  <1>0. Quiet /\ talking = "none" /\ ~plan.requested /\ Sound(plan) /\ Converses(plan)
    BY NothingUnderWay DEF Idle, IInv
  <1>1. plan.status \in {"idle", "paused", "waiting"}
    BY <1>0, RunningIsClaimed DEF Sound, Status, Idle, Stranded, BlockedByNothing
  <1>2. plan.intent = "none"
    BY <1>0, <1>1 DEF Sound, Idle, Stranded, ApprovedAside
  <1>3. CASE plan.status = "paused"
    <2>1. plan.paused  BY <1>3 DEF Idle, Stranded, Unarmed
    <2>2. "resume" \in LegalActions
      BY <1>0, <1>3, <2>1 DEF LegalActions, Quiet
    <2>3. Plain("resume") \in Offered
      BY <2>2 DEF Offered, RailControls, RunControls, On
    <2>4. Accepts(Plain("resume"))  BY <2>1 DEF Accepts, Plain, CanResume
    <2> QED  BY <2>3, <2>4 DEF OperatorCanMove, Plain
  <1>4. CASE Uncommitted
    <2>1. "start_intent" \in LegalActions
      BY <1>0, <1>1, <1>4 DEF LegalActions, Quiet, Uncommitted
    <2>2. <<"propose", "initial">> \in Offered
      BY <2>1 DEF Offered, RailControls, RunControls, On
    <2> QED  BY <1>0, <1>2, <2>2, ProposalMoves DEF CanPropose
  <1>5. CASE plan.status = "waiting" /\ plan.cycle
    <2>1. plan.phase = "replanning" /\ ~plan.draft  BY <1>0, <1>5 DEF Converses
    <2>2. ChatMode = "replan"  BY <1>2, <1>5, <2>1 DEF ChatMode
    <2>3. <<"talk", "replan">> \in Offered
      BY <1>0, <2>2 DEF Offered, ChatControls, On
    <2>4. CanTalk("replan")  BY <1>0, <1>2, <1>5, <2>1 DEF CanTalk
    <2>5. Accepts(<<"talk", "replan">>)  BY <2>4 DEF Accepts
    <2> QED  BY <2>3, <2>5 DEF OperatorCanMove
  <1> QED  BY <1>1, <1>2, <1>3, <1>4, <1>5 DEF Uncommitted

LEMMA SomeoneMoves == IInv /\ Converses(plan) => WayForward
  <1> SUFFICES ASSUME Idle PROVE OperatorCanMove
    BY DEF Idle, WayForward
  <1> QED  BY GateMoves, BlockMoves, GoalBlocksMove, StillMoves

\* Someone can always move the plan, outside the known dead ends: for any number of goals,
\* whatever other screens send and whatever becomes of the sessions and the attempts.
THEOREM ConsoleWayForward == Spec => []WayForward
  BY InductiveInvariant, Conversation, SomeoneMoves, PTL

=============================================================================
