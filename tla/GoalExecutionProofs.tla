------------------------- MODULE GoalExecutionProofs -------------------------
(***************************************************************************)
(* The execution of a cycle, for any number of workers, goals, tasks, lost *)
(* leases, crashes, restarts and commands.                                 *)
(*                                                                         *)
(* First the types and the ownership of attempts: a task never has two     *)
(* open attempts, a settled task has none, at most one worker runs a live  *)
(* one, and the ledger is history.  None of these is inductive.  A reclaim *)
(* is safe only because the open attempts are known to be at most the last *)
(* one, and a late outcome is harmless only because a worker's attempt is  *)
(* known to be open or abandoned and to be nobody else's; AttemptInv says  *)
(* so.                                                                     *)
(*                                                                         *)
(* Then what the execution delivers: done work is verified, a done goal is *)
(* merged after its dependencies, a reserved promotion stays valid, and    *)
(* the whole implements Delivery.  A DONE task or goal is safe for two     *)
(* reasons: no step but its finalizer makes one and none unmakes it (one   *)
(* lemma for each part of the state), and the finalizer finds what earlier *)
(* transactions of the same driver left (DeliveryInv).                     *)
(*                                                                         *)
(* Last what holds with something left out of the environment: a           *)
(* reservation names an open attempt without a restart, the plan is        *)
(* BLOCKED exactly when stuck without a pause, and a paused plan runs      *)
(* nothing when one goal at a time is under way.  The status follows       *)
(* because each step either saves the plan as it was, settles a requested  *)
(* pause at a finalizer, or derives the status again (PlanClass).          *)
(***************************************************************************)
EXTENDS GoalExecution, NavigationProofs, FiniteSetTheorems, SequenceTheorems, TLAPS

-----------------------------------------------------------------------------
(* The operators of the aggregate return what they should                   *)

\* A save, a settled pause and a new derivation of the status give a plan.
LEMMA PlanOperators ==
  ASSUME NEW p \in PlanRecord, NEW states, NEW blocks
  PROVE  /\ Saved(p) \in PlanRecord
         /\ SettlePause(p) \in PlanRecord
         /\ SettleRequestedPause(p) \in PlanRecord
         /\ Recompute(p, states, blocks) \in PlanRecord
<1>. USE DEF PlanRecord, PlanStatus, ReplanStage
<1>1. Saved(p) \in PlanRecord
  BY DEF Saved
<1>2. SettlePause(p) \in PlanRecord
  BY DEF SettlePause
<1>3. SettleRequestedPause(p) \in PlanRecord
  BY <1>2 DEF SettleRequestedPause
<1>4. Recompute(p, states, blocks) \in PlanRecord
  BY DEF Recompute
<1>. QED  BY <1>1, <1>2, <1>3, <1>4

\* Every transition of a task gives a task, with the status and the attempt that
\* the transition is for.
LEMMA TaskOperators ==
  ASSUME NEW rec \in TaskRecord, NEW wait \in BOOLEAN
  PROVE  /\ Started(rec) \in TaskRecord
         /\ Started(rec).status = "running" /\ Started(rec).attempt = rec.attempt + 1
         /\ Requeued(rec, wait) \in TaskRecord
         /\ Requeued(rec, wait).status = "pending" /\ Requeued(rec, wait).attempt = rec.attempt
         /\ Abandoned(rec) \in TaskRecord
         /\ Abandoned(rec).status = "skipped" /\ Abandoned(rec).attempt = rec.attempt
         /\ Retried(rec) \in TaskRecord
         /\ Retried(rec).status = "pending" /\ Retried(rec).attempt = rec.attempt
         /\ Amended(rec) \in TaskRecord
         /\ Amended(rec).status = "pending" /\ Amended(rec).attempt = rec.attempt
         /\ Edited(rec) \in TaskRecord
         /\ Edited(rec).status = "pending" /\ Edited(rec).attempt = rec.attempt
<1>. USE DEF TaskRecord, Status
<1>1. /\ Started(rec) \in TaskRecord
      /\ Started(rec).attempt = rec.attempt + 1
      /\ Started(rec).status = "running"
  <2>. DEFINE shown == [rec EXCEPT !.status = "running", !.backoff = FALSE]
  <2>1. /\ shown \in TaskRecord
        /\ shown.attempt = rec.attempt /\ shown.cycleAttempt = rec.cycleAttempt
        /\ shown.status = "running"
    OBVIOUS
  <2>. HIDE DEF shown
  <2>2. rec.attempt + 1 \in Nat /\ rec.cycleAttempt + 1 \in Nat
    OBVIOUS
  <2>3. Started(rec) = [shown EXCEPT !.attempt = rec.attempt + 1,
                                     !.cycleAttempt = rec.cycleAttempt + 1]
    BY DEF Started, shown
  <2>. QED  BY <2>1, <2>2, <2>3
<1>2. /\ Requeued(rec, wait) \in TaskRecord
      /\ Requeued(rec, wait).status = "pending" /\ Requeued(rec, wait).attempt = rec.attempt
      /\ Abandoned(rec) \in TaskRecord
      /\ Abandoned(rec).status = "skipped" /\ Abandoned(rec).attempt = rec.attempt
  BY DEF Requeued, Abandoned
<1>3. Retried(rec) \in TaskRecord /\ Retried(rec).status = "pending" /\ Retried(rec).attempt = rec.attempt
  BY DEF Retried
<1>4. Amended(rec) \in TaskRecord /\ Amended(rec).status = "pending" /\ Amended(rec).attempt = rec.attempt
  BY <1>3 DEF Amended
<1>5. Edited(rec) \in TaskRecord /\ Edited(rec).status = "pending" /\ Edited(rec).attempt = rec.attempt
  BY <1>4 DEF Edited
<1>. QED  BY <1>1, <1>2, <1>3, <1>4, <1>5

\* A release keeps the type of the reservations.
LEMMA ReservationOperators ==
  ASSUME TypeOK, NEW g, NEW token, NEW t, NEW stale
  PROVE  /\ Released(g, token) \in [Goal -> Reservation]
         /\ ReleasedFrom(g, t, stale) \in [Goal -> Reservation]
  BY DEF TypeOK, Released, ReleasedFrom, Reservation, Free

-----------------------------------------------------------------------------
(* Type correctness *)

\* The state of the drivers and the leases.
DriversOK ==
    /\ lease \in [Goal -> Driver \cup {None}]
    /\ pc \in [Driver -> PC]
    /\ goal \in [Driver -> Goal \cup {None}]
    /\ unit \in [Driver -> Unit \cup {None}]

\* Wherever a step leaves its driver, the drivers keep their types.
LEMMA DriverMoves ==
  ASSUME TypeOK, NEW d \in Driver
  PROVE  /\ DriverEnds(d) => DriversOK'
         /\ DriverContinues(d) => DriversOK'
         /\ DriverGoesOn(d) => DriversOK'
         /\ \A next \in PC : DriverAt(d, next) => DriversOK'
<1>. USE DEF TypeOK, DriversOK, PC
<1>1. ASSUME DriverEnds(d)
      PROVE  DriversOK'
  <2>1. pc' \in [Driver -> PC]
    BY <1>1 DEF DriverEnds
  <2>2. goal' \in [Driver -> Goal \cup {None}]
    BY <1>1 DEF DriverEnds
  <2>3. unit' \in [Driver -> Unit \cup {None}]
    BY <1>1 DEF DriverEnds
  <2>4. lease' \in [Goal -> Driver \cup {None}]
    <3>1. CASE goal[d] \in Goal
      BY <1>1, <3>1 DEF DriverEnds
    <3>2. CASE goal[d] \notin Goal
      BY <1>1, <3>2 DEF DriverEnds
    <3>. QED  BY <3>1, <3>2
  <2>. QED  BY <2>1, <2>2, <2>3, <2>4
<1>2. DriverContinues(d) => DriversOK'
  BY <1>1 DEF DriverContinues
<1>3. DriverGoesOn(d) => DriversOK'
  BY <1>1, <1>2 DEF DriverGoesOn
<1>4. \A next \in PC : DriverAt(d, next) => DriversOK'
  BY DEF DriverAt
<1>. QED  BY <1>1, <1>2, <1>3, <1>4

UnitPC == {"running", "reserved", "committed", "stale", "failed"}

\* A busy driver has a goal, and exactly the drivers that run a unit have one,
\* of their goal.
PositionOK ==
    \A d \in Driver :
        /\ pc[d] # "idle" => goal[d] \in Goal
        /\ unit[d] # None <=> pc[d] \in UnitPC
        /\ unit[d] # None => GoalOf[unit[d].task] = goal[d]

TypeInv == TypeOK /\ PositionOK

\* Wherever a step leaves its driver, every driver's position is consistent.
LEMMA DriverMovesPosition ==
  ASSUME TypeInv, NEW d \in Driver
  PROVE  /\ DriverEnds(d) => PositionOK'
         /\ pc[d] # "idle" /\ DriverContinues(d) => PositionOK'
         /\ pc[d] # "idle" /\ DriverGoesOn(d) => PositionOK'
         /\ \A next \in PC :
               /\ pc[d] # "idle" /\ next # "idle"
               /\ next \in UnitPC <=> pc[d] \in UnitPC
               /\ DriverAt(d, next)
               => PositionOK'
<1>. USE DEF TypeInv, TypeOK, PositionOK, PC, UnitPC
<1>1. DriverEnds(d) => PositionOK'
  BY DEF DriverEnds
<1>2. pc[d] # "idle" /\ DriverContinues(d) => PositionOK'
  BY <1>1 DEF DriverContinues
<1>3. pc[d] # "idle" /\ DriverGoesOn(d) => PositionOK'
  BY <1>1, <1>2 DEF DriverGoesOn
<1>4. ASSUME NEW next \in PC, pc[d] # "idle", next # "idle",
             next \in UnitPC <=> pc[d] \in UnitPC, DriverAt(d, next)
      PROVE  PositionOK'
  BY <1>4 DEF DriverAt
<1>. QED  BY <1>1, <1>2, <1>3, <1>4

\* The task that action_for_goal selects is one of the goal's, and not settled.
LEMMA SelectedTask ==
  ASSUME NEW g, Action(g).kind = "task", NEW t \in Action(g).tasks
  PROVE  t \in Task /\ GoalOf[t] = g /\ task[t].status \notin Terminal
  BY DEF Action, ActionForGoal, Earliest, NonTerminal, TasksOf, taskStatus

\* The initial state has the types.
LEMMA InitType == Init => TypeInv
  BY ConstantsAssumption
  DEF Init, TypeOK, PlanRecord, PlanStatus, ReplanStage, Status, Reservation,
      Free, TaskRecord, PC, TypeInv, PositionOK, UnitPC

\* A block keeps the types of the blocks and of the plan.
LEMMA OpenBlockType ==
  ASSUME TypeOK, NEW g, NEW kind \in BlockKind, NEW t \in Task \cup {None},
         OpenBlock(g, kind, t)
  PROVE  block' \in [Goal -> BlockRecord \cup {None}] /\ plan' \in PlanRecord
<1>1. block' \in [Goal -> BlockRecord \cup {None}]
  BY DEF OpenBlock, TypeOK, BlockRecord
<1>2. plan' \in PlanRecord
  <2>1. Recompute(plan, goalStatus, block') \in PlanRecord
    BY PlanOperators DEF TypeOK
  <2>. QED  BY <2>1, PlanOperators DEF OpenBlock
<1>. QED  BY <1>1, <1>2

\* What a reclaim leaves of a ledger is as long, and grows by one attempt.
LEMMA LedgerGrows ==
  ASSUME TypeOK, NEW t \in Task
  PROVE  /\ Append(Reclaimed(t), "running") \in Seq(AttemptStatus)
         /\ Len(Append(Reclaimed(t), "running")) = Len(ledger[t]) + 1
         /\ \A n \in 1..Len(ledger[t]) :
              Append(Reclaimed(t), "running")[n] = Reclaimed(t)[n]
         /\ Append(Reclaimed(t), "running")[Len(ledger[t]) + 1] = "running"
<1>1. Len(ledger[t]) \in Nat /\ DOMAIN ledger[t] = 1..Len(ledger[t])
  BY DEF TypeOK
<1>2. ledger[t] \in [1..Len(ledger[t]) -> AttemptStatus]
  BY <1>1 DEF TypeOK
<1>3. Reclaimed(t) \in [1..Len(ledger[t]) -> AttemptStatus]
  BY <1>1, <1>2 DEF Reclaimed, AttemptStatus
<1>4. Reclaimed(t) \in Seq(AttemptStatus) /\ Len(Reclaimed(t)) = Len(ledger[t])
  BY <1>1, <1>3
<1>. QED  BY <1>1, <1>4 DEF AttemptStatus

\* The first transaction that starts a unit keeps the types.
LEMMA StartUnitType ==
  ASSUME TypeInv, NEW d \in Driver, StartUnit(d)
  PROVE  TypeInv'
<1>1. PICK t \in Action(goal[d]).tasks : StartTask(d, t)
  BY DEF StartUnit
<1>2. pc[d] = "ready" /\ Action(goal[d]).kind = "task"
  BY DEF StartUnit, Handles
<1>3. t \in Task /\ GoalOf[t] = goal[d]
  BY <1>1, <1>2, SelectedTask
<1>4. ledger' \in [Task -> Seq(AttemptStatus)]
  BY <1>1, <1>3, LedgerGrows DEF StartTask, TypeInv, TypeOK
<1>5. task' \in [Task -> TaskRecord]
  <2>1. task[t] \in TaskRecord
    BY <1>3 DEF TypeInv, TypeOK
  <2>2. Started(task[t]) \in TaskRecord
    BY <2>1, TaskOperators
  <2>. QED  BY <1>1, <1>3, <2>2 DEF StartTask, TypeInv, TypeOK
<1>6. unit' \in [Driver -> Unit \cup {None}] /\ unit'[d] \in Unit /\ unit'[d].task = t
  <2>1. task[t].attempt \in Nat /\ task[t].cycleAttempt \in Nat /\ task[t].revision \in Nat
    BY <1>3 DEF TypeInv, TypeOK, TaskRecord
  <2>2. Len(ledger[t]) \in Nat
    BY <1>3 DEF TypeInv, TypeOK
  <2>3. RoleFor(t) \in {"test_author", "implementer"}
    BY DEF RoleFor
  <2>4. NextUnit(t) \in Unit /\ NextUnit(t).task = t
    BY <1>3, <2>1, <2>2, <2>3 DEF Unit, NextUnit
  <2>. QED  BY <1>1, <2>4 DEF StartTask, TypeInv, TypeOK
<1>7. goalStatus' \in [Goal -> Status]
  BY <1>1 DEF StartTask, TypeInv, TypeOK, Status
<1>8. reservation' \in [Goal -> Reservation]
  BY <1>1, ReservationOperators DEF StartTask, TypeInv
<1>9. plan' \in PlanRecord
  BY <1>1, PlanOperators DEF StartTask, TypeInv, TypeOK
<1>10. TypeOK'
  BY <1>1, <1>4, <1>5, <1>6, <1>7, <1>8, <1>9
  DEF StartTask, TypeInv, TypeOK, PC, git, artifacts, bounds
<1>11. PositionOK'
  BY <1>1, <1>2, <1>3, <1>6, NoneAssumption
  DEF StartTask, TypeInv, TypeOK, PositionOK, PC, UnitPC
<1>. QED  BY <1>10, <1>11 DEF TypeInv

\* Claiming a goal and the first transaction of a step keep the types.
LEMMA HandleType ==
  ASSUME TypeInv, NEW d \in Driver,
         Scan(d) \/ Claim(d) \/ Handle(d)
  PROVE  TypeInv'
<1>1. CASE Scan(d)
  BY <1>1 DEF Scan, TypeInv, TypeOK, PositionOK, PC, UnitPC,
              aggregate, git, artifacts, bounds
<1>2. CASE Claim(d)
  <2>1. pc' \in [Driver -> PC] /\ goal' \in [Driver -> Goal \cup {None}] /\ UNCHANGED unit
    BY <1>2 DEF Claim, TypeInv, TypeOK, PC
  <2>2. lease' \in [Goal -> Driver \cup {None}]
    BY <1>2 DEF Claim, TypeInv, TypeOK
  <2>3. TypeOK'
    BY <1>2, <2>1, <2>2 DEF Claim, TypeInv, TypeOK, aggregate, git, artifacts, bounds
  <2>4. PositionOK'
    BY <1>2 DEF Claim, TypeInv, TypeOK, PositionOK, PC, UnitPC
  <2>. QED  BY <2>3, <2>4 DEF TypeInv
<1>3. CASE HandleStops(d)
  BY <1>3, DriverMoves, DriverMovesPosition
  DEF HandleStops, TypeInv, TypeOK, DriversOK, aggregate, git, artifacts, bounds
<1>4. CASE StartUnit(d)
  BY <1>4, StartUnitType
<1>5. CASE CircuitBlocks(d)
  <2>1. PICK t \in Task : OpenBlock(goal[d], "provider_capacity", t)
    BY <1>5, SelectedTask DEF CircuitBlocks, Handles
  <2>2. block' \in [Goal -> BlockRecord \cup {None}] /\ plan' \in PlanRecord
    BY <2>1, OpenBlockType DEF TypeInv, BlockKind
  <2>. QED  BY <1>5, <2>2, DriverMoves, DriverMovesPosition
            DEF CircuitBlocks, TypeInv, TypeOK, DriversOK, git, artifacts, bounds
<1>6. CASE ReservePromotion(d)
  <2>1. plan' \in PlanRecord
    BY <1>6, PlanOperators DEF ReservePromotion, TypeInv, TypeOK
  <2>2. reservation' \in [Goal -> Reservation]
    BY <1>6 DEF ReservePromotion, TypeInv, TypeOK, Reservation
  <2>3. DriversOK' /\ PositionOK'
    BY <1>6, DriverMoves, DriverMovesPosition
    DEF ReservePromotion, Handles, TypeInv, PC, UnitPC
  <2>. QED  BY <1>6, <2>1, <2>2, <2>3
            DEF ReservePromotion, TypeInv, TypeOK, DriversOK, git, artifacts, bounds
<1>7. CASE BlockUnpromotable(d)
  <2>1. PICK t \in Task : OpenBlock(goal[d], "not_retryable", t)
    BY <1>7 DEF BlockUnpromotable, TasksOf
  <2>2. block' \in [Goal -> BlockRecord \cup {None}] /\ plan' \in PlanRecord
    BY <2>1, OpenBlockType DEF TypeInv, BlockKind
  <2>. QED  BY <1>7, <2>2, DriverMoves, DriverMovesPosition
            DEF BlockUnpromotable, TypeInv, TypeOK, DriversOK, git, artifacts, bounds
<1>8. CASE BlockFailedGoal(d)
  <2>1. PICK t \in Task : OpenBlock(goal[d], "execution_failure", t)
    BY <1>8 DEF BlockFailedGoal, TasksOf
  <2>2. block' \in [Goal -> BlockRecord \cup {None}] /\ plan' \in PlanRecord
    BY <2>1, OpenBlockType DEF TypeInv, BlockKind
  <2>. QED  BY <1>8, <2>2, DriverMoves, DriverMovesPosition
            DEF BlockFailedGoal, TypeInv, TypeOK, DriversOK, git, artifacts, bounds
<1>9. CASE HandleRaises(d)
  BY <1>9, DriverMoves, DriverMovesPosition
  DEF HandleRaises, Raises, Escapes, TypeInv, TypeOK, DriversOK, aggregate, git, artifacts, bounds
<1>. QED  BY <1>1, <1>2, <1>3, <1>4, <1>5, <1>6, <1>7, <1>8, <1>9 DEF Handle

\* The ledger keeps its type when an attempt is closed.
LEMMA FinishType ==
  ASSUME TypeInv, NEW d \in Driver, unit[d] # None, NEW outcome \in AttemptStatus,
         CanFinish(unit[d], outcome), Finish(unit[d], outcome)
  PROVE  /\ unit[d] \in Unit /\ unit[d].task \in Task
         /\ ledger' \in [Task -> Seq(AttemptStatus)]
<1>1. unit[d] \in Unit /\ unit[d].task \in Task
  BY DEF TypeInv, TypeOK, Unit
<1>2. ledger[unit[d].task] \in Seq(AttemptStatus)
  BY <1>1 DEF TypeInv, TypeOK
<1>3. [ledger[unit[d].task] EXCEPT ![unit[d].number] = outcome] \in Seq(AttemptStatus)
  <2>. DEFINE s == ledger[unit[d].task]
  <2>1. Len(s) \in Nat /\ s \in [1..Len(s) -> AttemptStatus]
    BY <1>2
  <2>. HIDE DEF s
  <2>2. [s EXCEPT ![unit[d].number] = outcome] \in [1..Len(s) -> AttemptStatus]
    BY <2>1
  <2>3. [s EXCEPT ![unit[d].number] = outcome] \in Seq(AttemptStatus)
    BY <2>1, <2>2
  <2>. QED  BY <2>3 DEF s
<1>. QED  BY <1>1, <1>3 DEF Finish, TypeInv, TypeOK

\* A unit that is reserved, refused, committed or finalized keeps the types.
LEMMA RunUnitType ==
  ASSUME TypeInv, NEW d \in Driver, RunUnit(d)
  PROVE  TypeInv'
<1>. DEFINE u == unit[d]
<1>1. pc[d] \in UnitPC /\ u \in Unit /\ u.task \in Task /\ u # None /\ pc[d] # "idle"
  <2>1. pc[d] \in UnitPC
    BY DEF RunUnit, ReserveCandidate, ReserveRefused, ReserveRaises, AbandonStale,
           CommitCandidate, FinalizeTestAuthor, FinalizeImplementation, FinalizeLost,
           FinalizeRaises, MayFinalize, FailLate, FinalizeFailure, FailureRaises, UnitPC
  <2>. QED  BY <2>1, NoneAssumption DEF TypeInv, TypeOK, PositionOK, UnitPC, Unit
<1>2. task[u.task] \in TaskRecord /\ u.revision \in Nat /\ u.number \in Nat
  BY <1>1 DEF TypeInv, TypeOK, Unit
<1>3. Mine(u) \in Reservation
  BY <1>1, <1>2 DEF Mine, Attempt, Reservation
<1>4. Saved(plan) \in PlanRecord /\ Saved(SettleRequestedPause(plan)) \in PlanRecord
  BY PlanOperators DEF TypeInv, TypeOK
<1>5. /\ Released(goal[d], Mine(u)) \in [Goal -> Reservation]
      /\ [reservation EXCEPT ![goal[d]] = Free] \in [Goal -> Reservation]
      /\ [reservation EXCEPT ![goal[d]] = Mine(u)] \in [Goal -> Reservation]
  BY <1>3, ReservationOperators DEF TypeInv, TypeOK, Reservation, Free
<1>6. CASE ReserveCandidate(d)
  <2>1. DriversOK' /\ PositionOK'
    BY <1>1, <1>6, DriverMoves, DriverMovesPosition DEF ReserveCandidate, PC, UnitPC, TypeInv
  <2>. QED  BY <1>4, <1>5, <1>6, <2>1
            DEF ReserveCandidate, TypeInv, TypeOK, DriversOK, git, artifacts, bounds
<1>7. CASE ReserveRefused(d)
  <2>1. DriversOK' /\ PositionOK'
    BY <1>1, <1>7, DriverMoves, DriverMovesPosition DEF ReserveRefused, PC, UnitPC, TypeInv
  <2>. QED  BY <1>7, <2>1
            DEF ReserveRefused, TypeInv, TypeOK, DriversOK, aggregate, git, artifacts, bounds
<1>8. CASE ReserveRaises(d) \/ FinalizeRaises(d) \/ FailureRaises(d)
  BY <1>8, DriverMoves, DriverMovesPosition
  DEF ReserveRaises, FinalizeRaises, FailureRaises, Raises, Escapes,
      TypeInv, TypeOK, DriversOK, aggregate, git, artifacts, bounds
<1>9. CASE AbandonStale(d)
  <2>1. ledger' \in [Task -> Seq(AttemptStatus)]
    BY <1>1, <1>9, FinishType DEF AbandonStale, AttemptStatus
  <2>2. task' \in [Task -> TaskRecord] /\ plan' \in PlanRecord
    BY <1>1, <1>2, <1>4, <1>9, TaskOperators DEF AbandonStale, TypeInv, TypeOK
  <2>3. DriversOK' /\ PositionOK'
    BY <1>9, DriverMoves, DriverMovesPosition DEF AbandonStale, TypeInv
  <2>. QED  BY <1>9, <2>1, <2>2, <2>3
            DEF AbandonStale, TypeInv, TypeOK, DriversOK, git, artifacts, bounds
<1>10. CASE CommitCandidate(d)
  <2>1. DriversOK' /\ PositionOK'
    BY <1>1, <1>10, DriverMoves, DriverMovesPosition DEF CommitCandidate, PC, UnitPC, TypeInv
  <2>2. candidates' \subseteq Task \X Nat
    BY <1>1, <1>2, <1>10 DEF CommitCandidate, TypeInv, TypeOK
  <2>. QED  BY <1>10, <2>1, <2>2
            DEF CommitCandidate, TypeInv, TypeOK, DriversOK, aggregate, artifacts, bounds
<1>11. CASE FinalizeTestAuthor(d)
  <2>1. ledger' \in [Task -> Seq(AttemptStatus)]
    BY <1>1, <1>11, FinishType DEF FinalizeTestAuthor, AttemptStatus
  <2>2. Requeued(task[u.task], FALSE) \in TaskRecord
    BY <1>2, TaskOperators
  <2>3. [Requeued(task[u.task], FALSE) EXCEPT !.bundle = u.revision, !.evidence = 0]
          \in TaskRecord
    BY <1>2, <2>2 DEF TaskRecord
  <2>4. task' \in [Task -> TaskRecord]
    BY <1>1, <1>11, <2>3 DEF FinalizeTestAuthor, TypeInv, TypeOK
  <2>5. DriversOK' /\ PositionOK'
    BY <1>1, <1>11, DriverMoves, DriverMovesPosition DEF FinalizeTestAuthor, TypeInv
  <2>. QED  BY <1>4, <1>5, <1>11, <2>1, <2>4, <2>5
            DEF FinalizeTestAuthor, TypeInv, TypeOK, DriversOK, git, artifacts, bounds
<1>12. CASE FinalizeImplementation(d)
  <2>1. ledger' \in [Task -> Seq(AttemptStatus)]
    BY <1>1, <1>12, FinishType DEF FinalizeImplementation, AttemptStatus
  <2>2. [task[u.task] EXCEPT !.status = "done", !.evidence = u.revision] \in TaskRecord
    BY <1>2 DEF TaskRecord, Status
  <2>3. task' \in [Task -> TaskRecord]
    BY <1>1, <1>12, <2>2 DEF FinalizeImplementation, TypeInv, TypeOK
  <2>4. DriversOK' /\ PositionOK'
    BY <1>1, <1>12, DriverMoves, DriverMovesPosition DEF FinalizeImplementation, TypeInv
  <2>. QED  BY <1>4, <1>5, <1>12, <2>1, <2>3, <2>4
            DEF FinalizeImplementation, TypeInv, TypeOK, DriversOK, git, artifacts, bounds
<1>13. CASE FinalizeLost(d)
  <2>1. ledger' \in [Task -> Seq(AttemptStatus)]
    BY <1>1, <1>13, FinishType DEF FinalizeLost, AttemptStatus
  <2>2. plan' \in PlanRecord /\ reservation' \in [Goal -> Reservation]
    BY <1>4, <1>5, <1>13 DEF FinalizeLost, TypeInv, TypeOK
  <2>3. DriversOK' /\ PositionOK'
    BY <1>13, DriverMoves, DriverMovesPosition DEF FinalizeLost, TypeInv
  <2>. QED  BY <1>13, <2>1, <2>2, <2>3
            DEF FinalizeLost, TypeInv, TypeOK, DriversOK, git, artifacts, bounds
<1>14. CASE FailLate(d)
  <2>1. ledger' \in [Task -> Seq(AttemptStatus)]
    BY <1>1, <1>14, FinishType DEF FailLate, AttemptStatus
  <2>2. /\ task' \in [Task -> TaskRecord] /\ plan' \in PlanRecord
        /\ reservation' \in [Goal -> Reservation]
    <3>1. task' \in [Task -> TaskRecord]
      BY <1>1, <1>2, <1>14, TaskOperators DEF FailLate, TypeInv, TypeOK
    <3>2. plan' \in PlanRecord
      BY <1>4, <1>14 DEF FailLate, TypeInv, TypeOK
    <3>3. reservation' \in [Goal -> Reservation]
      BY <1>5, <1>14 DEF FailLate, TypeInv, TypeOK
    <3>. QED  BY <3>1, <3>2, <3>3
  <2>3. DriversOK' /\ PositionOK'
    BY <1>14, DriverMoves, DriverMovesPosition DEF FailLate, TypeInv
  <2>. QED  BY <1>14, <2>1, <2>2, <2>3
            DEF FailLate, TypeInv, TypeOK, DriversOK, git, artifacts, bounds
<1>15. CASE FinalizeFailure(d)
  <2>1. PICK kind \in FailureKinds : FailRetry(d, kind) \/ FailRepair(d, kind) \/ FailTerminally(d, kind)
    BY <1>15 DEF FinalizeFailure
  <2>2. ledger' \in [Task -> Seq(AttemptStatus)] /\ reservation' \in [Goal -> Reservation]
    BY <1>1, <1>5, <2>1, FinishType
    DEF FailRetry, FailRepair, FailTerminally, AttemptStatus
  <2>3. task' \in [Task -> TaskRecord]
    <3>1. ASSUME NEW wait \in BOOLEAN
          PROVE  Requeued(task[u.task], wait) \in TaskRecord
      BY <1>2, TaskOperators
    <3>2. Amended(task[u.task]) \in TaskRecord
      BY <1>2, TaskOperators
    <3>3. [task[u.task] EXCEPT !.status = "failed"] \in TaskRecord
      BY <1>2 DEF TaskRecord, Status
    <3>. QED  BY <1>1, <2>1, <3>1, <3>2, <3>3
              DEF FailRetry, FailRepair, FailTerminally, TypeInv, TypeOK
  <2>4. /\ plan' \in PlanRecord /\ block' \in [Goal -> BlockRecord \cup {None}]
        /\ circuit' \in {"closed", "latched"} /\ repairs' \in [Task -> Nat]
    <3>1. CASE FailTerminally(d, kind)
      <4>1. PICK b \in BlockKind : OpenBlock(goal[d], b, u.task)
        BY <3>1 DEF FailTerminally, BlockKind
      <4>. QED  BY <1>1, <3>1, <4>1, OpenBlockType DEF FailTerminally, TypeInv, TypeOK
    <3>2. CASE FailRetry(d, kind) \/ FailRepair(d, kind)
      BY <1>1, <1>4, <3>2 DEF FailRetry, FailRepair, TypeInv, TypeOK
    <3>. QED  BY <2>1, <3>1, <3>2
  <2>5. DriversOK' /\ PositionOK'
    BY <1>1, <2>1, DriverMoves, DriverMovesPosition
    DEF FailRetry, FailRepair, FailTerminally, TypeInv
  <2>. QED  BY <1>15, <2>2, <2>3, <2>4, <2>5
            DEF FinalizeFailure, TypeInv, TypeOK, DriversOK, git, bounds
<1>. QED  BY <1>6, <1>7, <1>8, <1>9, <1>10, <1>11, <1>12, <1>13, <1>14, <1>15 DEF RunUnit

\* The steps of a promotion keep the types.
LEMMA PromoteType ==
  ASSUME TypeInv, NEW d \in Driver, Promote(d)
  PROVE  TypeInv'
<1>1. pc[d] \in {"merging", "merged", "unmerged"} /\ goal[d] \in Goal
  <2>1. pc[d] \in {"merging", "merged", "unmerged"}
    BY DEF Promote, MergeGoal, CompleteGoal, PromotionLost, PromotionRaises,
           RetryMerge, BlockPromotion
  <2>. QED  BY <2>1 DEF TypeInv, PositionOK
<1>2. /\ [reservation EXCEPT ![goal[d]] = Free] \in [Goal -> Reservation]
      /\ Saved(plan) \in PlanRecord
  BY PlanOperators DEF TypeInv, TypeOK, Reservation, Free
<1>3. CASE MergeGoal(d)
  <2>1. DriversOK' /\ PositionOK'
    BY <1>1, <1>3, DriverMoves, DriverMovesPosition DEF MergeGoal, PC, UnitPC, TypeInv
  <2>. QED  BY <1>1, <1>3, <2>1
            DEF MergeGoal, TypeInv, TypeOK, DriversOK, aggregate, artifacts, bounds
<1>4. CASE CompleteGoal(d)
  <2>1. plan' \in PlanRecord
    <3>1. Recompute(plan, goalStatus', block) \in PlanRecord
      BY PlanOperators DEF TypeInv, TypeOK
    <3>. QED  BY <1>4, <3>1, PlanOperators DEF CompleteGoal
  <2>2. goalStatus' \in [Goal -> Status]
    BY <1>4 DEF CompleteGoal, TypeInv, TypeOK, Status
  <2>3. DriversOK' /\ PositionOK'
    BY <1>1, <1>4, DriverMoves, DriverMovesPosition DEF CompleteGoal, TypeInv
  <2>. QED  BY <1>2, <1>4, <2>1, <2>2, <2>3
            DEF CompleteGoal, TypeInv, TypeOK, DriversOK, git, artifacts, bounds
<1>5. CASE PromotionLost(d)
  BY <1>5, DriverMoves, DriverMovesPosition
  DEF PromotionLost, TypeInv, TypeOK, DriversOK, aggregate, git, artifacts, bounds
<1>6. CASE PromotionRaises(d)
  BY <1>6, DriverMoves, DriverMovesPosition
  DEF PromotionRaises, Raises, Escapes, TypeInv, TypeOK, DriversOK, aggregate, git, artifacts, bounds
<1>7. CASE RetryMerge(d)
  <2>1. retries' \in [Goal -> Nat]
    BY <1>1, <1>7 DEF RetryMerge, TypeInv, TypeOK
  <2>. QED  BY <1>2, <1>7, <2>1, DriverMoves, DriverMovesPosition
            DEF RetryMerge, TypeInv, TypeOK, DriversOK, git, bounds
<1>8. CASE BlockPromotion(d)
  <2>1. block' \in [Goal -> BlockRecord \cup {None}] /\ plan' \in PlanRecord
    BY <1>8, OpenBlockType DEF BlockPromotion, TypeInv, BlockKind
  <2>. QED  BY <1>2, <1>8, <2>1, DriverMoves, DriverMovesPosition
            DEF BlockPromotion, TypeInv, TypeOK, DriversOK, git, artifacts, bounds
<1>. QED  BY <1>3, <1>4, <1>5, <1>6, <1>7, <1>8 DEF Promote

\* Faults keep the types.
LEMMA FaultType ==
  ASSUME TypeInv, FaultStep
  PROVE  TypeInv'
<1>1. ASSUME NEW kind, Fault(kind)
      PROVE  faults' \in Nat /\ commands' \in Nat
  BY <1>1 DEF Fault, TypeInv, TypeOK
<1>2. ASSUME NEW d \in Driver, AgentFails(d) \/ MergeFails(d) \/ ReserveGivesUp(d)
      PROVE  TypeInv'
  <2>1. DriversOK' /\ PositionOK'
    BY <1>2, DriverMoves, DriverMovesPosition DEF AgentFails, MergeFails, ReserveGivesUp, PC, UnitPC,
                                                     TypeInv
  <2>. QED  BY <1>1, <1>2, <2>1
            DEF AgentFails, MergeFails, ReserveGivesUp, TypeInv, TypeOK, DriversOK, aggregate, git,
                artifacts
<1>3. ASSUME NEW d \in Driver, GitFails(d) \/ Contends(d)
      PROVE  TypeInv'
  BY <1>1, <1>3, DriverMoves, DriverMovesPosition
  DEF GitFails, Contends, Escapes, TypeInv, TypeOK, DriversOK, aggregate, git, artifacts
<1>4. ASSUME NEW d \in Driver, Crash(d)
      PROVE  TypeInv'
  <2>1. TypeOK'
    BY <1>1, <1>4 DEF Crash, TypeInv, TypeOK, PC, aggregate, git, artifacts
  <2>2. PositionOK'
    BY <1>4 DEF Crash, TypeInv, TypeOK, PositionOK, UnitPC
  <2>. QED  BY <2>1, <2>2 DEF TypeInv
<1>5. ASSUME NEW d \in Driver, LeaseExpires(d)
      PROVE  TypeInv'
  <2>1. TypeOK'
    BY <1>1, <1>5 DEF LeaseExpires, TypeInv, TypeOK, aggregate, driving, git, artifacts
  <2>2. PositionOK'
    BY <1>5 DEF LeaseExpires, TypeInv, PositionOK, driving
  <2>. QED  BY <2>1, <2>2 DEF TypeInv
<1>6. ASSUME Reconcile
      PROVE  TypeInv'
  <2>1. ledger' \in [Task -> Seq(AttemptStatus)]
    <3>1. ASSUME NEW t \in Task
          PROVE  [n \in DOMAIN ledger[t] |->
                    IF ledger[t][n] = "running" /\ lease[GoalOf[t]] = None
                      THEN "abandoned" ELSE ledger[t][n]] \in Seq(AttemptStatus)
      <4>1. Len(ledger[t]) \in Nat /\ DOMAIN ledger[t] = 1..Len(ledger[t])
        BY DEF TypeInv, TypeOK
      <4>2. ledger[t] \in [1..Len(ledger[t]) -> AttemptStatus]
        BY <4>1 DEF TypeInv, TypeOK
      <4>3. [n \in DOMAIN ledger[t] |->
               IF ledger[t][n] = "running" /\ lease[GoalOf[t]] = None
                 THEN "abandoned" ELSE ledger[t][n]] \in [1..Len(ledger[t]) -> AttemptStatus]
        BY <4>1, <4>2 DEF AttemptStatus
      <4>. QED  BY <4>1, <4>3
    <3>. QED  BY <1>6, <3>1 DEF Reconcile
  <2>2. TypeOK'
    BY <1>1, <1>6, <2>1 DEF Reconcile, TypeInv, TypeOK, aggregate, driving, git, artifacts
  <2>3. PositionOK'
    BY <1>6 DEF Reconcile, TypeInv, PositionOK, driving
  <2>. QED  BY <2>2, <2>3 DEF TypeInv
<1>. QED  BY <1>2, <1>3, <1>4, <1>5, <1>6 DEF FaultStep

\* The operator's commands keep the types.
LEMMA CommandType ==
  ASSUME TypeInv, CommandStep
  PROVE  TypeInv'
<1>1. ASSUME NEW kind, Command(kind)
      PROVE  faults' \in Nat /\ commands' \in Nat
  BY <1>1 DEF Command, TypeInv, TypeOK
<1>2. UNCHANGED <<lease, driving>> => DriversOK' /\ PositionOK'
  BY DEF driving, DriversOK, PositionOK, TypeInv, TypeOK
<1>3. CASE RequestPause
  <2>1. [plan EXCEPT !.pauseRequested = TRUE] \in PlanRecord
    BY DEF TypeInv, TypeOK, PlanRecord
  <2>2. plan' \in PlanRecord
    BY <1>3, <2>1, PlanOperators DEF RequestPause, TypeInv, TypeOK
  <2>. QED  BY <1>1, <1>2, <1>3, <2>2
            DEF RequestPause, TypeInv, TypeOK, DriversOK, git, artifacts
<1>4. CASE Resume
  <2>1. [plan EXCEPT !.paused = FALSE, !.pauseRequested = FALSE, !.status = "running"]
          \in PlanRecord
    BY DEF TypeInv, TypeOK, PlanRecord, PlanStatus
  <2>2. plan' \in PlanRecord
    BY <1>4, <2>1, PlanOperators DEF Resume
  <2>. QED  BY <1>1, <1>2, <1>4, <2>2
            DEF Resume, TypeInv, TypeOK, DriversOK, git, artifacts
<1>5. ASSUME NEW t \in Task, RetryTask(t)
      PROVE  TypeInv'
  <2>1. Retried(task[t]) \in TaskRecord
    BY TaskOperators DEF TypeInv, TypeOK
  <2>2. task' \in [Task -> TaskRecord]
    BY <1>5, <2>1 DEF RetryTask, TypeInv, TypeOK
  <2>3. block' \in [Goal -> BlockRecord \cup {None}] /\ circuit' \in {"closed", "latched"}
    BY <1>5 DEF RetryTask, TypeInv, TypeOK
  <2>4. plan' \in PlanRecord
    <3>1. Recompute(plan, goalStatus, block') \in PlanRecord /\ plan \in PlanRecord
      BY PlanOperators DEF TypeInv, TypeOK
    <3>. QED  BY <1>5, <3>1, PlanOperators DEF RetryTask
  <2>. QED  BY <1>1, <1>2, <1>5, <2>2, <2>3, <2>4
            DEF RetryTask, TypeInv, TypeOK, DriversOK, git, artifacts
<1>6. ASSUME NEW t \in Task, EditTask(t) \/ AmendTask(t)
      PROVE  TypeInv'
  <2>1. task[t] \in TaskRecord
    BY DEF TypeInv, TypeOK
  <2>2. task' \in [Task -> TaskRecord]
    <3>1. /\ Retried(task[t]) \in TaskRecord /\ Edited(task[t]) \in TaskRecord
          /\ Amended(task[t]) \in TaskRecord
      BY <2>1, TaskOperators
    <3>2. \E rec \in TaskRecord : task' = [task EXCEPT ![t] = rec]
      BY <1>6, <3>1 DEF EditTask, AmendTask
    <3>. QED  BY <3>2 DEF TypeInv, TypeOK
  <2>3. plan' \in PlanRecord
    BY <1>6, PlanOperators DEF EditTask, AmendTask, TypeInv, TypeOK
  <2>. QED  BY <1>1, <1>2, <1>6, <2>2, <2>3
            DEF EditTask, AmendTask, TypeInv, TypeOK, DriversOK, git, artifacts
<1>7. ASSUME RequestReplan \/ ProposeIntent \/ ApproveIntent \/ SubmitDraft
               \/ ActivateCycle \/ CancelReplan
      PROVE  TypeInv'
  <2>1. plan' \in PlanRecord
    <3>. USE DEF TypeInv, TypeOK, PlanRecord, PlanStatus, ReplanStage
    <3>1. RequestReplan => plan' \in PlanRecord
      BY DEF RequestReplan
    <3>2. ActivateCycle => plan' \in PlanRecord
      BY DEF ActivateCycle
    <3>3. ProposeIntent \/ ApproveIntent \/ SubmitDraft \/ CancelReplan => plan' \in PlanRecord
      BY DEF ProposeIntent, ApproveIntent, SubmitDraft, CancelReplan
    <3>. QED  BY <1>7, <3>1, <3>2, <3>3
  <2>2. block' \in [Goal -> BlockRecord \cup {None}] /\ faults' \in Nat /\ commands' \in Nat
    BY <1>1, <1>7 DEF RequestReplan, ProposeIntent, ApproveIntent, SubmitDraft, ActivateCycle,
                      CancelReplan, TypeInv, TypeOK, bounds
  <2>3. ReplanStep
    BY <1>7 DEF RequestReplan, ProposeIntent, ApproveIntent, SubmitDraft, ActivateCycle,
                CancelReplan
  <2>. QED  BY <1>2, <2>1, <2>2, <2>3
            DEF ReplanStep, TypeInv, TypeOK, DriversOK, git, artifacts
<1>. QED  BY <1>3, <1>4, <1>5, <1>6, <1>7 DEF CommandStep

\* Every step keeps the types.
LEMMA NextType == TypeInv /\ [Next]_vars => TypeInv'
<1>. SUFFICES ASSUME TypeInv, [Next]_vars
              PROVE  TypeInv'
  OBVIOUS
<1>1. ASSUME NEW d \in Driver, Scan(d) \/ DriverStep(d)
      PROVE  TypeInv'
  BY <1>1, HandleType, RunUnitType, PromoteType DEF DriverStep
<1>2. CASE EnterReview
  <2>1. [plan EXCEPT !.review = TRUE, !.status = "waiting"] \in PlanRecord
    BY DEF TypeInv, TypeOK, PlanRecord, PlanStatus
  <2>2. plan' \in PlanRecord
    BY <1>2, <2>1, PlanOperators DEF EnterReview
  <2>. QED  BY <1>2, <2>2
            DEF EnterReview, TypeInv, TypeOK, PositionOK, driving, git, artifacts, bounds
<1>3. ASSUME NEW t \in Task, BackoffElapses(t)
      PROVE  TypeInv'
  <2>1. [task[t] EXCEPT !.backoff = FALSE] \in TaskRecord
    BY DEF TypeInv, TypeOK, TaskRecord
  <2>2. task' \in [Task -> TaskRecord]
    BY <1>3, <2>1 DEF BackoffElapses, TypeInv, TypeOK
  <2>. QED  BY <1>3, <2>2
            DEF BackoffElapses, TypeInv, TypeOK, PositionOK, driving, git, artifacts, bounds
<1>4. ASSUME NEW g \in Goal, OrphanExpires(g)
      PROVE  TypeInv'
  BY <1>4 DEF OrphanExpires, TypeInv, TypeOK, PositionOK, aggregate, driving, git, artifacts, bounds
<1>5. CASE UNCHANGED vars
  BY <1>5 DEF vars, TypeInv, TypeOK, PositionOK, aggregate, driving, git, artifacts, bounds
<1>. QED  BY <1>1, <1>2, <1>3, <1>4, <1>5, FaultType, CommandType DEF Next

\* In every reachable state the state has its types, a busy driver has a goal,
\* and a driver has a unit, of its goal, exactly while it runs one.
THEOREM ExecutionTypeOK == Spec => []TypeOK
<1>1. TypeInv => TypeOK
  BY DEF TypeInv
<1>. QED  BY <1>1, InitType, NextType, PTL DEF Spec

-----------------------------------------------------------------------------
(* The ownership of attempts                                               *)

\* Only the last attempt of a task can be open, and then the task is RUNNING or
\* was skipped under its worker.
OnlyLastOpen ==
    \A t \in Task : \A n \in DOMAIN ledger[t] : ledger[t][n] = "running" =>
        n = Len(ledger[t]) /\ task[t].status \in {"running", "skipped"}

\* The attempt a driver runs is in the ledger, open or abandoned: nobody else
\* gives it another outcome.
UnitsInLedger ==
    \A d \in Driver : unit[d] # None =>
        /\ unit[d].number \in DOMAIN ledger[unit[d].task]
        /\ ledger[unit[d].task][unit[d].number] \in {"running", "abandoned"}

\* No two drivers run the same attempt.
UnitsDistinct ==
    \A d, e \in Driver :
        /\ unit[d] # None /\ unit[e] # None
        /\ unit[d].task = unit[e].task /\ unit[d].number = unit[e].number
        => d = e

AttemptInv == OnlyLastOpen /\ UnitsInLedger /\ UnitsDistinct

-----------------------------------------------------------------------------
(* What a step does to the attempts *)

\* The status of a task stays, becomes SKIPPED, or goes back to PENDING from a
\* state without an attempt.
StatusOnward(t) ==
    \/ task'[t].status \in {task[t].status, "skipped"}
    \/ task[t].status \in {"pending", "failed"} /\ task'[t].status = "pending"

\* The ledger stays, and a driver keeps its unit or drops it.
Quiet ==
    /\ ledger' = ledger
    /\ \A e \in Driver : unit'[e] \in {unit[e], None}
    /\ \A t \in Task : StatusOnward(t)

\* A driver gives its attempt an outcome and drops its unit.
Closes(d, outcome) ==
    /\ unit[d] # None
    /\ CanFinish(unit[d], outcome) /\ Finish(unit[d], outcome)
    /\ unit' = [unit EXCEPT ![d] = None]
    /\ \A t \in Task : t # unit[d].task \/ outcome = "abandoned" => StatusOnward(t)

Outcome == {"succeeded", "failed", "abandoned"}

\* However a driver leaves its step, it drops its unit.
LEMMA UnitDropped ==
  ASSUME NEW d, DriverEnds(d) \/ DriverContinues(d) \/ DriverGoesOn(d)
  PROVE  unit' = [unit EXCEPT ![d] = None]
  BY DEF DriverGoesOn, DriverContinues, DriverEnds

\* Claiming, and the first transaction of a step when it starts no unit.
LEMMA HandleQuiet ==
  ASSUME TypeInv, NEW d \in Driver, Scan(d) \/ Claim(d) \/ Handle(d), ~StartUnit(d)
  PROVE  Quiet
<1>1. ledger' = ledger /\ task' = task
  BY DEF Scan, Claim, Handle, HandleStops, CircuitBlocks, ReservePromotion,
         BlockUnpromotable, BlockFailedGoal, HandleRaises, Raises, Escapes, aggregate
<1>2. unit' = unit \/ unit' = [unit EXCEPT ![d] = None]
  BY UnitDropped
  DEF Scan, Claim, Handle, HandleStops, CircuitBlocks, ReservePromotion,
      BlockUnpromotable, BlockFailedGoal, HandleRaises, Raises, Escapes, DriverAt
<1>. QED  BY <1>1, <1>2 DEF Quiet, StatusOnward, TypeInv, TypeOK

\* The steps of a unit close its attempt or leave the ledger.
LEMMA RunUnitClass ==
  ASSUME TypeInv, NEW d \in Driver, RunUnit(d)
  PROVE  Quiet \/ \E outcome \in Outcome : Closes(d, outcome)
<1>. DEFINE u == unit[d]
<1>1. pc[d] \in UnitPC /\ u # None
  <2>1. pc[d] \in UnitPC
    BY DEF RunUnit, ReserveCandidate, ReserveRefused, ReserveRaises, AbandonStale,
           CommitCandidate, FinalizeTestAuthor, FinalizeImplementation, FinalizeLost,
           FinalizeRaises, MayFinalize, FailLate, FinalizeFailure, FailureRaises, UnitPC
  <2>. QED  BY <2>1 DEF TypeInv, PositionOK
<1>2. u \in Unit /\ u.task \in Task /\ task \in [Task -> TaskRecord] /\ task[u.task] \in TaskRecord
  BY <1>1 DEF TypeInv, TypeOK, Unit
<1>3. CASE ReserveCandidate(d) \/ ReserveRefused(d) \/ CommitCandidate(d)
  <2>1. UNCHANGED <<ledger, task, unit>>
    BY <1>3 DEF ReserveCandidate, ReserveRefused, CommitCandidate, DriverAt, aggregate
  <2>. QED  BY <2>1 DEF Quiet, StatusOnward
<1>4. CASE ReserveRaises(d) \/ FinalizeRaises(d) \/ FailureRaises(d)
  <2>1. UNCHANGED <<ledger, task>> /\ unit' = [unit EXCEPT ![d] = None]
    BY <1>4, UnitDropped
    DEF ReserveRaises, FinalizeRaises, FailureRaises, Raises, Escapes, aggregate
  <2>. QED  BY <2>1 DEF Quiet, StatusOnward, TypeInv, TypeOK
<1>5. CASE AbandonStale(d)
  <2>1. \A t \in Task : StatusOnward(t)
    BY <1>2, <1>5, TaskOperators DEF AbandonStale, StatusOnward
  <2>. QED  BY <1>1, <1>5, <2>1, UnitDropped DEF AbandonStale, Closes, Outcome
<1>6. CASE FinalizeTestAuthor(d) \/ FinalizeImplementation(d)
  <2>1. \A t \in Task \ {u.task} : task'[t] = task[t]
    BY <1>2, <1>6 DEF FinalizeTestAuthor, FinalizeImplementation
  <2>2. unit' = [unit EXCEPT ![d] = None]
    BY <1>6, UnitDropped DEF FinalizeTestAuthor, FinalizeImplementation
  <2>3. CanFinish(u, "succeeded") /\ Finish(u, "succeeded")
    BY <1>6 DEF FinalizeTestAuthor, FinalizeImplementation
  <2>. QED  BY <1>1, <2>1, <2>2, <2>3 DEF Closes, Outcome, StatusOnward
<1>7. CASE FinalizeLost(d)
  <2>1. \A t \in Task : StatusOnward(t)
    BY <1>7 DEF FinalizeLost, StatusOnward
  <2>. QED  BY <1>1, <1>7, <2>1, UnitDropped DEF FinalizeLost, Closes, Outcome
<1>8. CASE FailLate(d)
  <2>1. task' = task \/ task' = [task EXCEPT ![u.task] = Abandoned(task[u.task])]
    BY <1>8 DEF FailLate
  <2>2. Abandoned(task[u.task]).status = "skipped"
    BY <1>2, TaskOperators
  <2>3. \A t \in Task : StatusOnward(t)
    BY <1>2, <2>1, <2>2 DEF StatusOnward
  <2>. QED  BY <1>1, <1>8, <2>3, UnitDropped DEF FailLate, Closes, Outcome
<1>9. CASE FinalizeFailure(d)
  <2>1. PICK kind \in FailureKinds :
          FailRetry(d, kind) \/ FailRepair(d, kind) \/ FailTerminally(d, kind)
    BY <1>9 DEF FinalizeFailure
  <2>2. \A t \in Task \ {u.task} : task'[t] = task[t]
    BY <1>2, <2>1 DEF FailRetry, FailRepair, FailTerminally
  <2>3. unit' = [unit EXCEPT ![d] = None]
    BY <2>1, UnitDropped DEF FailRetry, FailRepair, FailTerminally
  <2>4. CanFinish(u, "failed") /\ Finish(u, "failed")
    BY <2>1 DEF FailRetry, FailRepair, FailTerminally
  <2>. QED  BY <1>1, <2>2, <2>3, <2>4 DEF Closes, Outcome, StatusOnward
<1>. QED  BY <1>3, <1>4, <1>5, <1>6, <1>7, <1>8, <1>9 DEF RunUnit

\* The steps of a promotion touch no attempt.
LEMMA PromoteQuiet ==
  ASSUME TypeInv, NEW d \in Driver, Promote(d)
  PROVE  Quiet
<1>1. ledger' = ledger /\ task' = task
  BY DEF Promote, MergeGoal, CompleteGoal, PromotionLost, PromotionRaises, RetryMerge,
         BlockPromotion, Raises, Escapes, aggregate
<1>2. unit' = unit \/ unit' = [unit EXCEPT ![d] = None]
  BY UnitDropped
  DEF Promote, MergeGoal, CompleteGoal, PromotionLost, PromotionRaises, RetryMerge,
      BlockPromotion, Raises, Escapes, DriverAt
<1>. QED  BY <1>1, <1>2 DEF Quiet, StatusOnward, TypeInv, TypeOK

\* Every fault but a restart's reconciliation leaves the ledger.
LEMMA FaultQuiet ==
  ASSUME TypeInv, FaultStep, ~Reconcile
  PROVE  Quiet
<1>1. PICK d \in Driver : \/ AgentFails(d) \/ GitFails(d) \/ MergeFails(d) \/ ReserveGivesUp(d)
                          \/ Contends(d) \/ Crash(d) \/ LeaseExpires(d)
  BY DEF FaultStep
<1>2. ledger' = ledger /\ task' = task
  BY <1>1 DEF AgentFails, GitFails, MergeFails, ReserveGivesUp, Contends, Crash,
      LeaseExpires, Escapes, aggregate
<1>3. unit' = unit \/ unit' = [unit EXCEPT ![d] = None]
  BY <1>1, UnitDropped
  DEF AgentFails, GitFails, MergeFails, ReserveGivesUp, Contends, Crash,
      LeaseExpires, Escapes, DriverAt, driving
<1>. QED  BY <1>2, <1>3 DEF Quiet, StatusOnward, TypeInv, TypeOK

\* A command never takes a task from RUNNING, and starts nothing.
LEMMA CommandQuiet ==
  ASSUME TypeInv, CommandStep
  PROVE  Quiet
<1>1. ledger' = ledger /\ unit' = unit
  BY DEF CommandStep, RequestPause, Resume, RetryTask, EditTask, AmendTask, RequestReplan,
         ProposeIntent, ApproveIntent, SubmitDraft, ActivateCycle, CancelReplan, ReplanStep,
         driving
<1>2. \A t \in Task : StatusOnward(t)
  <2>1. ASSUME NEW t \in Task, RetryTask(t) \/ EditTask(t) \/ AmendTask(t)
        PROVE  \A s \in Task : StatusOnward(s)
    <3>1. task[t] \in TaskRecord /\ task \in [Task -> TaskRecord]
      BY DEF TypeInv, TypeOK
    <3>2. \/ task' = task
          \/ /\ task[t].status \in {"pending", "failed"}
             /\ \/ task' = [task EXCEPT ![t] = Retried(@)]
                \/ task' = [task EXCEPT ![t] = Edited(@)]
                \/ task' = [task EXCEPT ![t] = Amended(@)]
      BY <2>1 DEF RetryTask, EditTask, AmendTask, Editable
    <3>3. /\ Retried(task[t]).status = "pending"
          /\ Edited(task[t]).status = "pending"
          /\ Amended(task[t]).status = "pending"
      BY <3>1, TaskOperators
    <3>. QED  BY <3>1, <3>2, <3>3 DEF StatusOnward
  <2>2. \/ \E t \in Task : RetryTask(t) \/ EditTask(t) \/ AmendTask(t)
        \/ task' = task
    BY DEF CommandStep, RequestPause, Resume, RequestReplan, ProposeIntent, ApproveIntent,
           SubmitDraft, ActivateCycle, CancelReplan, ReplanStep
  <2>. QED  BY <2>1, <2>2 DEF StatusOnward
<1>. QED  BY <1>1, <1>2 DEF Quiet

\* Every step is quiet, closes an attempt, starts one, or reconciles.
LEMMA StepClass ==
  ASSUME TypeInv, [Next]_vars
  PROVE  \/ Quiet
         \/ \E d \in Driver :
              \/ StartUnit(d)
              \/ RunUnit(d) /\ \E outcome \in Outcome : Closes(d, outcome)
         \/ Reconcile
<1>1. ASSUME NEW d \in Driver, Scan(d) \/ DriverStep(d), ~StartUnit(d)
      PROVE  Quiet \/ (RunUnit(d) /\ \E outcome \in Outcome : Closes(d, outcome))
  BY <1>1, HandleQuiet, RunUnitClass, PromoteQuiet DEF DriverStep
<1>2. EnterReview \/ (\E g \in Goal : OrphanExpires(g)) \/ UNCHANGED vars => Quiet
  BY DEF EnterReview, OrphanExpires, vars, aggregate, driving, Quiet, StatusOnward
<1>3. ASSUME NEW t \in Task, BackoffElapses(t)
      PROVE  Quiet
  BY <1>3 DEF BackoffElapses, driving, Quiet, StatusOnward, TypeInv, TypeOK, TaskRecord
<1>. QED  BY <1>1, <1>2, <1>3, FaultQuiet, CommandQuiet DEF Next

-----------------------------------------------------------------------------
(* Every kind of step preserves the ownership of attempts *)

\* Nothing happens to an attempt.
LEMMA QuietKeeps ==
  ASSUME TypeInv, AttemptInv, Quiet
  PROVE  AttemptInv'
<1>1. OnlyLastOpen'
  BY DEF AttemptInv, OnlyLastOpen, Quiet, StatusOnward
<1>2. UnitsInLedger'
  BY DEF AttemptInv, UnitsInLedger, Quiet
<1>3. UnitsDistinct'
  BY DEF AttemptInv, UnitsDistinct, Quiet
<1>. QED  BY <1>1, <1>2, <1>3 DEF AttemptInv

\* What an outcome does to the ledger.
LEMMA FinishWrites ==
  ASSUME TypeInv, AttemptInv, NEW d \in Driver, NEW outcome \in Outcome,
         unit[d] # None, Finish(unit[d], outcome)
  PROVE  /\ unit[d].task \in Task
         /\ \A t \in Task : DOMAIN ledger'[t] = DOMAIN ledger[t] /\ Len(ledger'[t]) = Len(ledger[t])
         /\ \A t \in Task : \A n \in DOMAIN ledger[t] :
              ledger'[t][n] = IF t = unit[d].task /\ n = unit[d].number
                                THEN outcome ELSE ledger[t][n]
         /\ unit[d].number \in DOMAIN ledger[unit[d].task]
<1>1. unit[d] \in Unit /\ unit[d].task \in Task
  BY DEF TypeInv, TypeOK, Unit
<1>2. unit[d].number \in DOMAIN ledger[unit[d].task]
  BY DEF AttemptInv, UnitsInLedger
<1>3. ledger' = [ledger EXCEPT ![unit[d].task] =
                   [ledger[unit[d].task] EXCEPT ![unit[d].number] = outcome]]
  BY DEF Finish
<1>4. ledger \in [Task -> Seq(AttemptStatus)] /\ outcome \in AttemptStatus
  BY DEF TypeInv, TypeOK, Outcome, AttemptStatus
<1>. DEFINE old == ledger[unit[d].task]
            new == [old EXCEPT ![unit[d].number] = outcome]
<1>5. old \in Seq(AttemptStatus) /\ unit[d].number \in DOMAIN old
  BY <1>1, <1>2, <1>4
<1>6. ledger' = [ledger EXCEPT ![unit[d].task] = new]
  BY <1>3
<1>. HIDE DEF old, new
<1>7. /\ new \in Seq(AttemptStatus) /\ Len(new) = Len(old) /\ DOMAIN new = DOMAIN old
      /\ \A n \in DOMAIN old : new[n] = IF n = unit[d].number THEN outcome ELSE old[n]
  <2>1. Len(old) \in Nat /\ DOMAIN old = 1..Len(old) /\ old \in [1..Len(old) -> AttemptStatus]
    BY <1>5, LenProperties
  <2>2. new \in Seq(AttemptStatus) /\ Len(new) = Len(old)
    BY <1>4, <1>5, <2>1, ExceptSeq DEF new
  <2>3. DOMAIN new = 1..Len(old)
    BY <2>2, LenProperties
  <2>. QED  BY <2>1, <2>2, <2>3 DEF new
<1>. QED  BY <1>1, <1>2, <1>4, <1>6, <1>7 DEF old

\* What closing an attempt does to the ledger.
LEMMA FinishEffect ==
  ASSUME TypeInv, AttemptInv, NEW d \in Driver, NEW outcome \in Outcome, Closes(d, outcome)
  PROVE  /\ unit[d].task \in Task
         /\ \A t \in Task : DOMAIN ledger'[t] = DOMAIN ledger[t] /\ Len(ledger'[t]) = Len(ledger[t])
         /\ \A t \in Task : \A n \in DOMAIN ledger[t] :
              ledger'[t][n] = IF t = unit[d].task /\ n = unit[d].number
                                THEN outcome ELSE ledger[t][n]
         /\ unit[d].number \in DOMAIN ledger[unit[d].task]
  BY FinishWrites DEF Closes

\* The outcome of an attempt is the driver's own: no other attempt changes, and
\* the task is settled only with its last attempt closed.
LEMMA ClosesKeeps ==
  ASSUME TypeInv, AttemptInv, NEW d \in Driver, NEW outcome \in Outcome, Closes(d, outcome)
  PROVE  AttemptInv'
<1>. DEFINE u == unit[d]
<1>1. /\ u.task \in Task
      /\ \A t \in Task : DOMAIN ledger'[t] = DOMAIN ledger[t] /\ Len(ledger'[t]) = Len(ledger[t])
      /\ \A t \in Task : \A n \in DOMAIN ledger[t] :
           ledger'[t][n] = IF t = u.task /\ n = u.number THEN outcome ELSE ledger[t][n]
      /\ u.number \in DOMAIN ledger[u.task]
  BY FinishEffect
<1>2. unit \in [Driver -> Unit \cup {None}] /\ unit' = [unit EXCEPT ![d] = None] /\ u # None
  BY DEF Closes, TypeInv, TypeOK
<1>3. \A e \in Driver : unit'[e] # None => e # d /\ unit'[e] = unit[e]
  BY <1>2
<1>4. UnitsDistinct'
  BY <1>3 DEF AttemptInv, UnitsDistinct
<1>5. UnitsInLedger'
  <2>. SUFFICES ASSUME NEW e \in Driver, unit'[e] # None
                PROVE  /\ unit'[e].number \in DOMAIN ledger'[unit'[e].task]
                       /\ ledger'[unit'[e].task][unit'[e].number] \in {"running", "abandoned"}
    BY DEF UnitsInLedger
  <2>1. e # d /\ unit'[e] = unit[e] /\ unit[e] # None
    BY <1>3
  <2>2. unit[e].task \in Task
    BY <2>1 DEF TypeInv, TypeOK, Unit
  <2>3. /\ unit[e].number \in DOMAIN ledger[unit[e].task]
        /\ ledger[unit[e].task][unit[e].number] \in {"running", "abandoned"}
    BY <2>1 DEF AttemptInv, UnitsInLedger
  <2>4. ~(unit[e].task = u.task /\ unit[e].number = u.number)
    BY <1>2, <2>1 DEF AttemptInv, UnitsDistinct
  <2>. HIDE DEF u
  <2>. QED  BY <1>1, <2>1, <2>2, <2>3, <2>4
<1>6. OnlyLastOpen'
  <2>. SUFFICES ASSUME NEW t \in Task, NEW n \in DOMAIN ledger'[t], ledger'[t][n] = "running"
                PROVE  n = Len(ledger'[t]) /\ task'[t].status \in {"running", "skipped"}
    BY DEF OnlyLastOpen
  <2>. HIDE DEF u
  <2>1. n \in DOMAIN ledger[t] /\ ledger[t][n] = "running" /\ ~(t = u.task /\ n = u.number)
    BY <1>1 DEF Outcome
  <2>2. n = Len(ledger[t]) /\ task[t].status \in {"running", "skipped"}
    BY <2>1 DEF AttemptInv, OnlyLastOpen
  <2>3. n = Len(ledger'[t])
    BY <1>1, <2>2
  <2>4. CASE t # u.task \/ outcome = "abandoned"
    <3>1. StatusOnward(t)
      BY <2>4 DEF Closes, u
    <3>. QED  BY <2>2, <2>3, <3>1 DEF StatusOnward
  <2>5. CASE t = u.task /\ outcome # "abandoned"
    <3>1. ledger[t][u.number] \in {"running", outcome}
      BY <2>5 DEF Closes, CanFinish, u
    <3>2. ledger[t][u.number] \in {"running", "abandoned"}
      BY <1>2, <2>5 DEF AttemptInv, UnitsInLedger, u
    <3>3. ledger[t][u.number] = "running" /\ u.number \in DOMAIN ledger[t]
      BY <1>1, <2>5, <3>1, <3>2
    <3>4. u.number = Len(ledger[t])
      BY <3>3 DEF AttemptInv, OnlyLastOpen
    <3>. QED  BY <2>1, <2>2, <2>5, <3>4
  <2>. QED  BY <2>4, <2>5
<1>. QED  BY <1>4, <1>5, <1>6 DEF AttemptInv

\* The next attempt is the only open one of its task: the reclaim has closed the
\* others, and a task that is not RUNNING had none.
LEMMA StartsKeeps ==
  ASSUME TypeInv, AttemptInv, NEW d \in Driver, StartUnit(d)
  PROVE  AttemptInv'
<1>1. PICK t \in Action(goal[d]).tasks : StartTask(d, t)
  BY DEF StartUnit
<1>2. t \in Task /\ task[t].status \notin Terminal
  BY <1>1, SelectedTask DEF StartUnit, Handles
<1>. DEFINE next == Append(Reclaimed(t), "running")
            last == Len(ledger[t]) + 1
<1>3. /\ next \in Seq(AttemptStatus) /\ Len(next) = last
      /\ \A n \in 1..Len(ledger[t]) : next[n] = Reclaimed(t)[n]
      /\ next[last] = "running"
  BY <1>2, LedgerGrows DEF TypeInv
<1>4. /\ Len(ledger[t]) \in Nat /\ DOMAIN ledger[t] = 1..Len(ledger[t])
      /\ DOMAIN next = 1..last
  BY <1>2, <1>3 DEF TypeInv, TypeOK
<1>5. \A n \in DOMAIN ledger[t] :
        /\ next[n] # "running"
        /\ next[n] \in {ledger[t][n], "abandoned"}
  <2>. SUFFICES ASSUME NEW n \in DOMAIN ledger[t]
                PROVE  next[n] # "running" /\ next[n] \in {ledger[t][n], "abandoned"}
    OBVIOUS
  <2>1. next[n] = IF n \in StaleAttempts(t) THEN "abandoned" ELSE ledger[t][n]
    BY <1>3, <1>4 DEF Reclaimed
  <2>2. ledger[t][n] = "running" => task[t].status = "running"
    BY <1>2 DEF AttemptInv, OnlyLastOpen, Terminal
  <2>3. ledger[t][n] = "running" => n \in StaleAttempts(t)
    BY <2>2 DEF StaleAttempts, OpenAttempts
  <2>. HIDE DEF next
  <2>. QED  BY <2>1, <2>3
<1>6. ledger' = [ledger EXCEPT ![t] = next] /\ ledger \in [Task -> Seq(AttemptStatus)]
  BY <1>1 DEF StartTask, TypeInv, TypeOK
<1>7. task' = [task EXCEPT ![t] = Started(task[t])] /\ task \in [Task -> TaskRecord]
  BY <1>1 DEF StartTask, TypeInv, TypeOK
<1>8. Started(task[t]).status = "running"
  <2>1. task[t] \in TaskRecord
    BY <1>2, <1>7
  <2>. QED  BY <2>1, TaskOperators
<1>9. /\ unit' = [unit EXCEPT ![d] = NextUnit(t)]
      /\ NextUnit(t).task = t /\ NextUnit(t).number = last
      /\ unit \in [Driver -> Unit \cup {None}]
  BY <1>1 DEF StartTask, NextUnit, TypeInv, TypeOK
<1>10. ASSUME NEW e \in Driver, e # d, unit'[e] # None
       PROVE  /\ unit'[e] = unit[e] /\ unit[e].task \in Task
              /\ unit[e].number \in DOMAIN ledger[unit[e].task]
              /\ ledger[unit[e].task][unit[e].number] \in {"running", "abandoned"}
  <2>1. unit'[e] = unit[e]
    BY <1>9, <1>10
  <2>. QED  BY <1>9, <1>10, <2>1 DEF AttemptInv, UnitsInLedger, Unit
<1>. HIDE DEF next
<1>11. OnlyLastOpen'
  <2>. SUFFICES ASSUME NEW s \in Task, NEW n \in DOMAIN ledger'[s], ledger'[s][n] = "running"
                PROVE  n = Len(ledger'[s]) /\ task'[s].status \in {"running", "skipped"}
    BY DEF OnlyLastOpen
  <2>1. CASE s = t
    <3>1. ledger'[s] = next /\ task'[s] = Started(task[t])
      BY <1>2, <1>6, <1>7, <2>1
    <3>2. n \notin DOMAIN ledger[t]
      BY <1>5, <2>1, <3>1
    <3>. QED  BY <1>3, <1>4, <1>8, <3>1, <3>2
  <2>2. CASE s # t
    <3>1. ledger'[s] = ledger[s] /\ task'[s] = task[s]
      BY <1>6, <1>7, <2>2
    <3>. QED  BY <3>1 DEF AttemptInv, OnlyLastOpen
  <2>. QED  BY <2>1, <2>2
<1>12. UnitsInLedger'
  <2>. SUFFICES ASSUME NEW e \in Driver, unit'[e] # None
                PROVE  /\ unit'[e].number \in DOMAIN ledger'[unit'[e].task]
                       /\ ledger'[unit'[e].task][unit'[e].number] \in {"running", "abandoned"}
    BY DEF UnitsInLedger
  <2>1. CASE e = d
    <3>1. unit'[e].task = t /\ unit'[e].number = last /\ ledger'[t] = next
      BY <1>2, <1>6, <1>9, <2>1
    <3>. QED  BY <1>3, <1>4, <3>1
  <2>2. CASE e # d /\ unit[e].task = t
    <3>1. ledger'[unit'[e].task] = next /\ unit'[e] = unit[e]
      BY <1>2, <1>6, <1>10, <2>2
    <3>. QED  BY <1>4, <1>5, <1>10, <2>2, <3>1
  <2>3. CASE e # d /\ unit[e].task # t
    <3>1. ledger'[unit'[e].task] = ledger[unit[e].task] /\ unit'[e] = unit[e]
      BY <1>6, <1>10, <2>3
    <3>. QED  BY <1>10, <2>3, <3>1
  <2>. QED  BY <2>1, <2>2, <2>3
<1>13. UnitsDistinct'
  <2>1. ASSUME NEW e \in Driver, e # d, unit'[e] # None, unit'[e].task = t
        PROVE  unit'[e].number # last
    <3>1. unit'[e].number \in 1..Len(ledger[t])
      BY <1>4, <1>10, <2>1
    <3>. QED  BY <1>4, <3>1
  <2>2. unit'[d].task = t /\ unit'[d].number = last
    BY <1>9
  <2>3. \A e, f \in Driver \ {d} :
          /\ unit'[e] # None /\ unit'[f] # None
          /\ unit'[e].task = unit'[f].task /\ unit'[e].number = unit'[f].number
          => e = f
    BY <1>9 DEF AttemptInv, UnitsDistinct
  <2>. HIDE DEF last
  <2>. QED  BY <2>1, <2>2, <2>3 DEF UnitsDistinct
<1>. QED  BY <1>11, <1>12, <1>13 DEF AttemptInv

\* A reconciliation leaves every ledger as long as it was.
LEMMA ReconcileLength ==
  ASSUME TypeInv, Reconcile
  PROVE  \A t \in Task : Len(ledger'[t]) = Len(ledger[t])
<1>. SUFFICES ASSUME NEW t \in Task
              PROVE  Len(ledger'[t]) = Len(ledger[t])
  OBVIOUS
<1>1. ledger[t] \in Seq(AttemptStatus)
  BY DEF TypeInv, TypeOK
<1>. DEFINE new == [n \in DOMAIN ledger[t] |->
                      IF ledger[t][n] = "running" /\ lease[GoalOf[t]] = None
                        THEN "abandoned" ELSE ledger[t][n]]
<1>2. ledger'[t] = new
  BY DEF Reconcile
<1>3. Len(ledger[t]) \in Nat /\ DOMAIN ledger[t] = 1..Len(ledger[t])
      /\ \A n \in DOMAIN ledger[t] : ledger[t][n] \in AttemptStatus
  BY <1>1
<1>4. new \in [1..Len(ledger[t]) -> AttemptStatus]
  BY <1>3 DEF AttemptStatus
<1>. HIDE DEF new
<1>5. Len(new) = Len(ledger[t])
  BY <1>3, <1>4
<1>. QED  BY <1>2, <1>5

\* A reconciliation only closes attempts, and touches no task.
LEMMA ReconcileKeeps ==
  ASSUME TypeInv, AttemptInv, Reconcile
  PROVE  AttemptInv'
<1>1. /\ \A t \in Task : DOMAIN ledger'[t] = DOMAIN ledger[t]
      /\ \A t \in Task : \A n \in DOMAIN ledger[t] :
           \/ ledger'[t][n] = ledger[t][n]
           \/ ledger[t][n] = "running" /\ ledger'[t][n] = "abandoned"
      /\ task' = task /\ unit' = unit
  BY DEF Reconcile, aggregate, driving
<1>2. \A t \in Task : Len(ledger'[t]) = Len(ledger[t])
  BY ReconcileLength
<1>3. OnlyLastOpen'
  BY <1>1, <1>2 DEF AttemptInv, OnlyLastOpen
<1>4. UnitsInLedger'
  <2>1. \A e \in Driver : unit[e] # None => unit[e].task \in Task
    BY DEF TypeInv, TypeOK, Unit
  <2>. QED  BY <1>1, <2>1 DEF AttemptInv, UnitsInLedger
<1>5. UnitsDistinct'
  BY <1>1 DEF AttemptInv, UnitsDistinct
<1>. QED  BY <1>3, <1>4, <1>5 DEF AttemptInv

-----------------------------------------------------------------------------
(* The theorems *)

\* At the start nothing was attempted.
LEMMA InitAttempt == Init => AttemptInv
  BY DEF Init, AttemptInv, OnlyLastOpen, UnitsInLedger, UnitsDistinct

\* Every step preserves the ownership of attempts.
LEMMA NextAttempt == TypeInv /\ AttemptInv /\ [Next]_vars => AttemptInv'
  BY StepClass, QuietKeeps, ClosesKeeps, StartsKeeps, ReconcileKeeps

\* The ownership of attempts is an invariant of the specification.
LEMMA AttemptInvariant == Spec => [](TypeInv /\ AttemptInv)
<1>1. Init => TypeInv /\ AttemptInv
  BY InitType, InitAttempt
<1>2. TypeInv /\ AttemptInv /\ [Next]_vars => (TypeInv /\ AttemptInv)'
  BY NextType, NextAttempt
<1>. QED  BY <1>1, <1>2, PTL DEF Spec

\* A task never has two open attempts, whatever worker was lost and whoever
\* reclaimed its task (_start_unit abandons the stale attempts first).
THEOREM ExecutionSingleOpenAttempt == Spec => []SingleOpenAttempt
<1>1. TypeInv /\ AttemptInv => SingleOpenAttempt
  <2>. SUFFICES ASSUME TypeInv, AttemptInv, NEW t \in Task
                PROVE  Cardinality(OpenAttempts(t)) <= 1
    BY DEF SingleOpenAttempt
  <2>1. OpenAttempts(t) \subseteq {Len(ledger[t])}
    BY DEF OpenAttempts, AttemptInv, OnlyLastOpen
  <2>2. /\ IsFiniteSet({Len(ledger[t])})
        /\ Cardinality({Len(ledger[t])}) = 1
    BY FS_Singleton
  <2>. QED  BY <2>1, <2>2, FS_Subset
<1>. QED  BY <1>1, AttemptInvariant, PTL

\* A task that waits, failed or is done has no attempt left open, so nothing can
\* later settle it a second time (the finalizers close the attempt with the task).
THEOREM ExecutionSettled == Spec => []SettledTaskHasNoOpenAttempt
<1>1. AttemptInv => SettledTaskHasNoOpenAttempt
  BY DEF AttemptInv, OnlyLastOpen, SettledTaskHasNoOpenAttempt, OpenAttempts
<1>. QED  BY <1>1, AttemptInvariant, PTL

\* Of all the workers that believe they run a task at most one runs an open
\* attempt: a lease is no fence, the number of the attempt is.
THEOREM ExecutionOneLiveUnit == Spec => []OneLiveUnit
<1>1. TypeInv /\ AttemptInv => OneLiveUnit
  <2>. SUFFICES ASSUME TypeInv, AttemptInv, NEW d \in Driver, NEW e \in Driver,
                       unit[d] # None, unit[e] # None, unit[d].task = unit[e].task,
                       unit[d].number \in OpenAttempts(unit[d].task),
                       unit[e].number \in OpenAttempts(unit[e].task)
                PROVE  d = e
    BY DEF OneLiveUnit
  <2>1. unit[d].task \in Task
    BY DEF TypeInv, TypeOK, Unit
  <2>2. unit[d].number = unit[e].number
    BY <2>1 DEF AttemptInv, OnlyLastOpen, OpenAttempts
  <2>. QED  BY <2>2 DEF AttemptInv, UnitsDistinct
<1>. QED  BY <1>1, AttemptInvariant, PTL

\* What LedgerIsHistory says of a step.
LedgerKept ==
    \A t \in Task : \A n \in DOMAIN ledger[t] :
        /\ n \in DOMAIN ledger'[t]
        /\ ledger[t][n] # "running" => ledger'[t][n] = ledger[t][n]

\* No step rewrites a closed attempt.
LEMMA NextLedger ==
  ASSUME TypeInv, AttemptInv, [Next]_vars
  PROVE  LedgerKept
<1>. USE DEF LedgerKept
<1>1. CASE Quiet
  BY <1>1 DEF Quiet
<1>2. ASSUME NEW d \in Driver, NEW outcome \in Outcome, Closes(d, outcome)
      PROVE  LedgerKept
  <2>1. ledger[unit[d].task][unit[d].number] \in {"running", outcome}
    BY <1>2 DEF Closes, CanFinish
  <2>2. /\ \A t \in Task : DOMAIN ledger'[t] = DOMAIN ledger[t]
        /\ \A t \in Task : \A n \in DOMAIN ledger[t] :
             ledger'[t][n] = IF t = unit[d].task /\ n = unit[d].number
                               THEN outcome ELSE ledger[t][n]
    BY <1>2, FinishEffect
  <2>. QED  BY <2>1, <2>2
<1>3. ASSUME NEW d \in Driver, StartUnit(d)
      PROVE  LedgerKept
  <2>1. PICK t \in Action(goal[d]).tasks : StartTask(d, t)
    BY <1>3 DEF StartUnit
  <2>2. t \in Task
    BY <1>3, <2>1, SelectedTask DEF StartUnit, Handles
  <2>. DEFINE next == Append(Reclaimed(t), "running")
  <2>3. ledger' = [ledger EXCEPT ![t] = next] /\ ledger \in [Task -> Seq(AttemptStatus)]
    BY <2>1 DEF StartTask, TypeInv, TypeOK
  <2>4. /\ next \in Seq(AttemptStatus) /\ Len(next) = Len(ledger[t]) + 1
        /\ \A n \in 1..Len(ledger[t]) : next[n] = Reclaimed(t)[n]
    BY <2>2, LedgerGrows DEF TypeInv
  <2>5. /\ Len(ledger[t]) \in Nat /\ DOMAIN ledger[t] = 1..Len(ledger[t])
        /\ DOMAIN next = 1..(Len(ledger[t]) + 1)
    BY <2>2, <2>3, <2>4
  <2>6. \A n \in DOMAIN ledger[t] :
          /\ n \in DOMAIN next
          /\ ledger[t][n] # "running" => next[n] = ledger[t][n]
    BY <2>4, <2>5 DEF Reclaimed, StaleAttempts, OpenAttempts
  <2>. HIDE DEF next
  <2>. QED  BY <2>2, <2>3, <2>6
<1>4. CASE Reconcile
  BY <1>4 DEF Reconcile
<1>. QED  BY <1>1, <1>2, <1>3, <1>4, StepClass

\* The ledger only grows, and an outcome stays as it was given (finalize_attempt).
THEOREM ExecutionLedger == Spec => LedgerIsHistory
<1>1. TypeInv /\ AttemptInv /\ [Next]_vars => [LedgerKept]_vars
  BY NextLedger
<1>2. LedgerIsHistory <=> [][LedgerKept]_vars
  BY DEF LedgerIsHistory, LedgerKept
<1>. QED  BY <1>1, <1>2, AttemptInvariant, PTL DEF Spec
-----------------------------------------------------------------------------
(* What the execution delivers                                              *)

DoneGoals == {g \in Goal : goalStatus[g] = "done"}

\* The attempts are counted alike by the task and by the ledger.
Numbered ==
    /\ \A t \in Task : task[t].attempt = Len(ledger[t])
    /\ \A d \in Driver : unit[d] # None => unit[d].number = unit[d].attempt

\* What a driver's earlier steps left for its next one.
Prepared ==
    \A d \in Driver :
        /\ goal[d] # None => DependsOn[goal[d]] \subseteq DoneGoals
        /\ pc[d] = "committed" /\ unit[d].role = "implementer" =>
              <<unit[d].task, unit[d].number>> \in candidates
        /\ pc[d] = "merged" => goal[d] \in merges

\* DoneIsVerified, by an attempt that is in the ledger.
Verified ==
    \A t \in Task : task[t].status = "done" =>
        /\ task[t].evidence = task[t].revision
        /\ task[t].bundle = task[t].revision
        /\ task[t].attempt \in DOMAIN ledger[t]
        /\ ledger[t][task[t].attempt] = "succeeded"
        /\ <<t, task[t].attempt>> \in candidates

\* The tasks of a goal may be merged (can_promote_goal).
Accepted(g) ==
    \A t \in Task : GoalOf[t] = g => task[t].status = "done" /\ task[t].evidence # 0

\* A goal is done with its tasks, after its dependencies.
Merged ==
    \A g \in DoneGoals :
        g \in merges /\ Accepted(g) /\ DependsOn[g] \subseteq DoneGoals

\* A replan is of an active cycle, and nothing is reserved in a superseded one.
CycleOK ==
    /\ plan.replan # "none" => plan.active
    /\ ~plan.active => NoReservation
    /\ \A g \in Goal : reservation[g] = GoalToken =>
          Accepted(g) /\ goalStatus[g] \notin Terminal

DeliveryInv == Numbered /\ Prepared /\ Verified /\ Merged /\ CycleOK

-----------------------------------------------------------------------------
(* What a step does to the tasks *)

\* No task becomes done or stops being done; a done one keeps what it was
\* accepted with.
TaskOnward(t) ==
    /\ task'[t].attempt = task[t].attempt
    /\ task'[t].status = "done" <=> task[t].status = "done"
    /\ task[t].status = "done" =>
          /\ task'[t].revision = task[t].revision
          /\ task'[t].bundle = task[t].bundle
          /\ task'[t].evidence = task[t].evidence

\* A step that changes a task that is not done and does not make it done.
LEMMA TaskTouched ==
  ASSUME TypeInv, NEW t \in Task, NEW rec,
         task[t].status # "done", rec.status # "done", rec.attempt = task[t].attempt,
         task' = [task EXCEPT ![t] = rec]
  PROVE  \A s \in Task : TaskOnward(s)
<1>1. task \in [Task -> TaskRecord]
  BY DEF TypeInv, TypeOK
<1>. QED  BY <1>1 DEF TaskOnward

\* The steps of a unit, its acceptance aside.
LEMMA RunUnitTasks ==
  ASSUME TypeInv, NEW d \in Driver, RunUnit(d), ~FinalizeImplementation(d)
  PROVE  \A t \in Task : TaskOnward(t)
<1>. DEFINE u == unit[d]
<1>1. pc[d] \in UnitPC /\ u # None
  <2>1. pc[d] \in UnitPC
    BY DEF RunUnit, ReserveCandidate, ReserveRefused, ReserveRaises, AbandonStale,
           CommitCandidate, FinalizeTestAuthor, FinalizeImplementation, FinalizeLost,
           FinalizeRaises, MayFinalize, FailLate, FinalizeFailure, FailureRaises, UnitPC
  <2>. QED  BY <2>1 DEF TypeInv, PositionOK
<1>2. u.task \in Task /\ task[u.task] \in TaskRecord
  BY <1>1 DEF TypeInv, TypeOK, Unit
<1>3. CASE task' = task
  BY <1>3 DEF TaskOnward
<1>4. ASSUME NEW rec, task' = [task EXCEPT ![u.task] = rec],
             task[u.task].status # "done", rec.status # "done",
             rec.attempt = task[u.task].attempt
      PROVE  \A t \in Task : TaskOnward(t)
  BY <1>2, <1>4, TaskTouched
<1>5. CASE ReserveCandidate(d) \/ ReserveRefused(d) \/ ReserveRaises(d) \/ CommitCandidate(d)
             \/ FinalizeLost(d) \/ FinalizeRaises(d) \/ FailureRaises(d)
  BY <1>3, <1>5
  DEF ReserveCandidate, ReserveRefused, ReserveRaises, CommitCandidate, FinalizeLost,
      FinalizeRaises, FailureRaises, Raises, Escapes, aggregate
<1>. HIDE DEF u
<1>6. /\ Abandoned(task[u.task]).status = "skipped"
      /\ Abandoned(task[u.task]).attempt = task[u.task].attempt
      /\ Amended(task[u.task]).status = "pending"
      /\ Amended(task[u.task]).attempt = task[u.task].attempt
      /\ \A wait \in BOOLEAN :
           /\ Requeued(task[u.task], wait) \in TaskRecord
           /\ Requeued(task[u.task], wait).status = "pending"
           /\ Requeued(task[u.task], wait).attempt = task[u.task].attempt
  BY <1>2, TaskOperators
<1>7. CASE AbandonStale(d)
  <2>1. \/ task' = task
        \/ /\ task' = [task EXCEPT ![u.task] = Abandoned(task[u.task])]
           /\ task[u.task].status = "running"
    BY <1>7 DEF AbandonStale, Current, u
  <2>. QED  BY <1>3, <1>4, <1>6, <2>1
<1>8. CASE FinalizeTestAuthor(d)
  <2>. DEFINE rec == [Requeued(task[u.task], FALSE) EXCEPT !.bundle = u.revision, !.evidence = 0]
  <2>1. task[u.task].status = "running" /\ task' = [task EXCEPT ![u.task] = rec]
    BY <1>8 DEF FinalizeTestAuthor, MayFinalize, Current, u
  <2>2. rec.status = "pending" /\ rec.attempt = task[u.task].attempt
    BY <1>6 DEF TaskRecord
  <2>. HIDE DEF rec
  <2>. QED  BY <1>4, <2>1, <2>2
<1>9. CASE FailLate(d)
  <2>1. \/ task' = task
        \/ /\ task' = [task EXCEPT ![u.task] = Abandoned(task[u.task])]
           /\ task[u.task].status # "done"
    BY <1>9 DEF FailLate, Terminal, u
  <2>. QED  BY <1>3, <1>4, <1>6, <2>1
<1>10. CASE FinalizeFailure(d)
  <2>1. PICK kind \in FailureKinds :
          FailRetry(d, kind) \/ FailRepair(d, kind) \/ FailTerminally(d, kind)
    BY <1>10 DEF FinalizeFailure
  <2>2. CASE FailRetry(d, kind)
    <3>1. PICK wait \in BOOLEAN : task' = [task EXCEPT ![u.task] = Requeued(task[u.task], wait)]
      BY <2>2 DEF FailRetry, u
    <3>2. task[u.task].status # "done"
      BY <2>2 DEF FailRetry, u
    <3>. QED  BY <1>4, <1>6, <3>1, <3>2
  <2>3. CASE FailRepair(d, kind)
    <3>1. /\ task' = [task EXCEPT ![u.task] = Amended(task[u.task])]
          /\ task[u.task].status # "done"
      BY <2>3 DEF FailRepair, u
    <3>. QED  BY <1>4, <1>6, <3>1
  <2>4. CASE FailTerminally(d, kind)
    <3>. DEFINE rec == [task[u.task] EXCEPT !.status = "failed"]
    <3>1. task[u.task].status # "done" /\ task' = [task EXCEPT ![u.task] = rec]
      BY <2>4 DEF FailTerminally, u
    <3>2. rec.status = "failed" /\ rec.attempt = task[u.task].attempt
      BY <1>2 DEF TaskRecord
    <3>. HIDE DEF rec
    <3>. QED  BY <1>4, <3>1, <3>2
  <2>. QED  BY <2>1, <2>2, <2>3, <2>4
<1>. QED  BY <1>5, <1>7, <1>8, <1>9, <1>10 DEF RunUnit

\* A retry and an edit are of a task that is not done.
LEMMA CommandTasks ==
  ASSUME TypeInv, CommandStep
  PROVE  \A t \in Task : TaskOnward(t)
<1>1. CASE task' = task
  BY <1>1 DEF TaskOnward
<1>2. ASSUME NEW t \in Task, RetryTask(t) \/ EditTask(t) \/ AmendTask(t)
      PROVE  \A s \in Task : TaskOnward(s)
  <2>1. \/ task' = task
        \/ /\ task[t].status # "done"
           /\ \/ task' = [task EXCEPT ![t] = Retried(task[t])]
              \/ task' = [task EXCEPT ![t] = Edited(task[t])]
              \/ task' = [task EXCEPT ![t] = Amended(task[t])]
    BY <1>2 DEF RetryTask, EditTask, AmendTask, Editable
  <2>2. task[t] \in TaskRecord
    BY DEF TypeInv, TypeOK
  <2>3. /\ Retried(task[t]).status = "pending" /\ Retried(task[t]).attempt = task[t].attempt
        /\ Edited(task[t]).status = "pending" /\ Edited(task[t]).attempt = task[t].attempt
        /\ Amended(task[t]).status = "pending" /\ Amended(task[t]).attempt = task[t].attempt
    BY <2>2, TaskOperators
  <2>. QED  BY <1>1, <2>1, <2>3, TaskTouched
<1>3. \/ task' = task
      \/ \E t \in Task : RetryTask(t) \/ EditTask(t) \/ AmendTask(t)
  BY DEF CommandStep, RequestPause, Resume, RequestReplan, ProposeIntent, ApproveIntent,
         SubmitDraft, ActivateCycle, CancelReplan, ReplanStep
<1>. QED  BY <1>1, <1>2, <1>3

\* Only _finalize_verified_implementation makes a task done, nothing unmakes
\* one, and only _start_unit counts an attempt.
LEMMA TaskSteps ==
  ASSUME TypeInv, [Next]_vars,
         \A d \in Driver : ~StartUnit(d) /\ ~FinalizeImplementation(d)
  PROVE  \A t \in Task : TaskOnward(t)
<1>1. CASE task' = task
  BY <1>1 DEF TaskOnward
<1>2. ASSUME NEW d \in Driver, Scan(d) \/ DriverStep(d)
      PROVE  \A t \in Task : TaskOnward(t)
  <2>1. CASE Scan(d) \/ Claim(d) \/ Handle(d)
    BY <1>1, <2>1
    DEF Scan, Claim, Handle, HandleStops, CircuitBlocks, ReservePromotion,
        BlockUnpromotable, BlockFailedGoal, HandleRaises, Raises, Escapes, aggregate
  <2>2. CASE Promote(d)
    BY <1>1, <2>2
    DEF Promote, MergeGoal, CompleteGoal, PromotionLost, PromotionRaises, RetryMerge,
        BlockPromotion, Raises, Escapes, aggregate
  <2>. QED  BY <1>2, <2>1, <2>2, RunUnitTasks DEF DriverStep
<1>3. CASE FaultStep
  BY <1>1, <1>3
  DEF FaultStep, AgentFails, GitFails, MergeFails, ReserveGivesUp, Contends, Crash,
      LeaseExpires, Reconcile,
      Escapes, aggregate
<1>4. EnterReview \/ (\E g \in Goal : OrphanExpires(g)) \/ UNCHANGED vars => task' = task
  BY DEF EnterReview, OrphanExpires, vars, aggregate
<1>5. ASSUME NEW t \in Task, BackoffElapses(t)
      PROVE  \A s \in Task : TaskOnward(s)
  <2>1. /\ task \in [Task -> TaskRecord]
        /\ task' = [task EXCEPT ![t] = [task[t] EXCEPT !.backoff = FALSE]]
    BY <1>5 DEF BackoffElapses, TypeInv, TypeOK
  <2>. QED  BY <2>1 DEF TaskOnward, TaskRecord
<1>. QED  BY <1>1, <1>2, <1>3, <1>4, <1>5, CommandTasks DEF Next

-----------------------------------------------------------------------------
(* What a step does to the drivers *)

\* A driver keeps its goal and its unit or drops them, and comes neither to the
\* finalizer nor to the completion of a promotion.
DriverOnward(e) ==
    /\ goal'[e] \in {goal[e], None}
    /\ unit'[e] \in {unit[e], None}
    /\ pc'[e] \in {"committed", "merged"} =>
          pc'[e] = pc[e] /\ goal'[e] = goal[e] /\ unit'[e] = unit[e]

\* However a driver leaves its step, and wherever else it goes on.
LEMMA DriverLeaves ==
  ASSUME TypeInv, NEW d \in Driver,
         \/ DriverEnds(d) \/ DriverContinues(d) \/ DriverGoesOn(d)
         \/ \E next \in PC \ {"committed", "merged"} : DriverAt(d, next)
         \/ UNCHANGED driving
  PROVE  \A e \in Driver : DriverOnward(e)
<1>. USE DEF TypeInv, TypeOK, DriverOnward
<1>1. DriverEnds(d) => \A e \in Driver : DriverOnward(e)
  BY DEF DriverEnds
<1>2. DriverContinues(d) => \A e \in Driver : DriverOnward(e)
  BY <1>1 DEF DriverContinues
<1>3. DriverGoesOn(d) => \A e \in Driver : DriverOnward(e)
  BY <1>1, <1>2 DEF DriverGoesOn
<1>4. (\E next \in PC \ {"committed", "merged"} : DriverAt(d, next))
        => \A e \in Driver : DriverOnward(e)
  BY DEF DriverAt
<1>5. UNCHANGED driving => \A e \in Driver : DriverOnward(e)
  BY DEF driving
<1>. QED  BY <1>1, <1>2, <1>3, <1>4, <1>5

\* A driver comes to a goal by a scan, to a unit by _start_unit, to the finalizer
\* by the commit of its candidate and to the completion by a merge.
LEMMA DriverSteps ==
  ASSUME TypeInv, [Next]_vars, NEW e \in Driver,
         ~Scan(e), ~StartUnit(e), ~CommitCandidate(e), ~MergeGoal(e)
  PROVE  DriverOnward(e)
<1>. USE DEF PC
<1>1. ASSUME NEW d \in Driver, Scan(d) \/ Claim(d) \/ Handle(d)
      PROVE  DriverOnward(e)
  <2>1. CASE Scan(d) \/ Claim(d) \/ StartUnit(d)
    <3>1. CASE Scan(d)
      BY <3>1 DEF Scan, DriverOnward, TypeInv, TypeOK
    <3>2. CASE Claim(d)
      BY <3>2 DEF Claim, DriverOnward, TypeInv, TypeOK
    <3>3. CASE StartUnit(d)
      BY <3>3 DEF StartUnit, StartTask, DriverOnward, TypeInv, TypeOK
    <3>. QED  BY <2>1, <3>1, <3>2, <3>3
  <2>2. CASE Handle(d) /\ ~StartUnit(d)
    <3>1. DriverEnds(d) \/ DriverAt(d, "merging")
      BY <2>2 DEF Handle, HandleStops, CircuitBlocks, ReservePromotion, BlockUnpromotable,
                  BlockFailedGoal, HandleRaises, Raises, Escapes
    <3>. QED  BY <3>1, DriverLeaves
  <2>. QED  BY <1>1, <2>1, <2>2
<1>2. ASSUME NEW d \in Driver, RunUnit(d)
      PROVE  DriverOnward(e)
  <2>1. CASE CommitCandidate(d)
    BY <2>1 DEF CommitCandidate, DriverAt, DriverOnward, TypeInv, TypeOK
  <2>2. CASE FinalizeFailure(d)
    <3>1. DriverEnds(d) \/ DriverContinues(d) \/ DriverGoesOn(d)
      BY <2>2 DEF FinalizeFailure, FailRetry, FailRepair, FailTerminally
    <3>. QED  BY <3>1, DriverLeaves
  <2>3. CASE RunUnit(d) /\ ~CommitCandidate(d) /\ ~FinalizeFailure(d)
    <3>1. DriverEnds(d) \/ DriverGoesOn(d) \/ DriverAt(d, "reserved") \/ DriverAt(d, "stale")
      BY <2>3
      DEF RunUnit, ReserveCandidate, ReserveRefused, ReserveRaises, AbandonStale,
          FinalizeTestAuthor, FinalizeImplementation, FinalizeLost, FinalizeRaises, FailLate,
          FailureRaises, Raises, Escapes
    <3>. QED  BY <3>1, DriverLeaves
  <2>. QED  BY <1>2, <2>1, <2>2, <2>3
<1>3. ASSUME NEW d \in Driver, Promote(d)
      PROVE  DriverOnward(e)
  <2>1. CASE MergeGoal(d)
    BY <2>1 DEF MergeGoal, DriverAt, DriverOnward, TypeInv, TypeOK
  <2>2. CASE Promote(d) /\ ~MergeGoal(d)
    <3>1. DriverEnds(d) \/ DriverContinues(d)
      BY <2>2 DEF Promote, CompleteGoal, PromotionLost, PromotionRaises, RetryMerge,
                  BlockPromotion, Raises, Escapes
    <3>. QED  BY <3>1, DriverLeaves
  <2>. QED  BY <1>3, <2>1, <2>2
<1>4. CASE FaultStep
  <2>1. CASE Reconcile
    BY <2>1 DEF Reconcile, DriverOnward, driving
  <2>2. ASSUME NEW d \in Driver,
               \/ AgentFails(d) \/ GitFails(d) \/ MergeFails(d) \/ ReserveGivesUp(d)
               \/ Contends(d) \/ LeaseExpires(d)
        PROVE  DriverOnward(e)
    <3>1. \/ DriverEnds(d) \/ DriverAt(d, "failed") \/ DriverAt(d, "unmerged")
          \/ DriverAt(d, "stale")
          \/ UNCHANGED driving
      BY <2>2 DEF AgentFails, GitFails, MergeFails, ReserveGivesUp, Contends, LeaseExpires,
                      Escapes
    <3>. QED  BY <3>1, DriverLeaves
  <2>3. ASSUME NEW d \in Driver, Crash(d)
        PROVE  DriverOnward(e)
    BY <2>3 DEF Crash, DriverOnward, TypeInv, TypeOK
  <2>. QED  BY <1>4, <2>1, <2>2, <2>3 DEF FaultStep
<1>5. CASE CommandStep
  BY <1>5
  DEF CommandStep, RequestPause, Resume, RetryTask, EditTask, AmendTask, RequestReplan,
      ProposeIntent, ApproveIntent, SubmitDraft, ActivateCycle, CancelReplan, ReplanStep,
      DriverOnward, driving
<1>6. \/ EnterReview \/ (\E g \in Goal : OrphanExpires(g))
      \/ (\E t \in Task : BackoffElapses(t)) \/ UNCHANGED vars
      => DriverOnward(e)
  BY DEF EnterReview, OrphanExpires, BackoffElapses, vars, driving, DriverOnward
<1>. QED  BY <1>1, <1>2, <1>3, <1>4, <1>5, <1>6 DEF Next, DriverStep

-----------------------------------------------------------------------------
(* What a step does to the goals and to Git *)

\* A goal keeps its status, or is under way.
GoalOnward(g) ==
    \/ goalStatus'[g] = goalStatus[g]
    \/ goalStatus[g] \notin Terminal /\ goalStatus'[g] = "running"

\* Only GoalPromoter.promote finishes a goal.
LEMMA GoalSteps ==
  ASSUME TypeInv, [Next]_vars, \A d \in Driver : ~CompleteGoal(d)
  PROVE  \A g \in Goal : GoalOnward(g)
<1>1. CASE goalStatus' = goalStatus
  BY <1>1 DEF GoalOnward
<1>2. ASSUME NEW d \in Driver, Scan(d) \/ DriverStep(d)
      PROVE  \A g \in Goal : GoalOnward(g)
  <2>1. CASE StartUnit(d)
    BY <2>1 DEF StartUnit, Handles, StartTask, GoalOnward, TypeInv, TypeOK
  <2>2. CASE (Scan(d) \/ Claim(d) \/ Handle(d)) /\ ~StartUnit(d)
    BY <1>1, <2>2
    DEF Scan, Claim, Handle, HandleStops, CircuitBlocks, ReservePromotion,
        BlockUnpromotable, BlockFailedGoal, HandleRaises, Raises, Escapes, aggregate
  <2>3. CASE RunUnit(d)
    BY <1>1, <2>3
    DEF RunUnit, ReserveCandidate, ReserveRefused, ReserveRaises, AbandonStale, CommitCandidate,
        FinalizeTestAuthor, FinalizeImplementation, FinalizeLost, FinalizeRaises, FailLate,
        FinalizeFailure, FailureRaises, Raises, Escapes, aggregate
  <2>4. CASE Promote(d)
    BY <1>1, <2>4
    DEF Promote, MergeGoal, PromotionLost, PromotionRaises, RetryMerge,
        BlockPromotion, Raises, Escapes, aggregate
  <2>. QED  BY <1>2, <2>1, <2>2, <2>3, <2>4 DEF DriverStep
<1>3. CASE FaultStep
  BY <1>1, <1>3
  DEF FaultStep, AgentFails, GitFails, MergeFails, ReserveGivesUp, Contends, Crash,
      LeaseExpires, Reconcile,
      Escapes, aggregate
<1>4. CASE CommandStep
  BY <1>1, <1>4
  DEF CommandStep, RequestPause, Resume, RetryTask, EditTask, AmendTask, RequestReplan,
      ProposeIntent, ApproveIntent, SubmitDraft, ActivateCycle, CancelReplan, ReplanStep
<1>5. \/ EnterReview \/ (\E g \in Goal : OrphanExpires(g))
      \/ (\E t \in Task : BackoffElapses(t)) \/ UNCHANGED vars
      => goalStatus' = goalStatus
  BY DEF EnterReview, OrphanExpires, BackoffElapses, vars, aggregate
<1>. QED  BY <1>1, <1>2, <1>3, <1>4, <1>5 DEF Next

\* What is merged stays merged.
LEMMA GitGrows ==
  ASSUME TypeInv, [Next]_vars
  PROVE  candidates \subseteq candidates' /\ merges \subseteq merges'
<1>1. CASE UNCHANGED git
  BY <1>1 DEF git
<1>2. ASSUME NEW d \in Driver, Scan(d) \/ DriverStep(d)
      PROVE  candidates \subseteq candidates' /\ merges \subseteq merges'
  <2>1. CASE CommitCandidate(d) \/ MergeGoal(d)
    BY <2>1 DEF CommitCandidate, MergeGoal
  <2>2. CASE Scan(d) \/ Claim(d) \/ Handle(d)
    BY <1>1, <2>2
    DEF Scan, Claim, Handle, HandleStops, StartUnit, StartTask, CircuitBlocks, ReservePromotion,
        BlockUnpromotable, BlockFailedGoal, HandleRaises, Raises, Escapes
  <2>3. CASE RunUnit(d) /\ ~CommitCandidate(d)
    BY <1>1, <2>3
    DEF RunUnit, ReserveCandidate, ReserveRefused, ReserveRaises, AbandonStale,
        FinalizeTestAuthor, FinalizeImplementation, FinalizeLost, FinalizeRaises, FailLate,
        FinalizeFailure, FailureRaises, Raises, Escapes
  <2>4. CASE Promote(d) /\ ~MergeGoal(d)
    BY <1>1, <2>4
    DEF Promote, CompleteGoal, PromotionLost, PromotionRaises, RetryMerge, BlockPromotion,
        Raises, Escapes
  <2>. QED  BY <1>2, <2>1, <2>2, <2>3, <2>4 DEF DriverStep
<1>3. CASE FaultStep
  BY <1>1, <1>3
  DEF FaultStep, AgentFails, GitFails, MergeFails, ReserveGivesUp, Contends, Crash,
      LeaseExpires, Reconcile,
      Escapes
<1>4. CASE CommandStep
  BY <1>1, <1>4
  DEF CommandStep, RequestPause, Resume, RetryTask, EditTask, AmendTask, RequestReplan,
      ProposeIntent, ApproveIntent, SubmitDraft, ActivateCycle, CancelReplan, ReplanStep
<1>5. \/ EnterReview \/ (\E g \in Goal : OrphanExpires(g))
      \/ (\E t \in Task : BackoffElapses(t)) \/ UNCHANGED vars
      => UNCHANGED git
  BY DEF EnterReview, OrphanExpires, BackoffElapses, vars
<1>. QED  BY <1>1, <1>2, <1>3, <1>4, <1>5 DEF Next

-----------------------------------------------------------------------------
(* What a step does to the plan and to the reservations *)

\* The cycle stays active, or superseded, and so does a replan.
PlanOnward ==
    /\ plan'.active = plan.active
    /\ plan'.replan = "none" <=> plan.replan = "none"

\* What a save is made of leaves the cycle as it is.
LEMMA PlanOperatorsOnward ==
  ASSUME NEW p \in PlanRecord, NEW states, NEW blocks,
         NEW q \in {p, SettleRequestedPause(p), Recompute(p, states, blocks)}
  PROVE  /\ Saved(q).active = p.active
         /\ Saved(q).replan = "none" <=> p.replan = "none"
<1>1. q \in PlanRecord
  BY PlanOperators
<1>2. q.active = p.active /\ q.replan = p.replan
  BY DEF SettleRequestedPause, SettlePause, Recompute, PlanRecord
<1>3. Saved(q).active = q.active /\ (Saved(q).replan = "none" <=> q.replan = "none")
  BY <1>1 DEF Saved, PlanRecord
<1>. QED  BY <1>2, <1>3

\* A save of the plan as it was, with a settled pause or with its status derived
\* again, leaves the cycle as it is.
LEMMA PlanSaved ==
  ASSUME TypeInv,
         \/ plan' = plan \/ plan' = Saved(plan) \/ plan' = Saved(SettleRequestedPause(plan))
         \/ \E states, blocks : plan' = Saved(Recompute(plan, states, blocks))
  PROVE  PlanOnward
<1>1. plan \in PlanRecord
  BY DEF TypeInv, TypeOK
<1>2. CASE plan' = plan
  BY <1>2 DEF PlanOnward
<1>3. CASE plan' = Saved(plan) \/ plan' = Saved(SettleRequestedPause(plan))
  BY <1>1, <1>3, PlanOperatorsOnward DEF PlanOnward
<1>4. ASSUME NEW states, NEW blocks, plan' = Saved(Recompute(plan, states, blocks))
      PROVE  PlanOnward
  BY <1>1, <1>4, PlanOperatorsOnward DEF PlanOnward
<1>. QED  BY <1>2, <1>3, <1>4

\* The commands, and the entry into the review, that move the plan itself.
MovesPlan ==
    \/ RequestPause \/ Resume \/ EnterReview \/ RequestReplan \/ ProposeIntent
    \/ ApproveIntent \/ SubmitDraft \/ ActivateCycle \/ CancelReplan

\* The finalizers that settle a requested pause, and a terminal failure.
Settles(d) == FinalizeTestAuthor(d) \/ FinalizeImplementation(d) \/ FinalizeFailure(d)

\* The steps that block a goal.
BlocksGoal(d) ==
    \/ CircuitBlocks(d) \/ BlockUnpromotable(d) \/ BlockFailedGoal(d) \/ BlockPromotion(d)
    \/ FinalizeFailure(d) /\ \E kind \in FailureKinds : FailTerminally(d, kind)

\* The steps that derive the plan's status again.
Derives ==
    \/ \E d \in Driver : BlocksGoal(d) \/ CompleteGoal(d)
    \/ \E t \in Task : RetryTask(t) /\ block[GoalOf[t]] # None

\* Every other step saves the plan as it was, with a requested pause settled by
\* the driver that ran, or with its status derived again.
LEMMA PlanClass ==
  ASSUME TypeInv, [Next]_vars, ~MovesPlan
  PROVE  \/ UNCHANGED block /\ plan' \in {plan, Saved(plan)}
         \/ /\ UNCHANGED block /\ plan' = Saved(SettleRequestedPause(plan))
            /\ \E d \in Driver : Settles(d)
         \/ Derives /\ plan' = Saved(Recompute(plan, goalStatus', block'))
<1>. DEFINE Kept == UNCHANGED block /\ plan' \in {plan, Saved(plan)}
            Settled == /\ UNCHANGED block /\ plan' = Saved(SettleRequestedPause(plan))
                       /\ \E d \in Driver : Settles(d)
            Derived == Derives /\ plan' = Saved(Recompute(plan, goalStatus', block'))
<1>. SUFFICES Kept \/ Settled \/ Derived
  OBVIOUS
<1>1. ASSUME NEW g, NEW kind, NEW t, OpenBlock(g, kind, t), UNCHANGED goalStatus
      PROVE  plan' = Saved(Recompute(plan, goalStatus', block'))
  BY <1>1 DEF OpenBlock
<1>2. ASSUME NEW d \in Driver, Scan(d) \/ Claim(d) \/ Handle(d)
      PROVE  Kept \/ Derived
  <2>1. CASE CircuitBlocks(d) \/ BlockUnpromotable(d) \/ BlockFailedGoal(d)
    <3>1. Derives
      BY <1>2, <2>1 DEF Derives, BlocksGoal
    <3>. QED  BY <1>1, <2>1, <3>1 DEF CircuitBlocks, BlockUnpromotable, BlockFailedGoal
  <2>2. CASE StartUnit(d) \/ ReservePromotion(d)
    BY <2>2 DEF StartUnit, StartTask, ReservePromotion
  <2>3. CASE Scan(d) \/ Claim(d) \/ HandleStops(d) \/ HandleRaises(d)
    BY <2>3 DEF Scan, Claim, HandleStops, HandleRaises, Raises, Escapes, aggregate
  <2>. QED  BY <1>2, <2>1, <2>2, <2>3 DEF Handle
<1>3. ASSUME NEW d \in Driver, RunUnit(d)
      PROVE  Kept \/ Settled \/ Derived
  <2>1. CASE FinalizeFailure(d)
    <3>1. PICK kind \in FailureKinds :
            FailRetry(d, kind) \/ FailRepair(d, kind) \/ FailTerminally(d, kind)
      BY <2>1 DEF FinalizeFailure
    <3>2. UNCHANGED goalStatus
      BY <2>1 DEF FinalizeFailure
    <3>3. CASE FailTerminally(d, kind)
      <4>1. Derives
        BY <1>3, <2>1, <3>3 DEF Derives, BlocksGoal
      <4>. QED  BY <1>1, <3>2, <3>3, <4>1 DEF FailTerminally
    <3>4. CASE FailRetry(d, kind)
      BY <1>3, <2>1, <3>4 DEF FailRetry, Settles
    <3>5. CASE FailRepair(d, kind)
      BY <3>5 DEF FailRepair
    <3>. QED  BY <3>1, <3>3, <3>4, <3>5
  <2>2. CASE FinalizeTestAuthor(d) \/ FinalizeImplementation(d)
    BY <1>3, <2>2 DEF FinalizeTestAuthor, FinalizeImplementation, Settles
  <2>3. CASE ReserveCandidate(d) \/ AbandonStale(d) \/ FinalizeLost(d) \/ FailLate(d)
    BY <2>3 DEF ReserveCandidate, AbandonStale, FinalizeLost, FailLate
  <2>4. CASE \/ ReserveRefused(d) \/ ReserveRaises(d) \/ CommitCandidate(d)
             \/ FinalizeRaises(d) \/ FailureRaises(d)
    BY <2>4
    DEF ReserveRefused, ReserveRaises, CommitCandidate, FinalizeRaises, FailureRaises,
        Raises, Escapes, aggregate
  <2>. QED  BY <1>3, <2>1, <2>2, <2>3, <2>4 DEF RunUnit
<1>4. ASSUME NEW d \in Driver, Promote(d)
      PROVE  Kept \/ Derived
  <2>1. CASE CompleteGoal(d)
    BY <1>4, <2>1 DEF CompleteGoal, Derives
  <2>2. CASE BlockPromotion(d)
    <3>1. Derives
      BY <1>4, <2>2 DEF Derives, BlocksGoal
    <3>. QED  BY <1>1, <2>2, <3>1 DEF BlockPromotion
  <2>3. CASE MergeGoal(d) \/ PromotionLost(d) \/ PromotionRaises(d) \/ RetryMerge(d)
    BY <2>3 DEF MergeGoal, PromotionLost, PromotionRaises, RetryMerge, Raises, Escapes, aggregate
  <2>. QED  BY <1>4, <2>1, <2>2, <2>3 DEF Promote
<1>5. CASE FaultStep
  BY <1>5
  DEF FaultStep, AgentFails, GitFails, MergeFails, ReserveGivesUp, Contends, Crash,
      LeaseExpires, Reconcile,
      Escapes, aggregate
<1>6. ASSUME NEW t \in Task, RetryTask(t) \/ EditTask(t) \/ AmendTask(t)
      PROVE  Kept \/ Derived
  <2>1. CASE RetryTask(t) /\ block[GoalOf[t]] = None
    <3>1. block' = [block EXCEPT ![GoalOf[t]] = None] /\ plan' = Saved(plan)
      BY <2>1 DEF RetryTask
    <3>2. block \in [Goal -> BlockRecord \cup {None}]
      BY DEF TypeInv, TypeOK
    <3>3. block' = block
      BY <2>1, <3>1, <3>2
    <3>. QED  BY <3>1, <3>3
  <2>2. CASE RetryTask(t) /\ block[GoalOf[t]] # None
    BY <1>6, <2>2 DEF RetryTask, Derives
  <2>3. CASE EditTask(t) \/ AmendTask(t)
    BY <2>3 DEF EditTask, AmendTask
  <2>. QED  BY <1>6, <2>1, <2>2, <2>3
<1>7. \/ (\E g \in Goal : OrphanExpires(g))
      \/ (\E t \in Task : BackoffElapses(t)) \/ UNCHANGED vars
      => Kept
  BY DEF OrphanExpires, BackoffElapses, vars, aggregate
<1>. QED  BY <1>2, <1>3, <1>4, <1>5, <1>6, <1>7 DEF Next, DriverStep, CommandStep, MovesPlan

\* Only request_replan begins a replan and only activate_cycle ends one.
LEMMA PlanSteps ==
  ASSUME TypeInv, [Next]_vars, ~RequestReplan, ~ActivateCycle
  PROVE  PlanOnward
<1>1. plan \in PlanRecord
  BY DEF TypeInv, TypeOK
<1>2. CASE ~MovesPlan
  BY <1>2, PlanClass, PlanSaved
<1>3. CASE RequestPause \/ Resume \/ EnterReview
  BY <1>1, <1>3 DEF RequestPause, Resume, EnterReview, Saved, SettlePause, PlanOnward, PlanRecord
<1>4. CASE ProposeIntent \/ ApproveIntent \/ SubmitDraft \/ CancelReplan
  BY <1>1, <1>4
  DEF ProposeIntent, ApproveIntent, SubmitDraft, CancelReplan, PlanOnward, PlanRecord
<1>. QED  BY <1>2, <1>3, <1>4 DEF MovesPlan

\* A reservation is only released, unless one is taken.
LEMMA ReservationSteps ==
  ASSUME TypeInv, [Next]_vars, NEW g \in Goal,
         \A d \in Driver : ~ReservePromotion(d) /\ ~ReserveCandidate(d)
  PROVE  reservation'[g] \in {reservation[g], Free}
<1>1. reservation \in [Goal -> Reservation]
  BY DEF TypeInv, TypeOK
<1>2. ASSUME NEW h, \/ reservation' = [reservation EXCEPT ![h] = Free]
                    \/ reservation' = reservation
                    \/ \E token : reservation' = Released(h, token)
      PROVE  reservation'[g] \in {reservation[g], Free}
  BY <1>1, <1>2 DEF Released
<1>3. ASSUME NEW d \in Driver, Scan(d) \/ DriverStep(d)
      PROVE  reservation'[g] \in {reservation[g], Free}
  <2>1. CASE StartUnit(d)
    BY <1>2, <2>1 DEF StartUnit, StartTask, ReleasedFrom
  <2>2. CASE (Scan(d) \/ Claim(d) \/ Handle(d)) /\ ~StartUnit(d)
    BY <1>2, <2>2
    DEF Scan, Claim, Handle, HandleStops, CircuitBlocks, BlockUnpromotable, BlockFailedGoal,
        HandleRaises, Raises, Escapes, aggregate
  <2>3. CASE RunUnit(d)
    <3>1. \/ reservation' = [reservation EXCEPT ![goal[d]] = Free]
          \/ reservation' = reservation
          \/ reservation' = Released(goal[d], Mine(unit[d]))
      BY <2>3
      DEF RunUnit, ReserveRefused, ReserveRaises, AbandonStale, CommitCandidate,
          FinalizeTestAuthor, FinalizeImplementation, FinalizeLost, FinalizeRaises, FailLate,
          FinalizeFailure, FailRetry, FailRepair, FailTerminally, FailureRaises, Raises,
          Escapes, aggregate
    <3>. QED  BY <1>2, <3>1
  <2>4. CASE Promote(d)
    BY <1>2, <2>4
    DEF Promote, MergeGoal, CompleteGoal, PromotionLost, PromotionRaises, RetryMerge,
        BlockPromotion, Raises, Escapes, aggregate
  <2>. QED  BY <1>3, <2>1, <2>2, <2>3, <2>4 DEF DriverStep
<1>4. CASE FaultStep
  BY <1>4
  DEF FaultStep, AgentFails, GitFails, MergeFails, ReserveGivesUp, Contends, Crash,
      LeaseExpires, Reconcile,
      Escapes, aggregate
<1>5. CASE CommandStep
  BY <1>5
  DEF CommandStep, RequestPause, Resume, RetryTask, EditTask, AmendTask, RequestReplan,
      ProposeIntent, ApproveIntent, SubmitDraft, ActivateCycle, CancelReplan, ReplanStep
<1>6. \/ EnterReview \/ (\E h \in Goal : OrphanExpires(h))
      \/ (\E t \in Task : BackoffElapses(t)) \/ UNCHANGED vars
      => reservation' = reservation
  BY DEF EnterReview, OrphanExpires, BackoffElapses, vars, aggregate
<1>. QED  BY <1>3, <1>4, <1>5, <1>6 DEF Next

-----------------------------------------------------------------------------
(* Done work stays done, and comes from its finalizer *)

\* A step neither changes what a done task was accepted with nor takes it back.
LEMMA DoneStays ==
  ASSUME TypeInv, [Next]_vars, NEW t \in Task, task[t].status = "done"
  PROVE  /\ task'[t].status = "done" /\ task'[t].attempt = task[t].attempt
         /\ task'[t].revision = task[t].revision
         /\ task'[t].bundle = task[t].bundle
         /\ task'[t].evidence = task[t].evidence
<1>1. ASSUME NEW d \in Driver, StartUnit(d)
      PROVE  task'[t] = task[t]
  <2>1. PICK s \in Action(goal[d]).tasks : StartTask(d, s)
    BY <1>1 DEF StartUnit
  <2>2. s # t
    BY <1>1, <2>1, SelectedTask DEF StartUnit, Handles, Terminal
  <2>. QED  BY <2>1, <2>2 DEF StartTask, TypeInv, TypeOK
<1>2. ASSUME NEW d \in Driver, FinalizeImplementation(d)
      PROVE  task'[t] = task[t]
  <2>1. task[unit[d].task].status = "running"
    BY <1>2 DEF FinalizeImplementation, MayFinalize, Current
  <2>. QED  BY <1>2, <2>1 DEF FinalizeImplementation, TypeInv, TypeOK
<1>3. CASE \A d \in Driver : ~StartUnit(d) /\ ~FinalizeImplementation(d)
  BY <1>3, TaskSteps DEF TaskOnward
<1>. QED  BY <1>1, <1>2, <1>3

\* A task becomes done in its finalizer.
LEMMA DoneComes ==
  ASSUME TypeInv, [Next]_vars, NEW t \in Task,
         task[t].status # "done", task'[t].status = "done"
  PROVE  \E d \in Driver : FinalizeImplementation(d) /\ unit[d].task = t
<1>1. ASSUME NEW d \in Driver, StartUnit(d)
      PROVE  FALSE
  <2>1. PICK s \in Action(goal[d]).tasks : StartTask(d, s)
    BY <1>1 DEF StartUnit
  <2>2. s \in Task /\ task[s] \in TaskRecord
    BY <1>1, <2>1, SelectedTask DEF StartUnit, Handles, TypeInv, TypeOK
  <2>3. Started(task[s]).status = "running"
    BY <2>2, TaskOperators
  <2>. QED  BY <2>1, <2>2, <2>3 DEF StartTask, TypeInv, TypeOK
<1>2. ASSUME NEW d \in Driver, FinalizeImplementation(d)
      PROVE  unit[d].task = t
  BY <1>2 DEF FinalizeImplementation, TypeInv, TypeOK
<1>3. CASE \A d \in Driver : ~StartUnit(d) /\ ~FinalizeImplementation(d)
  BY <1>3, TaskSteps DEF TaskOnward
<1>. QED  BY <1>1, <1>2, <1>3

\* A goal once done stays done, and becomes it by the completion of a promotion.
LEMMA DoneGoalSteps ==
  ASSUME TypeInv, [Next]_vars, NEW g \in Goal
  PROVE  /\ g \in DoneGoals => g \in DoneGoals'
         /\ goalStatus'[g] \in Terminal /\ goalStatus[g] \notin Terminal =>
               \E d \in Driver : CompleteGoal(d) /\ goal[d] = g
         /\ g \in DoneGoals' /\ g \notin DoneGoals =>
               \E d \in Driver : CompleteGoal(d) /\ goal[d] = g
<1>1. ASSUME NEW d \in Driver, CompleteGoal(d)
      PROVE  /\ goal[d] = g => g \notin DoneGoals
             /\ goal[d] # g => goalStatus'[g] = goalStatus[g]
  BY <1>1 DEF CompleteGoal, DoneGoals, Terminal, TypeInv, TypeOK
<1>2. CASE \A d \in Driver : ~CompleteGoal(d)
  BY <1>2, GoalSteps DEF GoalOnward, DoneGoals, Terminal
<1>3. ASSUME NEW d \in Driver, CompleteGoal(d)
      PROVE  goal[d] = g => g \in DoneGoals'
  BY <1>3 DEF CompleteGoal, DoneGoals, TypeInv, TypeOK
<1>. QED  BY <1>1, <1>2, <1>3 DEF DoneGoals

\* can_promote_goal is Accepted.
LEMMA CanPromoteAccepted ==
  ASSUME NEW g
  PROVE  CanPromoteGoal(TasksOf(g), taskStatus, HasEvidence) <=> Accepted(g)
<1>1. \A t \in Task : taskStatus[t] = task[t].status
  BY DEF taskStatus
<1>2. \A t \in Task : HasEvidence[t] <=> task[t].evidence # 0
  BY DEF HasEvidence
<1>. QED  BY <1>1, <1>2 DEF CanPromoteGoal, TasksOf, Accepted

\* What was accepted stays accepted.
LEMMA AcceptedStays ==
  ASSUME TypeInv, [Next]_vars, NEW g, Accepted(g)
  PROVE  Accepted(g)'
  BY DoneStays DEF Accepted

\* A step that starts no unit starts no attempt.
LEMMA LedgerLength ==
  ASSUME TypeInv, AttemptInv, [Next]_vars, \A d \in Driver : ~StartUnit(d)
  PROVE  /\ \A t \in Task : Len(ledger'[t]) = Len(ledger[t])
         /\ \A d \in Driver : unit'[d] \in {unit[d], None}
<1>1. CASE Quiet
  BY <1>1 DEF Quiet
<1>2. ASSUME NEW d \in Driver, NEW outcome \in Outcome, Closes(d, outcome)
      PROVE  /\ \A t \in Task : Len(ledger'[t]) = Len(ledger[t])
             /\ \A e \in Driver : unit'[e] \in {unit[e], None}
  BY <1>2, FinishEffect DEF Closes, TypeInv, TypeOK
<1>3. CASE Reconcile
  BY <1>3, ReconcileLength DEF Reconcile, driving
<1>. QED  BY <1>1, <1>2, <1>3, StepClass

-----------------------------------------------------------------------------
(* Every step preserves the invariant *)

\* _start_unit counts an attempt in both places, and nothing else does in one.
LEMMA NextNumbered ==
  ASSUME TypeInv, AttemptInv, Numbered, [Next]_vars
  PROVE  Numbered'
<1>1. ASSUME NEW d \in Driver, StartUnit(d)
      PROVE  Numbered'
  <2>1. PICK t \in Action(goal[d]).tasks : StartTask(d, t)
    BY <1>1 DEF StartUnit
  <2>2. t \in Task /\ task[t] \in TaskRecord
    BY <1>1, <2>1, SelectedTask DEF StartUnit, Handles, TypeInv, TypeOK
  <2>3. Started(task[t]).attempt = task[t].attempt + 1
    BY <2>2, TaskOperators
  <2>4. Len(Append(Reclaimed(t), "running")) = Len(ledger[t]) + 1
    BY <2>2, LedgerGrows DEF TypeInv
  <2>5. /\ \A s \in Task \ {t} : task'[s] = task[s] /\ ledger'[s] = ledger[s]
        /\ task'[t] = Started(task[t]) /\ ledger'[t] = Append(Reclaimed(t), "running")
    BY <2>1, <2>2 DEF StartTask, TypeInv, TypeOK
  <2>6. NextUnit(t).number = Len(ledger[t]) + 1 /\ NextUnit(t).attempt = task[t].attempt + 1
    BY DEF NextUnit
  <2>7. \A e \in Driver : unit'[e] \in {unit[e], NextUnit(t)}
    BY <2>1 DEF StartTask, TypeInv, TypeOK
  <2>. QED  BY <2>2, <2>3, <2>4, <2>5, <2>6, <2>7 DEF Numbered
<1>2. CASE \A d \in Driver : ~StartUnit(d)
  <2>1. \A t \in Task : task'[t].attempt = task[t].attempt
    <3>1. ASSUME NEW d \in Driver, FinalizeImplementation(d)
          PROVE  \A t \in Task : task'[t].attempt = task[t].attempt
      BY <3>1 DEF FinalizeImplementation, TypeInv, TypeOK, TaskRecord
    <3>2. CASE \A d \in Driver : ~FinalizeImplementation(d)
      BY <1>2, <3>2, TaskSteps DEF TaskOnward
    <3>. QED  BY <3>1, <3>2
  <2>. QED  BY <1>2, <2>1, LedgerLength DEF Numbered
<1>. QED  BY <1>1, <1>2

\* A driver comes to its finalizer with its candidate committed, to the
\* completion with its goal merged, and to a goal with its dependencies done.
LEMMA NextPrepared ==
  ASSUME TypeInv, Prepared, [Next]_vars
  PROVE  Prepared'
<1>. SUFFICES ASSUME NEW e \in Driver
              PROVE  /\ goal'[e] # None => DependsOn[goal'[e]] \subseteq DoneGoals'
                     /\ pc'[e] = "committed" /\ unit'[e].role = "implementer" =>
                          <<unit'[e].task, unit'[e].number>> \in candidates'
                     /\ pc'[e] = "merged" => goal'[e] \in merges'
  BY DEF Prepared
<1>1. DoneGoals \subseteq DoneGoals'
  BY DoneGoalSteps DEF DoneGoals
<1>2. candidates \subseteq candidates' /\ merges \subseteq merges'
  BY GitGrows
<1>3. CASE DriverOnward(e)
  BY <1>1, <1>2, <1>3 DEF Prepared, DriverOnward
<1>4. CASE Scan(e)
  <2>1. PICK g \in Goal : Claimable(g) /\ goal' = [goal EXCEPT ![e] = g]
    BY <1>4 DEF Scan
  <2>2. DependsOn[g] \subseteq DoneGoals
    BY <2>1 DEF Claimable, ReadyGoalIds, ReadyNodes, DoneNodes, NonTerminal, DoneGoals
  <2>3. goal'[e] = g /\ pc'[e] = "scanned"
    BY <1>4, <2>1 DEF Scan, TypeInv, TypeOK
  <2>. QED  BY <1>1, <2>2, <2>3
<1>5. CASE StartUnit(e)
  BY <1>1, <1>5 DEF StartUnit, StartTask, Prepared, TypeInv, TypeOK
<1>6. CASE CommitCandidate(e)
  BY <1>1, <1>6 DEF CommitCandidate, DriverAt, Prepared, TypeInv, TypeOK
<1>7. CASE MergeGoal(e)
  BY <1>1, <1>7 DEF MergeGoal, DriverAt, Prepared, TypeInv, TypeOK
<1>. QED  BY <1>3, <1>4, <1>5, <1>6, <1>7, DriverSteps

\* A task becomes done with its evidence, by an attempt whose candidate is
\* merged, and keeps them.
LEMMA NextVerified ==
  ASSUME TypeInv, AttemptInv, Numbered, Prepared, Verified, [Next]_vars
  PROVE  Verified'
<1>. SUFFICES ASSUME NEW t \in Task, task'[t].status = "done"
              PROVE  /\ task'[t].evidence = task'[t].revision
                     /\ task'[t].bundle = task'[t].revision
                     /\ task'[t].attempt \in DOMAIN ledger'[t]
                     /\ ledger'[t][task'[t].attempt] = "succeeded"
                     /\ <<t, task'[t].attempt>> \in candidates'
  BY DEF Verified
<1>1. CASE task[t].status = "done"
  <2>1. /\ task'[t].attempt = task[t].attempt /\ task'[t].revision = task[t].revision
        /\ task'[t].bundle = task[t].bundle /\ task'[t].evidence = task[t].evidence
    BY <1>1, DoneStays
  <2>2. LedgerKept
    BY NextLedger
  <2>. QED  BY <1>1, <2>1, <2>2, GitGrows DEF Verified, LedgerKept
<1>2. CASE task[t].status # "done"
  <2>1. PICK d \in Driver : FinalizeImplementation(d) /\ unit[d].task = t
    BY <1>2, DoneComes
  <2>. DEFINE n == unit[d].number
  <2>2. unit[d] # None /\ pc[d] = "committed" /\ unit[d].role = "implementer"
    <3>1. pc[d] = "committed" /\ unit[d].role = "implementer"
      BY <2>1 DEF FinalizeImplementation, MayFinalize
    <3>. QED  BY <3>1 DEF TypeInv, PositionOK, UnitPC
  <2>3. <<t, n>> \in candidates'
    BY <2>1, <2>2, GitGrows DEF Prepared
  <2>4. /\ task[t].revision = unit[d].revision /\ task[t].attempt = n
        /\ task[t].bundle = task[t].revision
    BY <2>1, <2>2
    DEF FinalizeImplementation, MayFinalize, Current, BundleValid, Numbered
  <2>5. task'[t] = [task[t] EXCEPT !.status = "done", !.evidence = unit[d].revision]
    BY <2>1 DEF FinalizeImplementation, TypeInv, TypeOK
  <2>6. /\ task'[t].evidence = task'[t].revision /\ task'[t].bundle = task'[t].revision
        /\ task'[t].attempt = n
    <3>1. task[t] \in TaskRecord
      BY DEF TypeInv, TypeOK
    <3>. HIDE DEF n
    <3>. QED  BY <2>4, <2>5, <3>1 DEF TaskRecord
  <2>7. n \in DOMAIN ledger'[t] /\ ledger'[t][n] = "succeeded"
    <3>1. Closes(d, "succeeded")
      BY <2>1, <2>2, UnitDropped DEF FinalizeImplementation, Closes, StatusOnward, TypeInv, TypeOK
    <3>. QED  BY <2>1, <3>1, FinishEffect DEF Outcome
  <2>. QED  BY <2>3, <2>6, <2>7
<1>. QED  BY <1>1, <1>2

\* A goal becomes done with its tasks accepted, its merge made and its
\* dependencies done, and they stay.
LEMMA NextMerged ==
  ASSUME TypeInv, Prepared, Merged, [Next]_vars
  PROVE  Merged'
<1>. SUFFICES ASSUME NEW g \in DoneGoals'
              PROVE  g \in merges' /\ Accepted(g)' /\ DependsOn[g] \subseteq DoneGoals'
  BY DEF Merged
<1>1. g \in Goal
  BY DEF DoneGoals
<1>2. DoneGoals \subseteq DoneGoals' /\ merges \subseteq merges'
  BY DoneGoalSteps, GitGrows DEF DoneGoals
<1>3. g \in merges /\ Accepted(g) /\ DependsOn[g] \subseteq DoneGoals
  <2>1. CASE g \in DoneGoals
    BY <2>1 DEF Merged
  <2>2. CASE g \notin DoneGoals
    <3>1. PICK d \in Driver : CompleteGoal(d) /\ goal[d] = g
      BY <1>1, <2>2, DoneGoalSteps
    <3>2. Accepted(g)
      BY <3>1, CanPromoteAccepted DEF CompleteGoal, PromotionSuperseded
    <3>3. g # None
      BY <1>1, ConstantsAssumption
    <3>. QED  BY <3>1, <3>2, <3>3 DEF CompleteGoal, Prepared
  <2>. QED  BY <2>1, <2>2
<1>. QED  BY <1>2, <1>3, AcceptedStays

\* A reservation is taken only in an active cycle, a promotion's only for
\* accepted work, and a cycle is superseded only with none held.
LEMMA NextCycleOK ==
  ASSUME TypeInv, CycleOK, [Next]_vars
  PROVE  CycleOK'
<1>. USE DEF CycleOK
<1>1. reservation \in [Goal -> Reservation] /\ plan \in PlanRecord
  BY DEF TypeInv, TypeOK
<1>2. (plan.replan # "none" => plan.active)'
  <2>1. CASE RequestReplan
    BY <1>1, <2>1 DEF RequestReplan, PlanRecord
  <2>2. CASE ActivateCycle
    BY <1>1, <2>2 DEF ActivateCycle, PlanRecord
  <2>3. CASE PlanOnward
    BY <2>3 DEF PlanOnward
  <2>. QED  BY <2>1, <2>2, <2>3, PlanSteps
<1>3. ASSUME NEW d \in Driver, ReservePromotion(d) \/ ReserveCandidate(d)
      PROVE  plan.active /\ plan'.active
  <2>1. plan.active /\ plan' = Saved(plan)
    BY <1>3 DEF ReservePromotion, Handles, ReserveCandidate, MayReserve, Executing
  <2>. QED  BY <2>1, PlanSaved DEF PlanOnward
<1>4. (~plan.active => NoReservation)'
  <2>1. CASE RequestReplan
    BY <1>1, <2>1 DEF RequestReplan, PlanRecord
  <2>2. CASE ActivateCycle
    BY <2>2 DEF ActivateCycle, ReplanStep, NoReservation
  <2>3. CASE PlanOnward /\ \A d \in Driver : ~ReservePromotion(d) /\ ~ReserveCandidate(d)
    BY <2>3, ReservationSteps DEF PlanOnward, NoReservation
  <2>. QED  BY <1>3, <2>1, <2>2, <2>3, PlanSteps
<1>5. ASSUME NEW g \in Goal, reservation'[g] = GoalToken
      PROVE  Accepted(g)' /\ goalStatus'[g] \notin Terminal
  <2>1. Accepted(g) /\ goalStatus[g] \notin Terminal
    <3>1. ASSUME NEW d \in Driver, ReservePromotion(d)
          PROVE  Accepted(g) /\ goalStatus[g] \notin Terminal
      <4>1. Accepted(goal[d]) /\ goalStatus[goal[d]] \notin Terminal
        BY <3>1, CanPromoteAccepted DEF ReservePromotion, Handles
      <4>2. g = goal[d] \/ reservation[g] = GoalToken
        BY <1>1, <1>5, <3>1 DEF ReservePromotion
      <4>. QED  BY <4>1, <4>2
    <3>2. ASSUME NEW d \in Driver, ReserveCandidate(d)
          PROVE  reservation[g] = GoalToken
      <4>1. Mine(unit[d]) # GoalToken
        BY DEF Mine, Attempt, GoalToken
      <4>. QED  BY <1>1, <1>5, <3>2, <4>1 DEF ReserveCandidate
    <3>3. CASE \A d \in Driver : ~ReservePromotion(d) /\ ~ReserveCandidate(d)
      BY <1>5, <3>3, ReservationSteps DEF Free, GoalToken
    <3>. QED  BY <3>1, <3>2, <3>3
  <2>2. goalStatus'[g] \notin Terminal
    <3>. SUFFICES ASSUME NEW d \in Driver, CompleteGoal(d), goal[d] = g
                  PROVE  FALSE
      BY <2>1, DoneGoalSteps
    <3>. QED  BY <1>1, <1>5 DEF CompleteGoal, Free, GoalToken
  <2>. QED  BY <2>1, <2>2, AcceptedStays
<1>. QED  BY <1>2, <1>4, <1>5

-----------------------------------------------------------------------------
(* The theorems *)

\* At the start nothing is done, reserved or under way.
LEMMA InitDelivery == Init => DeliveryInv
  BY ConstantsAssumption
  DEF Init, DeliveryInv, Numbered, Prepared, Verified, Merged, DoneGoals, CycleOK,
      NoReservation, Accepted, Free, GoalToken

\* The invariant of the specification.
LEMMA DeliveryInvariant == Spec => [](TypeInv /\ AttemptInv /\ DeliveryInv)
<1>1. Init => TypeInv /\ AttemptInv /\ DeliveryInv
  BY InitType, InitAttempt, InitDelivery
<1>2. TypeInv /\ AttemptInv /\ DeliveryInv /\ [Next]_vars
        => (TypeInv /\ AttemptInv /\ DeliveryInv)'
  <2>. SUFFICES ASSUME TypeInv, AttemptInv, DeliveryInv, [Next]_vars
                PROVE  (TypeInv /\ AttemptInv /\ DeliveryInv)'
    OBVIOUS
  <2>1. TypeInv' /\ AttemptInv'
    BY NextType, NextAttempt
  <2>2. Numbered' /\ Prepared' /\ Verified' /\ Merged' /\ CycleOK'
    BY NextNumbered, NextPrepared, NextVerified, NextMerged, NextCycleOK DEF DeliveryInv
  <2>. QED  BY <2>1, <2>2 DEF DeliveryInv
<1>. QED  BY <1>1, <1>2, PTL DEF Spec

\* A DONE task was accepted in its present revision by its latest attempt, whose
\* candidate is in the goal's branch, whatever workers were lost, late or
\* restarted (_finalize_verified_implementation).
THEOREM ExecutionDoneIsVerified == Spec => []DoneIsVerified
<1>1. DeliveryInv => DoneIsVerified
  BY DEF DeliveryInv, Verified, DoneIsVerified
<1>. QED  BY <1>1, DeliveryInvariant, PTL

\* A DONE goal was merged with every task verified and every dependency merged
\* before it (GoalPromoter.promote).
THEOREM ExecutionGoalIsMerged == Spec => []DoneGoalIsMerged
<1>1. TypeInv /\ DeliveryInv => DoneGoalIsMerged
  <2>. SUFFICES ASSUME DeliveryInv, NEW g \in Goal, goalStatus[g] = "done"
                PROVE  /\ g \in merges
                       /\ CanPromoteGoal(TasksOf(g), taskStatus, HasEvidence)
                       /\ DependsOn[g] \subseteq merges
    BY DEF DoneGoalIsMerged
  <2>1. g \in DoneGoals
    BY DEF DoneGoals
  <2>2. g \in merges /\ Accepted(g) /\ DependsOn[g] \subseteq DoneGoals
    BY <2>1 DEF DeliveryInv, Merged
  <2>3. DoneGoals \subseteq merges
    BY DEF DeliveryInv, Merged
  <2>. QED  BY <2>2, <2>3, CanPromoteAccepted
<1>. QED  BY <1>1, DeliveryInvariant, PTL

\* Nothing takes back what a promotion was reserved for while the merge runs
\* outside any transaction: the TaskFailed that promote raises after it are
\* unreachable.
THEOREM ExecutionPromotionStaysValid == Spec => []PromotionStaysValid
<1>1. TypeInv /\ DeliveryInv => PromotionStaysValid
  <2>. SUFFICES ASSUME DeliveryInv, NEW g \in Goal, reservation[g] = GoalToken
                PROVE  ~PromotionSuperseded(g) /\ goalStatus[g] \notin Terminal
    BY DEF PromotionStaysValid
  <2>1. plan.active
    BY DEF DeliveryInv, CycleOK, NoReservation, Free, GoalToken
  <2>. QED  BY <2>1, CanPromoteAccepted DEF DeliveryInv, CycleOK, PromotionSuperseded
<1>. QED  BY <1>1, DeliveryInvariant, PTL

Delivered == {t \in Task : task[t].status = "done"}

\* The execution starts with nothing delivered.
LEMMA InitDelivers == Init => D!Init
  BY DEF Init, D!Init

\* Every step delivers a task, promotes a goal, supersedes the cycle, or leaves
\* what was delivered.
LEMMA NextDelivers ==
  TypeInv /\ DeliveryInv /\ [Next]_vars
    => [D!Next]_(D!delivery)
<1>. SUFFICES ASSUME TypeInv, DeliveryInv, [Next]_vars
              PROVE  [D!Next]_(D!delivery)
  OBVIOUS
<1>1. ASSUME NEW d \in Driver, FinalizeImplementation(d)
      PROVE  D!Next
  <2>. DEFINE t == unit[d].task
  <2>1. /\ unit[d] # None /\ t \in Task /\ GoalOf[t] = goal[d] /\ goal[d] \in Goal
        /\ task[t].status = "running"
    BY <1>1, NoneAssumption
    DEF FinalizeImplementation, MayFinalize, Current, TypeInv, TypeOK, PositionOK, UnitPC, Unit
  <2>2. plan.active
    <3>1. reservation[goal[d]] # Free
      BY <1>1 DEF FinalizeImplementation, MayFinalize, Mine, Attempt, Free
    <3>. QED  BY <2>1, <3>1 DEF DeliveryInv, CycleOK, NoReservation
  <2>3. goal[d] \notin DoneGoals
    BY <2>1 DEF DeliveryInv, Merged, Accepted
  <2>4. Delivered' = Delivered \cup {t} /\ t \notin Delivered
    BY <1>1, <2>1 DEF FinalizeImplementation, Delivered, TypeInv, TypeOK, TaskRecord
  <2>5. plan'.active = plan.active
    BY <1>1, PlanSaved DEF FinalizeImplementation, PlanOnward
  <2>6. DoneGoals' = DoneGoals
    BY <1>1 DEF FinalizeImplementation, DoneGoals
  <2>. HIDE DEF t
  <2>. QED  BY <2>1, <2>2, <2>3, <2>4, <2>5, <2>6
            DEF D!Next, D!Deliver, Delivered, DoneGoals
<1>2. ASSUME NEW d \in Driver, CompleteGoal(d)
      PROVE  D!Next
  <2>. DEFINE g == goal[d]
  <2>1. g \in Goal /\ g # None
    BY <1>2, ConstantsAssumption DEF CompleteGoal, TypeInv, PositionOK
  <2>2. plan.active /\ Accepted(g) /\ g \notin DoneGoals
    BY <1>2, CanPromoteAccepted DEF CompleteGoal, PromotionSuperseded, DoneGoals, Terminal
  <2>3. DependsOn[g] \subseteq DoneGoals
    BY <2>1 DEF DeliveryInv, Prepared
  <2>4. DoneGoals' = DoneGoals \cup {g}
    BY <1>2, <2>1 DEF CompleteGoal, DoneGoals, TypeInv, TypeOK
  <2>5. plan'.active = plan.active
    BY <1>2, PlanSaved DEF CompleteGoal, PlanOnward
  <2>6. Delivered' = Delivered
    BY <1>2 DEF CompleteGoal, Delivered
  <2>. HIDE DEF g
  <2>. QED  BY <2>1, <2>2, <2>3, <2>4, <2>5, <2>6
            DEF D!Next, D!Promote, Delivered, DoneGoals, Accepted
<1>3. CASE ActivateCycle
  <2>1. plan.active /\ plan'.active = FALSE
    BY <1>3 DEF ActivateCycle, DeliveryInv, CycleOK, TypeInv, TypeOK, PlanRecord
  <2>2. Delivered' = Delivered /\ DoneGoals' = DoneGoals
    BY <1>3 DEF ActivateCycle, ReplanStep, Delivered, DoneGoals
  <2>. QED  BY <2>1, <2>2 DEF D!Next, D!Supersede, Delivered, DoneGoals
<1>4. CASE /\ \A d \in Driver : ~FinalizeImplementation(d) /\ ~CompleteGoal(d)
           /\ ~ActivateCycle
  <2>1. Delivered' = Delivered
    BY <1>4, DoneStays, DoneComes DEF Delivered
  <2>2. DoneGoals' = DoneGoals
    BY <1>4, DoneGoalSteps DEF DoneGoals
  <2>3. plan'.active = plan.active
    <3>1. CASE RequestReplan
      BY <3>1 DEF RequestReplan, TypeInv, TypeOK, PlanRecord
    <3>. QED  BY <1>4, <3>1, PlanSteps DEF PlanOnward
  <2>. QED  BY <2>1, <2>2, <2>3 DEF D!delivery, Delivered, DoneGoals
<1>. QED  BY <1>1, <1>2, <1>3, <1>4

\* Whatever fails, is lost or comes late, and whatever the operator commands, the
\* workers only deliver: accepted work is never taken back or done twice, a goal
\* is promoted once and after what it depends on, and a superseded cycle gets
\* nothing more.
THEOREM ExecutionDelivers == Spec => DeliversOnce
<1>. QED  BY InitDelivers, NextDelivers, DeliveryInvariant, PTL DEF Spec, DeliversOnce, D!Spec

-----------------------------------------------------------------------------
(* A reserved attempt is open *)

\* A reservation for an attempt is the attempt's own driver's only from its
\* reservation to its finalizer.
ReservedByItsDriver ==
    \A d \in Driver :
        unit[d] # None /\ reservation[goal[d]] = Mine(unit[d])
          => pc[d] \in {"reserved", "committed"}

ReservedInv == ReservedAttemptIsOpen /\ ReservedByItsDriver

\* A driver with a reserved candidate keeps it or drops its unit.
LEMMA ReservedMoves ==
  ASSUME TypeInv, [Next]_vars, NEW e \in Driver,
         pc[e] \in {"reserved", "committed"}, unit'[e] # None
  PROVE  pc'[e] \in {"reserved", "committed"}
<1>. USE DEF TypeInv, TypeOK
<1>1. ASSUME NEW d \in Driver, DriverEnds(d) \/ DriverContinues(d) \/ DriverGoesOn(d)
      PROVE  pc'[e] \in {"reserved", "committed"}
  BY <1>1 DEF DriverGoesOn, DriverContinues, DriverEnds
<1>2. ASSUME NEW d \in Driver, NEW next, DriverAt(d, next),
             d # e \/ next \in {"reserved", "committed"}
      PROVE  pc'[e] \in {"reserved", "committed"}
  BY <1>2 DEF DriverAt
<1>3. ASSUME NEW d \in Driver, Scan(d) \/ DriverStep(d)
      PROVE  pc'[e] \in {"reserved", "committed"}
  <2>1. CASE Scan(d) \/ Claim(d)
    BY <2>1 DEF Scan, Claim
  <2>2. CASE StartUnit(d)
    BY <2>2 DEF StartUnit, Handles, StartTask
  <2>3. CASE Handle(d) /\ ~StartUnit(d)
    <3>1. DriverEnds(d) \/ (DriverAt(d, "merging") /\ pc[d] = "ready")
      BY <2>3 DEF Handle, HandleStops, CircuitBlocks, ReservePromotion, BlockUnpromotable,
                  BlockFailedGoal, HandleRaises, Raises, Escapes, Handles
    <3>. QED  BY <1>1, <1>2, <3>1
  <2>4. CASE FinalizeFailure(d)
    <3>1. DriverEnds(d) \/ DriverContinues(d) \/ DriverGoesOn(d)
      BY <2>4 DEF FinalizeFailure, FailRetry, FailRepair, FailTerminally
    <3>. QED  BY <1>1, <3>1
  <2>5. CASE RunUnit(d) /\ ~FinalizeFailure(d)
    <3>1. \/ DriverEnds(d) \/ DriverGoesOn(d)
          \/ DriverAt(d, "reserved") \/ DriverAt(d, "committed")
          \/ DriverAt(d, "stale") /\ pc[d] = "running"
      BY <2>5
      DEF RunUnit, ReserveCandidate, ReserveRefused, ReserveRaises, AbandonStale,
          CommitCandidate, FinalizeTestAuthor, FinalizeImplementation, FinalizeLost,
          FinalizeRaises, FailLate, FailureRaises, Raises, Escapes
    <3>. QED  BY <1>1, <1>2, <3>1
  <2>6. CASE Promote(d)
    <3>1. \/ DriverEnds(d) \/ DriverContinues(d)
          \/ DriverAt(d, "merged") /\ pc[d] = "merging"
      BY <2>6 DEF Promote, MergeGoal, CompleteGoal, PromotionLost, PromotionRaises,
                  RetryMerge, BlockPromotion, Raises, Escapes
    <3>. QED  BY <1>1, <1>2, <3>1
  <2>. QED  BY <1>3, <2>1, <2>2, <2>3, <2>4, <2>5, <2>6 DEF DriverStep
<1>4. CASE FaultStep
  <2>1. CASE Reconcile
    BY <2>1 DEF Reconcile, driving
  <2>2. ASSUME NEW d \in Driver,
               \/ AgentFails(d) \/ GitFails(d) \/ MergeFails(d) \/ ReserveGivesUp(d)
               \/ Contends(d) \/ LeaseExpires(d)
        PROVE  pc'[e] \in {"reserved", "committed"}
    <3>1. \/ DriverEnds(d) \/ UNCHANGED driving
          \/ DriverAt(d, "failed") /\ pc[d] = "running"
          \/ DriverAt(d, "unmerged") /\ pc[d] = "merging"
          \/ DriverAt(d, "stale") /\ pc[d] = "running"
      BY <2>2 DEF AgentFails, GitFails, MergeFails, ReserveGivesUp, Contends, LeaseExpires,
                      Escapes
    <3>. QED  BY <1>1, <1>2, <3>1 DEF driving
  <2>3. ASSUME NEW d \in Driver, Crash(d)
        PROVE  pc'[e] \in {"reserved", "committed"}
    BY <2>3 DEF Crash
  <2>. QED  BY <1>4, <2>1, <2>2, <2>3 DEF FaultStep
<1>5. CASE CommandStep
  BY <1>5
  DEF CommandStep, RequestPause, Resume, RetryTask, EditTask, AmendTask, RequestReplan,
      ProposeIntent, ApproveIntent, SubmitDraft, ActivateCycle, CancelReplan, ReplanStep,
      driving
<1>6. \/ EnterReview \/ (\E g \in Goal : OrphanExpires(g))
      \/ (\E t \in Task : BackoffElapses(t)) \/ UNCHANGED vars
      => UNCHANGED driving
  BY DEF EnterReview, OrphanExpires, BackoffElapses, vars, driving
<1>. QED  BY <1>3, <1>4, <1>5, <1>6 DEF Next, driving

\* A driver that closes the attempt its goal is reserved for frees the goal.
LEMMA ClosingFrees ==
  ASSUME TypeInv, ReservedByItsDriver, NEW d \in Driver, RunUnit(d), unit[d] # None,
         reservation[goal[d]] = Mine(unit[d])
  PROVE  ledger' = ledger \/ reservation'[goal[d]] = Free
<1>1. pc[d] \in {"reserved", "committed"}
  BY DEF ReservedByItsDriver
<1>2. goal[d] \in Goal /\ reservation \in [Goal -> Reservation]
  BY <1>1 DEF TypeInv, TypeOK, PositionOK
<1>3. CASE pc[d] = "reserved"
  BY <1>3 DEF RunUnit, ReserveCandidate, ReserveRefused, ReserveRaises, AbandonStale,
           CommitCandidate, FinalizeTestAuthor, FinalizeImplementation, FinalizeLost,
           FinalizeRaises, MayFinalize, FailLate, FinalizeFailure, FailureRaises
<1>4. CASE pc[d] = "committed"
  <2>1. \/ FinalizeTestAuthor(d) \/ FinalizeImplementation(d)
        \/ FinalizeLost(d) \/ FinalizeRaises(d)
    BY <1>4 DEF RunUnit, ReserveCandidate, ReserveRefused, ReserveRaises, AbandonStale,
           CommitCandidate, FailLate, FinalizeFailure, FailureRaises
  <2>. QED  BY <1>2, <2>1
       DEF FinalizeTestAuthor, FinalizeImplementation, FinalizeLost, FinalizeRaises,
           Raises, Escapes, Released
<1>. QED  BY <1>1, <1>3, <1>4

\* Who takes a reservation, and for what.
LEMMA ReservationTaken ==
  ASSUME TypeInv, [Next]_vars, NEW g \in Goal, reservation'[g].holder = "attempt"
  PROVE  \/ reservation'[g] = reservation[g]
         \/ \E d \in Driver : /\ ReserveCandidate(d) /\ goal[d] = g
                              /\ reservation'[g] = Mine(unit[d])
<1>1. reservation \in [Goal -> Reservation]
  BY DEF TypeInv, TypeOK
<1>2. ASSUME NEW d \in Driver, ReservePromotion(d)
      PROVE  reservation'[g] = reservation[g]
  BY <1>1, <1>2 DEF ReservePromotion, GoalToken
<1>3. ASSUME NEW d \in Driver, ReserveCandidate(d)
      PROVE  \/ reservation'[g] = reservation[g]
             \/ goal[d] = g /\ reservation'[g] = Mine(unit[d])
  BY <1>1, <1>3 DEF ReserveCandidate
<1>. QED  BY <1>2, <1>3, ReservationSteps DEF Free

\* Only the driver itself reserves its goal for its attempt, and while it has the
\* reservation it is on its way to its finalizer.
LEMMA NextReservedByItsDriver ==
  ASSUME TypeInv, AttemptInv, ReservedInv, [Next]_vars
  PROVE  ReservedByItsDriver'
<1>. SUFFICES ASSUME NEW e \in Driver, unit'[e] # None, reservation'[goal'[e]] = Mine(unit[e])'
              PROVE  pc'[e] \in {"reserved", "committed"}
  BY DEF ReservedByItsDriver
<1>1. TypeInv'
  BY NextType
<1>2. goal'[e] \in Goal /\ GoalOf[unit'[e].task] = goal'[e]
  BY <1>1 DEF TypeInv, PositionOK, UnitPC
<1>3. /\ reservation'[goal'[e]].holder = "attempt"
      /\ reservation'[goal'[e]].task = unit'[e].task
      /\ reservation'[goal'[e]].number = unit'[e].number
  BY DEF Mine, Attempt
<1>4. CASE StartUnit(e)
  <2>1. PICK t \in Action(goal[e]).tasks : StartTask(e, t)
    BY <1>4 DEF StartUnit
  <2>2. t \in Task
    BY <1>4, <2>1, SelectedTask DEF StartUnit, Handles
  <2>3. /\ unit'[e].task = t /\ unit'[e].number = Len(ledger[t]) + 1
        /\ goal'[e] = goal[e]
    BY <2>1 DEF StartTask, NextUnit, TypeInv, TypeOK
  <2>4. \A d \in Driver : ~ReserveCandidate(d)
    <3>. SUFFICES ASSUME NEW d \in Driver, ReserveCandidate(d)
                  PROVE  FALSE
      OBVIOUS
    <3>1. ledger' = ledger
      BY DEF ReserveCandidate
    <3>2. ledger' = [ledger EXCEPT ![t] = Append(Reclaimed(t), "running")]
      BY <2>1 DEF StartTask
    <3>3. Len(ledger'[t]) = Len(ledger[t]) + 1
      BY <2>2, <3>2, LedgerGrows DEF TypeInv, TypeOK
    <3>4. Len(ledger[t]) \in Nat
      BY <2>2 DEF TypeInv, TypeOK
    <3>. QED  BY <3>1, <3>3, <3>4
  <2>5. reservation'[goal'[e]] = reservation[goal'[e]]
    BY <1>2, <1>3, <2>4, ReservationTaken
  <2>6. Len(ledger[t]) + 1 \in OpenAttempts(t)
    BY <1>2, <1>3, <2>3, <2>5 DEF ReservedInv, ReservedAttemptIsOpen
  <2>7. Len(ledger[t]) \in Nat /\ DOMAIN ledger[t] = 1..Len(ledger[t])
    BY <2>2 DEF TypeInv, TypeOK
  <2>. QED  BY <2>6, <2>7 DEF OpenAttempts
<1>5. CASE ~StartUnit(e)
  <2>1. unit'[e] = unit[e] /\ unit[e] # None
    <3>1. CASE Scan(e) \/ CommitCandidate(e) \/ MergeGoal(e)
      BY <3>1 DEF Scan, CommitCandidate, MergeGoal, DriverAt
    <3>2. CASE DriverOnward(e)
      BY <3>2 DEF DriverOnward
    <3>. QED  BY <1>5, <3>1, <3>2, DriverSteps
  <2>2. goal'[e] = goal[e]
    BY <1>2, <2>1 DEF TypeInv, PositionOK
  <2>3. CASE reservation'[goal[e]] = reservation[goal[e]]
    <3>1. reservation[goal[e]] = Mine(unit[e])
      BY <2>1, <2>2, <2>3 DEF Mine
    <3>2. pc[e] \in {"reserved", "committed"}
      BY <2>1, <3>1 DEF ReservedInv, ReservedByItsDriver
    <3>. QED  BY <3>2, ReservedMoves
  <2>4. ASSUME NEW d \in Driver, ReserveCandidate(d), goal[d] = goal[e],
               reservation'[goal[e]] = Mine(unit[d])
        PROVE  pc'[e] = "reserved"
    <3>1. unit[d] # None
      BY <2>4 DEF ReserveCandidate, TypeInv, PositionOK, UnitPC
    <3>2. unit[d].task = unit[e].task /\ unit[d].number = unit[e].number
      BY <1>3, <2>1, <2>2, <2>4 DEF Mine, Attempt
    <3>3. d = e
      BY <2>1, <3>1, <3>2 DEF AttemptInv, UnitsDistinct
    <3>. QED  BY <2>4, <3>3 DEF ReserveCandidate, DriverAt, TypeInv, TypeOK
  <2>. QED  BY <1>2, <1>3, <2>2, <2>3, <2>4, ReservationTaken
<1>. QED  BY <1>4, <1>5

\* Without a restart an attempt is closed with the reservation held for it: by
\* its driver, or by the reclaim of its task.
LEMMA NextReservedOpen ==
  ASSUME "restart" \notin Faults, TypeInv, AttemptInv, ReservedInv, [Next]_vars
  PROVE  ReservedAttemptIsOpen'
<1>. SUFFICES ASSUME NEW g \in Goal, reservation'[g].holder = "attempt"
              PROVE  /\ GoalOf[reservation'[g].task] = g
                     /\ (reservation[g].number \in OpenAttempts(reservation[g].task))'
  BY DEF ReservedAttemptIsOpen
<1>1. reservation \in [Goal -> Reservation]
  BY DEF TypeInv, TypeOK
<1>2. ASSUME NEW d \in Driver, ReserveCandidate(d), goal[d] = g, reservation'[g] = Mine(unit[d])
      PROVE  /\ GoalOf[reservation'[g].task] = g
             /\ (reservation[g].number \in OpenAttempts(reservation[g].task))'
  <2>1. reservation'[g].task = unit[d].task /\ reservation'[g].number = unit[d].number
    BY <1>2 DEF Mine, Attempt
  <2>2. GoalOf[unit[d].task] = g
    BY <1>2 DEF ReserveCandidate, TypeInv, PositionOK, UnitPC
  <2>3. unit[d].number \in OpenAttempts(unit[d].task) /\ ledger' = ledger
    BY <1>2 DEF ReserveCandidate, MayReserve
  <2>. QED  BY <2>1, <2>2, <2>3 DEF OpenAttempts
<1>3. CASE reservation'[g] = reservation[g]
  <2>. DEFINE t == reservation[g].task
              n == reservation[g].number
  <2>1. /\ reservation[g] = Attempt(t, n) /\ t \in Task
        /\ GoalOf[t] = g /\ n \in DOMAIN ledger[t] /\ ledger[t][n] = "running"
    BY <1>1, <1>3 DEF Reservation, Free, GoalToken, Attempt, ReservedInv,
                      ReservedAttemptIsOpen, OpenAttempts
  <2>. HIDE DEF t, n
  <2>. SUFFICES n \in DOMAIN ledger'[t] /\ ledger'[t][n] = "running"
    BY <1>3, <2>1 DEF OpenAttempts, t, n
  <2>2. CASE Quiet
    BY <2>1, <2>2 DEF Quiet
  <2>3. ASSUME NEW d \in Driver, RunUnit(d), NEW outcome \in Outcome, Closes(d, outcome)
        PROVE  n \in DOMAIN ledger'[t] /\ ledger'[t][n] = "running"
    <3>1. /\ DOMAIN ledger'[t] = DOMAIN ledger[t]
          /\ ledger'[t][n] = IF t = unit[d].task /\ n = unit[d].number
                               THEN outcome ELSE ledger[t][n]
      BY <2>1, <2>3, FinishEffect
    <3>2. CASE t = unit[d].task /\ n = unit[d].number
      <4>1. unit[d] # None
        BY <2>3 DEF Closes
      <4>2. goal[d] = g
        BY <2>1, <3>2, <4>1 DEF TypeInv, PositionOK
      <4>3. reservation[goal[d]] = Mine(unit[d])
        BY <2>1, <3>2, <4>2 DEF Mine
      <4>4. ledger' = ledger \/ reservation'[g] = Free
        BY <2>3, <4>1, <4>2, <4>3, ClosingFrees DEF ReservedInv
      <4>5. reservation'[g] # Free
        BY DEF Free
      <4>. QED  BY <2>1, <4>4, <4>5
    <3>. QED  BY <2>1, <3>1, <3>2
  <2>4. ASSUME NEW d \in Driver, StartUnit(d)
        PROVE  n \in DOMAIN ledger'[t] /\ ledger'[t][n] = "running"
    <3>1. PICK s \in Action(goal[d]).tasks : StartTask(d, s)
      BY <2>4 DEF StartUnit
    <3>2. s \in Task /\ GoalOf[s] = goal[d]
      BY <2>4, <3>1, SelectedTask DEF StartUnit, Handles
    <3>3. ledger' = [ledger EXCEPT ![s] = Append(Reclaimed(s), "running")]
      BY <3>1 DEF StartTask
    <3>4. CASE s # t
      BY <2>1, <3>3, <3>4
    <3>5. CASE s = t
      <4>1. n \notin StaleAttempts(t)
        <5>. SUFFICES ASSUME n \in StaleAttempts(t)
                      PROVE  FALSE
          OBVIOUS
        <5>1. reservation' = [reservation EXCEPT ![g] = Free]
          BY <2>1, <3>1, <3>2, <3>5 DEF StartTask, ReleasedFrom
        <5>. QED  BY <1>1, <5>1 DEF Free
      <4>2. DOMAIN ledger[t] = 1..Len(ledger[t]) /\ Len(ledger[t]) \in Nat
        BY <2>1 DEF TypeInv, TypeOK
      <4>3. ledger'[t] = Append(Reclaimed(t), "running")
        BY <2>1, <3>3, <3>5 DEF TypeInv, TypeOK
      <4>4. /\ ledger'[t] \in Seq(AttemptStatus) /\ Len(ledger'[t]) = Len(ledger[t]) + 1
            /\ \A m \in 1..Len(ledger[t]) : ledger'[t][m] = Reclaimed(t)[m]
        BY <2>1, <4>3, LedgerGrows DEF TypeInv
      <4>5. DOMAIN ledger'[t] = 1..(Len(ledger[t]) + 1)
        BY <4>4
      <4>6. n \in DOMAIN ledger'[t] /\ ledger'[t][n] = Reclaimed(t)[n]
        BY <2>1, <4>2, <4>4, <4>5
      <4>. QED  BY <2>1, <4>1, <4>6 DEF Reclaimed
    <3>. QED  BY <3>4, <3>5
  <2>5. ~Reconcile
    BY DEF Reconcile, Fault
  <2>. QED  BY <2>2, <2>3, <2>4, <2>5, StepClass
<1>. QED  BY <1>2, <1>3, ReservationTaken

\* As long as no worker is started anew, the attempt a goal is reserved for is
\* open, so the next driver of the goal can reclaim it (_start_unit releases the
\* reservations of open attempts only).  A restart breaks it: see
\* PhantomReservation.cfg.
THEOREM ExecutionReservedAttemptIsOpen ==
  ASSUME "restart" \notin Faults
  PROVE  Spec => []ReservedAttemptIsOpen
<1>1. Init => ReservedInv
  BY DEF Init, ReservedInv, ReservedAttemptIsOpen, ReservedByItsDriver, Free
<1>2. TypeInv /\ AttemptInv /\ ReservedInv /\ [Next]_vars => ReservedInv'
  BY NextReservedByItsDriver, NextReservedOpen DEF ReservedInv
<1>3. ReservedInv => ReservedAttemptIsOpen
  BY DEF ReservedInv
<1>. QED  BY <1>1, <1>2, <1>3, AttemptInvariant, PTL DEF Spec

-----------------------------------------------------------------------------
(* A plan is blocked when nothing can progress *)

\* A cycle none of whose unfinished goals is blocked is not stuck.
LEMMA NothingBlocked ==
  ASSUME NEW states, NEW blocked,
         NonTerminal(Goal, states) # {}, blocked \cap NonTerminal(Goal, states) = {}
  PROVE  PlanCanProgress(Goal, states, DependsOn, blocked)
<1>. DEFINE live == NonTerminal(Goal, states)
<1>1. IsFiniteSet(live)
  BY ConstantsAssumption, FS_Subset DEF NonTerminal
<1>2. Closed(live, DependsOn, {})
  BY DEF Closed
<1>. HIDE DEF live
<1>3. BlockedNodes(live, DependsOn, blocked) \subseteq {}
  BY <1>1, <1>2, BlockedNodesLeast DEF live
<1>. QED  BY <1>3 DEF PlanCanProgress, live

\* A cycle whose unfinished goals are a blocked one and those that depend on it
\* is stuck.
LEMMA AllBlocked ==
  ASSUME NEW states, NEW blocked, NEW g \in blocked, g \in NonTerminal(Goal, states),
         \A h \in NonTerminal(Goal, states) : h = g \/ g \in DependsOn[h]
  PROVE  ~PlanCanProgress(Goal, states, DependsOn, blocked)
<1>. DEFINE live == NonTerminal(Goal, states)
            found == BlockedNodes(live, DependsOn, blocked)
<1>1. IsFiniteSet(live)
  BY ConstantsAssumption, FS_Subset DEF NonTerminal
<1>. HIDE DEF live
<1>2. blocked \cap live \subseteq found /\ Closed(live, DependsOn, found)
  BY <1>1, BlockedNodesLeast
<1>. HIDE DEF found
<1>3. live \subseteq found
  BY <1>2 DEF Closed, live
<1>. QED  BY <1>3 DEF PlanCanProgress, live, found

\* No pause was asked for or is in effect.
Unpaused == ~plan.paused /\ ~plan.pauseRequested

\* The plan has the status that follows from the blocks.
StatusFollows ==
    /\ plan.status \in {"running", "blocked"}
    /\ plan.status = "blocked" <=>
          ~PlanCanProgress(Goal, goalStatus, DependsOn, BlockedGoals(block))

StatusDerived ==
    plan.active /\ plan.replan = "none" /\ NonTerminal(Goal, goalStatus) # {}
      => StatusFollows

StatusInv == Unpaused /\ StatusDerived

\* What the derivation of the status gives for an active, unfinished cycle.
LEMMA RecomputeDerives ==
  ASSUME NEW p \in PlanRecord, NEW states, NEW blocks,
         p.active, NonTerminal(Goal, states) # {}
  PROVE  LET q == Recompute(p, states, blocks)
             stuck == ~PlanCanProgress(Goal, states, DependsOn, BlockedGoals(blocks))
         IN  /\ q.paused = p.paused /\ q.pauseRequested = p.pauseRequested
             /\ q.replan = p.replan
             /\ stuck => q.status = "blocked"
             /\ ~stuck /\ p.status = "blocked" => q.status = "running"
             /\ ~stuck /\ p.status # "blocked" => q.status = p.status
  BY DEF Recompute, PlanRecord

\* A finished goal stays finished.
LEMMA TerminalStays ==
  ASSUME TypeInv, [Next]_vars
  PROVE  /\ NonTerminal(Goal, goalStatus') \subseteq NonTerminal(Goal, goalStatus)
         /\ (\A d \in Driver : ~CompleteGoal(d)) =>
               NonTerminal(Goal, goalStatus') = NonTerminal(Goal, goalStatus)
<1>1. ASSUME NEW g \in Goal, goalStatus[g] \in Terminal
      PROVE  goalStatus'[g] \in Terminal
  <2>1. ASSUME NEW d \in Driver, CompleteGoal(d)
        PROVE  goalStatus'[g] = goalStatus[g]
    BY <1>1, <2>1 DEF CompleteGoal, TypeInv, TypeOK
  <2>. QED  BY <1>1, <2>1, GoalSteps DEF GoalOnward
<1>2. ASSUME \A d \in Driver : ~CompleteGoal(d), NEW g \in Goal, goalStatus[g] \notin Terminal
      PROVE  goalStatus'[g] \notin Terminal
  BY <1>2, GoalSteps DEF GoalOnward, Terminal
<1>. QED  BY <1>1, <1>2 DEF NonTerminal

\* Nothing but a pause command pauses.
LEMMA NextUnpaused ==
  ASSUME "pause" \notin Commands, TypeInv, Unpaused, [Next]_vars
  PROVE  Unpaused'
<1>1. plan \in PlanRecord
  BY DEF TypeInv, TypeOK
<1>2. SettleRequestedPause(plan) = plan
  BY DEF Unpaused, SettleRequestedPause
<1>3. CASE ~MovesPlan
  <2>1. PICK q \in {plan} \cup {Recompute(plan, goalStatus', block')} : plan' \in {q, Saved(q)}
    BY <1>2, <1>3, PlanClass
  <2>2. q \in PlanRecord
    BY <1>1, PlanOperators
  <2>3. q.paused = plan.paused /\ q.pauseRequested = plan.pauseRequested
    BY <1>1 DEF Recompute, PlanRecord
  <2>. QED  BY <2>1, <2>2, <2>3 DEF Unpaused, Saved, PlanRecord
<1>4. CASE MovesPlan
  BY <1>1, <1>4
  DEF MovesPlan, RequestPause, Resume, EnterReview, RequestReplan, ProposeIntent, ApproveIntent,
      SubmitDraft, ActivateCycle, CancelReplan, Command, Unpaused, Saved, PlanRecord
<1>. QED  BY <1>3, <1>4

\* Whatever blocks, frees or finishes a goal derives the status again.
LEMMA NextStatusDerived ==
  ASSUME "pause" \notin Commands, TypeInv, StatusInv, [Next]_vars
  PROVE  StatusDerived'
<1>. SUFFICES ASSUME plan'.active, plan'.replan = "none", NonTerminal(Goal, goalStatus') # {}
              PROVE  StatusFollows'
  BY DEF StatusDerived
<1>1. plan \in PlanRecord
  BY DEF TypeInv, TypeOK
<1>2. ~RequestReplan /\ ~ActivateCycle
  <2>1. RequestReplan => plan'.replan = "conversation"
    BY <1>1 DEF RequestReplan, PlanRecord
  <2>2. ActivateCycle => plan'.active = FALSE
    BY <1>1 DEF ActivateCycle, PlanRecord
  <2>. QED  BY <2>1, <2>2
<1>3. /\ plan.active /\ plan.replan = "none" /\ NonTerminal(Goal, goalStatus) # {}
      /\ StatusFollows
  BY <1>2, PlanSteps, TerminalStays DEF PlanOnward, StatusInv, StatusDerived
<1>4. ~MovesPlan
  BY <1>2, <1>3
  DEF MovesPlan, RequestPause, Resume, EnterReview, ProposeIntent, ApproveIntent,
      SubmitDraft, CancelReplan, Command, StatusInv, Unpaused
<1>5. Saved(plan) = plan /\ SettleRequestedPause(plan) = plan
  BY <1>3 DEF Saved, SettleRequestedPause, StatusInv, Unpaused
<1>6. CASE plan' = Saved(Recompute(plan, goalStatus', block'))
  <2>. DEFINE q == Recompute(plan, goalStatus', block')
              stuck == ~PlanCanProgress(Goal, goalStatus', DependsOn, BlockedGoals(block'))
  <2>1. /\ q.replan = plan.replan
        /\ stuck => q.status = "blocked"
        /\ ~stuck /\ plan.status = "blocked" => q.status = "running"
        /\ ~stuck /\ plan.status # "blocked" => q.status = plan.status
    BY <1>1, <1>3, RecomputeDerives
  <2>2. plan' = q
    BY <1>3, <1>6, <2>1 DEF Saved
  <2>. HIDE DEF q
  <2>3. plan'.status \in {"running", "blocked"} /\ (plan'.status = "blocked" <=> stuck)
    BY <1>3, <2>1, <2>2 DEF StatusFollows
  <2>. QED  BY <2>3 DEF StatusFollows
<1>7. CASE block' = block /\ plan' = plan /\ \A d \in Driver : ~CompleteGoal(d)
  <2>1. NonTerminal(Goal, goalStatus') = NonTerminal(Goal, goalStatus)
    BY <1>7, TerminalStays
  <2>2. PlanCanProgress(Goal, goalStatus', DependsOn, BlockedGoals(block))
          <=> PlanCanProgress(Goal, goalStatus, DependsOn, BlockedGoals(block))
    BY <2>1 DEF PlanCanProgress
  <2>. QED  BY <1>3, <1>7, <2>2 DEF StatusFollows
<1>8. ASSUME NEW d \in Driver, CompleteGoal(d)
      PROVE  plan' = Saved(Recompute(plan, goalStatus', block'))
  BY <1>8 DEF CompleteGoal
<1>. QED  BY <1>4, <1>5, <1>6, <1>7, <1>8, PlanClass

\* The status of the plan is an invariant as long as no pause is asked for.
LEMMA StatusInvariant ==
  ASSUME "pause" \notin Commands
  PROVE  Spec => [](TypeInv /\ AttemptInv /\ DeliveryInv /\ StatusInv)
<1>1. Init => StatusInv
  <2>1. Init => plan.status = "running" /\ Unpaused
    BY DEF Init, Unpaused
  <2>2. Init => BlockedGoals(block) = {}
    BY DEF Init, BlockedGoals
  <2>3. NonTerminal(Goal, goalStatus) # {}
          => PlanCanProgress(Goal, goalStatus, DependsOn, {})
    BY NothingBlocked
  <2>. QED  BY <2>1, <2>2, <2>3 DEF StatusInv, StatusDerived, StatusFollows
<1>2. TypeInv /\ StatusInv /\ [Next]_vars => StatusInv'
  BY NextUnpaused, NextStatusDerived DEF StatusInv
<1>. QED  BY <1>1, <1>2, DeliveryInvariant, PTL DEF Spec

-----------------------------------------------------------------------------
(* What blocks a goal, what opens an attempt and what ends the phase *)

Open(t) == OpenAttempts(t) # {}

\* Only _start_unit opens an attempt.
LEMMA OpenSteps ==
  ASSUME TypeInv, AttemptInv, [Next]_vars, \A d \in Driver : ~StartUnit(d),
         NEW t \in Task, Open(t)'
  PROVE  Open(t)
<1>1. CASE Quiet
  BY <1>1 DEF Quiet, Open, OpenAttempts
<1>2. ASSUME NEW d \in Driver, NEW outcome \in Outcome, Closes(d, outcome)
      PROVE  Open(t)
  BY <1>2, FinishEffect DEF Open, OpenAttempts, Outcome
<1>3. CASE Reconcile
  BY <1>3 DEF Reconcile, Open, OpenAttempts
<1>. QED  BY <1>1, <1>2, <1>3, StepClass

\* A finalizer finds its attempt open and leaves its task without one.
LEMMA SettlesCloses ==
  ASSUME TypeInv, AttemptInv, NEW d \in Driver, Settles(d)
  PROVE  \E t \in Task : unit[d] # None /\ t = unit[d].task /\ Open(t) /\ ~Open(t)'
<1>. DEFINE u == unit[d]
<1>1. PICK outcome \in {"succeeded", "failed"} : CanFinish(u, outcome) /\ Finish(u, outcome)
  BY DEF Settles, FinalizeTestAuthor, FinalizeImplementation, FinalizeFailure, FailRetry,
         FailRepair, FailTerminally
<1>2. u # None
  <2>1. pc[d] \in {"committed", "failed"}
    BY DEF Settles, FinalizeTestAuthor, FinalizeImplementation, FinalizeFailure, MayFinalize
  <2>. QED  BY <2>1 DEF TypeInv, PositionOK, UnitPC
<1>3. PICK t \in Task : t = u.task
  BY <1>2 DEF TypeInv, TypeOK, Unit
<1>4. u.number \in DOMAIN ledger[t] /\ ledger[t][u.number] = "running"
  BY <1>1, <1>2, <1>3 DEF CanFinish, AttemptInv, UnitsInLedger
<1>5. u.number = Len(ledger[t])
  BY <1>4 DEF AttemptInv, OnlyLastOpen
<1>6. /\ DOMAIN ledger'[t] = DOMAIN ledger[t]
      /\ \A n \in DOMAIN ledger[t] :
           ledger'[t][n] = IF n = u.number THEN outcome ELSE ledger[t][n]
  BY <1>1, <1>2, <1>3, FinishWrites DEF Outcome
<1>. HIDE DEF u
<1>7. ~Open(t)'
  <2>. SUFFICES ASSUME NEW n \in DOMAIN ledger'[t], ledger'[t][n] = "running"
                PROVE  FALSE
    BY DEF Open, OpenAttempts
  <2>1. n # u.number /\ n \in DOMAIN ledger[t] /\ ledger[t][n] = "running"
    BY <1>1, <1>6
  <2>2. n = Len(ledger[t])
    BY <2>1 DEF AttemptInv, OnlyLastOpen
  <2>. QED  BY <1>5, <2>1, <2>2
<1>. QED  BY <1>2, <1>3, <1>4, <1>7 DEF Open, OpenAttempts, u

\* A goal is blocked by open_block for it, and freed by a retry or a replan.
LEMMA BlockSteps ==
  ASSUME TypeInv, [Next]_vars, NEW g \in Goal, block'[g] # block[g]
  PROVE  \/ \E d \in Driver : BlocksGoal(d) /\ goal[d] = g
         \/ block'[g] = None /\ \/ \E t \in Task : RetryTask(t) /\ GoalOf[t] = g
                                \/ RequestReplan \/ ActivateCycle
<1>1. block \in [Goal -> BlockRecord \cup {None}]
  BY DEF TypeInv, TypeOK
<1>2. ASSUME NEW h, NEW kind, NEW t, OpenBlock(h, kind, t)
      PROVE  h = g
  BY <1>1, <1>2 DEF OpenBlock
<1>3. ASSUME NEW d \in Driver, Scan(d) \/ DriverStep(d)
      PROVE  BlocksGoal(d) /\ goal[d] = g
  <2>1. CASE Scan(d) \/ Claim(d) \/ Handle(d)
    <3>1. CircuitBlocks(d) \/ BlockUnpromotable(d) \/ BlockFailedGoal(d)
      BY <2>1
      DEF Scan, Claim, Handle, HandleStops, StartUnit, StartTask, ReservePromotion,
          HandleRaises, Raises, Escapes, aggregate
    <3>. QED  BY <1>2, <3>1 DEF BlocksGoal, CircuitBlocks, BlockUnpromotable, BlockFailedGoal
  <2>2. CASE RunUnit(d)
    <3>1. CASE FinalizeFailure(d)
      <4>1. PICK kind \in FailureKinds :
              FailRetry(d, kind) \/ FailRepair(d, kind) \/ FailTerminally(d, kind)
        BY <3>1 DEF FinalizeFailure
      <4>2. FailTerminally(d, kind)
        BY <4>1 DEF FailRetry, FailRepair
      <4>3. goal[d] = g
        BY <1>2, <4>2 DEF FailTerminally
      <4>. QED  BY <3>1, <4>2, <4>3 DEF BlocksGoal
    <3>2. CASE ~FinalizeFailure(d)
      BY <2>2, <3>2
      DEF RunUnit, ReserveCandidate, ReserveRefused, ReserveRaises, AbandonStale, CommitCandidate,
          FinalizeTestAuthor, FinalizeImplementation, FinalizeLost, FinalizeRaises, FailLate,
          FailureRaises, Raises, Escapes, aggregate
    <3>. QED  BY <3>1, <3>2
  <2>3. CASE Promote(d)
    <3>1. BlockPromotion(d)
      BY <2>3
      DEF Promote, MergeGoal, CompleteGoal, PromotionLost, PromotionRaises, RetryMerge,
          Raises, Escapes, aggregate
    <3>. QED  BY <1>2, <3>1 DEF BlocksGoal, BlockPromotion
  <2>. QED  BY <1>3, <2>1, <2>2, <2>3 DEF DriverStep
<1>4. ~FaultStep
  BY DEF FaultStep, AgentFails, GitFails, MergeFails, ReserveGivesUp, Contends, Crash,
      LeaseExpires, Reconcile,
      Escapes, aggregate
<1>5. CASE CommandStep
  <2>1. ASSUME NEW t \in Task, RetryTask(t)
        PROVE  block'[g] = None /\ GoalOf[t] = g
    BY <1>1, <2>1 DEF RetryTask
  <2>2. RequestReplan \/ ActivateCycle => block'[g] = None
    BY DEF RequestReplan, ActivateCycle
  <2>. QED  BY <1>5, <2>1, <2>2
       DEF CommandStep, RequestPause, Resume, EditTask, AmendTask, ProposeIntent,
           ApproveIntent, SubmitDraft, CancelReplan, ReplanStep
<1>6. \/ EnterReview \/ (\E h \in Goal : OrphanExpires(h))
      \/ (\E t \in Task : BackoffElapses(t)) \/ UNCHANGED vars
      => block' = block
  BY DEF EnterReview, OrphanExpires, BackoffElapses, vars, aggregate
<1>. QED  BY <1>3, <1>4, <1>5, <1>6 DEF Next

\* The plan leaves its running phase for good.
LEMMA PhaseSteps ==
  ASSUME TypeInv, [Next]_vars, ~RequestReplan, ~ActivateCycle
  PROVE  plan'.phase = plan.phase
<1>1. plan \in PlanRecord
  BY DEF TypeInv, TypeOK
<1>2. CASE ~MovesPlan
  <2>1. PICK q \in {plan, SettleRequestedPause(plan)} \cup {Recompute(plan, goalStatus', block')} :
          plan' \in {q, Saved(q)}
    BY <1>2, PlanClass
  <2>2. q \in PlanRecord
    BY <1>1, <2>1, PlanOperators
  <2>3. q.phase = plan.phase
    BY <1>1 DEF Recompute, SettleRequestedPause, SettlePause, PlanRecord
  <2>. QED  BY <2>1, <2>2, <2>3 DEF Saved, PlanRecord
<1>3. CASE MovesPlan
  BY <1>1, <1>3
  DEF MovesPlan, RequestPause, Resume, EnterReview, ProposeIntent, ApproveIntent,
      SubmitDraft, CancelReplan, Saved, SettlePause, PlanRecord
<1>. QED  BY <1>2, <1>3

-----------------------------------------------------------------------------
(* One goal at a time *)

\* The dependencies leave one goal to work on at a time: of two goals one waits
\* for the other.
SerialGoals == \A g, h \in Goal : g = h \/ g \in DependsOn[h] \/ h \in DependsOn[g]

Due(g) == DependsOn[g] \subseteq DoneGoals

Live(g) == goalStatus[g] \notin Terminal

\* The goal under way is the only one, and every other unfinished goal waits for it.
LEMMA OneGoalAtATime ==
  ASSUME SerialGoals, NEW g \in Goal, Due(g), Live(g), NEW h \in Goal, Live(h)
  PROVE  /\ h = g \/ g \in DependsOn[h]
         /\ Due(h) => h = g
  BY DEF SerialGoals, Due, Live, DoneGoals, Terminal

\* A block of the goal under way leaves nothing to do.
LEMMA BlockedAlone ==
  ASSUME SerialGoals, NEW g \in Goal, Due(g), Live(g), NEW blocks, blocks[g] # None
  PROVE  ~PlanCanProgress(Goal, goalStatus, DependsOn, BlockedGoals(blocks))
<1>1. g \in NonTerminal(Goal, goalStatus) /\ g \in BlockedGoals(blocks)
  BY DEF NonTerminal, Live, BlockedGoals
<1>2. \A h \in NonTerminal(Goal, goalStatus) : h = g \/ g \in DependsOn[h]
  BY OneGoalAtATime DEF NonTerminal, Live
<1>. QED  BY <1>1, <1>2, AllBlocked

\* A goal waits, is under way, or is done.
GoalStatuses == \A g \in Goal : goalStatus[g] \in {"pending", "running", "done"}

\* No step skips or fails a goal.
LEMMA NextGoalStatuses ==
  ASSUME TypeInv, GoalStatuses, [Next]_vars
  PROVE  GoalStatuses'
<1>1. ASSUME NEW d \in Driver, CompleteGoal(d)
      PROVE  GoalStatuses'
  BY <1>1 DEF CompleteGoal, GoalStatuses, TypeInv, TypeOK
<1>2. CASE \A d \in Driver : ~CompleteGoal(d)
  BY <1>2, GoalSteps DEF GoalOnward, GoalStatuses
<1>. QED  BY <1>1, <1>2

\* A goal with a task that is not accepted is not finished.
LEMMA GoalsLive ==
  ASSUME GoalStatuses, Merged, NEW g \in Goal, ~Accepted(g)
  PROVE  Live(g)
  BY DEF GoalStatuses, Merged, DoneGoals, Live, Terminal

\* What a driver that blocks its goal finds.
LEMMA BlocksLive ==
  ASSUME TypeInv, DeliveryInv, GoalStatuses, NEW d \in Driver, BlocksGoal(d)
  PROVE  /\ goal[d] \in Goal /\ Due(goal[d]) /\ Live(goal[d])
         /\ block[goal[d]] = None
         /\ BlockPromotion(d) \/ ~Accepted(goal[d])
         /\ \E kind, t : OpenBlock(goal[d], kind, t)
<1>1. pc[d] # "idle"
  BY DEF BlocksGoal, CircuitBlocks, BlockUnpromotable, BlockFailedGoal, BlockPromotion,
         FinalizeFailure, Handles
<1>2. goal[d] \in Goal /\ goal[d] # None
  BY <1>1, ConstantsAssumption DEF TypeInv, PositionOK
<1>3. Due(goal[d])
  BY <1>2 DEF DeliveryInv, Prepared, Due
<1>4. \E kind, t : OpenBlock(goal[d], kind, t)
  BY DEF BlocksGoal, CircuitBlocks, BlockUnpromotable, BlockFailedGoal, BlockPromotion,
         FailTerminally
<1>5. block[goal[d]] = None
  BY <1>4 DEF OpenBlock
<1>6. CASE CircuitBlocks(d)
  <2>1. PICK t \in Action(goal[d]).tasks : TRUE
    BY <1>6 DEF CircuitBlocks
  <2>2. t \in Task /\ GoalOf[t] = goal[d] /\ task[t].status \notin Terminal
    BY <1>6, <2>1, SelectedTask DEF CircuitBlocks, Handles
  <2>. QED  BY <1>2, <1>3, <1>4, <1>5, <1>6, <2>2
       DEF CircuitBlocks, Handles, Live, Accepted, Terminal
<1>7. CASE BlockUnpromotable(d)
  BY <1>2, <1>3, <1>4, <1>5, <1>7, CanPromoteAccepted DEF BlockUnpromotable, Handles, Live
<1>8. CASE BlockFailedGoal(d)
  BY <1>2, <1>3, <1>4, <1>5, <1>8 DEF BlockFailedGoal, Handles, Live, Accepted, TasksOf
<1>9. CASE BlockPromotion(d)
  BY <1>2, <1>3, <1>4, <1>5, <1>9 DEF BlockPromotion, Live, DeliveryInv, CycleOK
<1>10. ASSUME NEW kind \in FailureKinds, FinalizeFailure(d), FailTerminally(d, kind)
       PROVE  Live(goal[d]) /\ ~Accepted(goal[d])
  <2>1. task[unit[d].task].status # "done" /\ unit[d] # None
    BY <1>10 DEF FinalizeFailure, FailTerminally, TypeInv, PositionOK, UnitPC
  <2>2. unit[d].task \in Task /\ GoalOf[unit[d].task] = goal[d]
    BY <2>1 DEF TypeInv, TypeOK, PositionOK, Unit
  <2>3. ~Accepted(goal[d])
    BY <2>1, <2>2 DEF Accepted
  <2>. QED  BY <1>2, <2>3, GoalsLive DEF DeliveryInv
<1>. QED  BY <1>2, <1>3, <1>4, <1>5, <1>6, <1>7, <1>8, <1>9, <1>10 DEF BlocksGoal

-----------------------------------------------------------------------------
(* The status of the plan, as long as no pause is asked for *)

\* While goals are unfinished the plan is BLOCKED exactly when none of them can
\* progress, through failures, restarts, retries, edits and replans: whatever
\* blocks, frees or finishes a goal derives the status (_recompute_cyclic_status).
\* A pause breaks it: resume assigns RUNNING.
THEOREM ExecutionBlockedExactlyWhenStuck ==
  ASSUME "pause" \notin Commands
  PROVE  Spec => []BlockedExactlyWhenStuck
<1>1. StatusInv => BlockedExactlyWhenStuck
  BY DEF StatusInv, StatusDerived, StatusFollows, BlockedExactlyWhenStuck
<1>. QED  BY <1>1, StatusInvariant, PTL

\* A goal whose promotion is reserved is not blocked.
PromotedUnblocked == \A g \in Goal : reservation[g] = GoalToken => block[g] = None

FinishedInv ==
    /\ GoalStatuses
    /\ plan.active /\ plan.replan = "none"
    /\ PromotedUnblocked
    /\ NonTerminal(Goal, goalStatus) = {} => plan.status # "blocked"

\* A goal is blocked by its promotion or with work left, and reserved with none
\* left in a plan that is not BLOCKED.
LEMMA NextPromotedUnblocked ==
  ASSUME SerialGoals, TypeInv, DeliveryInv, StatusInv, FinishedInv, [Next]_vars
  PROVE  PromotedUnblocked'
<1>. SUFFICES ASSUME NEW g \in Goal, reservation'[g] = GoalToken
              PROVE  block'[g] = None
  BY DEF PromotedUnblocked
<1>1. reservation \in [Goal -> Reservation]
  BY DEF TypeInv, TypeOK
<1>2. CASE reservation[g] = GoalToken
  <2>1. block[g] = None /\ Accepted(g)
    BY <1>2 DEF FinishedInv, PromotedUnblocked, DeliveryInv, CycleOK
  <2>2. ASSUME NEW d \in Driver, BlocksGoal(d), goal[d] = g
        PROVE  FALSE
    <3>1. BlockPromotion(d)
      BY <2>1, <2>2, BlocksLive DEF FinishedInv
    <3>2. reservation'[g] = Free
      BY <1>1, <2>2, <3>1 DEF BlockPromotion
    <3>. QED  BY <3>2 DEF Free, GoalToken
  <2>. QED  BY <2>1, <2>2, BlockSteps
<1>3. ASSUME NEW d \in Driver, ReservePromotion(d), goal[d] = g
      PROVE  block'[g] = None
  <2>1. Live(g) /\ block' = block /\ plan.status # "blocked"
    BY <1>3 DEF ReservePromotion, Handles, PauseGate, Live
  <2>2. Due(g)
    BY <1>3, ConstantsAssumption DEF DeliveryInv, Prepared, Due
  <2>3. NonTerminal(Goal, goalStatus) # {}
    BY <2>1 DEF NonTerminal, Live
  <2>4. PlanCanProgress(Goal, goalStatus, DependsOn, BlockedGoals(block))
    BY <2>1, <2>3 DEF FinishedInv, StatusInv, StatusDerived, StatusFollows
  <2>. QED  BY <2>1, <2>2, <2>4, BlockedAlone
<1>4. CASE /\ reservation[g] # GoalToken
           /\ \A d \in Driver : ReservePromotion(d) => goal[d] # g
  <2>1. ASSUME NEW d \in Driver, ReservePromotion(d) \/ ReserveCandidate(d)
        PROVE  FALSE
    <3>1. Mine(unit[d]) # GoalToken
      BY DEF Mine, Attempt, GoalToken
    <3>. QED  BY <1>1, <1>4, <2>1, <3>1 DEF ReservePromotion, ReserveCandidate
  <2>. QED  BY <1>4, <2>1, ReservationSteps DEF Free, GoalToken
<1>. QED  BY <1>2, <1>3, <1>4

\* Without a replan the cycle stays active.
LEMMA NextNoReplan ==
  ASSUME "replan" \notin Commands, TypeInv, [Next]_vars, plan.active, plan.replan = "none"
  PROVE  plan'.active /\ plan'.replan = "none"
<1>1. ~RequestReplan /\ ~ActivateCycle
  BY DEF RequestReplan, ActivateCycle, Command
<1>. QED  BY <1>1, PlanSteps DEF PlanOnward

\* The last goal finishes in a plan that is not BLOCKED.
LEMMA NextFinished ==
  ASSUME "pause" \notin Commands, "replan" \notin Commands, SerialGoals,
         TypeInv, DeliveryInv, StatusInv, FinishedInv, [Next]_vars,
         NonTerminal(Goal, goalStatus') = {}
  PROVE  plan'.status # "blocked"
<1>1. plan \in PlanRecord /\ plan.active /\ plan.replan = "none"
  BY DEF TypeInv, TypeOK, FinishedInv
<1>2. plan.status # "blocked"
  <2>1. CASE NonTerminal(Goal, goalStatus) = {}
    BY <2>1 DEF FinishedInv
  <2>2. CASE NonTerminal(Goal, goalStatus) # {}
    <3>1. PICK d \in Driver : CompleteGoal(d)
      BY <2>2, TerminalStays
    <3>2. NonTerminal(Goal, goalStatus) \subseteq {goal[d]}
      BY <3>1 DEF CompleteGoal, NonTerminal, TypeInv, TypeOK
    <3>3. goal[d] \in Goal
      BY <3>1 DEF CompleteGoal, TypeInv, PositionOK
    <3>4. block[goal[d]] = None
      BY <3>1, <3>3 DEF CompleteGoal, FinishedInv, PromotedUnblocked
    <3>5. BlockedGoals(block) \cap NonTerminal(Goal, goalStatus) = {}
      BY <3>2, <3>4 DEF BlockedGoals
    <3>6. PlanCanProgress(Goal, goalStatus, DependsOn, BlockedGoals(block))
      BY <2>2, <3>5, NothingBlocked
    <3>. QED  BY <1>1, <2>2, <3>6 DEF StatusInv, StatusDerived, StatusFollows
  <2>. QED  BY <2>1, <2>2
<1>3. CASE ~MovesPlan
  <2>1. SettleRequestedPause(plan) = plan
    BY DEF SettleRequestedPause, StatusInv, Unpaused
  <2>2. Recompute(plan, goalStatus', block') = plan
    BY DEF Recompute
  <2>3. Saved(plan) = plan
    BY <1>1 DEF Saved
  <2>. QED  BY <1>2, <1>3, <2>1, <2>2, <2>3, PlanClass
<1>4. CASE MovesPlan
  <2>1. EnterReview
    BY <1>1, <1>4
    DEF MovesPlan, RequestPause, Resume, RequestReplan, ProposeIntent, ApproveIntent,
        SubmitDraft, ActivateCycle, CancelReplan, Command, StatusInv, Unpaused
  <2>. QED  BY <1>1, <2>1 DEF EnterReview, Saved, PlanRecord
<1>. QED  BY <1>3, <1>4

\* With one goal under way at a time, and without pauses and replans, a plan
\* whose goals are all finished is not BLOCKED and goes on to its review: a block
\* and a promotion of one goal exclude each other.
THEOREM ExecutionFinishedCycleIsNotBlocked ==
  ASSUME "pause" \notin Commands, "replan" \notin Commands, SerialGoals
  PROVE  Spec => []FinishedCycleIsNotBlocked
<1>1. Init => FinishedInv
  BY DEF Init, FinishedInv, GoalStatuses, PromotedUnblocked
<1>2. TypeInv /\ DeliveryInv /\ StatusInv /\ FinishedInv /\ [Next]_vars => FinishedInv'
  <2>. SUFFICES ASSUME TypeInv, DeliveryInv, StatusInv, FinishedInv, [Next]_vars
                PROVE  FinishedInv'
    OBVIOUS
  <2>1. GoalStatuses' /\ PromotedUnblocked'
    BY NextGoalStatuses, NextPromotedUnblocked DEF FinishedInv
  <2>2. plan'.active /\ plan'.replan = "none"
    BY NextNoReplan DEF FinishedInv
  <2>3. NonTerminal(Goal, goalStatus') = {} => plan'.status # "blocked"
    BY NextFinished
  <2>. QED  BY <2>1, <2>2, <2>3 DEF FinishedInv
<1>3. FinishedInv => FinishedCycleIsNotBlocked
  BY DEF FinishedInv, FinishedCycleIsNotBlocked
<1>. QED  BY <1>1, <1>2, <1>3, StatusInvariant, PTL DEF Spec

-----------------------------------------------------------------------------
(* A paused plan runs nothing: the invariant *)

\* The tasks of a goal are in an order.
OrderedTasks ==
    \A s, t \in Task : GoalOf[s] = GoalOf[t] /\ Position[s] = Position[t] => s = t

InPhase == plan.phase = "running"

\* A cycle executes only before its replan; what a goal is driven, blocked or
\* reserved for is due.
PhaseOK ==
    /\ InPhase => plan.active /\ plan.replan = "none"
    /\ GoalStatuses
    /\ \A g \in Goal : block[g] # None \/ reservation[g] = GoalToken => Due(g)
    /\ ~InPhase => \A g \in Goal : reservation[g].holder # "attempt"

\* The one open attempt is the one of the task under way, in a plan that executes.
OpenOK ==
    InPhase => \A t \in Task : Open(t) =>
        /\ task[t].status = "running" /\ Due(GoalOf[t])
        /\ \A s \in Task : Open(s) => s = t
        /\ \A s \in Task : GoalOf[s] = GoalOf[t] /\ Position[s] < Position[t]
                             => task[s].status \in {"done", "skipped"}
        /\ plan.status = "running" /\ ~plan.paused /\ circuit = "closed"

\* A failed task is named by its goal's block, and a block that names a task
\* stops the plan until it is retried.
BlocksOK ==
    InPhase =>
        /\ \A t \in Task : task[t].status = "failed" =>
              block[GoalOf[t]] # None /\ block[GoalOf[t]].task = t
        /\ \A g \in Goal : Live(g) /\ block[g] # None /\ block[g].task # None =>
              plan.status = "blocked" /\ ~plan.paused

\* The plan is PAUSED by a pause, and waits for its review.
StatusOK ==
    InPhase =>
        /\ plan.status = "paused" => plan.paused
        /\ plan.status = "waiting" => \A g \in Goal : goalStatus[g] = "done"

SerialInv == PhaseOK /\ OpenOK /\ BlocksOK /\ StatusOK /\ PausedIsQuiescent

\* The goal of a task that is not done is unfinished, and when it is due it is
\* the one under way.
LEMMA TaskLive ==
  ASSUME GoalStatuses, Merged, NEW t \in Task, task[t].status # "done"
  PROVE  GoalOf[t] \in Goal /\ Live(GoalOf[t]) /\ ~Accepted(GoalOf[t])
<1>1. GoalOf[t] \in Goal
  BY ConstantsAssumption
<1>2. ~Accepted(GoalOf[t])
  BY DEF Accepted
<1>. QED  BY <1>1, <1>2, GoalsLive

\* What is due stays due.
LEMMA DueStays ==
  ASSUME TypeInv, [Next]_vars, NEW g, Due(g)
  PROVE  Due(g)'
  BY DoneGoalSteps DEF Due, DoneGoals

-----------------------------------------------------------------------------
(* The status of a task *)

\* A task is started by _start_unit, settled or requeued by the driver that runs
\* it, and returned to PENDING by a retry or an edit.
LEMMA StatusSteps ==
  ASSUME TypeInv, [Next]_vars, NEW t \in Task, task'[t].status # task[t].status
  PROVE  \/ \E d \in Driver : \/ StartUnit(d) /\ t \in Action(goal[d]).tasks
                              \/ RunUnit(d) /\ unit[d].task = t
         \/ /\ RetryTask(t) \/ EditTask(t) \/ AmendTask(t)
            /\ task[t].status \in {"pending", "failed"} /\ task'[t].status = "pending"
<1>1. task \in [Task -> TaskRecord]
  BY DEF TypeInv, TypeOK
<1>2. ASSUME NEW d \in Driver, Scan(d) \/ DriverStep(d)
      PROVE  \/ StartUnit(d) /\ t \in Action(goal[d]).tasks
             \/ RunUnit(d) /\ unit[d].task = t
  <2>1. CASE StartUnit(d)
    <3>1. PICK s \in Action(goal[d]).tasks : StartTask(d, s)
      BY <2>1 DEF StartUnit
    <3>2. s = t
      BY <1>1, <3>1 DEF StartTask
    <3>. QED  BY <2>1, <3>1, <3>2
  <2>2. CASE RunUnit(d)
    <3>1. \A s \in Task : s # unit[d].task => task'[s] = task[s]
      <4>1. CASE FinalizeFailure(d)
        BY <1>1, <4>1 DEF FinalizeFailure, FailRetry, FailRepair, FailTerminally
      <4>2. CASE AbandonStale(d) \/ FailLate(d)
        BY <1>1, <4>2 DEF AbandonStale, FailLate
      <4>3. CASE FinalizeTestAuthor(d) \/ FinalizeImplementation(d)
        BY <1>1, <4>3 DEF FinalizeTestAuthor, FinalizeImplementation
      <4>4. CASE \/ ReserveCandidate(d) \/ ReserveRefused(d) \/ ReserveRaises(d)
                 \/ CommitCandidate(d) \/ FinalizeLost(d) \/ FinalizeRaises(d)
                 \/ FailureRaises(d)
        BY <4>4
        DEF ReserveCandidate, ReserveRefused, ReserveRaises, CommitCandidate, FinalizeLost,
            FinalizeRaises, FailureRaises, Raises, Escapes, aggregate
      <4>. QED  BY <2>2, <4>1, <4>2, <4>3, <4>4 DEF RunUnit
    <3>. QED  BY <2>2, <3>1
  <2>3. CASE (Scan(d) \/ Claim(d) \/ Handle(d)) /\ ~StartUnit(d)
    BY <2>3
    DEF Scan, Claim, Handle, HandleStops, CircuitBlocks, ReservePromotion,
        BlockUnpromotable, BlockFailedGoal, HandleRaises, Raises, Escapes, aggregate
  <2>4. CASE Promote(d)
    BY <2>4
    DEF Promote, MergeGoal, CompleteGoal, PromotionLost, PromotionRaises, RetryMerge,
        BlockPromotion, Raises, Escapes, aggregate
  <2>. QED  BY <1>2, <2>1, <2>2, <2>3, <2>4 DEF DriverStep
<1>3. ~FaultStep
  BY DEF FaultStep, AgentFails, GitFails, MergeFails, ReserveGivesUp, Contends, Crash,
      LeaseExpires, Reconcile,
      Escapes, aggregate
<1>4. ASSUME NEW s \in Task, RetryTask(s) \/ EditTask(s) \/ AmendTask(s)
      PROVE  /\ RetryTask(t) \/ EditTask(t) \/ AmendTask(t)
             /\ task[t].status \in {"pending", "failed"} /\ task'[t].status = "pending"
  <2>1. \/ task' = task
        \/ task[s].status \in {"pending", "failed"}
           /\ \/ task' = [task EXCEPT ![s] = Retried(task[s])]
              \/ task' = [task EXCEPT ![s] = Edited(task[s])]
              \/ task' = [task EXCEPT ![s] = Amended(task[s])]
    BY <1>4 DEF RetryTask, EditTask, AmendTask, Editable
  <2>2. /\ Retried(task[s]).status = "pending"
        /\ Edited(task[s]).status = "pending"
        /\ Amended(task[s]).status = "pending"
    BY <1>1, TaskOperators
  <2>3. s = t
    BY <1>1, <2>1
  <2>. QED  BY <1>1, <1>4, <2>1, <2>2, <2>3
<1>5. \/ EnterReview \/ (\E g \in Goal : OrphanExpires(g)) \/ UNCHANGED vars => task' = task
  BY DEF EnterReview, OrphanExpires, vars, aggregate
<1>6. \A s \in Task : BackoffElapses(s) => task'[t].status = task[t].status
  BY <1>1 DEF BackoffElapses, TaskRecord
<1>7. CommandStep =>
        \/ task' = task
        \/ \E s \in Task : RetryTask(s) \/ EditTask(s) \/ AmendTask(s)
  BY DEF CommandStep, RequestPause, Resume, RequestReplan, ProposeIntent, ApproveIntent,
         SubmitDraft, ActivateCycle, CancelReplan, ReplanStep
<1>. QED  BY <1>2, <1>3, <1>4, <1>5, <1>6, <1>7 DEF Next

\* What the driver of a unit makes of its task's status.
LEMMA UnitStatus ==
  ASSUME TypeInv, NEW d \in Driver, RunUnit(d), NEW t \in Task, unit[d].task = t,
         task'[t].status # task[t].status
  PROVE  /\ task[t].status \notin {"done", "skipped"}
         /\ \/ Settles(d) /\ task'[t].status \in {"done", "pending", "failed"}
            \/ ~Executing /\ task'[t].status = "skipped"
         /\ task'[t].status = "failed" =>
              \E kind \in FailureKinds :
                 FinalizeFailure(d) /\ FailTerminally(d, kind)
<1>1. task \in [Task -> TaskRecord]
  BY DEF TypeInv, TypeOK
<1>2. CASE FinalizeFailure(d)
  <2>1. PICK kind \in FailureKinds :
          FailRetry(d, kind) \/ FailRepair(d, kind) \/ FailTerminally(d, kind)
    BY <1>2 DEF FinalizeFailure
  <2>2. CASE FailRetry(d, kind)
    <3>1. PICK wait \in BOOLEAN : task' = [task EXCEPT ![t] = Requeued(task[t], wait)]
      BY <2>2 DEF FailRetry
    <3>2. task'[t].status = "pending"
      BY <1>1, <3>1, TaskOperators
    <3>. QED  BY <1>2, <2>2, <3>2 DEF FailRetry, Settles
  <2>3. CASE FailRepair(d, kind)
    <3>1. task'[t].status = "pending"
      BY <1>1, <2>3, TaskOperators DEF FailRepair
    <3>. QED  BY <1>2, <2>3, <3>1 DEF FailRepair, Settles
  <2>4. CASE FailTerminally(d, kind)
    <3>1. task'[t].status = "failed"
      BY <1>1, <2>4 DEF FailTerminally, TaskRecord
    <3>. QED  BY <1>2, <2>4, <3>1 DEF FailTerminally, Settles
  <2>. QED  BY <2>1, <2>2, <2>3, <2>4
<1>3. CASE FinalizeTestAuthor(d)
  <2>. DEFINE q == Requeued(task[t], FALSE)
  <2>1. q \in TaskRecord /\ q.status = "pending"
    BY <1>1, TaskOperators
  <2>2. task'[t] = [q EXCEPT !.bundle = unit[d].revision, !.evidence = 0]
    BY <1>1, <1>3 DEF FinalizeTestAuthor
  <2>. HIDE DEF q
  <2>3. task'[t].status = "pending"
    BY <2>1, <2>2 DEF TaskRecord
  <2>. QED  BY <1>3, <2>3 DEF FinalizeTestAuthor, MayFinalize, Current, Settles
<1>4. CASE FinalizeImplementation(d)
  <2>1. task'[t].status = "done"
    BY <1>1, <1>4 DEF FinalizeImplementation, TaskRecord
  <2>. QED  BY <1>4, <2>1 DEF FinalizeImplementation, MayFinalize, Current, Settles
<1>5. CASE AbandonStale(d)
  <2>1. task'[t].status = "skipped" /\ ~Executing /\ task[t].status = "running"
    BY <1>1, <1>5, TaskOperators DEF AbandonStale, Current
  <2>. QED  BY <2>1
<1>6. CASE FailLate(d)
  <2>1. task' # task
    OBVIOUS
  <2>2. /\ ~Executing /\ task[t].status \notin Terminal
        /\ task' = [task EXCEPT ![t] = Abandoned(task[t])]
    BY <1>6, <2>1 DEF FailLate
  <2>3. Abandoned(task[t]).status = "skipped"
    BY <1>1, TaskOperators
  <2>4. task'[t].status = "skipped"
    BY <1>1, <2>2, <2>3
  <2>. QED  BY <2>2, <2>4 DEF Terminal
<1>7. CASE \/ ReserveCandidate(d) \/ ReserveRefused(d) \/ ReserveRaises(d)
           \/ CommitCandidate(d) \/ FinalizeLost(d) \/ FinalizeRaises(d) \/ FailureRaises(d)
  BY <1>7
  DEF ReserveCandidate, ReserveRefused, ReserveRaises, CommitCandidate, FinalizeLost,
      FinalizeRaises, FailureRaises, Raises, Escapes, aggregate
<1>. QED  BY <1>2, <1>3, <1>4, <1>5, <1>6, <1>7 DEF RunUnit

\* An accepted or skipped task stays as it is.
LEMMA SettledStays ==
  ASSUME TypeInv, [Next]_vars, NEW t \in Task, task[t].status \in {"done", "skipped"}
  PROVE  task'[t].status = task[t].status
<1>1. ASSUME NEW d \in Driver, StartUnit(d)
      PROVE  t \notin Action(goal[d]).tasks
  BY <1>1, SelectedTask DEF StartUnit, Handles, Terminal
<1>. QED  BY <1>1, StatusSteps, UnitStatus

\* A task fails only in _finalize_failure.
LEMMA FailedComes ==
  ASSUME TypeInv, [Next]_vars, NEW t \in Task,
         task[t].status # "failed", task'[t].status = "failed"
  PROVE  \E d \in Driver : \E kind \in FailureKinds :
            FinalizeFailure(d) /\ FailTerminally(d, kind) /\ unit[d].task = t
<1>1. ASSUME NEW d \in Driver, StartUnit(d), t \in Action(goal[d]).tasks
      PROVE  FALSE
  <2>1. PICK s \in Action(goal[d]).tasks : StartTask(d, s)
    BY <1>1 DEF StartUnit
  <2>2. task \in [Task -> TaskRecord] /\ task' = [task EXCEPT ![s] = Started(task[s])]
    BY <2>1 DEF StartTask, TypeInv, TypeOK
  <2>3. s = t
    BY <2>2
  <2>4. Started(task[t]).status = "running"
    BY <2>2, TaskOperators
  <2>. QED  BY <2>2, <2>3, <2>4
<1>. QED  BY <1>1, StatusSteps, UnitStatus

-----------------------------------------------------------------------------
(* The phase, and what is due *)

\* The plan does not come back to its running phase.
LEMMA PhaseBefore ==
  ASSUME TypeInv, PhaseOK, [Next]_vars, InPhase'
  PROVE  /\ InPhase /\ ~RequestReplan /\ ~ActivateCycle
         /\ plan'.active /\ plan'.replan = "none"
<1>1. plan \in PlanRecord
  BY DEF TypeInv, TypeOK
<1>2. ~RequestReplan
  <2>1. RequestReplan => plan'.phase = "replanning"
    BY <1>1 DEF RequestReplan, PlanRecord
  <2>. QED  BY <2>1 DEF InPhase
<1>3. ~ActivateCycle
  BY <1>1 DEF ActivateCycle, InPhase, PlanRecord
<1>4. InPhase
  BY <1>2, <1>3, PhaseSteps DEF InPhase
<1>. QED  BY <1>2, <1>3, <1>4, PlanSteps DEF PhaseOK, PlanOnward

\* What is blocked or reserved was due to the driver that did it, and a replan
\* needs the reservations gone.
LEMMA NextPhaseOK ==
  ASSUME TypeInv, DeliveryInv, PhaseOK, [Next]_vars
  PROVE  PhaseOK'
<1>0. reservation \in [Goal -> Reservation]
  BY DEF TypeInv, TypeOK
<1>1. GoalStatuses'
  BY NextGoalStatuses DEF PhaseOK
<1>2. ASSUME NEW g \in Goal, block'[g] # None \/ reservation'[g] = GoalToken
      PROVE  Due(g)
  <2>1. CASE block[g] # None \/ reservation[g] = GoalToken
    BY <2>1 DEF PhaseOK
  <2>2. CASE block[g] = None /\ block'[g] # None
    BY <2>2, BlockSteps, BlocksLive DEF PhaseOK
  <2>3. CASE reservation[g] # GoalToken /\ reservation'[g] = GoalToken
    <3>1. PICK d \in Driver : ReservePromotion(d) \/ ReserveCandidate(d)
      BY <2>3, ReservationSteps DEF Free, GoalToken
    <3>2. Mine(unit[d]) # GoalToken
      BY DEF Mine, Attempt, GoalToken
    <3>3. goal[d] = g
      BY <1>0, <2>3, <3>1, <3>2 DEF ReservePromotion, ReserveCandidate
    <3>. QED  BY <3>3, ConstantsAssumption DEF DeliveryInv, Prepared, Due
  <2>. QED  BY <1>2, <2>1, <2>2, <2>3
<1>3. ASSUME ~InPhase', NEW g \in Goal
      PROVE  reservation'[g].holder # "attempt"
  <2>1. CASE RequestReplan \/ ActivateCycle
    <3>1. reservation'[g] = Free
      BY <2>1 DEF RequestReplan, ActivateCycle, ReplanStep, NoReservation
    <3>. QED  BY <3>1 DEF Free
  <2>2. CASE ~RequestReplan /\ ~ActivateCycle
    <3>1. ~InPhase
      BY <1>3, <2>2, PhaseSteps DEF InPhase
    <3>2. \A d \in Driver : ~ReserveCandidate(d)
      BY <3>1 DEF ReserveCandidate, MayReserve, Executing, InPhase
    <3>. QED  BY <3>1, <3>2, ReservationTaken DEF PhaseOK
  <2>. QED  BY <2>1, <2>2
<1>. QED  BY <1>1, <1>2, <1>3, DueStays, PhaseBefore DEF PhaseOK

-----------------------------------------------------------------------------
(* The task under way *)

\* While an attempt stays open no finalizer runs.
LEMMA OpenUnsettled ==
  ASSUME TypeInv, AttemptInv, OpenOK, InPhase, NEW t \in Task, Open(t), Open(t)'
  PROVE  \A d \in Driver : ~Settles(d)
  BY SettlesCloses DEF OpenOK

\* Nor does its task change its status.
LEMMA OpenTaskKept ==
  ASSUME TypeInv, AttemptInv, PhaseOK, OpenOK, InPhase, [Next]_vars,
         NEW t \in Task, Open(t), Open(t)', \A d \in Driver : ~StartUnit(d)
  PROVE  task'[t].status = "running"
<1>1. task[t].status = "running" /\ Executing
  BY DEF OpenOK, PhaseOK, Executing, InPhase
<1>. QED  BY <1>1, OpenUnsettled, StatusSteps, UnitStatus

\* A terminal failure latches the circuit.
LEMMA CircuitSteps ==
  ASSUME TypeInv, [Next]_vars, circuit = "closed", circuit' # "closed"
  PROVE  \E d \in Driver : Settles(d)
<1>1. ASSUME NEW d \in Driver, Scan(d) \/ Claim(d) \/ Handle(d)
      PROVE  circuit' = circuit
  BY <1>1
  DEF Scan, Claim, Handle, HandleStops, StartUnit, StartTask, CircuitBlocks, ReservePromotion,
      BlockUnpromotable, BlockFailedGoal, HandleRaises, Raises, Escapes
<1>2. ASSUME NEW d \in Driver, RunUnit(d), ~Settles(d)
      PROVE  circuit' = circuit
  BY <1>2
  DEF RunUnit, Settles, ReserveCandidate, ReserveRefused, ReserveRaises, AbandonStale,
      CommitCandidate, FinalizeLost, FinalizeRaises, FailLate, FailureRaises, Raises, Escapes
<1>3. ASSUME NEW d \in Driver, Promote(d)
      PROVE  circuit' = circuit
  BY <1>3
  DEF Promote, MergeGoal, CompleteGoal, PromotionLost, PromotionRaises, RetryMerge,
      BlockPromotion, Raises, Escapes
<1>4. CASE FaultStep
  BY <1>4
  DEF FaultStep, AgentFails, GitFails, MergeFails, ReserveGivesUp, Contends, Crash,
      LeaseExpires, Reconcile,
      Escapes
<1>5. CASE CommandStep
  BY <1>5
  DEF CommandStep, RequestPause, Resume, RetryTask, EditTask, AmendTask, RequestReplan,
      ProposeIntent, ApproveIntent, SubmitDraft, ActivateCycle, CancelReplan, ReplanStep
<1>6. \/ EnterReview \/ (\E g \in Goal : OrphanExpires(g))
      \/ (\E t \in Task : BackoffElapses(t)) \/ UNCHANGED vars
      => circuit' = circuit
  BY DEF EnterReview, OrphanExpires, BackoffElapses, vars
<1>. QED  BY <1>1, <1>2, <1>3, <1>4, <1>5, <1>6 DEF Next, DriverStep

\* Nothing derives the plan's status while an attempt is open: the goal under way
\* is not blocked, is not finished, and its driver is busy.
LEMMA OpenNotDerived ==
  ASSUME SerialGoals, TypeInv, AttemptInv, DeliveryInv, PhaseOK, OpenOK, BlocksOK, InPhase,
         NEW t \in Task, Open(t), Open(t)'
  PROVE  ~Derives
<1>. DEFINE g == GoalOf[t]
<1>1. /\ task[t].status = "running" /\ Due(g)
      /\ plan.status = "running" /\ circuit = "closed"
  BY DEF OpenOK
<1>2. g \in Goal /\ Live(g) /\ ~Accepted(g)
  BY <1>1, TaskLive DEF PhaseOK, DeliveryInv
<1>. HIDE DEF g
<1>3. ASSUME NEW h \in Goal, Due(h), Live(h)
      PROVE  h = g
  BY <1>1, <1>2, <1>3, OneGoalAtATime
<1>4. ASSUME NEW d \in Driver, CompleteGoal(d)
      PROVE  FALSE
  <2>1. goal[d] \in Goal /\ reservation[goal[d]] = GoalToken /\ Live(goal[d])
    BY <1>4 DEF CompleteGoal, TypeInv, PositionOK, Live
  <2>2. Due(goal[d]) /\ Accepted(goal[d])
    BY <2>1 DEF PhaseOK, DeliveryInv, CycleOK
  <2>. QED  BY <1>2, <1>3, <2>1, <2>2
<1>5. ASSUME NEW d \in Driver, BlocksGoal(d)
      PROVE  FALSE
  <2>1. goal[d] \in Goal /\ goal[d] = g
    BY <1>3, <1>5, BlocksLive DEF PhaseOK
  <2>2. CASE BlockPromotion(d)
    BY <1>2, <2>1, <2>2 DEF BlockPromotion, DeliveryInv, CycleOK
  <2>3. CASE CircuitBlocks(d)
    BY <1>1, <2>3 DEF CircuitBlocks
  <2>4. CASE BlockUnpromotable(d) \/ BlockFailedGoal(d)
    <3>. DEFINE live == NonTerminal(TasksOf(g), taskStatus)
    <3>1. t \in live
      BY <1>1 DEF NonTerminal, TasksOf, taskStatus, Terminal, g
    <3>2. \A s \in live : Position[s] \in Nat
      BY ConstantsAssumption DEF NonTerminal, TasksOf
    <3>3. PICK s \in live : \A r \in live : Position[s] <= Position[r]
      BY <3>1, <3>2, FirstNode
    <3>4. Earliest(TasksOf(g), taskStatus, Position) # {}
      BY <3>3 DEF Earliest
    <3>5. Action(g).kind \notin {"close", "goal_failed"}
      BY <3>4 DEF Action, ActionForGoal
    <3>. QED  BY <2>1, <2>4, <3>5 DEF BlockUnpromotable, BlockFailedGoal, Handles
  <2>5. CASE FinalizeFailure(d)
    BY <2>5, OpenUnsettled DEF Settles
  <2>. QED  BY <1>5, <2>2, <2>3, <2>4, <2>5 DEF BlocksGoal
<1>6. ASSUME NEW s \in Task, RetryTask(s), block[GoalOf[s]] # None
      PROVE  FALSE
  <2>1. block[GoalOf[s]].task = s /\ task[s].status # "done"
    BY <1>6 DEF RetryTask
  <2>2. GoalOf[s] \in Goal /\ Live(GoalOf[s]) /\ s # None
    BY <2>1, TaskLive, ConstantsAssumption DEF PhaseOK, DeliveryInv
  <2>. QED  BY <1>1, <1>6, <2>1, <2>2 DEF BlocksOK
<1>. QED  BY <1>4, <1>5, <1>6 DEF Derives

\* While an attempt stays open the plan goes on running; a pause that is asked
\* for is not settled.
LEMMA OpenPlanKept ==
  ASSUME SerialGoals, TypeInv, AttemptInv, DeliveryInv, PhaseOK, OpenOK, BlocksOK,
         [Next]_vars, InPhase', NEW t \in Task, Open(t), Open(t)'
  PROVE  plan'.status = "running" /\ ~plan'.paused
<1>1. plan \in PlanRecord
  BY DEF TypeInv, TypeOK
<1>2. InPhase /\ ~RequestReplan /\ ~ActivateCycle
  BY PhaseBefore
<1>3. plan.status = "running" /\ ~plan.paused /\ plan.replan = "none"
  BY <1>2 DEF OpenOK, PhaseOK
<1>4. CASE ~MovesPlan
  <2>1. plan' \in {plan, Saved(plan)}
    BY <1>2, <1>4, PlanClass, OpenUnsettled, OpenNotDerived
  <2>. QED  BY <1>3, <2>1 DEF Saved
<1>5. CASE RequestPause
  <2>1. plan' = Saved([plan EXCEPT !.pauseRequested = TRUE])
    BY <1>5 DEF RequestPause, Open
  <2>. QED  BY <1>1, <1>3, <2>1 DEF Saved, PlanRecord
<1>6. ~EnterReview
  <2>1. GoalOf[t] \in Goal /\ Live(GoalOf[t])
    BY <1>2, TaskLive DEF OpenOK, PhaseOK, DeliveryInv
  <2>. QED  BY <2>1 DEF EnterReview, NonTerminal, Live
<1>7. ~Resume /\ ~ProposeIntent /\ ~ApproveIntent /\ ~SubmitDraft /\ ~CancelReplan
  BY <1>3 DEF Resume, ProposeIntent, ApproveIntent, SubmitDraft, CancelReplan
<1>. QED  BY <1>2, <1>4, <1>5, <1>6, <1>7 DEF MovesPlan

\* A step that starts nothing.
LEMMA NextOpenKept ==
  ASSUME SerialGoals, TypeInv, AttemptInv, DeliveryInv, PhaseOK, OpenOK, BlocksOK,
         [Next]_vars, \A d \in Driver : ~StartUnit(d)
  PROVE  OpenOK'
<1>. SUFFICES ASSUME InPhase', NEW t \in Task, Open(t)'
              PROVE  /\ task'[t].status = "running" /\ Due(GoalOf[t])'
                     /\ \A s \in Task : Open(s)' => s = t
                     /\ \A s \in Task : GoalOf[s] = GoalOf[t] /\ Position[s] < Position[t]
                                          => task'[s].status \in {"done", "skipped"}
                     /\ plan'.status = "running" /\ ~plan'.paused /\ circuit' = "closed"
  BY DEF OpenOK
<1>1. InPhase
  BY PhaseBefore
<1>2. \A s \in Task : Open(s)' => Open(s)
  BY OpenSteps
<1>3. Open(t)
  BY <1>2
<1>4. task'[t].status = "running"
  BY <1>1, <1>3, OpenTaskKept
<1>5. Due(GoalOf[t])' /\ \A s \in Task : Open(s)' => s = t
  BY <1>1, <1>2, <1>3, DueStays DEF OpenOK
<1>6. ASSUME NEW s \in Task, GoalOf[s] = GoalOf[t], Position[s] < Position[t]
      PROVE  task'[s].status \in {"done", "skipped"}
  BY <1>1, <1>3, <1>6, SettledStays DEF OpenOK
<1>7. plan'.status = "running" /\ ~plan'.paused
  BY <1>3, OpenPlanKept
<1>8. circuit' = "closed"
  <2>1. circuit = "closed" /\ \A d \in Driver : ~Settles(d)
    BY <1>1, <1>3, OpenUnsettled DEF OpenOK
  <2>. QED  BY <2>1, CircuitSteps
<1>. QED  BY <1>4, <1>5, <1>6, <1>7, <1>8

\* A unit is started when no attempt but one of its task's is open, behind
\* accepted or skipped tasks only, in a plan that runs.
LEMMA NextOpenStarts ==
  ASSUME SerialGoals, OrderedTasks, TypeInv, AttemptInv, DeliveryInv, PhaseOK, OpenOK,
         BlocksOK, StatusOK, [Next]_vars, NEW d \in Driver, StartUnit(d)
  PROVE  OpenOK'
<1>. SUFFICES ASSUME InPhase', NEW t \in Task, Open(t)'
              PROVE  /\ task'[t].status = "running" /\ Due(GoalOf[t])'
                     /\ \A r \in Task : Open(r)' => r = t
                     /\ \A r \in Task : GoalOf[r] = GoalOf[t] /\ Position[r] < Position[t]
                                          => task'[r].status \in {"done", "skipped"}
                     /\ plan'.status = "running" /\ ~plan'.paused /\ circuit' = "closed"
  BY DEF OpenOK
<1>1. InPhase /\ plan.replan = "none" /\ plan \in PlanRecord
  BY PhaseBefore DEF PhaseOK, TypeInv, TypeOK
<1>2. PICK s \in Action(goal[d]).tasks : StartTask(d, s)
  BY DEF StartUnit
<1>3. s \in Task /\ GoalOf[s] = goal[d] /\ task[s].status \notin Terminal
  BY <1>2, SelectedTask DEF StartUnit, Handles
<1>4. \A r \in Task : GoalOf[r] = goal[d] /\ task[r].status \notin Terminal
                        => Position[s] <= Position[r]
  BY <1>2 DEF StartUnit, Handles, Action, ActionForGoal, Earliest, NonTerminal, TasksOf, taskStatus
<1>5. goal[d] \in Goal /\ Live(goal[d]) /\ Due(goal[d])
  <2>1. goal[d] \in Goal /\ Live(goal[d])
    BY DEF StartUnit, Handles, TypeInv, PositionOK, Live
  <2>. QED  BY <2>1, ConstantsAssumption DEF DeliveryInv, Prepared, Due
<1>6. ASSUME NEW r \in Task, Open(r)'
      PROVE  r = s
  <2>. SUFFICES ASSUME r # s
                PROVE  FALSE
    OBVIOUS
  <2>1. ledger' = [ledger EXCEPT ![s] = Append(Reclaimed(s), "running")]
    BY <1>2 DEF StartTask
  <2>2. ledger'[r] = ledger[r]
    BY <1>3, <2>1 DEF TypeInv, TypeOK
  <2>3. Open(r)
    BY <1>6, <2>2 DEF Open, OpenAttempts
  <2>4. /\ task[r].status = "running" /\ Due(GoalOf[r])
        /\ \A q \in Task : GoalOf[q] = GoalOf[r] /\ Position[q] < Position[r]
                             => task[q].status \in {"done", "skipped"}
    BY <1>1, <2>3 DEF OpenOK
  <2>5. GoalOf[r] \in Goal /\ Live(GoalOf[r])
    BY <2>4, TaskLive DEF PhaseOK, DeliveryInv
  <2>6. GoalOf[r] = goal[d]
    BY <1>5, <2>4, <2>5, OneGoalAtATime
  <2>7. Position[s] <= Position[r] /\ Position[s] # Position[r]
    BY <1>3, <1>4, <2>4, <2>6 DEF Terminal, OrderedTasks
  <2>8. Position[s] < Position[r]
    BY <1>3, <2>7, ConstantsAssumption
  <2>. QED  BY <1>3, <2>4, <2>6, <2>8 DEF Terminal
<1>7. t = s
  BY <1>6
<1>8. task \in [Task -> TaskRecord] /\ task' = [task EXCEPT ![s] = Started(task[s])]
  BY <1>2 DEF StartTask, TypeInv, TypeOK
<1>9. task'[s].status = "running"
  <2>1. Started(task[s]).status = "running"
    BY <1>3, <1>8, TaskOperators
  <2>. QED  BY <1>3, <1>8, <2>1
<1>10. ~plan.paused /\ plan.status = "running" /\ circuit' = "closed"
  <2>1. ~plan.paused /\ plan.status # "blocked" /\ circuit' = "closed"
    BY <1>2 DEF StartUnit, Handles, PauseGate, StartTask
  <2>2. plan.status # "waiting"
    BY <1>1, <1>5 DEF StatusOK, Live, Terminal
  <2>. QED  BY <1>1, <2>1, <2>2 DEF StatusOK, PlanRecord, PlanStatus
<1>11. plan'.status = "running" /\ ~plan'.paused
  BY <1>1, <1>2, <1>10 DEF StartTask, Saved
<1>12. ASSUME NEW r \in Task, GoalOf[r] = goal[d], Position[r] < Position[s]
       PROVE  task'[r].status \in {"done", "skipped"}
  <2>1. task[r].status \in Terminal
    <3>1. ~(Position[s] <= Position[r])
      BY <1>3, <1>12, ConstantsAssumption
    <3>. QED  BY <1>4, <1>12, <3>1
  <2>2. task[r].status # "failed"
    <3>1. r # None
      BY ConstantsAssumption
    <3>. QED  BY <1>1, <1>5, <1>10, <1>12, <3>1 DEF BlocksOK
  <2>3. r # s
    BY <1>3, <2>1
  <2>4. task'[r] = task[r]
    BY <1>8, <2>3
  <2>. QED  BY <2>1, <2>2, <2>4 DEF Terminal
<1>. QED  BY <1>3, <1>5, <1>6, <1>7, <1>9, <1>10, <1>11, <1>12, DueStays

\* Whether a step starts a unit or not, one attempt at most is open after it.
LEMMA NextOpenOK ==
  ASSUME SerialGoals, OrderedTasks, TypeInv, AttemptInv, DeliveryInv, SerialInv, [Next]_vars
  PROVE  OpenOK'
  BY NextOpenKept, NextOpenStarts DEF SerialInv

-----------------------------------------------------------------------------
(* A failed task stops the plan *)

\* A failed task is named by the block of its goal from its failure to its retry.
LEMMA NextFailedNamed ==
  ASSUME TypeInv, DeliveryInv, PhaseOK, BlocksOK, [Next]_vars, InPhase',
         NEW t \in Task, task'[t].status = "failed"
  PROVE  block'[GoalOf[t]] # None /\ block'[GoalOf[t]].task = t
<1>. DEFINE g == GoalOf[t]
<1>1. /\ g \in Goal /\ task \in [Task -> TaskRecord]
      /\ block \in [Goal -> BlockRecord \cup {None}]
  BY ConstantsAssumption DEF TypeInv, TypeOK
<1>2. InPhase /\ ~RequestReplan /\ ~ActivateCycle
  BY PhaseBefore
<1>3. CASE task[t].status = "failed"
  <2>1. block[g] # None /\ block[g].task = t
    BY <1>2, <1>3 DEF BlocksOK
  <2>2. ASSUME NEW s \in Task, RetryTask(s), GoalOf[s] = g
        PROVE  FALSE
    <3>1. s = t
      BY <2>1, <2>2 DEF RetryTask
    <3>2. task' = [task EXCEPT ![t] = Retried(task[t])]
      BY <1>3, <2>2, <3>1 DEF RetryTask
    <3>3. Retried(task[t]).status = "pending"
      BY <1>1, TaskOperators
    <3>. QED  BY <1>1, <3>2, <3>3
  <2>3. \A d \in Driver : BlocksGoal(d) => goal[d] # g
    BY <2>1, BlocksLive DEF PhaseOK
  <2>4. block'[g] = block[g]
    BY <1>1, <1>2, <2>2, <2>3, BlockSteps
  <2>. QED  BY <2>1, <2>4
<1>4. CASE task[t].status # "failed"
  <2>1. PICK d \in Driver, kind \in FailureKinds :
          FinalizeFailure(d) /\ FailTerminally(d, kind) /\ unit[d].task = t
    BY <1>4, FailedComes
  <2>2. goal[d] = g
    <3>1. unit[d] # None
      BY <2>1 DEF FinalizeFailure, TypeInv, PositionOK, UnitPC
    <3>. QED  BY <2>1, <3>1 DEF TypeInv, PositionOK
  <2>. DEFINE k == IF kind = "latched" THEN "provider_capacity" ELSE "execution_failure"
  <2>3. block' = [block EXCEPT ![g] = [kind |-> k, task |-> t]]
    BY <2>1, <2>2 DEF FailTerminally, OpenBlock
  <2>4. [kind |-> k, task |-> t] \in BlockRecord
    BY DEF BlockRecord, BlockKind
  <2>. HIDE DEF k
  <2>. QED  BY <1>1, <2>3, <2>4, NoneAssumption
<1>. QED  BY <1>3, <1>4

\* A block that names a task stops the plan when it is opened.
LEMMA NewBlockStops ==
  ASSUME SerialGoals, TypeInv, AttemptInv, DeliveryInv, PhaseOK, OpenOK, InPhase,
         NEW d \in Driver, BlocksGoal(d),
         block'[goal[d]] # None, block'[goal[d]].task # None
  PROVE  plan'.status = "blocked" /\ ~plan'.paused
<1>. DEFINE g == goal[d]
            q == Recompute(plan, goalStatus, block')
<1>1. plan \in PlanRecord /\ plan.active /\ plan.replan = "none"
  BY DEF PhaseOK, TypeInv, TypeOK
<1>2. g \in Goal /\ Due(g) /\ Live(g) /\ plan' = Saved(q)
  BY BlocksLive DEF PhaseOK, OpenBlock
<1>3. ~plan.paused
  <2>1. CASE CircuitBlocks(d) \/ BlockUnpromotable(d) \/ BlockFailedGoal(d)
    BY <2>1 DEF CircuitBlocks, BlockUnpromotable, BlockFailedGoal, Handles, PauseGate
  <2>2. CASE BlockPromotion(d)
    BY <1>2, <2>2 DEF BlockPromotion, OpenBlock, TypeInv, TypeOK
  <2>3. CASE FinalizeFailure(d)
    BY <2>3, SettlesCloses DEF Settles, OpenOK
  <2>. QED  BY <2>1, <2>2, <2>3 DEF BlocksGoal
<1>4. NonTerminal(Goal, goalStatus) # {}
  BY <1>2 DEF NonTerminal, Live
<1>5. ~PlanCanProgress(Goal, goalStatus, DependsOn, BlockedGoals(block'))
  BY <1>2, BlockedAlone
<1>6. q.status = "blocked" /\ ~q.paused /\ q.replan = "none"
  BY <1>1, <1>3, <1>4, <1>5, RecomputeDerives
<1>. QED  BY <1>2, <1>6 DEF Saved

\* It stops the plan until it is resolved.
LEMMA OldBlockStops ==
  ASSUME SerialGoals, TypeInv, AttemptInv, DeliveryInv, PhaseOK, OpenOK, BlocksOK,
         [Next]_vars, InPhase', NEW g \in Goal, Live(g)', block[g] # None,
         block[g].task # None, block'[g] = block[g]
  PROVE  plan'.status = "blocked" /\ ~plan'.paused
<1>1. InPhase /\ plan \in PlanRecord /\ plan.replan = "none" /\ ~RequestReplan /\ ~ActivateCycle
  BY PhaseBefore DEF PhaseOK, TypeInv, TypeOK
<1>2. Live(g) /\ Due(g)
  BY TerminalStays DEF NonTerminal, Live, PhaseOK
<1>3. plan.status = "blocked" /\ ~plan.paused
  BY <1>1, <1>2 DEF BlocksOK
<1>4. ASSUME NEW h \in Goal, Due(h), Live(h)
      PROVE  h = g
  BY <1>2, <1>4, OneGoalAtATime
<1>5. ~Derives
  <2>1. ASSUME NEW d \in Driver, BlocksGoal(d)
        PROVE  FALSE
    BY <1>4, <2>1, BlocksLive DEF PhaseOK
  <2>2. ASSUME NEW d \in Driver, CompleteGoal(d)
        PROVE  FALSE
    <3>1. goal[d] \in Goal /\ Due(goal[d]) /\ Live(goal[d])
      BY <2>2 DEF CompleteGoal, TypeInv, PositionOK, PhaseOK, Live
    <3>2. goalStatus'[g] = "done"
      BY <1>4, <2>2, <3>1 DEF CompleteGoal, TypeInv, TypeOK
    <3>. QED  BY <3>2 DEF Live, Terminal
  <2>3. ASSUME NEW s \in Task, RetryTask(s), block[GoalOf[s]] # None
        PROVE  FALSE
    <3>1. task[s].status # "done"
      BY <2>3 DEF RetryTask
    <3>2. GoalOf[s] = g
      BY <1>4, <2>3, <3>1, TaskLive DEF PhaseOK, DeliveryInv
    <3>3. block'[g] = None
      BY <2>3, <3>2 DEF RetryTask, TypeInv, TypeOK
    <3>. QED  BY <3>3
  <2>. QED  BY <2>1, <2>2, <2>3 DEF Derives
<1>6. \A d \in Driver : ~Settles(d)
  BY <1>1, <1>3, SettlesCloses DEF OpenOK
<1>7. ~MovesPlan
  BY <1>1, <1>3
  DEF MovesPlan, RequestPause, Resume, EnterReview, ProposeIntent, ApproveIntent, SubmitDraft,
      CancelReplan
<1>8. plan' \in {plan, Saved(plan)}
  BY <1>5, <1>6, <1>7, PlanClass
<1>. QED  BY <1>1, <1>3, <1>8 DEF Saved

\* A block that names a task is opened by a step that stops the plan, and outlasts
\* whatever would let it go on.
LEMMA NextBlocksOK ==
  ASSUME SerialGoals, TypeInv, AttemptInv, DeliveryInv, PhaseOK, OpenOK, BlocksOK, [Next]_vars
  PROVE  BlocksOK'
<1>1. ASSUME InPhase', NEW t \in Task, task'[t].status = "failed"
      PROVE  block'[GoalOf[t]] # None /\ block'[GoalOf[t]].task = t
  BY <1>1, NextFailedNamed
<1>2. ASSUME InPhase', NEW g \in Goal, Live(g)', block'[g] # None, block'[g].task # None
      PROVE  plan'.status = "blocked" /\ ~plan'.paused
  <2>1. CASE block'[g] = block[g]
    BY <1>2, <2>1, OldBlockStops
  <2>2. CASE block'[g] # block[g]
    <3>1. PICK d \in Driver : BlocksGoal(d) /\ goal[d] = g
      BY <1>2, <2>2, BlockSteps, PhaseBefore
    <3>. QED  BY <1>2, <3>1, NewBlockStops, PhaseBefore
  <2>. QED  BY <2>1, <2>2
<1>. QED  BY <1>1, <1>2 DEF BlocksOK

-----------------------------------------------------------------------------
(* The status, and the pause *)

\* PAUSED comes with the pause, and the plan waits once its goals are done.
LEMMA NextStatusOK ==
  ASSUME TypeInv, DeliveryInv, PhaseOK, StatusOK, [Next]_vars
  PROVE  StatusOK'
<1>. SUFFICES ASSUME InPhase'
              PROVE  /\ plan'.status = "paused" => plan'.paused
                     /\ plan'.status = "waiting" => \A g \in Goal : goalStatus'[g] = "done"
  BY DEF StatusOK
<1>1. InPhase /\ plan \in PlanRecord /\ plan.replan = "none" /\ ~RequestReplan /\ ~ActivateCycle
  BY PhaseBefore DEF PhaseOK, TypeInv, TypeOK
<1>2. ASSUME \A g \in Goal : goalStatus[g] = "done"
      PROVE  \A g \in Goal : goalStatus'[g] = "done"
  BY <1>2, DoneGoalSteps DEF DoneGoals
<1>3. /\ plan.status = "paused" => plan.paused
      /\ plan.status = "waiting" => \A g \in Goal : goalStatus[g] = "done"
  BY <1>1 DEF StatusOK
<1>4. CASE ~MovesPlan
  <2>1. PICK q \in {plan, SettleRequestedPause(plan)} \cup {Recompute(plan, goalStatus', block')} :
          plan' \in {q, Saved(q)}
    BY <1>4, PlanClass
  <2>2. q \in PlanRecord
    BY <1>1, <2>1, PlanOperators
  <2>3. /\ q.status = "paused" => q.paused
        /\ q.status = "waiting" => plan.status = "waiting"
    BY <1>1, <1>3 DEF Recompute, SettleRequestedPause, SettlePause, PlanRecord
  <2>4. plan'.status = q.status /\ plan'.paused = q.paused
    BY <2>1, <2>2 DEF Saved, PlanRecord
  <2>. QED  BY <1>2, <1>3, <2>3, <2>4
<1>5. CASE RequestPause \/ Resume
  BY <1>1, <1>5 DEF RequestPause, Resume, Saved, SettlePause, PlanRecord
<1>6. CASE EnterReview
  <2>1. \A g \in Goal : goalStatus[g] = "done"
    BY <1>6 DEF EnterReview, NonTerminal, PhaseOK, GoalStatuses, Terminal
  <2>2. plan'.status = "waiting"
    BY <1>1, <1>6 DEF EnterReview, Saved, PlanRecord
  <2>. QED  BY <1>2, <2>1, <2>2
<1>7. ~ProposeIntent /\ ~ApproveIntent /\ ~SubmitDraft /\ ~CancelReplan
  BY <1>1 DEF ProposeIntent, ApproveIntent, SubmitDraft, CancelReplan
<1>. QED  BY <1>1, <1>4, <1>5, <1>6, <1>7 DEF MovesPlan

\* A plan that no longer executes is not paused by a finalizer.
LEMMA PausesOutside ==
  ASSUME TypeInv, PhaseOK, ~InPhase, [Next]_vars, plan'.paused, ~plan.paused
  PROVE  RequestPause /\ \A t \in Task : OpenAttempts(t) = {}
<1>1. plan \in PlanRecord
  BY DEF TypeInv, TypeOK
<1>2. \A d \in Driver : ~Settles(d)
  <2>. SUFFICES ASSUME NEW d \in Driver, Settles(d)
                PROVE  FALSE
    OBVIOUS
  <2>1. ~FinalizeFailure(d)
    BY DEF FinalizeFailure, Executing, InPhase
  <2>2. reservation[goal[d]] = Mine(unit[d]) /\ goal[d] \in Goal
    BY <2>1 DEF Settles, FinalizeTestAuthor, FinalizeImplementation, MayFinalize, TypeInv, PositionOK
  <2>. QED  BY <2>2 DEF Mine, Attempt, PhaseOK
<1>3. CASE ~MovesPlan
  <2>1. PICK q \in {plan} \cup {Recompute(plan, goalStatus', block')} : plan' \in {q, Saved(q)}
    BY <1>2, <1>3, PlanClass
  <2>2. q \in PlanRecord
    BY <1>1, <2>1, PlanOperators
  <2>3. q.paused = plan.paused
    BY <1>1 DEF Recompute, PlanRecord
  <2>. QED  BY <2>1, <2>2, <2>3 DEF Saved, PlanRecord
<1>4. CASE RequestPause
  <2>1. CASE \E t \in Task : OpenAttempts(t) # {}
    <3>1. plan' = Saved([plan EXCEPT !.pauseRequested = TRUE])
      BY <1>4, <2>1 DEF RequestPause
    <3>. QED  BY <1>1, <3>1 DEF Saved, PlanRecord
  <2>. QED  BY <1>4, <2>1
<1>5. ~Resume
  BY DEF Resume
<1>6. CASE \/ EnterReview \/ RequestReplan \/ ProposeIntent \/ ApproveIntent \/ SubmitDraft
           \/ ActivateCycle \/ CancelReplan
  BY <1>1, <1>6
  DEF EnterReview, RequestReplan, ProposeIntent, ApproveIntent, SubmitDraft, ActivateCycle,
      CancelReplan, Saved, PlanRecord
<1>. QED  BY <1>3, <1>4, <1>5, <1>6 DEF MovesPlan

\* In its running phase a plan with an open attempt is not paused (OpenOK); after
\* it only a request pauses, and settles at once when nothing is open.
LEMMA NextQuiescent ==
  ASSUME TypeInv, AttemptInv, PhaseOK, OpenOK', PausedIsQuiescent, [Next]_vars
  PROVE  PausedIsQuiescent'
<1>. SUFFICES ASSUME plan'.paused, NEW t \in Task, Open(t)'
              PROVE  FALSE
  BY DEF PausedIsQuiescent, Open
<1>1. ~InPhase'
  BY DEF OpenOK
<1>2. plan \in PlanRecord
  BY DEF TypeInv, TypeOK
<1>3. ~RequestReplan /\ ~ActivateCycle
  BY <1>2 DEF RequestReplan, ActivateCycle, PlanRecord
<1>4. ~InPhase
  BY <1>1, <1>3, PhaseSteps DEF InPhase
<1>5. CASE plan.paused
  <2>1. \A d \in Driver : ~StartUnit(d)
    BY <1>5 DEF StartUnit, Handles, PauseGate
  <2>2. Open(t)
    BY <2>1, OpenSteps
  <2>. QED  BY <1>5, <2>2 DEF PausedIsQuiescent, Open
<1>6. CASE ~plan.paused
  <2>1. RequestPause /\ OpenAttempts(t) = {}
    BY <1>4, <1>6, PausesOutside
  <2>2. Open(t)
    BY <2>1 DEF RequestPause, Open, OpenAttempts
  <2>. QED  BY <2>1, <2>2 DEF Open
<1>. QED  BY <1>5, <1>6

\* Where the dependencies leave one goal to work on at a time, and the tasks of a
\* goal are in an order, a plan that is paused has no attempt running: a pause
\* settles only at the boundary of an action (settle_pause), and no other action
\* is under way.  With goals side by side it does not hold: one goal's finalizer
\* settles the pause while an attempt of the other runs.
THEOREM ExecutionPausedIsQuiescent ==
  ASSUME SerialGoals, OrderedTasks
  PROVE  Spec => []PausedIsQuiescent
<1>1. Init => SerialInv
  BY DEF Init, SerialInv, PhaseOK, OpenOK, BlocksOK, StatusOK, PausedIsQuiescent, GoalStatuses,
         Open, OpenAttempts, InPhase, Free, GoalToken
<1>2. TypeInv /\ AttemptInv /\ DeliveryInv /\ SerialInv /\ [Next]_vars => SerialInv'
  BY NextPhaseOK, NextOpenOK, NextBlocksOK, NextStatusOK, NextQuiescent DEF SerialInv
<1>3. SerialInv => PausedIsQuiescent
  BY DEF SerialInv
<1>. QED  BY <1>1, <1>2, <1>3, DeliveryInvariant, PTL DEF Spec
=============================================================================
