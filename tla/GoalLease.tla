------------------------------ MODULE GoalLease ------------------------------
(***************************************************************************)
(* The lease of one goal (infra/db/goal_lease_repository.py), as the       *)
(* workers that drive goals use it (app/use_cases/run_worker.py,           *)
(* infra/worker/main.py).  Time is counted in the whole seconds that the   *)
(* rows hold.  A caller reads the clock first and its statement reaches    *)
(* the database later, after other statements and after time has passed.   *)
(***************************************************************************)
EXTENDS Naturals

CONSTANTS
    Worker,
    None,
    LeaseSeconds,
    MaxClock     \* how long the model runs

ASSUME LeaseAssumption ==
    /\ None \notin Worker
    /\ None \notin [owner : Worker, expires : Nat]
    /\ LeaseSeconds \in Nat \ {0}
    /\ MaxClock \in Nat

VARIABLES
    clock,  \* the wall clock
    row,    \* the row of goal_leases, or None when nobody claims the goal
    pc,     \* what each worker does with the lease
    at,     \* the time each worker read for its statement in flight
    grant,  \* until when each worker knows that it holds the lease
    suspect,    \* whose open attempt a starting worker looks into, or None
    asked,      \* the time it read for that
    condemned,  \* it found no live lease and has yet to abandon the attempt
    cut,    \* workers whose attempt a start-up reconciliation abandoned
    late    \* history: workers whose lease has come to its last second since
            \* they claimed the goal

reconciler == <<suspect, asked, condemned>>
vars == <<clock, row, pc, at, grant, reconciler, cut, late>>

PC == {"idle", "claiming", "driving", "beating", "lost"}

\* Those who may have an attempt open.
AtWork == {w \in Worker : pc[w] \in {"driving", "beating", "lost"}}

TypeOK ==
    /\ clock \in Nat
    /\ row \in [owner : Worker, expires : Nat] \cup {None}
    /\ pc \in [Worker -> PC]
    /\ at \in [Worker -> Nat]
    /\ grant \in [Worker -> Nat]
    /\ suspect \in AtWork \cup {None}
    /\ asked \in Nat
    /\ condemned \in BOOLEAN
    /\ condemned => suspect # None
    /\ cut \subseteq AtWork
    /\ late \subseteq AtWork

-----------------------------------------------------------------------------
(* The statements, at the time `now` their caller read *)

\* Not the code: a worker whose clock shows the last second may claim.
ClaimableAtExpiry(now) == row = None \/ row.expires <= now

\* WHERE claimed_by IS NULL OR lease_expires_at < :now_epoch
Claimable(now) == row = None \/ row.expires < now

\* Not the code: the renewal forgets whose lease it is.
RenewableByAny(w, now) == w \in Worker /\ row # None /\ row.expires >= now

\* WHERE claimed_by = :worker_id AND lease_expires_at >= :now_epoch
Renewable(w, now) == row # None /\ row.owner = w /\ row.expires >= now

\* Not the code: a lease that is about to run out counts as dead.
LiveWithMargin(now) == row # None /\ row.expires > now + 1

\* WHERE claimed_by IS NOT NULL AND lease_expires_at > :now_epoch
IsClaimLive(now) == row # None /\ row.expires > now

\* Not the code: the seeded row is left without an owner.
LeaseOfNobody(w, now) == [owner |-> None, expires |-> now + LeaseSeconds]

Lease(w, now) == [owner |-> w, expires |-> now + LeaseSeconds]

-----------------------------------------------------------------------------
(* The workers *)

ReadClock(w, from, to) ==
    /\ pc[w] = from
    /\ pc' = [pc EXCEPT ![w] = to]
    /\ at' = [at EXCEPT ![w] = clock]
    /\ UNCHANGED <<clock, row, grant, reconciler, cut, late>>

\* claim_one_ready_goal and heartbeat read the time before their statement.
StartClaim(w) == ReadClock(w, "idle", "claiming")
StartBeat(w) == ReadClock(w, "driving", "beating")

Granted(w) ==
    /\ row' = Lease(w, at[w])
    /\ grant' = [grant EXCEPT ![w] = at[w] + LeaseSeconds]
    /\ pc' = [pc EXCEPT ![w] = "driving"]
    /\ late' = IF at[w] + LeaseSeconds <= clock THEN late \cup {w} ELSE late

Claim(w) ==
    /\ pc[w] = "claiming"
    /\ IF Claimable(at[w])
         THEN Granted(w)
         ELSE /\ pc' = [pc EXCEPT ![w] = "idle"]
              /\ UNCHANGED <<row, grant, late>>
    /\ UNCHANGED <<clock, at, reconciler, cut>>

\* A failed renewal is the news that the lease is lost; the action in flight is
\* awaited all the same.
Heartbeat(w) ==
    /\ pc[w] = "beating"
    /\ IF Renewable(w, at[w])
         THEN Granted(w)
         ELSE /\ pc' = [pc EXCEPT ![w] = "lost"]
              /\ UNCHANGED <<row, grant, late>>
    /\ UNCHANGED <<clock, at, reconciler, cut>>

\* What w does next is another attempt, with an identity of its own: a
\* reconciliation that still looks into the old one no longer concerns it.
Stops(w) ==
    /\ pc' = [pc EXCEPT ![w] = "idle"]
    /\ grant' = [grant EXCEPT ![w] = 0]
    /\ cut' = cut \ {w}
    /\ late' = late \ {w}
    /\ IF suspect = w
         THEN suspect' = None /\ condemned' = FALSE
         ELSE UNCHANGED <<suspect, condemned>>
    /\ UNCHANGED <<clock, at, asked>>

\* The wrapper of drive_goal releases whatever happened, if the lease is its own.
Release(w) ==
    /\ pc[w] \in {"driving", "lost"}
    /\ row' = IF row # None /\ row.owner = w THEN None ELSE row
    /\ Stops(w)

Crash(w) ==
    /\ pc[w] # "idle"
    /\ UNCHANGED row
    /\ Stops(w)

-----------------------------------------------------------------------------
(* Another worker starts: reconcile_stale_attempts goes through the open     *)
(* attempts.  For each it reads the clock, asks for the goal's lease in a    *)
(* transaction of its own (the plan's claim, asked for before, is taken to   *)
(* be dead), and abandons the attempt by a later statement.                  *)

LookInto(w) ==
    /\ suspect = None
    /\ w \in AtWork
    /\ suspect' = w
    /\ asked' = clock
    /\ UNCHANGED <<clock, row, pc, at, grant, condemned, cut, late>>

CheckLease ==
    /\ suspect # None
    /\ ~condemned
    /\ IF IsClaimLive(asked)
         THEN suspect' = None /\ UNCHANGED condemned
         ELSE condemned' = TRUE /\ UNCHANGED suspect
    /\ UNCHANGED <<clock, row, pc, at, grant, asked, cut, late>>

Abandon ==
    /\ condemned
    /\ cut' = cut \cup {suspect}
    /\ suspect' = None
    /\ condemned' = FALSE
    /\ UNCHANGED <<clock, row, pc, at, grant, asked, late>>

-----------------------------------------------------------------------------

Tick ==
    /\ clock < MaxClock
    /\ clock' = clock + 1
    /\ late' = late \cup {w \in AtWork : grant[w] <= clock'}
    /\ UNCHANGED <<row, pc, at, grant, reconciler, cut>>

Init ==
    /\ clock = 0
    /\ row = None
    /\ pc = [w \in Worker |-> "idle"]
    /\ at = [w \in Worker |-> 0]
    /\ grant = [w \in Worker |-> 0]
    /\ suspect = None
    /\ asked = 0
    /\ condemned = FALSE
    /\ cut = {}
    /\ late = {}

Next ==
    \/ \E w \in Worker :
         \/ StartClaim(w) \/ Claim(w)
         \/ StartBeat(w) \/ Heartbeat(w)
         \/ Release(w) \/ Crash(w)
         \/ LookInto(w)
    \/ CheckLease \/ Abandon
    \/ Tick

Spec == Init /\ [][Next]_vars

-----------------------------------------------------------------------------
(* Properties *)

Driving(w) == pc[w] \in {"driving", "beating"}

\* A worker that drives the goal and whose last grant has not run out is the
\* only such worker, however late its statements arrive (claim_one_ready_goal,
\* heartbeat).
OneHolder ==
    \A v, w \in Worker :
        /\ Driving(v) /\ grant[v] >= clock
        /\ Driving(w) /\ grant[w] >= clock
        => v = w

\* Such a worker owns the row, until exactly the time it was told: no other
\* worker's late statement has overwritten it.
HolderHasRow ==
    \A w \in Worker :
        Driving(w) /\ grant[w] >= clock => row = [owner |-> w, expires |-> grant[w]]

\* The lease is a lock: it passes from one worker to another only through a
\* moment in which nobody holds it.
L == INSTANCE GoalTenure WITH
        tenant <- IF row # None /\ row.expires >= clock THEN row.owner ELSE None

LeaseIsLock == L!ThroughVacancy

\* A start-up reconciliation abandons no attempt of a worker that has renewed in
\* time: at some moment since the claim the lease was in its last second or had
\* run out (reconcile_stale_attempts, heartbeat).
PunctualIsSpared == cut \subseteq late

\* What reconcile_runtime.py:10 says of the abandoned: no live lease owns them. (It
\* does not hold: in its last second a lease is dead to the check, and may be renewed
\* before the attempt is abandoned.)
AbandonsOnlyUnowned ==
    [][\A w \in cut' \ cut : ~(Driving(w) /\ grant[w] > clock)]_vars
=============================================================================
