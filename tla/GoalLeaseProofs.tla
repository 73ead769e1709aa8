--------------------------- MODULE GoalLeaseProofs ---------------------------
(***************************************************************************)
(* The lease of a goal has at most one holder, for any number of workers,  *)
(* any lease length and any delay between reading the clock and running    *)
(* the statement; it implements a lock; and a start-up reconciliation      *)
(* leaves a worker alone that renews it in time.                           *)
(***************************************************************************)
EXTENDS GoalLease, TLAPS

\* No statement carries a time that has not come yet.
ReadInThePast == (\A w \in Worker : at[w] <= clock) /\ asked <= clock

\* A worker at work whose grant is in its last second, or has run out, is late;
\* and only such a worker has failed to renew.
LateOnes ==
    /\ \A w \in AtWork : grant[w] <= clock => w \in late
    /\ \A w \in Worker : pc[w] = "lost" => grant[w] <= clock

\* Between its check and the abandonment a reconciliation holds a worker for dead
\* that may renew its lease meanwhile, but that has been late.
CondemnedIsLate == condemned => suspect \in late

IInv ==
    /\ TypeOK
    /\ ReadInThePast
    /\ HolderHasRow
    /\ LateOnes
    /\ CondemnedIsLate
    /\ PunctualIsSpared

\* The invariant holds before any worker claims the goal.
LEMMA InitInvariant == Init => IInv
<1>. SUFFICES ASSUME Init
              PROVE  IInv
  OBVIOUS
<1>. USE LeaseAssumption DEF Init, PC, AtWork
<1>1. TypeOK
  BY DEF TypeOK
<1>2. ReadInThePast /\ CondemnedIsLate /\ PunctualIsSpared
  BY DEF ReadInThePast, CondemnedIsLate, PunctualIsSpared
<1>3. HolderHasRow /\ LateOnes
  BY DEF HolderHasRow, LateOnes, Driving
<1>. QED  BY <1>1, <1>2, <1>3 DEF IInv

\* A grant goes to one worker, when no other one holds the lease.
LEMMA GrantedInvariant ==
  ASSUME IInv, NEW w \in Worker, Granted(w), pc[w] \in {"claiming", "beating"},
         UNCHANGED <<clock, at, reconciler, cut>>,
         \A v \in Worker \ {w} : Driving(v) => grant[v] < clock
  PROVE  IInv'
<1>. USE LeaseAssumption DEF IInv, TypeOK, PC, AtWork, Granted, Lease, reconciler
<1>1. TypeOK'
  OBVIOUS
<1>2. ReadInThePast' /\ CondemnedIsLate' /\ PunctualIsSpared'
  BY DEF ReadInThePast, CondemnedIsLate, PunctualIsSpared
<1>3. HolderHasRow'
  BY DEF HolderHasRow, Driving
<1>4. LateOnes'
  BY DEF LateOnes
<1>. QED  BY <1>1, <1>2, <1>3, <1>4

\* A worker that stops takes its lateness, its abandoned attempt and the suspicion
\* of it along.
LEMMA StopsInvariant ==
  ASSUME IInv, NEW w \in Worker, Stops(w),
         \A v \in Worker \ {w} : Driving(v) /\ grant[v] >= clock => row' = row,
         row' \in {row, None}
  PROVE  IInv'
<1>. USE LeaseAssumption DEF IInv, TypeOK, PC, AtWork, Stops
<1>1. TypeOK'
  OBVIOUS
<1>2. ReadInThePast' /\ CondemnedIsLate' /\ PunctualIsSpared'
  BY DEF ReadInThePast, CondemnedIsLate, PunctualIsSpared
<1>3. HolderHasRow'
  BY DEF HolderHasRow, Driving
<1>4. LateOnes'
  BY DEF LateOnes
<1>. QED  BY <1>1, <1>2, <1>3, <1>4

\* The row is live for a check at any time before the last second of the suspect's
\* grant: whom the check condemns is late.
LEMMA CheckCondemnsTheLate ==
  ASSUME IInv, CheckLease, condemned'
  PROVE  suspect' \in late'
<1>. USE LeaseAssumption DEF IInv, TypeOK, PC, AtWork
<1>1. suspect \in AtWork /\ suspect' = suspect /\ late' = late
  BY DEF CheckLease
<1>2. CASE grant[suspect] <= clock
  BY <1>1, <1>2 DEF LateOnes
<1>3. CASE grant[suspect] > clock
  <2>1. Driving(suspect)
    BY <1>1, <1>3 DEF LateOnes, Driving
  <2>2. row = [owner |-> suspect, expires |-> grant[suspect]]
    BY <1>1, <1>3, <2>1 DEF HolderHasRow
  <2>3. row # None /\ row.expires = grant[suspect]
    BY <1>1, <2>2
  <2>4. IsClaimLive(asked)
    BY <1>1, <1>3, <2>3 DEF IsClaimLive, ReadInThePast
  <2>. QED  BY <2>4 DEF CheckLease
<1>4. grant[suspect] \in Nat /\ clock \in Nat
  BY <1>1
<1>. QED  BY <1>2, <1>3, <1>4

\* Every statement, crash, reconciliation and tick of the clock preserves it.
LEMMA NextInvariant == IInv /\ [Next]_vars => IInv'
<1>. SUFFICES ASSUME IInv, [Next]_vars
              PROVE  IInv'
  OBVIOUS
<1>1. ASSUME NEW w \in Worker, StartClaim(w) \/ StartBeat(w)
      PROVE  IInv'
  <2>. USE <1>1 DEF IInv, TypeOK, PC, AtWork, StartClaim, StartBeat, ReadClock, reconciler
  <2>1. TypeOK'
    OBVIOUS
  <2>2. ReadInThePast' /\ CondemnedIsLate' /\ PunctualIsSpared' /\ LateOnes'
    BY DEF ReadInThePast, CondemnedIsLate, PunctualIsSpared, LateOnes
  <2>3. HolderHasRow'
    BY DEF HolderHasRow, Driving
  <2>. QED  BY <2>1, <2>2, <2>3
<1>2. ASSUME NEW w \in Worker, Claim(w)
      PROVE  IInv'
  <2>1. CASE Claimable(at[w])
    <3>1. \A v \in Worker : Driving(v) => grant[v] < clock
      BY <2>1, LeaseAssumption
      DEF Claimable, IInv, TypeOK, ReadInThePast, HolderHasRow
    <3>. QED  BY <1>2, <2>1, <3>1, GrantedInvariant DEF Claim
  <2>2. CASE ~Claimable(at[w])
    <3>. USE <1>2, <2>2 DEF IInv, TypeOK, PC, AtWork, Claim, reconciler
    <3>1. TypeOK'
      OBVIOUS
    <3>2. ReadInThePast' /\ CondemnedIsLate' /\ PunctualIsSpared' /\ LateOnes'
      BY DEF ReadInThePast, CondemnedIsLate, PunctualIsSpared, LateOnes
    <3>3. HolderHasRow'
      BY DEF HolderHasRow, Driving
    <3>. QED  BY <3>1, <3>2, <3>3
  <2>. QED  BY <2>1, <2>2
<1>3. ASSUME NEW w \in Worker, Heartbeat(w)
      PROVE  IInv'
  <2>1. CASE Renewable(w, at[w])
    <3>1. \A v \in Worker \ {w} : Driving(v) => grant[v] < clock
      BY <2>1, LeaseAssumption
      DEF Renewable, IInv, TypeOK, ReadInThePast, HolderHasRow
    <3>. QED  BY <1>3, <2>1, <3>1, GrantedInvariant DEF Heartbeat
  <2>2. CASE ~Renewable(w, at[w])
    <3>. USE <1>3, <2>2 DEF IInv, TypeOK, PC, AtWork, Heartbeat, reconciler
    <3>1. TypeOK'
      OBVIOUS
    <3>2. grant[w] < clock
      <4>. SUFFICES ASSUME grant[w] >= clock
                    PROVE  FALSE
        OBVIOUS
      <4>1. row = [owner |-> w, expires |-> grant[w]]
        BY DEF HolderHasRow, Driving
      <4>2. row # None
        BY <4>1, LeaseAssumption
      <4>. QED  BY <4>1, <4>2 DEF Renewable, ReadInThePast
    <3>3. LateOnes'
      BY <3>2 DEF LateOnes
    <3>4. ReadInThePast' /\ CondemnedIsLate' /\ PunctualIsSpared'
      BY DEF ReadInThePast, CondemnedIsLate, PunctualIsSpared
    <3>5. HolderHasRow'
      BY DEF HolderHasRow, Driving
    <3>. QED  BY <3>1, <3>3, <3>4, <3>5
  <2>. QED  BY <2>1, <2>2
<1>4. ASSUME NEW w \in Worker, Release(w)
      PROVE  IInv'
  <2>1. \A v \in Worker \ {w} : Driving(v) /\ grant[v] >= clock => row' = row
    BY <1>4, LeaseAssumption DEF Release, IInv, HolderHasRow
  <2>2. Stops(w) /\ row' \in {row, None}
    BY <1>4 DEF Release
  <2>. QED  BY <2>1, <2>2, StopsInvariant
<1>5. ASSUME NEW w \in Worker, Crash(w)
      PROVE  IInv'
  BY <1>5, StopsInvariant DEF Crash
<1>6. ASSUME NEW w \in Worker, LookInto(w)
      PROVE  IInv'
  <2>. USE <1>6 DEF IInv, TypeOK, PC, AtWork, LookInto
  <2>1. TypeOK'
    OBVIOUS
  <2>2. ReadInThePast' /\ CondemnedIsLate' /\ PunctualIsSpared' /\ LateOnes'
    BY DEF ReadInThePast, CondemnedIsLate, PunctualIsSpared, LateOnes
  <2>3. HolderHasRow'
    BY DEF HolderHasRow, Driving
  <2>. QED  BY <2>1, <2>2, <2>3
<1>7. CASE CheckLease
  <2>. USE <1>7 DEF IInv, TypeOK, PC, AtWork, CheckLease
  <2>1. TypeOK'
    OBVIOUS
  <2>2. ReadInThePast' /\ PunctualIsSpared' /\ LateOnes'
    BY DEF ReadInThePast, PunctualIsSpared, LateOnes
  <2>3. HolderHasRow'
    BY DEF HolderHasRow, Driving
  <2>4. CondemnedIsLate'
    BY CheckCondemnsTheLate DEF CondemnedIsLate
  <2>. QED  BY <2>1, <2>2, <2>3, <2>4
<1>8. CASE Abandon
  <2>. USE <1>8 DEF IInv, TypeOK, PC, AtWork, Abandon
  <2>1. TypeOK'
    OBVIOUS
  <2>2. ReadInThePast' /\ CondemnedIsLate' /\ LateOnes'
    BY DEF ReadInThePast, CondemnedIsLate, LateOnes
  <2>3. HolderHasRow'
    BY DEF HolderHasRow, Driving
  <2>4. PunctualIsSpared'
    BY DEF CondemnedIsLate, PunctualIsSpared
  <2>. QED  BY <2>1, <2>2, <2>3, <2>4
<1>9. CASE Tick
  <2>. USE <1>9 DEF IInv, TypeOK, PC, AtWork, Tick, reconciler
  <2>1. TypeOK'
    OBVIOUS
  <2>2. ReadInThePast' /\ CondemnedIsLate' /\ PunctualIsSpared' /\ LateOnes'
    BY DEF ReadInThePast, CondemnedIsLate, PunctualIsSpared, LateOnes
  <2>3. HolderHasRow'
    BY DEF HolderHasRow, Driving
  <2>. QED  BY <2>1, <2>2, <2>3
<1>10. CASE UNCHANGED vars
  BY <1>10 DEF vars, reconciler, IInv, TypeOK, ReadInThePast, HolderHasRow, LateOnes,
     CondemnedIsLate, PunctualIsSpared, Driving, AtWork
<1>. QED
  BY <1>1, <1>2, <1>3, <1>4, <1>5, <1>6, <1>7, <1>8, <1>9, <1>10 DEF Next

\* In every reachable state a driving worker whose grant has not run out owns
\* the row.
THEOREM LeaseHolderHasRow == Spec => [](TypeOK /\ HolderHasRow)
<1>1. Init /\ [][Next]_vars => []IInv
  BY InitInvariant, NextInvariant, PTL
<1>2. IInv => TypeOK /\ HolderHasRow
  BY DEF IInv
<1>. QED  BY <1>1, <1>2, PTL DEF Spec

\* At most one worker drives a goal on a lease that has not run out.
THEOREM LeaseOneHolder == Spec => []OneHolder
<1>1. TypeOK /\ HolderHasRow => OneHolder
  BY DEF TypeOK, HolderHasRow, OneHolder
<1>. QED  BY <1>1, LeaseHolderHasRow, PTL

\* Whoever renews before the lease's last second never loses an attempt to the
\* reconciliation of a worker that starts, however late its statements arrive and
\* whatever happens between its check and the abandonment.
THEOREM LeasePunctualIsSpared == Spec => []PunctualIsSpared
<1>1. IInv => PunctualIsSpared
  BY DEF IInv
<1>2. Init /\ [][Next]_vars => []IInv
  BY InitInvariant, NextInvariant, PTL
<1>. QED  BY <1>1, <1>2, PTL DEF Spec

\* The row, the clocks and the workers are what the module says.
THEOREM LeaseTypeOK == Spec => []TypeOK
<1>1. IInv => TypeOK
  BY DEF IInv
<1>2. Init /\ [][Next]_vars => []IInv
  BY InitInvariant, NextInvariant, PTL
<1>. QED  BY <1>1, <1>2, PTL DEF Spec

-----------------------------------------------------------------------------
(* The lease implements the lock *)

Holder == IF row # None /\ row.expires >= clock THEN row.owner ELSE None

\* Before any claim nobody holds the lock.
LEMMA InitRefines == Init => L!Vacant
  BY DEF Init, L!Vacant

\* Every step of the lease begins a tenure of a vacant goal, ends one, or leaves
\* the goal to whoever has it.
LEMMA NextRefines == IInv /\ [Next]_vars => [L!TenureBegins \/ L!TenureEnds]_Holder
<1>. SUFFICES ASSUME IInv, [Next]_vars
              PROVE  [L!TenureBegins \/ L!TenureEnds]_Holder
  OBVIOUS
<1>. USE LeaseAssumption DEF IInv, TypeOK, ReadInThePast, Holder
<1>. DEFINE Step == \/ Holder' \in {Holder, None}
                    \/ Holder = None /\ Holder' \in Worker
<1>1. ASSUME NEW w \in Worker, Claim(w)
      PROVE  Step
  BY <1>1 DEF Claim, Claimable, Granted, Lease
<1>2. ASSUME NEW w \in Worker, Heartbeat(w)
      PROVE  Step
  BY <1>2 DEF Heartbeat, Renewable, Granted, Lease
<1>3. ASSUME NEW w \in Worker, Release(w)
      PROVE  Step
  BY <1>3 DEF Release, Stops
<1>4. ASSUME NEW w \in Worker, StartClaim(w) \/ StartBeat(w) \/ Crash(w)
      PROVE  Step
  BY <1>4 DEF StartClaim, StartBeat, ReadClock, Crash, Stops
<1>5. ASSUME (\E w \in Worker : LookInto(w)) \/ CheckLease \/ Abandon \/ UNCHANGED vars
      PROVE  Step
  BY <1>5 DEF LookInto, CheckLease, Abandon, vars
<1>6. ASSUME Tick
      PROVE  Step
  <2>1. row' = row /\ clock' = clock + 1
    BY <1>6 DEF Tick
  <2>. QED  BY <2>1
<1>7. Step
  BY <1>1, <1>2, <1>3, <1>4, <1>5, <1>6 DEF Next
<1>. QED  BY <1>7 DEF L!TenureBegins, L!TenureEnds, L!Vacant

\* The lease passes from one worker to another only through a moment in which
\* nobody holds it, whatever the workers, the clock and the crashes do.
THEOREM LeaseImplementsLock == Spec => LeaseIsLock
<1>1. Init /\ [][Next]_vars => []IInv
  BY InitInvariant, NextInvariant, PTL
<1>2. Init /\ [][Next]_vars => L!Vacant /\ [][L!TenureBegins \/ L!TenureEnds]_Holder
  BY <1>1, InitRefines, NextRefines, PTL
<1>. QED  BY <1>2 DEF Spec, LeaseIsLock, L!ThroughVacancy, Holder
=============================================================================
