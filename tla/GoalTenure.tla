----------------------------- MODULE GoalTenure -----------------------------
(***************************************************************************)
(* What a goal's lease promises: a claim never takes a goal from a worker  *)
(* that still has it.  That worker's tenure may end at any time, because   *)
(* its lease ran out or because it gave the goal back.                     *)
(***************************************************************************)
CONSTANTS Worker, None

VARIABLE tenant  \* the worker that has the goal, or None

Vacant == tenant = None

TenureBegins == Vacant /\ \E w \in Worker : tenant' = w

TenureEnds == ~Vacant /\ Vacant'

ThroughVacancy == Vacant /\ [][TenureBegins \/ TenureEnds]_tenant
=============================================================================
