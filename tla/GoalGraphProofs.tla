--------------------------- MODULE GoalGraphProofs ---------------------------
(***************************************************************************)
(* The goals of a cycle as a graph that is edited, for any number of goals *)
(* and edits: the graph stays ordered, the sweeps of blocked_nodes find    *)
(* what they should in it, and so a plan that can progress has a goal to   *)
(* claim and a BLOCKED plan has none.                                      *)
(*                                                                         *)
(* The last three are not about one step: they follow from what the graph  *)
(* and the statuses are in every reachable state (GraphInv), by what       *)
(* BlockedNodesLeast says of the sweeps and by looking at the first goal   *)
(* of a set, which depends on none of the set.                             *)
(***************************************************************************)
EXTENDS GoalGraph, NavigationProofs

-----------------------------------------------------------------------------
(* Type correctness *)

\* A new derivation of the status gives a plan.
LEMMA DerivedType ==
  ASSUME TypeOK
  PROVE  /\ Derived(plan) \in [status: {"running", "paused", "blocked", "waiting"},
                              paused: BOOLEAN, pauseRequested: BOOLEAN]
         /\ Derived(plan).status = "blocked" =>
              Live' = {} \/ ~PlanCanProgress(goals', state', deps', Blocked')
  BY DEF TypeOK, Derived

\* A worker's step keeps the types.
LEMMA WorkerType ==
  ASSUME TypeOK, NEW g \in Goal, Worker(g)
  PROVE  TypeOK'
<1>. USE DEF TypeOK, Status
<1>1. CASE Claim(g) \/ Leave(g) \/ StartUnit(g) \/ Reserve(g)
  BY <1>1 DEF Claim, Leave, StartUnit, Reserve
<1>2. CASE FinishUnit(g)
  BY <1>2 DEF FinishUnit, SettlePause
<1>3. CASE Complete(g)
  BY <1>3, DerivedType DEF Complete
<1>4. CASE Fail(g)
  BY <1>4, DerivedType DEF Fail
<1>. QED  BY <1>1, <1>2, <1>3, <1>4 DEF Worker

\* The types of the goals, of their graph and of the plan (Goal, Plan).
THEOREM GraphTypeOK == Spec => []TypeOK
<1>1. Init => TypeOK
  BY DEF Init, TypeOK, Status
<1>2. TypeOK /\ [Next]_vars => TypeOK'
  <2>. SUFFICES ASSUME TypeOK, [Next]_vars
                PROVE  TypeOK'
    OBVIOUS
  <2>1. ASSUME NEW g \in Goal, Retry(g)
        PROVE  TypeOK'
    BY <2>1, DerivedType DEF Retry, TypeOK
  <2>2. ASSUME NEW g \in Goal, Edit(g)
        PROVE  TypeOK'
    <3>1. CASE RemoveGoal(g)
      BY <3>1 DEF RemoveGoal, Stripped, TypeOK
    <3>2. ASSUME NEW new \in SUBSET Goal, UpdateGoal(g, new)
          PROVE  TypeOK'
      <4>1. deps' \in [Goal -> SUBSET Goal] /\ edits' \in Nat
        BY <3>2 DEF UpdateGoal, TypeOK
      <4>. QED  BY <3>2, <4>1 DEF UpdateGoal, TypeOK
    <3>. QED  BY <2>2, <3>1, <3>2 DEF Edit
  <2>3. CASE EnterReview
    BY <2>3 DEF EnterReview, TypeOK
  <2>4. CASE RequestPause
    BY <2>4 DEF RequestPause, SettlePause, TypeOK
  <2>5. CASE Resume
    BY <2>5 DEF Resume, TypeOK
  <2>6. CASE UNCHANGED vars
    BY <2>6 DEF vars, TypeOK
  <2>. QED  BY <2>1, <2>2, <2>3, <2>4, <2>5, <2>6, WorkerType DEF Next
<1>. QED  BY <1>1, <1>2, PTL DEF Spec

-----------------------------------------------------------------------------
(* The graph *)

\* What the edits rest on: every goal's dependencies, the removed goals' too,
\* are a set of goals.
GraphInv ==
    /\ goals \subseteq Goal
    /\ deps \in [Goal -> SUBSET Goal]
    /\ DependenciesPrecede

\* A cycle is activated with dependencies that precede.
LEMMA InitGraph == Init => GraphInv
  BY DEF Init, GraphInv, DependenciesPrecede

\* Only the two edits touch the graph, and both keep it.
LEMMA NextGraph == GraphInv /\ [Next]_vars => GraphInv'
<1>. SUFFICES ASSUME GraphInv, [Next]_vars
              PROVE  GraphInv'
  OBVIOUS
<1>. USE DEF GraphInv, DependenciesPrecede, Earlier
<1>1. ASSUME NEW g \in Goal, NEW new \in SUBSET Goal, UpdateGoal(g, new)
      PROVE  GraphInv'
  BY <1>1 DEF UpdateGoal, Acceptable
<1>2. ASSUME NEW g \in Goal, RemoveGoal(g)
      PROVE  GraphInv'
  BY <1>2 DEF RemoveGoal, Stripped
<1>3. ASSUME NEW g \in Goal, Worker(g) \/ Retry(g)
      PROVE  UNCHANGED <<goals, deps>>
  BY <1>3 DEF Worker, Claim, Leave, StartUnit, FinishUnit, Reserve, Complete, Fail, Retry
<1>4. ASSUME EnterReview \/ RequestPause \/ Resume \/ UNCHANGED vars
      PROVE  UNCHANGED <<goals, deps>>
  BY <1>4 DEF EnterReview, RequestPause, Resume, vars
<1>5. UNCHANGED <<goals, deps>> => GraphInv'
  OBVIOUS
<1>. QED  BY <1>1, <1>2, <1>3, <1>4, <1>5 DEF Next, Edit

\* In every reachable state a goal of the cycle depends only on earlier goals of
\* the cycle.
THEOREM GraphStaysOrdered == Spec => []DependenciesPrecede
<1>1. GraphInv => DependenciesPrecede
  BY DEF GraphInv
<1>. QED  BY <1>1, InitGraph, NextGraph, PTL DEF Spec

-----------------------------------------------------------------------------
(* What the sweeps find in the graph *)

\* No goal of this graph fails or is skipped: what is finished is done.
Unfailed == \A g \in Goal : state[g] \in {"pending", "running", "done"}

StatusInv == TypeOK /\ GraphInv /\ Unfailed /\ BlockedMeansStuck

\* At the start nothing is finished or blocked.
LEMMA InitStatus == Init => Unfailed /\ BlockedMeansStuck
  BY DEF Init, Unfailed, BlockedMeansStuck

\* A goal is only begun and completed.
LEMMA NextUnfailed == TypeOK /\ Unfailed /\ [Next]_vars => Unfailed'
<1>. SUFFICES ASSUME TypeOK, Unfailed, [Next]_vars
              PROVE  Unfailed'
  OBVIOUS
<1>1. ASSUME NEW g \in Goal, StartUnit(g) \/ Complete(g)
      PROVE  Unfailed'
  BY <1>1 DEF StartUnit, Complete, Unfailed, TypeOK
<1>2. ASSUME NEW g \in Goal,
             \/ Claim(g) \/ Leave(g) \/ FinishUnit(g) \/ Reserve(g) \/ Fail(g)
             \/ Retry(g) \/ Edit(g)
      PROVE  UNCHANGED state
  BY <1>2 DEF Claim, Leave, FinishUnit, Reserve, Fail, Retry, Edit, RemoveGoal, UpdateGoal
<1>3. EnterReview \/ RequestPause \/ Resume \/ UNCHANGED vars => UNCHANGED state
  BY DEF EnterReview, RequestPause, Resume, vars
<1>. QED  BY <1>1, <1>2, <1>3 DEF Next, Worker, Unfailed

\* A step that leaves a plan BLOCKED either derived its status again, or touched
\* neither the goals nor the blocks, or edited.
LEMMA NextStuck == TypeOK /\ BlockedMeansStuck /\ [Next]_vars => BlockedMeansStuck'
<1>. SUFFICES ASSUME TypeOK, BlockedMeansStuck, [Next]_vars, edits' = 0, plan'.status = "blocked"
              PROVE  ~PlanCanProgress(goals', state', deps', Blocked')
  BY DEF BlockedMeansStuck, Blocked
<1>1. Live' = {} => ~PlanCanProgress(goals', state', deps', Blocked')
  BY DEF Live, PlanCanProgress
<1>2. plan' = Derived(plan) => ~PlanCanProgress(goals', state', deps', Blocked')
  BY <1>1, DerivedType
<1>3. CASE UNCHANGED <<goals, deps, state, block, edits>> /\ plan.status = "blocked"
  BY <1>3 DEF BlockedMeansStuck, Blocked
<1>4. ASSUME NEW g \in Goal, Worker(g)
      PROVE  ~PlanCanProgress(goals', state', deps', Blocked')
  <2>1. CASE Complete(g) \/ Fail(g)
    BY <1>2, <2>1 DEF Complete, Fail
  <2>2. CASE StartUnit(g)
    BY <2>2 DEF StartUnit, Proceeds, PauseGate
  <2>3. CASE FinishUnit(g)
    BY <1>3, <2>3 DEF FinishUnit, SettlePause
  <2>4. CASE Claim(g) \/ Leave(g) \/ Reserve(g)
    BY <1>3, <2>4 DEF Claim, Leave, Reserve
  <2>. QED  BY <1>4, <2>1, <2>2, <2>3, <2>4 DEF Worker
<1>5. ASSUME NEW g \in Goal, Retry(g)
      PROVE  ~PlanCanProgress(goals', state', deps', Blocked')
  BY <1>2, <1>5 DEF Retry
<1>6. ASSUME NEW g \in Goal, Edit(g)
      PROVE  FALSE
  <2>1. edits' = edits + 1
    BY <1>6 DEF Edit, RemoveGoal, UpdateGoal
  <2>. QED  BY <2>1 DEF TypeOK
<1>7. EnterReview \/ RequestPause \/ Resume => FALSE
  BY DEF EnterReview, RequestPause, Resume, SettlePause, TypeOK
<1>8. CASE UNCHANGED vars
  BY <1>3, <1>8 DEF vars
<1>. QED  BY <1>4, <1>5, <1>6, <1>7, <1>8 DEF Next

\* The graph, the statuses and the plan's status agree in every reachable state.
LEMMA StatusInvariant == Spec => []StatusInv
<1>1. Init => Unfailed /\ BlockedMeansStuck /\ GraphInv
  BY InitStatus, InitGraph
<1>2. TypeOK /\ GraphInv /\ Unfailed /\ BlockedMeansStuck /\ [Next]_vars
        => (GraphInv /\ Unfailed /\ BlockedMeansStuck)'
  BY NextGraph, NextUnfailed, NextStuck
<1>. QED  BY <1>1, <1>2, GraphTypeOK, PTL DEF Spec, StatusInv

\* As long as nobody edits the graph, a plan is BLOCKED only while none of its
\* goals can progress, whatever is blocked, retried, completed and paused
\* (_recompute_cyclic_status).
THEOREM GraphBlockedMeansStuck == Spec => []BlockedMeansStuck
  BY StatusInvariant, PTL DEF StatusInv

\* The goals that are not finished are finitely many, so BlockedNodesLeast holds
\* of them.
LEMMA BlockedLive ==
  ASSUME StatusInv
  PROVE  /\ Blocked \cap Live \subseteq BlockedNodes(Live, deps, Blocked)
         /\ BlockedNodes(Live, deps, Blocked) \subseteq Live
         /\ Closed(Live, deps, BlockedNodes(Live, deps, Blocked))
         /\ \A found : Blocked \cap Live \subseteq found /\ Closed(Live, deps, found)
                         => BlockedNodes(Live, deps, Blocked) \subseteq found
<1>1. Live \subseteq Goal
  BY DEF StatusInv, TypeOK, Live, NonTerminal
<1>2. IsFiniteSet(Live)
  BY <1>1, GraphAssumption, FS_Subset
<1>. QED  BY <1>2, BlockedNodesLeast

\* Of unfinished goals there is a first one: it depends on none of them.
LEMMA FirstGoal ==
  ASSUME StatusInv, NEW some \in SUBSET Live, some # {}
  PROVE  \E g \in some : deps[g] \cap some = {}
<1>1. some \subseteq goals /\ some \subseteq Goal
  BY DEF StatusInv, TypeOK, Live, NonTerminal
<1>2. \A g \in some : Position[g] \in Nat
  BY <1>1, GraphAssumption
<1>3. PICK g \in some : \A h \in some : Position[g] <= Position[h]
  BY <1>2, FirstNode
<1>4. ASSUME NEW h \in deps[g] \cap some
      PROVE  FALSE
  <2>1. h \in Earlier(g)
    BY <1>1, <1>4 DEF StatusInv, GraphInv, DependenciesPrecede
  <2>2. Position[h] < Position[g] /\ Position[g] <= Position[h]
    BY <1>3, <1>4, <2>1 DEF Earlier
  <2>. QED  BY <1>1, <1>2, <1>4, <2>2
<1>. QED  BY <1>4

\* The sweeps of blocked_nodes find exactly the goals from which a chain of
\* dependencies leads through unfinished goals to a blocked one, in every graph
\* that edits can make.
THEOREM GraphBlocksSpreadExactly == Spec => []BlocksSpreadExactly
<1>1. ASSUME StatusInv
      PROVE  BlockedNodes(Live, deps, Blocked) \subseteq StuckBehind(Blocked)
  <2>1. Blocked \cap Live \subseteq StuckBehind(Blocked)
    <3>. SUFFICES ASSUME NEW g \in Blocked \cap Live
                  PROVE  g \in StuckBehind(Blocked)
      OBVIOUS
    <3>1. {g} \in SUBSET Live /\ g \in {g} /\ {g} \cap Blocked # {} /\ {g} \ Blocked = {}
      OBVIOUS
    <3>. QED  BY <3>1 DEF StuckBehind
  <2>2. Closed(Live, deps, StuckBehind(Blocked))
    <3>. SUFFICES ASSUME NEW g \in Live, NEW h \in deps[g], h \in StuckBehind(Blocked)
                  PROVE  g \in StuckBehind(Blocked)
      BY DEF Closed
    <3>1. PICK path \in SUBSET Live :
            /\ h \in path /\ path \cap Blocked # {}
            /\ \A k \in path \ Blocked : deps[k] \cap path # {}
      BY DEF StuckBehind
    <3>. DEFINE longer == path \cup {g}
    <3>2. /\ longer \in SUBSET Live /\ g \in longer /\ longer \cap Blocked # {}
          /\ \A k \in longer \ Blocked : deps[k] \cap longer # {}
      BY <3>1
    <3>. HIDE DEF longer
    <3>. QED  BY <3>2 DEF StuckBehind
  <2>. QED  BY <1>1, <2>1, <2>2, BlockedLive
<1>2. ASSUME StatusInv
      PROVE  StuckBehind(Blocked) \subseteq BlockedNodes(Live, deps, Blocked)
  <2>. DEFINE found == BlockedNodes(Live, deps, Blocked)
  <2>. SUFFICES ASSUME NEW path \in SUBSET Live,
                       \A h \in path \ Blocked : deps[h] \cap path # {},
                       path \ found # {}
                PROVE  FALSE
    BY DEF StuckBehind
  <2>1. Blocked \cap Live \subseteq found /\ Closed(Live, deps, found)
    BY <1>2, BlockedLive
  <2>. HIDE DEF found
  <2>2. PICK g \in path \ found : deps[g] \cap (path \ found) = {}
    BY <1>2, FirstGoal
  <2>3. deps[g] \cap path # {}
    BY <2>1, <2>2
  <2>. QED  BY <2>1, <2>2, <2>3 DEF Closed
<1>3. StatusInv => BlocksSpreadExactly
  BY <1>1, <1>2 DEF BlocksSpreadExactly
<1>. QED  BY <1>3, StatusInvariant, PTL

\* A plan that can progress has a goal a worker may claim, and only such a plan has
\* one: of the goals that no block reaches the first depends only on finished ones.
THEOREM GraphProgressMeansReady == Spec => []ProgressMeansReady
<1>. DEFINE found == BlockedNodes(Live, deps, Blocked)
<1>1. ASSUME StatusInv, NEW g \in Ready \ Blocked
      PROVE  PlanCanProgress(goals, state, deps, Blocked)
  <2>1. g \in Live /\ deps[g] \subseteq DoneNodes(goals, state)
    BY DEF Ready, ReadyGoalIds, ReadyNodes, Live
  <2>2. deps[g] \cap Live = {}
    BY <2>1 DEF DoneNodes, Live, NonTerminal, Terminal
  <2>3. Blocked \cap Live \subseteq Live \ {g} /\ Closed(Live, deps, Live \ {g})
    BY <2>2 DEF Closed
  <2>4. found \subseteq Live \ {g}
    BY <1>1, <2>3, BlockedLive
  <2>. HIDE DEF found
  <2>5. Live \ found # {}
    BY <2>1, <2>4
  <2>. QED  BY <2>5 DEF PlanCanProgress, Live, found
<1>2. ASSUME StatusInv, PlanCanProgress(goals, state, deps, Blocked)
      PROVE  Ready \ Blocked # {}
  <2>1. Live \ found # {}
    BY <1>2 DEF PlanCanProgress, Live
  <2>2. Blocked \cap Live \subseteq found /\ Closed(Live, deps, found)
    BY <1>2, BlockedLive
  <2>. HIDE DEF found
  <2>3. PICK g \in Live \ found : deps[g] \cap (Live \ found) = {}
    BY <1>2, <2>1, FirstGoal
  <2>4. deps[g] \cap Live = {}
    BY <2>2, <2>3 DEF Closed
  <2>5. deps[g] \subseteq goals
    BY <1>2, <2>3 DEF StatusInv, GraphInv, DependenciesPrecede, Earlier, Live, NonTerminal
  <2>6. deps[g] \subseteq DoneNodes(goals, state)
    BY <1>2, <2>4, <2>5 DEF StatusInv, Unfailed, TypeOK, DoneNodes, Live, NonTerminal, Terminal
  <2>. QED  BY <2>2, <2>3, <2>6 DEF Ready, ReadyGoalIds, ReadyNodes, Live
<1>3. StatusInv => ProgressMeansReady
  BY <1>1, <1>2 DEF ProgressMeansReady
<1>. QED  BY <1>3, StatusInvariant, PTL
=============================================================================
