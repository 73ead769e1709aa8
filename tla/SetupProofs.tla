----------------------------- MODULE SetupProofs -----------------------------
(***************************************************************************)
(* Proofs about the reference data: the types, that a credential is in its *)
(* place, and that no binding points to nothing. The last two hold because *)
(* of what a request that is under way still relies on: while nothing has  *)
(* overlapped, a guard that was read still holds when its change is made.  *)
(***************************************************************************)
EXTENDS Setup, TLAPS

\* A request is about the rows that its operation needs.
Aimed(r) ==
    /\ r.op \in {"add provider", "save provider", "delete provider", "forget key"} =>
           r.p \in Provider \cap used
    /\ r.op = "save provider" => r.seen \subseteq used
    /\ r.op = "delete model" => r.m \in Model
    /\ r.op \in {"add agent", "save agent", "delete agent", "set default", "name agents"} =>
           r.a \in Agent
    /\ r.op \in {"bind", "unbind", "open plan", "name agents"} => r.j \in Project
    /\ r.op = "name agents" => r.t \in Agent

\* The key of a provider is there before its row and after it.
Keyed(r) ==
    /\ r.op = "add provider" => r.p \in secrets \ providers
    /\ r.op = "forget key" => r.p \notin providers

\* An id is given out once: nothing else is about the provider that is being added.
Distinct ==
    \A c, d \in Client :
        c # d /\ request[c].op = "add provider"
              /\ request[d].op \in {"add provider", "delete provider", "forget key"} =>
            request[c].p # request[d].p

Catalog ==
    /\ providers \subseteq secrets \cap used
    /\ \A m \in Model : owner[m] # None => m \in used

\* While nothing has overlapped, a token is there before its binding and after it,
TokenKept(r) ==
    /\ r.op = "bind" => r.j \in secrets
    /\ r.op = "unbind" => r.j \notin forges

\* and what a guard has read is still so when its change is made.
Unbound(p) == \A a \in Agent : Exists(a) => agents[a].provider # p
Unused(m)  == \A a \in Agent : Exists(a) => agents[a].model # m
Unnamed(a) == \A j \in InProgress : a \notin plans[j].named

Guarded(r) ==
    /\ r.op = "save provider" => r.p \in providers /\ r.seen = Rows(r.p)
    /\ r.op = "delete provider" => Unbound(r.p) /\ \A m \in Rows(r.p) : Unused(m)
    /\ r.op = "delete model" => Unused(r.m)
    /\ r.op \in {"add agent", "save agent"} => Resolves(r.p, r.m) /\ r.covers \subseteq capabilities
    /\ r.op = "delete agent" => Unnamed(r.a)
    /\ r.op = "name agents" => Exists(r.a)

Undisturbed ==
    ~raced => /\ forges \subseteq secrets
              /\ \A c \in Client : TokenKept(request[c]) /\ Guarded(request[c])

IInv ==
    /\ TypeOK /\ Catalog /\ Distinct
    /\ \A c \in Client : Aimed(request[c]) /\ Keyed(request[c])
    /\ Undisturbed /\ BindingsResolve

\* The types of the rows that are not credentials.
RowsOK ==
    /\ used \subseteq Provider \cup Model \cup Agent \cup Project
    /\ capabilities \subseteq Capability /\ agents \in [Agent -> Binding \cup {None}]
    /\ default \in Agent \cup {None} /\ projects \subseteq Project /\ forges \subseteq Project
    /\ plans \in [Project -> Plan \cup {None}]

-----------------------------------------------------------------------------
\* What a request leaves of itself, and that the others stay as they are.
LEMMA SendsIs ==
    ASSUME TypeOK, NEW c \in Client, NEW rest \in Request, Sends(c, rest)
    PROVE  /\ request' \in [Client -> Request] /\ sent' \in 0..MaxRequests
           /\ request'[c] = rest /\ \A d \in Client \ {c} : request'[d] = request[d]
  BY SetupAssumption DEF TypeOK, Sends

LEMMA ContinuesIs ==
    ASSUME TypeOK, NEW c \in Client, NEW rest \in Request, Continues(c, rest)
    PROVE  /\ request' \in [Client -> Request] /\ sent' \in 0..MaxRequests
           /\ request'[c] = rest /\ \A d \in Client \ {c} : request'[d] = request[d]
  BY SetupAssumption DEF TypeOK, Continues

LEMMA IdleIs == Idle \in Request /\ Idle.op = "none"
  BY DEF Idle, Request, Op

\* A request that is done with.
LEMMA Ended ==
    ASSUME TypeOK, NEW c \in Client, Sends(c, Idle) \/ Continues(c, Idle)
    PROVE  /\ request' \in [Client -> Request] /\ sent' \in 0..MaxRequests
           /\ request'[c].op = "none" /\ \A d \in Client \ {c} : request'[d] = request[d]
  BY IdleIs, SendsIs, ContinuesIs

\* A commit that overlaps nothing finds every other client idle.
LEMMA Alone ==
    ASSUME TypeOK, NEW c \in Client, Commits(c), ~raced'
    PROVE  ~raced /\ \A d \in Client \ {c} : request[d].op = "none"
  BY DEF TypeOK, Commits

\* So that after it only the request that commits can have something to rely on.
LEMMA AloneUndisturbed ==
    ASSUME IInv, NEW c \in Client, Commits(c),
           \A d \in Client \ {c} : request'[d] = request[d],
           ~raced' => forges' \subseteq secrets' /\ TokenKept(request[c])' /\ Guarded(request[c])'
    PROVE  Undisturbed'
  <1> SUFFICES ASSUME ~raced', NEW d \in Client, d # c
               PROVE  TokenKept(request[d])' /\ Guarded(request[d])'
    BY DEF Undisturbed
  <1>1. request'[d].op = "none"
    BY Alone DEF IInv
  <1> QED BY <1>1 DEF TokenKept, Guarded

\* No two requests come to be about the same new provider.
LEMMA DistinctKept ==
    ASSUME IInv, NEW c \in Client, \A d \in Client \ {c} : request'[d] = request[d],
           request'[c].op = "add provider" => request'[c].p \notin used,
           request'[c].op \in {"delete provider", "forget key"} =>
               \/ request'[c].p \in providers
               \/ request[c].op = "delete provider" /\ request'[c].p = request[c].p
    PROVE  Distinct'
  <1> SUFFICES ASSUME NEW d \in Client, NEW e \in Client, d # e,
                      request'[d].op = "add provider",
                      request'[e].op \in {"add provider", "delete provider", "forget key"},
                      request'[d].p = request'[e].p
               PROVE  FALSE
    BY DEF Distinct
  <1>1. CASE d # c /\ e # c
    BY <1>1 DEF IInv, Distinct
  <1>2. CASE d = c
    <2>1. request[e].p \in used /\ request'[e] = request[e]
      BY <1>2 DEF IInv, Aimed
    <2> QED BY <1>2, <2>1
  <1>3. CASE e = c
    <2>1. request'[d] = request[d] /\ request[d].p \in used \ providers
      BY <1>3 DEF IInv, Aimed, Keyed
    <2>2. CASE request'[c].op = "add provider"
      BY <1>3, <2>1, <2>2
    <2>3. CASE request'[c].op \in {"delete provider", "forget key"}
      BY <1>3, <2>1, <2>3 DEF IInv, Distinct
    <2> QED BY <1>3, <2>2, <2>3
  <1> QED BY <1>1, <1>2, <1>3

-----------------------------------------------------------------------------
\* A request that only reads changes nothing but itself (and takes an id).
LEMMA ReadsKeep ==
    ASSUME IInv, NEW c \in Client, NEW rest \in Request,
           Sends(c, rest) \/ Continues(c, rest),
           rest.op \notin {"add provider", "forget key", "bind", "unbind"},
           rest.op = "delete provider" => rest.p \in providers,
           Aimed(rest), ~raced => Guarded(rest),
           used \subseteq used', used' \subseteq Provider \cup Model \cup Agent \cup Project,
           UNCHANGED <<providers, owner, capabilities, agents, default, secrets, raced>>,
           UNCHANGED projectVars, UNCHANGED configVars
    PROVE  IInv'
  <1> USE DEF projectVars, configVars
  <1>1. /\ request' \in [Client -> Request] /\ sent' \in 0..MaxRequests
        /\ request'[c] = rest /\ \A d \in Client \ {c} : request'[d] = request[d]
    BY SendsIs, ContinuesIs DEF IInv
  <1>2. TypeOK'
    BY <1>1 DEF IInv, TypeOK
  <1>3. Catalog' /\ BindingsResolve'
    BY DEF IInv, Catalog, BindingsResolve, InProgress, Exists, Resolves
  <1>4. \A d \in Client : Aimed(request[d])' /\ Keyed(request[d])'
    <2>1. Aimed(request[c])' /\ Keyed(request[c])'
      BY <1>1 DEF Aimed, Keyed
    <2>2. ASSUME NEW d \in Client \ {c} PROVE Aimed(request[d])' /\ Keyed(request[d])'
      BY <1>1, <2>2 DEF IInv, Aimed, Keyed
    <2> QED BY <2>1, <2>2
  <1>5. Distinct'
    BY <1>1, DistinctKept
  <1>6. Undisturbed'
    <2> SUFFICES ASSUME ~raced, NEW d \in Client
                 PROVE  TokenKept(request[d])' /\ Guarded(request[d])'
      BY DEF IInv, Undisturbed
    <2>1. TokenKept(request'[d]) /\ Guarded(request'[d])
      BY <1>1 DEF IInv, Undisturbed, TokenKept
    <2>2. \A p : Rows(p)' = Rows(p)
      BY DEF Rows
    <2> QED BY <2>1, <2>2 DEF TokenKept, Guarded, Exists, Resolves, Unbound, Unused, Unnamed,
                                 InProgress
  <1> QED BY <1>2, <1>3, <1>4, <1>5, <1>6 DEF IInv

\* The last commit of a request that leaves the providers, the models and the
\* credentials alone.
LEMMA RowsKeep ==
    ASSUME IInv, NEW c \in Client, Sends(c, Idle) \/ Continues(c, Idle), Commits(c),
           RowsOK', used \subseteq used', UNCHANGED <<providers, owner, secrets>>,
           UNCHANGED configVars, ~raced' => forges' \subseteq secrets, BindingsResolve'
    PROVE  IInv'
  <1>1. /\ request' \in [Client -> Request] /\ sent' \in 0..MaxRequests
        /\ request'[c].op = "none" /\ \A d \in Client \ {c} : request'[d] = request[d]
    BY Ended DEF IInv
  <1>2. TypeOK'
    BY <1>1 DEF IInv, TypeOK, RowsOK, Commits, configVars
  <1>3. Catalog' /\ \A d \in Client : Aimed(request[d])' /\ Keyed(request[d])'
    BY <1>1 DEF IInv, Catalog, Aimed, Keyed
  <1>4. Distinct'
    BY <1>1, DistinctKept
  <1>5. Undisturbed'
    BY <1>1, AloneUndisturbed DEF TokenKept, Guarded
  <1> QED BY <1>2, <1>3, <1>4, <1>5 DEF IInv

\* A commit that takes no provider, model, capability, agent or plan away.
LEMMA BindingsKept ==
    ASSUME IInv, NEW c \in Client, Commits(c), providers \subseteq providers',
           UNCHANGED <<owner, capabilities, agents, default, plans>>
    PROVE  BindingsResolve'
  BY Alone DEF IInv, BindingsResolve, InProgress, Exists, Resolves

\* A change of the config alone.
LEMMA ConfigKeeps ==
    ASSUME IInv, NEW c \in Client, NEW rest \in Request,
           Sends(c, rest) \/ Continues(c, rest), Commits(c),
           rest.op \in {"none", "plan model", "plan mode"},
           config' \in Config, byHand' \in BOOLEAN,
           UNCHANGED secrets, UNCHANGED catalogVars, UNCHANGED projectVars
    PROVE  IInv'
  <1> USE DEF catalogVars, projectVars
  <1>1. /\ request' \in [Client -> Request] /\ sent' \in 0..MaxRequests
        /\ request'[c] = rest /\ \A d \in Client \ {c} : request'[d] = request[d]
    BY SendsIs, ContinuesIs DEF IInv
  <1>2. TypeOK'
    BY <1>1 DEF IInv, TypeOK, Commits
  <1>3. Catalog' /\ \A d \in Client : Aimed(request[d])' /\ Keyed(request[d])'
    BY <1>1 DEF IInv, Catalog, Aimed, Keyed
  <1>4. Distinct'
    BY <1>1, DistinctKept
  <1>5. ~raced' => forges \subseteq secrets /\ TokenKept(request[c])' /\ Guarded(request[c])'
    BY <1>1, Alone DEF IInv, Undisturbed, TokenKept, Guarded
  <1>6. Undisturbed'
    BY <1>1, <1>5, AloneUndisturbed
  <1> QED BY <1>2, <1>3, <1>4, <1>6, BindingsKept DEF IInv

LEMMA ReadProviderKeeps ==
    ASSUME IInv, NEW c \in Client, NEW p \in Provider, ReadProvider(c, p)
    PROVE  IInv'
  <1> DEFINE rest == [Idle EXCEPT !.op = "save provider", !.p = p, !.seen = Rows(p)]
  <1>1. rest \in Request
    BY DEF Idle, Request, Op, Rows
  <1>2. p \in providers \cap used /\ Rows(p) \subseteq used
    BY SetupAssumption DEF IInv, Catalog, Rows, ReadProvider
  <1>3. /\ rest.op = "save provider" /\ rest.p = p /\ rest.seen = Rows(p)
    BY DEF Idle
  <1>4. Aimed(rest) /\ Guarded(rest)
    BY <1>2, <1>3 DEF Aimed, Guarded
  <1> QED BY <1>1, <1>3, <1>4, ReadsKeep DEF IInv, TypeOK, ReadProvider, catalogVars

LEMMA CheckProviderKeeps ==
    ASSUME IInv, NEW c \in Client, NEW p \in Provider, CheckProvider(c, p)
    PROVE  IInv'
  <1> DEFINE rest == [Idle EXCEPT !.op = "delete provider", !.p = p]
  <1>1. rest \in Request
    BY DEF Idle, Request, Op
  <1>2. p \in providers \cap used /\ Unbound(p) /\ \A m \in Rows(p) : Unused(m)
    BY DEF IInv, Catalog, InUse, Unbound, Unused, CheckProvider
  <1>3. /\ rest.op \notin {"add provider", "forget key", "bind", "unbind"}
        /\ rest.op = "delete provider" => rest.p \in providers
        /\ Aimed(rest) /\ Guarded(rest)
    BY <1>2 DEF Idle, Aimed, Guarded
  <1> QED BY <1>1, <1>3, ReadsKeep DEF IInv, TypeOK, CheckProvider, catalogVars

LEMMA CheckModelKeeps ==
    ASSUME IInv, NEW c \in Client, NEW m \in Model, CheckModel(c, m)
    PROVE  IInv'
  <1> DEFINE rest == [Idle EXCEPT !.op = "delete model", !.m = m]
  <1>1. rest \in Request
    BY DEF Idle, Request, Op
  <1>2. Unused(m)
    BY DEF InUse, Unused, CheckModel
  <1>3. /\ rest.op \notin {"add provider", "forget key", "bind", "unbind"}
        /\ rest.op = "delete provider" => rest.p \in providers
        /\ Aimed(rest) /\ Guarded(rest)
    BY <1>2 DEF Idle, Aimed, Guarded
  <1> QED BY <1>1, <1>3, ReadsKeep DEF IInv, TypeOK, CheckModel, catalogVars

LEMMA CheckAgentKeeps ==
    ASSUME IInv, NEW c \in Client,
           NEW a \in Agent, NEW p \in Provider \cup {None}, NEW m \in Model \cup {None},
           NEW covers \in SUBSET Capability, CheckAgent(c, a, p, m, covers)
    PROVE  IInv'
  <1> DEFINE rest == [Idle EXCEPT !.op = IF Exists(a) THEN "save agent" ELSE "add agent",
                              !.a = a, !.p = p, !.m = m, !.covers = covers]
  <1>1. rest \in Request
    BY DEF Idle, Request, Op
  <1>2. /\ rest.op \notin {"add provider", "forget key", "bind", "unbind"}
        /\ rest.op = "delete provider" => rest.p \in providers
        /\ Aimed(rest) /\ Guarded(rest)
    BY DEF CheckAgent, Idle, Aimed, Guarded
  <1>3. used \subseteq used' /\ used' \subseteq Provider \cup Model \cup Agent \cup Project
    BY DEF IInv, TypeOK, CheckAgent
  <1> QED BY <1>1, <1>2, <1>3, ReadsKeep DEF CheckAgent

LEMMA CheckUnnamedKeeps ==
    ASSUME IInv, NEW c \in Client, NEW a \in Agent, CheckUnnamed(c, a)
    PROVE  IInv'
  <1> DEFINE rest == [Idle EXCEPT !.op = "delete agent", !.a = a]
  <1>1. rest \in Request
    BY DEF Idle, Request, Op
  <1>2. Unnamed(a)
    BY DEF Unnamed, InProgress, Scanned, CheckUnnamed
  <1>3. /\ rest.op \notin {"add provider", "forget key", "bind", "unbind"}
        /\ rest.op = "delete provider" => rest.p \in providers
        /\ Aimed(rest) /\ Guarded(rest)
    BY <1>2 DEF Idle, Aimed, Guarded
  <1> QED BY <1>1, <1>3, ReadsKeep DEF IInv, TypeOK, CheckUnnamed, catalogVars

LEMMA CheckDefaultKeeps ==
    ASSUME IInv, NEW c \in Client, NEW a \in Agent, CheckDefault(c, a)
    PROVE  IInv'
  <1> DEFINE rest == [Idle EXCEPT !.op = "set default", !.a = a]
  <1>1. rest \in Request
    BY DEF Idle, Request, Op
  <1>2. /\ rest.op \notin {"add provider", "forget key", "bind", "unbind"}
        /\ rest.op = "delete provider" => rest.p \in providers
        /\ Aimed(rest) /\ Guarded(rest)
    BY DEF Idle, Aimed, Guarded
  <1> QED BY <1>1, <1>2, ReadsKeep DEF IInv, TypeOK, CheckDefault, catalogVars

LEMMA CheckProjectKeeps ==
    ASSUME IInv, NEW c \in Client, NEW j \in Project, CheckProject(c, j)
    PROVE  IInv'
  <1> DEFINE rest == [Idle EXCEPT !.op = "open plan", !.j = j]
  <1>1. rest \in Request
    BY DEF Idle, Request, Op
  <1>2. /\ rest.op \notin {"add provider", "forget key", "bind", "unbind"}
        /\ rest.op = "delete provider" => rest.p \in providers
        /\ Aimed(rest) /\ Guarded(rest)
    BY DEF Idle, Aimed, Guarded
  <1> QED BY <1>1, <1>2, ReadsKeep DEF IInv, TypeOK, CheckProject, catalogVars

LEMMA ResolveAgentsKeeps ==
    ASSUME IInv, NEW c \in Client, NEW j \in Project, NEW a \in Agent, NEW t \in Agent,
           ResolveAgents(c, j, a, t)
    PROVE  IInv'
  <1> DEFINE rest == [Idle EXCEPT !.op = "name agents", !.j = j, !.a = a, !.t = t]
  <1>1. rest \in Request
    BY DEF Idle, Request, Op
  <1>2. /\ rest.op \notin {"add provider", "forget key", "bind", "unbind"}
        /\ rest.op = "delete provider" => rest.p \in providers
        /\ Aimed(rest) /\ Guarded(rest)
    BY DEF ResolveAgents, Idle, Aimed, Guarded
  <1> QED BY <1>1, <1>2, ReadsKeep DEF IInv, TypeOK, ResolveAgents, catalogVars

LEMMA DiesKeeps ==
    ASSUME IInv, NEW c \in Client, Dies(c)
    PROVE  IInv'
  <1>1. Aimed(Idle) /\ Guarded(Idle)
    BY IdleIs DEF Aimed, Guarded
  <1> QED BY <1>1, IdleIs, ReadsKeep DEF IInv, TypeOK, Dies, catalogVars

LEMMA SaveReasonerKeyKeeps ==
    ASSUME IInv, NEW c \in Client, NEW key \in {"mode", "provider", "model"}, NEW value,
           SaveReasonerKey(c, key, value), [config EXCEPT ![key] = value] \in Config
    PROVE  IInv'
  BY IdleIs, ConfigKeeps DEF SaveReasonerKey

LEMMA SaveRunnerKeeps ==
    ASSUME IInv, NEW c \in Client, NEW mode \in {"dry-run", "real"}, SaveRunner(c, mode)
    PROVE  IInv'
  <1>1. config' \in Config /\ byHand' \in BOOLEAN
    BY DEF IInv, TypeOK, SaveRunner, Config
  <1> QED BY <1>1, IdleIs, ConfigKeeps DEF SaveRunner

LEMMA PlanProviderKeeps ==
    ASSUME IInv, NEW c \in Client, NEW p \in Provider, NEW m \in Model, PlanProvider(c, p, m)
    PROVE  IInv'
  <1>1. config' \in Config /\ byHand' \in BOOLEAN
    BY DEF IInv, TypeOK, PlanProvider, Config
  <1> DEFINE rest == [Idle EXCEPT !.op = "plan model", !.m = m]
  <1>2. rest \in Request /\ rest.op \in {"plan model", "plan mode"}
    BY DEF Idle, Request, Op
  <1> QED BY <1>1, <1>2, ConfigKeeps DEF PlanProvider

LEMMA PlanModelKeeps ==
    ASSUME IInv, NEW c \in Client, PlanModel(c)
    PROVE  IInv'
  <1>1. config' \in Config /\ byHand' \in BOOLEAN
    BY DEF IInv, TypeOK, PlanModel, Config, Request
  <1> DEFINE rest == [request[c] EXCEPT !.op = "plan mode"]
  <1>2. rest \in Request /\ rest.op \in {"plan model", "plan mode"}
    BY DEF IInv, TypeOK, Request, Op
  <1> QED BY <1>1, <1>2, ConfigKeeps DEF PlanModel

LEMMA PlanModeKeeps ==
    ASSUME IInv, NEW c \in Client, PlanMode(c)
    PROVE  IInv'
  <1>1. config' \in Config /\ byHand' \in BOOLEAN
    BY DEF IInv, TypeOK, PlanMode, Config
  <1> QED BY <1>1, IdleIs, ConfigKeeps DEF PlanMode

LEMMA UseStubKeeps ==
    ASSUME IInv, NEW c \in Client, UseStub(c)
    PROVE  IInv'
  <1>1. config' \in Config /\ byHand' \in BOOLEAN
    BY DEF IInv, TypeOK, UseStub, Config
  <1> QED BY <1>1, IdleIs, ConfigKeeps DEF UseStub

LEMMA SavedIsBinding ==
    ASSUME TypeOK, NEW c \in Client
    PROVE  [provider |-> request[c].p, model |-> request[c].m, covers |-> request[c].covers]
               \in Binding
  BY DEF TypeOK, Request, Binding

\* A plan in progress names agents.
LEMMA NamedAreAgents ==
    ASSUME TypeOK, NEW j \in InProgress
    PROVE  j \in Project /\ plans[j] \in Plan /\ plans[j].named \subseteq Agent
  BY DEF TypeOK, InProgress, Plan

LEMMA SaveAgentKeeps ==
    ASSUME IInv, NEW c \in Client, SaveAgent(c)
    PROVE  IInv'
  <1>1. RowsOK'
    BY SavedIsBinding DEF IInv, TypeOK, RowsOK, SaveAgent, projectVars
  <1>2. BindingsResolve'
    <2>1. default' # None => Exists(default)'
      BY NoneIsNoBinding, SavedIsBinding DEF IInv, TypeOK, BindingsResolve, Exists, SaveAgent
    <2>2. CASE raced'
      BY <2>1, <2>2 DEF BindingsResolve, InProgress
    <2>3. CASE ~raced'
      <3>1. ~raced /\ Resolves(request[c].p, request[c].m) /\ request[c].a \in Agent
        BY <2>3, Alone DEF IInv, Undisturbed, Aimed, Guarded, SaveAgent
      <3>2. ASSUME NEW a \in Agent, Exists(a)'
            PROVE  /\ Resolves(agents'[a].provider, agents'[a].model)
                   /\ agents'[a].covers \subseteq capabilities
        <4>1. CASE agents'[a] = agents[a]
          BY <3>1, <3>2, <4>1 DEF IInv, BindingsResolve, InProgress, Exists
        <4>2. CASE /\ request[c].covers \subseteq capabilities
                   /\ agents'[a] = [provider |-> request[c].p, model |-> request[c].m,
                                    covers |-> request[c].covers]
          BY <3>1, <4>2
        <4> QED BY <3>1, <4>1, <4>2 DEF IInv, TypeOK, SaveAgent
      <3>3. ASSUME NEW j \in InProgress, NEW a \in plans[j].named
            PROVE  Exists(a)'
        <4>1. a \in Agent /\ Exists(a)
          BY <3>1, <3>3, NamedAreAgents DEF IInv, TypeOK, BindingsResolve, InProgress
        <4> QED BY <3>1, <4>1, NoneIsNoBinding, SavedIsBinding
                DEF IInv, TypeOK, Exists, SaveAgent
      <3> QED BY <2>1, <3>2, <3>3
              DEF BindingsResolve, InProgress, Exists, Resolves, SaveAgent, projectVars
    <2> QED BY <2>2, <2>3
  <1>3. ~raced' => forges' \subseteq secrets
    BY Alone DEF IInv, Undisturbed, SaveAgent, projectVars
  <1> QED BY <1>1, <1>2, <1>3, RowsKeep DEF SaveAgent, projectVars

LEMMA RemoveAgentKeeps ==
    ASSUME IInv, NEW c \in Client, RemoveAgent(c)
    PROVE  IInv'
  <1>1. RowsOK'
    BY DEF IInv, TypeOK, RowsOK, Aimed, RemoveAgent, projectVars
  <1>2. BindingsResolve'
    <2>1. ~raced' => ~raced /\ request[c].a \in Agent /\ Unnamed(request[c].a)
      BY Alone DEF IInv, Undisturbed, Aimed, Guarded, RemoveAgent
    <2>2. /\ \A a \in Agent : a # request[c].a => agents'[a] = agents[a]
          /\ request[c].a \in Agent => agents'[request[c].a] = None
      BY DEF IInv, TypeOK, RemoveAgent
    <2>3. default' # None => Exists(default)'
      BY <2>2 DEF IInv, TypeOK, BindingsResolve, Exists, RemoveAgent
    <2>4. ASSUME ~raced', NEW a \in Agent, Exists(a)'
          PROVE  /\ agents'[a] = agents[a] /\ agents[a].covers \subseteq capabilities
                 /\ Resolves(agents[a].provider, agents[a].model)
      <3>1. agents'[a] = agents[a]
        BY <2>1, <2>2, <2>4 DEF Exists
      <3>2. ~raced /\ Exists(a)
        BY <2>1, <2>4, <3>1 DEF Exists
      <3> QED BY <3>1, <3>2 DEF IInv, BindingsResolve
    <2>5. ASSUME ~raced', NEW j \in InProgress, NEW a \in plans[j].named
          PROVE  Exists(a)'
      <3>1. a \in Agent /\ Exists(a) /\ a # request[c].a
        BY <2>1, <2>5, NamedAreAgents DEF IInv, BindingsResolve, Unnamed
      <3> QED BY <2>2, <3>1 DEF Exists
    <2>6. InProgress' = InProgress
      BY DEF InProgress, RemoveAgent, projectVars
    <2>7. UNCHANGED <<providers, owner, capabilities, plans>>
      BY DEF RemoveAgent, projectVars
    <2>8. ASSUME ~raced', NEW a \in Agent, Exists(a)'
          PROVE  Resolves(agents[a].provider, agents[a].model)'
      <3>1. agents'[a] = agents[a] /\ Resolves(agents[a].provider, agents[a].model)
        BY <2>4, <2>8
      <3> QED BY <2>7, <3>1 DEF Resolves
    <2> QED BY <2>3, <2>4, <2>5, <2>6, <2>7, <2>8 DEF BindingsResolve
  <1>3. ~raced' => forges' \subseteq secrets
    BY Alone DEF IInv, Undisturbed, RemoveAgent, projectVars
  <1> QED BY <1>1, <1>2, <1>3, RowsKeep DEF RemoveAgent, projectVars

LEMMA SetDefaultKeeps ==
    ASSUME IInv, NEW c \in Client, SetDefault(c)
    PROVE  IInv'
  <1>1. RowsOK'
    BY DEF IInv, TypeOK, RowsOK, Aimed, SetDefault, projectVars
  <1>2. BindingsResolve'
    BY Alone DEF IInv, BindingsResolve, InProgress, Exists, Resolves, SetDefault, projectVars
  <1>3. ~raced' => forges' \subseteq secrets
    BY Alone DEF IInv, Undisturbed, SetDefault, projectVars
  <1> QED BY <1>1, <1>2, <1>3, RowsKeep DEF SetDefault, projectVars

LEMMA AddCapabilityKeeps ==
    ASSUME IInv, NEW c \in Client, NEW k \in Capability, AddCapability(c, k)
    PROVE  IInv'
  <1>1. RowsOK'
    BY DEF IInv, TypeOK, RowsOK, AddCapability, projectVars
  <1>2. BindingsResolve'
    BY Alone DEF IInv, BindingsResolve, InProgress, Exists, Resolves, AddCapability, projectVars
  <1>3. ~raced' => forges' \subseteq secrets
    BY Alone DEF IInv, Undisturbed, AddCapability, projectVars
  <1> QED BY <1>1, <1>2, <1>3, RowsKeep DEF AddCapability, projectVars

LEMMA DeleteCapabilityKeeps ==
    ASSUME IInv, NEW c \in Client, NEW k \in Capability, DeleteCapability(c, k)
    PROVE  IInv'
  <1>1. RowsOK'
    BY DEF IInv, TypeOK, RowsOK, DeleteCapability, projectVars
  <1>2. BindingsResolve'
    <2>1. ~raced' => ~raced /\ \A a \in Agent : Exists(a) => k \notin agents[a].covers
      BY Alone DEF IInv, DeleteCapability
    <2> QED BY <2>1 DEF IInv, BindingsResolve, InProgress, Exists, Resolves, DeleteCapability,
                        projectVars
  <1>3. ~raced' => forges' \subseteq secrets
    BY Alone DEF IInv, Undisturbed, DeleteCapability, projectVars
  <1> QED BY <1>1, <1>2, <1>3, RowsKeep DEF DeleteCapability, projectVars

LEMMA AddProjectKeeps ==
    ASSUME IInv, NEW c \in Client, NEW j \in Project, AddProject(c, j)
    PROVE  IInv'
  <1>1. RowsOK'
    BY DEF IInv, TypeOK, RowsOK, AddProject
  <1>2. BindingsResolve'
    BY BindingsKept DEF AddProject
  <1>3. ~raced' => forges' \subseteq secrets
    BY Alone DEF IInv, Undisturbed, AddProject
  <1> QED BY <1>1, <1>2, <1>3, RowsKeep DEF AddProject

LEMMA DeleteProjectKeeps ==
    ASSUME IInv, NEW c \in Client, NEW j \in Project, DeleteProject(c, j)
    PROVE  IInv'
  <1>1. RowsOK'
    BY DEF IInv, TypeOK, RowsOK, DeleteProject, catalogVars
  <1>2. BindingsResolve'
    BY BindingsKept DEF DeleteProject, catalogVars
  <1>3. ~raced' => forges' \subseteq secrets
    BY Alone DEF IInv, Undisturbed, DeleteProject
  <1> QED BY <1>1, <1>2, <1>3, RowsKeep DEF DeleteProject, catalogVars

LEMMA WriteBindingKeeps ==
    ASSUME IInv, NEW c \in Client, WriteBinding(c)
    PROVE  IInv'
  <1>1. RowsOK'
    BY DEF IInv, TypeOK, RowsOK, Aimed, WriteBinding, catalogVars
  <1>2. BindingsResolve'
    BY BindingsKept DEF WriteBinding, catalogVars
  <1>3. ~raced' => forges' \subseteq secrets
    BY Alone DEF IInv, Undisturbed, TokenKept, WriteBinding
  <1> QED BY <1>1, <1>2, <1>3, RowsKeep DEF WriteBinding, catalogVars

LEMMA OpenPlanKeeps ==
    ASSUME IInv, NEW c \in Client, OpenPlan(c)
    PROVE  IInv'
  <1>1. RowsOK'
    BY DEF IInv, TypeOK, RowsOK, Aimed, OpenPlan, NewPlan, Plan, catalogVars
  <1>2. BindingsResolve'
    <2>1. \A j \in Project : plans'[j] = plans[j] \/ plans'[j] = NewPlan
      BY DEF IInv, TypeOK, OpenPlan
    <2>2. ASSUME ~raced', NEW j \in InProgress', NEW a \in plans'[j].named
          PROVE  Exists(a)
      <3>1. j \in InProgress /\ a \in plans[j].named
        BY <2>1, <2>2 DEF InProgress, NewPlan
      <3> QED BY <2>2, <3>1, Alone DEF IInv, BindingsResolve, OpenPlan
    <2> QED BY <2>2, Alone DEF IInv, BindingsResolve, Exists, Resolves, OpenPlan, catalogVars
  <1>3. ~raced' => forges' \subseteq secrets
    BY Alone DEF IInv, Undisturbed, OpenPlan
  <1> QED BY <1>1, <1>2, <1>3, RowsKeep DEF OpenPlan, catalogVars

LEMMA DeletePlanKeeps ==
    ASSUME IInv, NEW c \in Client, NEW j \in Project, DeletePlan(c, j)
    PROVE  IInv'
  <1>1. RowsOK'
    BY DEF IInv, TypeOK, RowsOK, DeletePlan, catalogVars
  <1>2. BindingsResolve'
    BY Alone DEF IInv, BindingsResolve, InProgress, Exists, Resolves, DeletePlan, catalogVars
  <1>3. ~raced' => forges' \subseteq secrets
    BY Alone DEF IInv, Undisturbed, DeletePlan
  <1> QED BY <1>1, <1>2, <1>3, RowsKeep DEF DeletePlan, catalogVars

\* A plan that ends is not in progress any more.
LEMMA EndPlanKeeps ==
    ASSUME IInv, NEW c \in Client, NEW j \in Project, EndPlan(c, j)
    PROVE  IInv'
  <1>1. RowsOK'
    <2>1. plans[j] \in Plan
      BY DEF IInv, TypeOK, EndPlan, Scanned
    <2> QED BY <2>1 DEF IInv, TypeOK, RowsOK, EndPlan, Plan, catalogVars
  <1>2. BindingsResolve'
    <2>1. ASSUME NEW k \in InProgress'
          PROVE  k \in InProgress /\ plans'[k] = plans[k]
      <3>1. k \in Project /\ (k # j => plans'[k] = plans[k])
        BY <2>1 DEF IInv, TypeOK, InProgress, EndPlan
      <3>2. plans'[j].phase = "ended"
        BY DEF IInv, TypeOK, EndPlan, Scanned, Plan
      <3> QED BY <2>1, <3>1, <3>2 DEF InProgress
    <2> QED BY <2>1, Alone DEF IInv, BindingsResolve, Exists, Resolves, EndPlan, catalogVars
  <1>3. ~raced' => forges' \subseteq secrets
    BY Alone DEF IInv, Undisturbed, EndPlan
  <1> QED BY <1>1, <1>2, <1>3, RowsKeep DEF EndPlan, catalogVars

LEMMA NameAgentsKeeps ==
    ASSUME IInv, NEW c \in Client, NameAgents(c)
    PROVE  IInv'
  <1>0. request[c].j \in Project /\ request[c].a \in Agent /\ request[c].t \in Agent
    BY DEF IInv, Aimed, NameAgents
  <1>1. RowsOK'
    BY <1>0 DEF IInv, TypeOK, RowsOK, NameAgents, Plan, catalogVars
  <1>2. BindingsResolve'
    <2>1. ~raced' => ~raced /\ Exists(request[c].a)
      BY Alone DEF IInv, Undisturbed, Guarded, NameAgents
    <2>2. ASSUME ~raced', NEW j \in InProgress', NEW a \in plans'[j].named
          PROVE  Exists(a)
      <3>1. j \in InProgress /\ (a \in plans[j].named \/ a = request[c].a)
        BY <1>0, <2>2 DEF IInv, TypeOK, InProgress, NameAgents, Plan
      <3> QED BY <2>1, <2>2, <3>1 DEF IInv, BindingsResolve
    <2> QED BY <2>1, <2>2 DEF IInv, BindingsResolve, Exists, Resolves, NameAgents, catalogVars
  <1>3. ~raced' => forges' \subseteq secrets
    BY Alone DEF IInv, Undisturbed, NameAgents
  <1> QED BY <1>1, <1>2, <1>3, RowsKeep DEF NameAgents, catalogVars

LEMMA StoreKeyKeeps ==
    ASSUME IInv, NEW c \in Client, NEW p \in Provider, StoreKey(c, p)
    PROVE  IInv'
  <1> DEFINE rest == [Idle EXCEPT !.op = "add provider", !.p = p]
  <1>a. /\ rest \in Request
        /\ rest.op = "add provider" /\ rest.p = p
    BY DEF Idle, Request, Op
  <1>1. /\ request' \in [Client -> Request] /\ sent' \in 0..MaxRequests
        /\ request'[c] = rest /\ \A d \in Client \ {c} : request'[d] = request[d]
    BY <1>a, SendsIs DEF IInv, StoreKey
  <1>2. TypeOK'
    BY <1>1 DEF IInv, TypeOK, Commits, StoreKey, projectVars, configVars
  <1>3. Catalog' /\ Aimed(request[c])' /\ Keyed(request[c])'
    BY <1>a, <1>1 DEF IInv, TypeOK, Catalog, Aimed, Keyed, StoreKey
  <1>4. ASSUME NEW d \in Client \ {c} PROVE Aimed(request[d])' /\ Keyed(request[d])'
    BY <1>1, <1>4 DEF IInv, Aimed, Keyed, StoreKey
  <1>5. Distinct'
    BY <1>a, <1>1, DistinctKept DEF StoreKey
  <1>6. BindingsResolve'
    BY BindingsKept DEF StoreKey, projectVars
  <1>7. ~raced' => forges' \subseteq secrets' /\ TokenKept(request[c])' /\ Guarded(request[c])'
    BY <1>a, <1>1, Alone DEF IInv, Undisturbed, TokenKept, Guarded, StoreKey, projectVars
  <1> QED BY <1>1, <1>2, <1>3, <1>4, <1>5, <1>6, <1>7, AloneUndisturbed DEF IInv, StoreKey

LEMMA AddProviderKeeps ==
    ASSUME IInv, NEW c \in Client, AddProvider(c)
    PROVE  IInv'
  <1>1. /\ request' \in [Client -> Request] /\ sent' \in 0..MaxRequests
        /\ request'[c].op = "none" /\ \A d \in Client \ {c} : request'[d] = request[d]
    BY Ended DEF IInv, AddProvider
  <1>2. TypeOK'
    BY <1>1 DEF IInv, TypeOK, Aimed, Commits, AddProvider, projectVars, configVars
  <1>3. Catalog' /\ Aimed(request[c])' /\ Keyed(request[c])'
    BY <1>1 DEF IInv, TypeOK, Catalog, Aimed, Keyed, AddProvider
  <1>4. ASSUME NEW d \in Client \ {c} PROVE Aimed(request[d])' /\ Keyed(request[d])'
    BY <1>1, <1>4 DEF IInv, Distinct, Aimed, Keyed, AddProvider
  <1>5. Distinct'
    BY <1>1, DistinctKept
  <1>6. BindingsResolve'
    BY BindingsKept DEF AddProvider, projectVars
  <1>7. ~raced' => forges' \subseteq secrets' /\ TokenKept(request[c])' /\ Guarded(request[c])'
    BY <1>1, Alone DEF IInv, Undisturbed, TokenKept, Guarded, AddProvider, projectVars
  <1> QED BY <1>1, <1>2, <1>3, <1>4, <1>5, <1>6, <1>7, AloneUndisturbed DEF IInv, AddProvider

LEMMA RotateKeyKeeps ==
    ASSUME IInv, NEW c \in Client, RotateKey(c)
    PROVE  IInv'
  <1> DEFINE rest == request[c]
  <1>a. /\ rest \in Request
        /\ rest.op = "save provider" /\ rest.p = request[c].p /\ rest.seen = request[c].seen
    BY DEF IInv, TypeOK, RotateKey
  <1>1. /\ request' \in [Client -> Request] /\ sent' \in 0..MaxRequests
        /\ request'[c] = rest /\ \A d \in Client \ {c} : request'[d] = request[d]
    BY <1>a, ContinuesIs DEF IInv, RotateKey
  <1>2. TypeOK'
    BY <1>1 DEF IInv, TypeOK, Aimed, Commits, RotateKey, catalogVars, projectVars, configVars
  <1>3. Catalog' /\ Aimed(request[c])' /\ Keyed(request[c])'
    BY <1>a, <1>1 DEF IInv, TypeOK, Catalog, Aimed, Keyed, RotateKey, catalogVars
  <1>4. ASSUME NEW d \in Client \ {c} PROVE Aimed(request[d])' /\ Keyed(request[d])'
    BY <1>1, <1>4 DEF IInv, Aimed, Keyed, RotateKey, catalogVars
  <1>5. Distinct'
    BY <1>a, <1>1, DistinctKept
  <1>6. BindingsResolve'
    BY BindingsKept DEF RotateKey, catalogVars, projectVars
  <1>7. ~raced' => forges' \subseteq secrets' /\ TokenKept(request[c])' /\ Guarded(request[c])'
    <2>1. ~raced' => ~raced /\ forges \subseteq secrets /\ Guarded(request[c])
      BY Alone DEF IInv, Undisturbed, RotateKey
    <2>2. Rows(request[c].p)' = Rows(request[c].p)
      BY <1>1 DEF Rows, RotateKey, catalogVars
    <2> QED BY <1>a, <1>1, <2>1, <2>2
            DEF TokenKept, Guarded, RotateKey, catalogVars, projectVars
  <1> QED BY <1>1, <1>2, <1>3, <1>4, <1>5, <1>6, <1>7, AloneUndisturbed DEF IInv, RotateKey

LEMMA SaveProviderKeeps ==
    ASSUME IInv, NEW c \in Client, SaveProvider(c)
    PROVE  IInv'
  <1>1. /\ request' \in [Client -> Request] /\ sent' \in 0..MaxRequests
        /\ request'[c].op = "none" /\ \A d \in Client \ {c} : request'[d] = request[d]
    BY Ended DEF IInv, SaveProvider
  <1>2. TypeOK'
    BY <1>1 DEF IInv, TypeOK, Aimed, Commits, SaveProvider, projectVars, configVars
  <1>3. Catalog' /\ Aimed(request[c])' /\ Keyed(request[c])'
    BY <1>1, SetupAssumption DEF IInv, TypeOK, Catalog, Aimed, Keyed, SaveProvider
  <1>4. ASSUME NEW d \in Client \ {c} PROVE Aimed(request[d])' /\ Keyed(request[d])'
    BY <1>1, <1>4 DEF IInv, Aimed, Keyed, SaveProvider
  <1>5. Distinct'
    BY <1>1, DistinctKept
  <1>6. BindingsResolve'
    <2>1. ~raced' => ~raced /\ owner' = owner
      BY Alone DEF IInv, TypeOK, Undisturbed, Guarded, Rows, SaveProvider, Request
    <2> QED BY <2>1 DEF IInv, BindingsResolve, InProgress, Exists, Resolves, SaveProvider,
                        projectVars
  <1>7. ~raced' => forges' \subseteq secrets' /\ TokenKept(request[c])' /\ Guarded(request[c])'
    BY <1>1, Alone DEF IInv, Undisturbed, TokenKept, Guarded, SaveProvider, projectVars
  <1> QED BY <1>1, <1>2, <1>3, <1>4, <1>5, <1>6, <1>7, AloneUndisturbed DEF IInv, SaveProvider

LEMMA RemoveProviderKeeps ==
    ASSUME IInv, NEW c \in Client, RemoveProvider(c)
    PROVE  IInv'
  <1> DEFINE rest == [request[c] EXCEPT !.op = "forget key"]
  <1>a. /\ rest \in Request
        /\ rest.op = "forget key" /\ rest.p = request[c].p
    BY DEF IInv, TypeOK, Request, Op
  <1>1. /\ request' \in [Client -> Request] /\ sent' \in 0..MaxRequests
        /\ request'[c] = rest /\ \A d \in Client \ {c} : request'[d] = request[d]
    BY <1>a, ContinuesIs DEF IInv, RemoveProvider
  <1>2. TypeOK'
    BY <1>1 DEF IInv, TypeOK, Aimed, Commits, RemoveProvider, projectVars, configVars
  <1>3. Catalog' /\ Aimed(request[c])' /\ Keyed(request[c])'
    BY <1>a, <1>1, SetupAssumption DEF IInv, TypeOK, Catalog, Aimed, Keyed, RemoveProvider
  <1>4. ASSUME NEW d \in Client \ {c} PROVE Aimed(request[d])' /\ Keyed(request[d])'
    BY <1>1, <1>4 DEF IInv, Aimed, Keyed, RemoveProvider
  <1>5. Distinct'
    BY <1>a, <1>1, DistinctKept DEF RemoveProvider
  <1>6. BindingsResolve'
    <2>1. ~raced' => ~raced /\ Guarded(request[c])
      BY Alone DEF IInv, Undisturbed, RemoveProvider
    <2>2. ASSUME ~raced', NEW a \in Agent, Exists(a)
          PROVE  Resolves(agents[a].provider, agents[a].model)'
      <3>1. agents[a].model \in Model \cup {None}
        BY <2>2, NoneIsNoBinding DEF IInv, TypeOK, Binding, Exists
      <3>2. agents[a].provider # request[c].p
        BY <2>1, <2>2 DEF Guarded, Unbound, RemoveProvider
      <3>3. ASSUME agents[a].model \in Model PROVE owner[agents[a].model] # request[c].p
        BY <2>1, <2>2, <3>3 DEF Guarded, Unused, Rows, RemoveProvider
      <3>4. Resolves(agents[a].provider, agents[a].model)
        BY <2>1, <2>2 DEF IInv, BindingsResolve, InProgress
      <3> QED BY <3>1, <3>2, <3>3, <3>4 DEF Resolves, RemoveProvider
    <2> QED BY <2>1, <2>2 DEF IInv, BindingsResolve, InProgress, Exists, RemoveProvider, projectVars
  <1>7. ~raced' => forges' \subseteq secrets' /\ TokenKept(request[c])' /\ Guarded(request[c])'
    BY <1>a, <1>1, Alone DEF IInv, Undisturbed, TokenKept, Guarded, RemoveProvider, projectVars
  <1> QED BY <1>1, <1>2, <1>3, <1>4, <1>5, <1>6, <1>7, AloneUndisturbed DEF IInv, RemoveProvider

LEMMA ForgetKeyKeeps ==
    ASSUME IInv, NEW c \in Client, ForgetKey(c)
    PROVE  IInv'
  <1>1. /\ request' \in [Client -> Request] /\ sent' \in 0..MaxRequests
        /\ request'[c].op = "none" /\ \A d \in Client \ {c} : request'[d] = request[d]
    BY Ended DEF IInv, ForgetKey
  <1>2. TypeOK'
    BY <1>1 DEF IInv, TypeOK, Aimed, Commits, ForgetKey, catalogVars, projectVars, configVars
  <1>3. Catalog' /\ Aimed(request[c])' /\ Keyed(request[c])'
    BY <1>1 DEF IInv, TypeOK, Catalog, Aimed, Keyed, ForgetKey, catalogVars
  <1>4. ASSUME NEW d \in Client \ {c} PROVE Aimed(request[d])' /\ Keyed(request[d])'
    BY <1>1, <1>4 DEF IInv, Distinct, Aimed, Keyed, ForgetKey, catalogVars
  <1>5. Distinct'
    BY <1>1, DistinctKept
  <1>6. BindingsResolve'
    BY BindingsKept DEF ForgetKey, catalogVars, projectVars
  <1>7. ~raced' => forges' \subseteq secrets' /\ TokenKept(request[c])' /\ Guarded(request[c])'
    <2>1. ~raced' => ~raced /\ forges \subseteq secrets /\ TokenKept(request[c])
      BY Alone DEF IInv, Undisturbed, ForgetKey
    <2> QED BY <1>1, <2>1, SetupAssumption
            DEF IInv, TypeOK, Aimed, TokenKept, Guarded, ForgetKey, projectVars
  <1> QED BY <1>1, <1>2, <1>3, <1>4, <1>5, <1>6, <1>7, AloneUndisturbed DEF IInv, ForgetKey

LEMMA AddModelKeeps ==
    ASSUME IInv, NEW c \in Client, NEW m \in Model, NEW p \in Provider, AddModel(c, m, p)
    PROVE  IInv'
  <1>1. /\ request' \in [Client -> Request] /\ sent' \in 0..MaxRequests
        /\ request'[c].op = "none" /\ \A d \in Client \ {c} : request'[d] = request[d]
    BY Ended DEF IInv, AddModel
  <1>2. TypeOK'
    BY <1>1, SetupAssumption DEF IInv, TypeOK, Commits, AddModel, projectVars, configVars
  <1>3. Catalog' /\ Aimed(request[c])' /\ Keyed(request[c])'
    BY <1>1, SetupAssumption DEF IInv, TypeOK, Catalog, Aimed, Keyed, AddModel
  <1>4. ASSUME NEW d \in Client \ {c} PROVE Aimed(request[d])' /\ Keyed(request[d])'
    BY <1>1, <1>4 DEF IInv, Aimed, Keyed, AddModel
  <1>5. Distinct'
    BY <1>1, DistinctKept
  <1>6. BindingsResolve'
    <2>1. ~raced' => ~raced
      BY Alone DEF IInv, AddModel
    <2>2. owner[m] = None
      BY DEF IInv, Catalog, AddModel
    <2>3. ASSUME ~raced', NEW a \in Agent, Exists(a)
          PROVE  Resolves(agents[a].provider, agents[a].model)'
      <3>1. agents[a].model \in Model \cup {None}
        BY <2>3, NoneIsNoBinding DEF IInv, TypeOK, Binding, Exists
      <3>2. Resolves(agents[a].provider, agents[a].model)
        BY <2>1, <2>3 DEF IInv, BindingsResolve, InProgress
      <3>3. agents[a].model # m
        BY <2>2, <3>2, SetupAssumption DEF Resolves
      <3> QED BY <3>1, <3>2, <3>3 DEF IInv, TypeOK, Resolves, AddModel
    <2> QED BY <2>1, <2>3 DEF IInv, BindingsResolve, InProgress, Exists, AddModel, projectVars
  <1>7. ~raced' => forges' \subseteq secrets' /\ TokenKept(request[c])' /\ Guarded(request[c])'
    BY <1>1, Alone DEF IInv, Undisturbed, TokenKept, Guarded, AddModel, projectVars
  <1> QED BY <1>1, <1>2, <1>3, <1>4, <1>5, <1>6, <1>7, AloneUndisturbed DEF IInv, AddModel

LEMMA RemoveModelKeeps ==
    ASSUME IInv, NEW c \in Client, RemoveModel(c)
    PROVE  IInv'
  <1>1. /\ request' \in [Client -> Request] /\ sent' \in 0..MaxRequests
        /\ request'[c].op = "none" /\ \A d \in Client \ {c} : request'[d] = request[d]
    BY Ended DEF IInv, RemoveModel
  <1>2. TypeOK'
    BY <1>1 DEF IInv, TypeOK, Aimed, Commits, RemoveModel, projectVars, configVars
  <1>3. Catalog' /\ Aimed(request[c])' /\ Keyed(request[c])'
    BY <1>1, SetupAssumption DEF IInv, TypeOK, Catalog, Aimed, Keyed, RemoveModel
  <1>4. ASSUME NEW d \in Client \ {c} PROVE Aimed(request[d])' /\ Keyed(request[d])'
    BY <1>1, <1>4 DEF IInv, Aimed, Keyed, RemoveModel
  <1>5. Distinct'
    BY <1>1, DistinctKept
  <1>6. BindingsResolve'
    <2>1. ~raced' => ~raced /\ Unused(request[c].m)
      BY Alone DEF IInv, Undisturbed, Guarded, RemoveModel
    <2>2. ASSUME ~raced', NEW a \in Agent, Exists(a)
          PROVE  Resolves(agents[a].provider, agents[a].model)'
      <3>1. agents[a].model \in Model \cup {None} /\ agents[a].model # request[c].m
        BY <2>1, <2>2, NoneIsNoBinding DEF IInv, TypeOK, Binding, Unused, Exists
      <3>2. Resolves(agents[a].provider, agents[a].model)
        BY <2>1, <2>2 DEF IInv, BindingsResolve, InProgress
      <3> QED BY <3>1, <3>2 DEF IInv, TypeOK, Resolves, RemoveModel
    <2> QED BY <2>1, <2>2 DEF IInv, BindingsResolve, InProgress, Exists, RemoveModel, projectVars
  <1>7. ~raced' => forges' \subseteq secrets' /\ TokenKept(request[c])' /\ Guarded(request[c])'
    BY <1>1, Alone DEF IInv, Undisturbed, TokenKept, Guarded, RemoveModel, projectVars
  <1> QED BY <1>1, <1>2, <1>3, <1>4, <1>5, <1>6, <1>7, AloneUndisturbed DEF IInv, RemoveModel

LEMMA BindForgeKeeps ==
    ASSUME IInv, NEW c \in Client, NEW j \in Project, BindForge(c, j)
    PROVE  IInv'
  <1> DEFINE rest == [Idle EXCEPT !.op = "bind", !.j = j]
  <1>a. /\ rest \in Request
        /\ rest.op = "bind" /\ rest.j = j
    BY DEF Idle, Request, Op
  <1>1. /\ request' \in [Client -> Request] /\ sent' \in 0..MaxRequests
        /\ request'[c] = rest /\ \A d \in Client \ {c} : request'[d] = request[d]
    BY <1>a, SendsIs DEF IInv, BindForge
  <1>2. TypeOK'
    BY <1>1 DEF IInv, TypeOK, Commits, BindForge, catalogVars, projectVars, configVars
  <1>3. Catalog' /\ Aimed(request[c])' /\ Keyed(request[c])'
    BY <1>a, <1>1 DEF IInv, TypeOK, Catalog, Aimed, Keyed, BindForge, catalogVars
  <1>4. ASSUME NEW d \in Client \ {c} PROVE Aimed(request[d])' /\ Keyed(request[d])'
    BY <1>1, <1>4 DEF IInv, Aimed, Keyed, BindForge, catalogVars
  <1>5. Distinct'
    BY <1>a, <1>1, DistinctKept
  <1>6. BindingsResolve'
    BY BindingsKept DEF BindForge, catalogVars, projectVars
  <1>7. ~raced' => forges' \subseteq secrets' /\ TokenKept(request[c])' /\ Guarded(request[c])'
    BY <1>a, <1>1, Alone DEF IInv, Undisturbed, TokenKept, Guarded, BindForge, projectVars
  <1> QED BY <1>1, <1>2, <1>3, <1>4, <1>5, <1>6, <1>7, AloneUndisturbed DEF IInv, BindForge

LEMMA UnbindForgeKeeps ==
    ASSUME IInv, NEW c \in Client, NEW j \in Project, UnbindForge(c, j)
    PROVE  IInv'
  <1> DEFINE rest == [Idle EXCEPT !.op = "unbind", !.j = j]
  <1>a. /\ rest \in Request
        /\ rest.op = "unbind" /\ rest.j = j
    BY DEF Idle, Request, Op
  <1>1. /\ request' \in [Client -> Request] /\ sent' \in 0..MaxRequests
        /\ request'[c] = rest /\ \A d \in Client \ {c} : request'[d] = request[d]
    BY <1>a, SendsIs DEF IInv, UnbindForge
  <1>2. TypeOK'
    BY <1>1 DEF IInv, TypeOK, Commits, UnbindForge, catalogVars, configVars
  <1>3. Catalog' /\ Aimed(request[c])' /\ Keyed(request[c])'
    BY <1>a, <1>1 DEF IInv, TypeOK, Catalog, Aimed, Keyed, UnbindForge, catalogVars
  <1>4. ASSUME NEW d \in Client \ {c} PROVE Aimed(request[d])' /\ Keyed(request[d])'
    BY <1>1, <1>4 DEF IInv, Aimed, Keyed, UnbindForge, catalogVars
  <1>5. Distinct'
    BY <1>a, <1>1, DistinctKept
  <1>6. BindingsResolve'
    BY BindingsKept DEF UnbindForge, catalogVars
  <1>7. ~raced' => forges' \subseteq secrets' /\ TokenKept(request[c])' /\ Guarded(request[c])'
    BY <1>a, <1>1, Alone DEF IInv, Undisturbed, TokenKept, Guarded, UnbindForge
  <1> QED BY <1>1, <1>2, <1>3, <1>4, <1>5, <1>6, <1>7, AloneUndisturbed DEF IInv, UnbindForge

LEMMA ForgetTokenKeeps ==
    ASSUME IInv, NEW c \in Client, ForgetToken(c)
    PROVE  IInv'
  <1>1. /\ request' \in [Client -> Request] /\ sent' \in 0..MaxRequests
        /\ request'[c].op = "none" /\ \A d \in Client \ {c} : request'[d] = request[d]
    BY Ended DEF IInv, ForgetToken
  <1>2. TypeOK'
    BY <1>1 DEF IInv, TypeOK, Aimed, Commits, ForgetToken, catalogVars, projectVars, configVars
  <1>3. Catalog' /\ Aimed(request[c])' /\ Keyed(request[c])'
    BY <1>1, SetupAssumption DEF IInv, TypeOK, Catalog, Aimed, Keyed, ForgetToken, catalogVars
  <1>4. ASSUME NEW d \in Client \ {c} PROVE Aimed(request[d])' /\ Keyed(request[d])'
    BY <1>1, <1>4, SetupAssumption DEF IInv, TypeOK, Aimed, Keyed, ForgetToken, catalogVars
  <1>5. Distinct'
    BY <1>1, DistinctKept
  <1>6. BindingsResolve'
    BY BindingsKept DEF ForgetToken, catalogVars, projectVars
  <1>7. ~raced' => forges' \subseteq secrets' /\ TokenKept(request[c])' /\ Guarded(request[c])'
    <2>1. ~raced' => ~raced /\ forges \subseteq secrets /\ TokenKept(request[c])
      BY Alone DEF IInv, Undisturbed, ForgetToken
    <2> QED BY <1>1, <2>1, SetupAssumption
            DEF IInv, TypeOK, Aimed, TokenKept, Guarded, ForgetToken, projectVars
  <1> QED BY <1>1, <1>2, <1>3, <1>4, <1>5, <1>6, <1>7, AloneUndisturbed DEF IInv, ForgetToken

-----------------------------------------------------------------------------
LEMMA ReasonerSectionKeeps ==
    ASSUME IInv, NEW c \in Client, ReasonerSection(c)
    PROVE  IInv'
  <1>1. ASSUME NEW mode \in {"stub", "llm"}, SaveReasonerKey(c, "mode", mode)
        PROVE  IInv'
    <2>1. [config EXCEPT !["mode"] = mode] \in Config
      BY DEF IInv, TypeOK, Config
    <2> QED BY <1>1, <2>1, SaveReasonerKeyKeeps
  <1>2. ASSUME NEW p \in Provider, SaveReasonerKey(c, "provider", p)
        PROVE  IInv'
    <2>1. [config EXCEPT !["provider"] = p] \in Config
      BY DEF IInv, TypeOK, Config
    <2> QED BY <1>2, <2>1, SaveReasonerKeyKeeps
  <1>3. ASSUME NEW m \in Model, SaveReasonerKey(c, "model", m)
        PROVE  IInv'
    <2>1. [config EXCEPT !["model"] = m] \in Config
      BY DEF IInv, TypeOK, Config
    <2> QED BY <1>3, <2>1, SaveReasonerKeyKeeps
  <1> QED BY <1>1, <1>2, <1>3 DEF ReasonerSection, Listed

LEMMA FormKeeps ==
    ASSUME IInv, NEW c \in Client, Form(c)
    PROVE  IInv'
  <1>1. CASE ProviderDialog(c)
    BY <1>1, StoreKeyKeeps, ReadProviderKeeps
       DEF ProviderDialog
  <1>2. CASE ProviderCard(c)
    BY <1>2, CheckProviderKeeps
       DEF ProviderCard, Listed
  <1>3. CASE ModelList(c)
    BY <1>3, AddModelKeeps
       DEF ModelList, Listed
  <1>4. CASE ModelRow(c)
    BY <1>4, CheckModelKeeps
       DEF ModelRow, Listed
  <1>5. CASE AgentDialog(c)
    BY <1>5, CheckAgentKeeps
       DEF AgentDialog, RuntimeFields, Listed
  <1>6. CASE AgentCard(c)
    BY <1>6, CheckUnnamedKeeps, CheckDefaultKeeps
       DEF AgentCard, Listed
  <1>7. CASE CapabilityDialog(c)
    BY <1>7, AddCapabilityKeeps
       DEF CapabilityDialog
  <1>8. CASE CapabilitiesSection(c)
    BY <1>8, DeleteCapabilityKeeps
       DEF CapabilitiesSection
  <1>9. CASE ProjectWizard(c)
    BY <1>9, AddProjectKeeps, BindForgeKeeps
       DEF ProjectWizard
  <1>10. CASE ProjectsSection(c)
    BY <1>10, DeleteProjectKeeps
       DEF ProjectsSection
  <1>11. CASE PlanComposer(c)
    BY <1>11, CheckProjectKeeps, AddProjectKeeps
       DEF PlanComposer
  <1>12. CASE PlanList(c)
    BY <1>12, DeletePlanKeeps
       DEF PlanList, Listed
  <1>13. CASE RunnerSection(c)
    BY <1>13, SaveRunnerKeeps
       DEF RunnerSection
  <1>14. CASE ReasonerStep(c)
    BY <1>14, PlanProviderKeeps, PlanModelKeeps, PlanModeKeeps, UseStubKeeps
       DEF ReasonerStep
  <1> QED BY <1>1, <1>2, <1>3, <1>4, <1>5, <1>6, <1>7, <1>8, <1>9, <1>10, <1>11, <1>12,
          <1>13, <1>14, ReasonerSectionKeeps
          DEF Form

LEMMA FinishesKeeps ==
    ASSUME IInv, NEW c \in Client, Finishes(c)
    PROVE  IInv'
  BY AddProviderKeeps, RotateKeyKeeps, SaveProviderKeeps, RemoveProviderKeeps,
     ForgetKeyKeeps, RemoveModelKeeps, SaveAgentKeeps, RemoveAgentKeeps,
     SetDefaultKeeps, WriteBindingKeeps, ForgetTokenKeeps, OpenPlanKeeps,
     NameAgentsKeeps
     DEF Finishes

LEMMA StutterKeeps ==
    ASSUME IInv, UNCHANGED vars
    PROVE  IInv'
  <1> USE DEF vars
  <1>1. TypeOK' /\ Catalog' /\ Distinct' /\ BindingsResolve'
    BY DEF IInv, TypeOK, Catalog, Distinct, BindingsResolve, InProgress, Exists, Resolves
  <1>2. ASSUME NEW d \in Client
        PROVE  /\ Aimed(request[d])' /\ Keyed(request[d])'
               /\ ~raced => TokenKept(request[d])' /\ Guarded(request[d])'
    <2>1. Rows(request[d].p)' = Rows(request[d].p)
      BY DEF Rows
    <2>2. Aimed(request[d])' /\ Keyed(request[d])'
      BY DEF IInv, Aimed, Keyed
    <2>3. ASSUME ~raced PROVE TokenKept(request[d])' /\ Guarded(request[d])'
      BY <2>1, <2>3
         DEF IInv, Undisturbed, TokenKept, Guarded, Exists, Resolves, Unbound, Unused, Unnamed,
             InProgress
    <2> QED BY <2>2, <2>3
  <1> QED BY <1>1, <1>2 DEF IInv, Undisturbed

LEMMA InitIInv == Init => IInv
  <1> SUFFICES ASSUME Init PROVE IInv
    OBVIOUS
  <1>1. /\ used \subseteq Provider \cup Model \cup Agent \cup Project
        /\ providers \subseteq Provider /\ owner \in [Model -> providers \cup {None}]
        /\ capabilities \subseteq Capability /\ default \in Agent \cup {None}
        /\ secrets \subseteq Provider \cup Project /\ config \in Config
        /\ Catalog
    BY SetupAssumption DEF Init, Empty, Seeded, Config, Catalog
  <1>2. /\ agents \in [Agent -> Binding \cup {None}]
        /\ default # None => Exists(default)
        /\ \A a \in Agent : Exists(a) =>
               Resolves(agents[a].provider, agents[a].model) /\ agents[a].covers \subseteq capabilities
    <2>1. CASE Empty
      BY <2>1 DEF Empty, Exists
    <2>2. ASSUME NEW a \in Agent, NEW p \in Provider \cup {None}, NEW m \in Model \cup {None},
                 Seeded(p, m, a), p # None <=> m # None
          PROVE  <1>2
      <3>1. [provider |-> p, model |-> m, covers |-> Capability] \in Binding
        BY DEF Binding
      <3>2. Resolves(p, m)
        BY <2>2, SetupAssumption DEF Seeded, Resolves
      <3> QED BY <2>2, <3>1, <3>2, SetupAssumption, NoneIsNoBinding DEF Seeded, Exists
    <2> QED BY <2>1, <2>2, SetupAssumption DEF Init
  <1>3. /\ request \in [Client -> Request] /\ \A c \in Client : request[c].op = "none"
        /\ sent \in 0..MaxRequests
    BY IdleIs, SetupAssumption DEF Init
  <1>4. TypeOK
    BY <1>1, <1>2, <1>3 DEF TypeOK, Init
  <1>5. Distinct /\ Undisturbed /\ \A c \in Client : Aimed(request[c]) /\ Keyed(request[c])
    BY <1>3 DEF Init, Distinct, Undisturbed, Aimed, Keyed, TokenKept, Guarded
  <1>6. BindingsResolve
    <2>1. \A j \in Project : plans[j] = None
      BY DEF Init
    <2> QED BY <1>2, <2>1 DEF BindingsResolve, InProgress
  <1> QED BY <1>1, <1>4, <1>5, <1>6 DEF IInv

\* Every step of every client, and every way a request can die, keeps the invariant.
THEOREM InductiveInvariant == Spec => []IInv
  <1>1. IInv /\ [Next]_vars => IInv'
    <2> SUFFICES ASSUME IInv, [Next]_vars PROVE IInv'
      OBVIOUS
    <2>1. ASSUME NEW c \in Client, NEW j \in Project, PlanGoesOn(c, j)
          PROVE  IInv'
      BY <2>1, ResolveAgentsKeeps, EndPlanKeeps DEF PlanGoesOn
    <2>2. ASSUME NEW c \in Client, NEW j \in Project, UnbindForge(c, j)
          PROVE  IInv'
      BY <2>2, UnbindForgeKeeps
    <2>3. CASE UNCHANGED vars
      BY <2>3, StutterKeeps
    <2> QED BY <2>1, <2>2, <2>3, FormKeeps, FinishesKeeps, DiesKeeps DEF Next
  <1> QED BY <1>1, InitIInv, PTL DEF Spec

\* Every variable keeps its type, whatever the catalog and however many clients: a model
\* belongs to a provider that is there.
THEOREM SetupTypeOK == Spec => []TypeOK
  <1>1. IInv => TypeOK
    BY DEF IInv
  <1> QED BY <1>1, InductiveInvariant, PTL

\* A provider that is listed has its key, wherever a request died and whatever overlapped;
\* a forge binding has its token, unless requests overlapped.
THEOREM SetupCredentials == Spec => []CredentialsInPlace
  <1>1. IInv => CredentialsInPlace
    BY DEF IInv, Catalog, Undisturbed, CredentialsInPlace
  <1> QED BY <1>1, InductiveInvariant, PTL

\* What an agent is bound to exists, and so does the implementer that a task of a plan in
\* progress names, unless requests overlapped: no guard, cascade or reconciliation leaves
\* one behind.
THEOREM SetupBindings == Spec => []BindingsResolve
  <1>1. IInv => BindingsResolve
    BY DEF IInv
  <1> QED BY <1>1, InductiveInvariant, PTL
-----------------------------------------------------------------------------
(***************************************************************************)
(* The wizard. It writes the mode of the reasoner last, and nothing takes  *)
(* the provider or the model away again.                                   *)
(***************************************************************************)
Planned(r) ==
    /\ r.op = "plan model" => config.provider # None /\ r.m # None
    /\ r.op = "plan mode" => config.provider # None /\ config.model # None

ModeLast ==
    ~byHand => /\ config.mode = "llm" => config.provider # None /\ config.model # None
               /\ \A c \in Client : Planned(request[c])

\* A step of a request that is not one for the reasoner.
Elsewhere(c) ==
    /\ UNCHANGED configVars
    /\ request'[c].op \notin {"plan model", "plan mode"}
    /\ \A d \in Client \ {c} : request'[d] = request[d]

LEMMA RequestIs ==
    ASSUME TypeOK, NEW c \in Client, NEW rest, Sends(c, rest) \/ Continues(c, rest)
    PROVE  request'[c] = rest /\ \A d \in Client \ {c} : request'[d] = request[d]
  BY DEF TypeOK, Sends, Continues

LEMMA GoesElsewhere ==
    ASSUME TypeOK, NEW c \in Client, NEW rest, Sends(c, rest) \/ Continues(c, rest),
           rest.op \notin {"plan model", "plan mode"}, UNCHANGED configVars
    PROVE  Elsewhere(c)
  BY RequestIs DEF Elsewhere

LEMMA FormElsewhere ==
    ASSUME TypeOK, NEW c \in Client, Form(c),
           ~ReasonerSection(c), ~RunnerSection(c), ~ReasonerStep(c)
    PROVE  Elsewhere(c)
  <1> USE GoesElsewhere DEF Idle
  <1>1. CASE ProviderDialog(c)
    BY <1>1 DEF ProviderDialog, StoreKey, ReadProvider
  <1>2. CASE ProviderCard(c)
    BY <1>2 DEF ProviderCard, CheckProvider
  <1>3. CASE ModelList(c) \/ ModelRow(c)
    BY <1>3 DEF ModelList, ModelRow, AddModel, CheckModel
  <1>4. CASE AgentCard(c)
    BY <1>4 DEF AgentCard, CheckUnnamed, CheckDefault
  <1>5. CASE CapabilityDialog(c) \/ CapabilitiesSection(c)
    BY <1>5 DEF CapabilityDialog, CapabilitiesSection, AddCapability, DeleteCapability
  <1>6. CASE ProjectWizard(c) \/ ProjectsSection(c)
    BY <1>6 DEF ProjectWizard, ProjectsSection, AddProject, BindForge, DeleteProject
  <1>7. CASE PlanComposer(c) \/ PlanList(c)
    BY <1>7 DEF PlanComposer, PlanList, CheckProject, AddProject, DeletePlan
  <1>8. CASE AgentDialog(c)
    BY <1>8 DEF AgentDialog, CheckAgent
  <1> QED  BY <1>1, <1>2, <1>3, <1>4, <1>5, <1>6, <1>7, <1>8 DEF Form

LEMMA RestElsewhere ==
    ASSUME TypeOK, NEW c \in Client,
           \/ Finishes(c) \/ Dies(c)
           \/ \E j \in Project : UnbindForge(c, j) \/ PlanGoesOn(c, j)
    PROVE  Elsewhere(c)
  <1>0. Idle.op = "none" /\ Idle.op \notin {"plan model", "plan mode"}  BY DEF Idle
  <1> USE <1>0, GoesElsewhere
  <1>1. CASE AddProvider(c) \/ SaveProvider(c) \/ ForgetKey(c)
    BY <1>1 DEF AddProvider, SaveProvider, ForgetKey
  <1>2. CASE RotateKey(c)
    BY <1>2 DEF RotateKey
  <1>3. CASE RemoveProvider(c)
    <2> DEFINE rest == [request[c] EXCEPT !.op = "forget key"]
    <2>1. rest.op = "forget key"  BY DEF TypeOK, Request
    <2>2. Continues(c, rest) /\ UNCHANGED configVars  BY <1>3 DEF RemoveProvider
    <2> HIDE DEF rest
    <2> QED  BY <2>1, <2>2
  <1>4. CASE RemoveModel(c) \/ SaveAgent(c) \/ RemoveAgent(c) \/ SetDefault(c)
    BY <1>4 DEF RemoveModel, SaveAgent, RemoveAgent, SetDefault
  <1>5. CASE WriteBinding(c) \/ ForgetToken(c) \/ OpenPlan(c) \/ NameAgents(c)
    BY <1>5 DEF WriteBinding, ForgetToken, OpenPlan, NameAgents
  <1>6. CASE Dies(c)
    BY <1>6 DEF Dies
  <1>7. CASE \E j \in Project : UnbindForge(c, j) \/ PlanGoesOn(c, j)
    BY <1>7 DEF UnbindForge, PlanGoesOn, EndPlan, ResolveAgents, Idle
  <1> QED  BY <1>1, <1>2, <1>3, <1>4, <1>5, <1>6, <1>7 DEF Finishes

LEMMA ReasonerInOrder ==
    ASSUME TypeOK, ModeLast, NEW c \in Client,
           ReasonerSection(c) \/ RunnerSection(c) \/ ReasonerStep(c)
    PROVE  ModeLast'
  <1>0. config \in Config /\ None \notin Provider /\ None \notin Model
    BY SetupAssumption DEF TypeOK
  <1>a. ASSUME NEW rest, Sends(c, rest) \/ Continues(c, rest)
        PROVE  request'[c] = rest /\ \A d \in Client \ {c} : request'[d] = request[d]
    BY <1>a, RequestIs
  <1>b. Idle.op = "none"  BY DEF Idle
  <1>1. CASE ReasonerSection(c)
    BY <1>1 DEF ReasonerSection, SaveReasonerKey, ModeLast
  <1>2. CASE RunnerSection(c)
    <2>1. PICK mode : /\ config' = [config EXCEPT !.runner = mode] /\ byHand' = byHand
                      /\ Sends(c, Idle)
      BY <1>2 DEF RunnerSection, SaveRunner
    <2> QED  BY <1>0, <1>a, <1>b, <2>1 DEF Config, ModeLast, Planned
  <1>3. ASSUME NEW p \in Provider, NEW m \in Model, PlanProvider(c, p, m) PROVE ModeLast'
    <2> DEFINE rest == [Idle EXCEPT !.op = "plan model", !.m = m]
    <2>1. rest.op = "plan model" /\ rest.m = m  BY DEF Idle
    <2>2. config' = [config EXCEPT !.provider = p] /\ byHand' = byHand /\ Sends(c, rest)
      BY <1>3 DEF PlanProvider
    <2> HIDE DEF rest
    <2> QED  BY <1>0, <1>a, <2>1, <2>2 DEF Config, ModeLast, Planned
  <1>4. CASE PlanModel(c)
    <2> DEFINE rest == [request[c] EXCEPT !.op = "plan mode"]
    <2>1. rest.op = "plan mode"  BY DEF TypeOK, Request
    <2>2. /\ request[c].op = "plan model" /\ config' = [config EXCEPT !.model = request[c].m]
          /\ byHand' = byHand /\ Continues(c, rest)
      BY <1>4 DEF PlanModel
    <2> HIDE DEF rest
    <2> QED  BY <1>0, <1>a, <2>1, <2>2 DEF Config, ModeLast, Planned
  <1>5. CASE PlanMode(c)
    <2>1. /\ request[c].op = "plan mode" /\ config' = [config EXCEPT !.mode = "llm"]
          /\ byHand' = byHand /\ Continues(c, Idle)
      BY <1>5 DEF PlanMode
    <2> QED  BY <1>0, <1>a, <1>b, <2>1 DEF Config, ModeLast, Planned
  <1>6. CASE UseStub(c)
    <2>1. config' = [config EXCEPT !.mode = "stub"] /\ byHand' = byHand /\ Sends(c, Idle)
      BY <1>6 DEF UseStub
    <2> QED  BY <1>0, <1>a, <1>b, <2>1 DEF Config, ModeLast, Planned
  <1> QED  BY <1>1, <1>2, <1>3, <1>4, <1>5, <1>6 DEF ReasonerStep

LEMMA ModeLastKept ==
    ASSUME TypeOK, ModeLast, [Next]_vars
    PROVE  ModeLast'
  <1>1. CASE UNCHANGED vars
    BY <1>1 DEF vars, ModeLast, Planned
  <1>2. ASSUME NEW c \in Client, Elsewhere(c) PROVE ModeLast'
    BY <1>2 DEF Elsewhere, configVars, ModeLast, Planned
  <1> QED  BY <1>1, <1>2, FormElsewhere, RestElsewhere, ReasonerInOrder DEF Next

LEMMA ModeLastAtFirst == Init => ModeLast
  <1> SUFFICES ASSUME Init PROVE ModeLast
    OBVIOUS
  <1>1. \A c \in Client : request[c].op = "none"  BY DEF Init, Idle
  <1>2. config.mode = "llm" => config.provider # None /\ config.model # None
    BY SetupAssumption DEF Init, Empty, Seeded
  <1> QED  BY <1>1, <1>2 DEF ModeLast, Planned

\* What a step asks for can be chosen in its form: an earlier step has provided it.
LEMMA StepsAre ==
    /\ DOMAIN Steps("tier0") = 1..5
    /\ Steps("tier0")[1] = "agent" /\ Steps("tier0")[2] = "default agent"
    /\ Steps("tier0")[3] = "reasoner" /\ Steps("tier0")[4] = "runner"
    /\ Steps("tier0")[5] = "project"
    /\ DOMAIN Steps("tier1") = 1..7
    /\ Steps("tier1")[1] = "provider" /\ Steps("tier1")[2] = "model"
    /\ Steps("tier1")[3] = "agent" /\ Steps("tier1")[4] = "default agent"
    /\ Steps("tier1")[5] = "reasoner" /\ Steps("tier1")[6] = "runner"
    /\ Steps("tier1")[7] = "project"
  BY DEF Steps

\* The steps before the one that is asked for are done.
LEMMA FirstLeft ==
    ASSUME NEW tier, NEW step \in NextStep(tier)
    PROVE  \E i \in DOMAIN Steps(tier) :
               /\ step = Steps(tier)[i]
               /\ \A j \in DOMAIN Steps(tier) : ~(i <= j) => Done(Steps(tier)[j], tier)
  BY Zenon DEF NextStep, Left

LEMMA FirstTierFollows ==
    ASSUME NEW step \in NextStep("tier0")
    PROVE  CanSubmit(step, "tier0")
  <1>1. PICK i \in DOMAIN Steps("tier0") :
          /\ step = Steps("tier0")[i]
          /\ \A j \in DOMAIN Steps("tier0") : ~(i <= j) => Done(Steps("tier0")[j], "tier0")
    BY FirstLeft
  <1>2. i \in 1..5 /\ (i = 2 => Done("agent", "tier0"))
    <2>1. DOMAIN Steps("tier0") = 1..5 /\ Steps("tier0")[1] = "agent"  BY StepsAre
    <2> QED  BY <1>1, <2>1
  <1>3. CASE i = 2
    <2>1. DefaultAgentForm # {}  BY <1>2, <1>3 DEF Done, DefaultAgentForm
    <2> QED  BY <1>1, <1>3, <2>1, StepsAre DEF CanSubmit
  <1>4. CASE i \in {1, 3, 4, 5}
    <2>1. AgentForm("tier0") # {} /\ ReasonerForm("tier0") # {}
      BY DEF AgentForm, ReasonerForm
    <2> QED  BY <1>1, <1>4, <2>1, StepsAre DEF CanSubmit
  <1> QED  BY <1>2, <1>3, <1>4

LEMMA SecondTierFollows ==
    ASSUME TypeOK, NEW step \in NextStep("tier1")
    PROVE  CanSubmit(step, "tier1")
  <1>1. PICK i \in DOMAIN Steps("tier1") :
          /\ step = Steps("tier1")[i]
          /\ \A j \in DOMAIN Steps("tier1") : ~(i <= j) => Done(Steps("tier1")[j], "tier1")
    BY FirstLeft
  <1>2. /\ i \in 1..7
        /\ i > 1 => Done("provider", "tier1")
        /\ i > 2 => Done("model", "tier1")
        /\ i > 3 => Done("agent", "tier1")
    <2>1. /\ DOMAIN Steps("tier1") = 1..7 /\ Steps("tier1")[1] = "provider"
          /\ Steps("tier1")[2] = "model" /\ Steps("tier1")[3] = "agent"
      BY StepsAre
    <2> QED  BY <1>1, <2>1
  <1>3. CASE i = 2
    <2>1. ModelForm # {}  BY <1>2, <1>3 DEF Done, ModelForm
    <2> QED  BY <1>1, <1>3, <2>1, StepsAre DEF CanSubmit
  <1>4. ASSUME i > 2
        PROVE  \E p \in Provider, m \in Model :
                   p \in providers /\ owner[m] = p /\ <<p, m>> \in Provider \X Model
    <2>1. PICK m \in Model : owner[m] # None  BY <1>2, <1>4 DEF Done
    <2>2. owner[m] \in providers /\ owner[m] \in Provider  BY <2>1 DEF TypeOK
    <2> QED  BY <2>1, <2>2
  <1>5. CASE i = 3
    <2>1. AgentForm("tier1") # {}
      <3>1. PICK p \in Provider, m \in Model : owner[m] = p /\ <<p, m>> \in Provider \X Model
        BY <1>4, <1>5
      <3>2. <<p, m>> \in AgentForm("tier1")  BY <3>1 DEF AgentForm
      <3> QED  BY <3>2
    <2> QED  BY <1>1, <1>5, <2>1, StepsAre DEF CanSubmit
  <1>6. CASE i = 4
    <2>1. DefaultAgentForm # {}  BY <1>2, <1>6 DEF Done, Bound, DefaultAgentForm
    <2> QED  BY <1>1, <1>6, <2>1, StepsAre DEF CanSubmit
  <1>7. CASE i = 5
    <2>1. ReasonerForm("tier1") # {}
      <3>1. PICK p \in Provider, m \in Model :
              p \in providers /\ owner[m] = p /\ <<p, m>> \in Provider \X Model
        BY <1>4, <1>7
      <3>2. <<p, m>> \in ReasonerForm("tier1")  BY <3>1 DEF ReasonerForm
      <3> QED  BY <3>2
    <2> QED  BY <1>1, <1>7, <2>1, StepsAre DEF CanSubmit
  <1>8. CASE i \in {1, 6, 7}
    BY <1>1, <1>8, StepsAre DEF CanSubmit
  <1> QED  BY <1>2, <1>3, <1>5, <1>6, <1>7, <1>8

\* The form of the wizard's step can always be submitted, the reasoner is not left on a
\* model it has not been given, and a ready install has an agent that is bound.
THEOREM SetupWizard == Spec => []WizardInOrder
  <1>1. TypeOK /\ ModeLast /\ [Next]_vars => ModeLast'
    BY ModeLastKept
  <1>2. IInv /\ ModeLast => WizardInOrder
    <2> SUFFICES ASSUME IInv, ModeLast PROVE WizardInOrder
      OBVIOUS
    <2>1. \A tier \in Tier : \A step \in NextStep(tier) : CanSubmit(step, tier)
      BY FirstTierFollows, SecondTierFollows DEF IInv, Tier
    <2>2. ASSUME Left("tier1") = {}
          PROVE  \E a \in Agent : Bound(a) /\ (~raced => agents[a].provider \in providers)
      <3>1. Done("agent", "tier1")
        <4>0. DOMAIN Steps("tier1") = 1..7 /\ Steps("tier1")[3] = "agent"  BY StepsAre
        <4>1. 3 \in DOMAIN Steps("tier1") /\ Steps("tier1")[3] = "agent"  BY <4>0
        <4> QED  BY <2>2, <4>1, Zenon DEF Left
      <3>2. PICK a \in Agent : Bound(a)  BY <3>1 DEF Done
      <3> QED  BY <3>2 DEF IInv, BindingsResolve, InProgress, Resolves, Bound
    <2> QED  BY <2>1, <2>2 DEF WizardInOrder, ModeLast
  <1> QED  BY <1>1, <1>2, ModeLastAtFirst, InductiveInvariant, SetupTypeOK, PTL DEF Spec
=============================================================================
