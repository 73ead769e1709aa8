-------------------------------- MODULE Setup --------------------------------
(***************************************************************************)
(* The reference data of an install and the two ways an operator changes   *)
(* it: the settings sections, one form per row, and the first-run wizard,  *)
(* which asks for the first thing that is missing.                         *)
(*                                                                         *)
(* Every repository operation is a short transaction of its own. A request *)
(* of several of them is interleaved with the requests of other tabs, and  *)
(* may die between two. A statement that reads before the first one that   *)
(* writes is outside the transaction, so that a guard and the change it    *)
(* guards are two steps too.                                               *)
(***************************************************************************)
EXTENDS Naturals, Sequences

CONSTANTS Client, Provider, Model, Agent, Capability, Project,
          None,
          MaxRequests   \* bound: requests sent

ASSUME SetupAssumption ==
    /\ None \notin Provider \cup Model \cup Agent \cup Project
    /\ Provider \cap Project = {}
    /\ MaxRequests \in Nat

VARIABLES used,          \* the ids given out so far: none is given out twice
          providers,     \* the rows of the providers
          owner,         \* the rows of the models: the provider of each, None if there is no row
          capabilities,  \* the rows of the capabilities
          agents,        \* the rows of the agents: the binding of each, None if there is no row
          default,       \* the agent marked is_default
          projects,      \* the rows of the projects
          forges,        \* the projects bound to a forge (their config scope)
          plans,         \* the plan of each project: the agents its tasks name, None if there is no plan
          secrets,       \* whose key or token is stored
          config,        \* the orchestrator scope
          request,       \* what each client's request still has to do
          raced,         \* has a request committed while another one was under way?
          byHand,        \* has reasoner.* been changed in its section, key by key?
          sent           \* requests so far

vars == <<used, providers, owner, capabilities, agents, default, projects, forges, plans,
          secrets, config, request, raced, byHand, sent>>
catalogVars == <<used, providers, owner, capabilities, agents, default>>
projectVars == <<projects, forges, plans>>
configVars  == <<config, byHand>>

Binding == [provider : Provider \cup {None}, model : Model \cup {None}, covers : SUBSET Capability]
ASSUME NoneIsNoBinding == None \notin Binding

\* A plan names agents as the implementers of its tasks (agent_id) and as the authors of
\* their tests (role_agent_ids). It is open until it is done or has failed; a failed one
\* may be taken up again.
Plan == [named : SUBSET Agent, authors : SUBSET Agent, phase : {"open", "ended", "revived"}]
ASSUME NoneIsNoPlan == None \notin Plan

Config  == [mode : {"stub", "llm"}, provider : Provider \cup {None}, model : Model \cup {None},
            runner : {"dry-run", "real"}]
Op == {"none", "add provider", "save provider", "delete provider", "forget key",
       "delete model", "add agent", "save agent", "delete agent", "set default",
       "bind", "unbind", "plan model", "plan mode", "open plan", "name agents"}

\* What is left of a request: p, m, a, t and j are what it is about (t, an author of
\* tests); seen are the models it has read; covers the capabilities it will write.
Request == [op : Op, p : Provider \cup {None}, m : Model \cup {None}, a : Agent \cup {None},
            t : Agent \cup {None}, j : Project \cup {None}, seen : SUBSET Model,
            covers : SUBSET Capability]
Idle == [op |-> "none", p |-> None, m |-> None, a |-> None, t |-> None, j |-> None,
         seen |-> {}, covers |-> {}]

Rows(p)   == {m \in Model : owner[m] = p}
Exists(a) == agents[a] # None

\* A client sends a request; what its first step leaves to do.
Sends(c, rest) ==
    /\ request[c].op = "none" /\ sent < MaxRequests
    /\ sent' = sent + 1
    /\ request' = [request EXCEPT ![c] = rest]

\* A request under way goes on, and is done with when rest is Idle.
Continues(c, rest) ==
    /\ request' = [request EXCEPT ![c] = rest]
    /\ UNCHANGED sent

Commits(c) == raced' = (raced \/ \E d \in Client \ {c} : request[d].op # "none")

(***************************************************************************)
(* Providers and their models.                                             *)
(***************************************************************************)
\* Not the code: a guard that forgets the agents.
InUseByConfig(m) == config.model = m

\* _guard_model_in_use: any config value, or an agent's binding
InUse(m) == config.model = m \/ \E a \in Agent : Exists(a) /\ agents[a].model = m

\* create_provider: the key first, then the row.
StoreKey(c, p) ==
    /\ p \notin used
    /\ used' = used \cup {p} /\ secrets' = secrets \cup {p}
    /\ Sends(c, [Idle EXCEPT !.op = "add provider", !.p = p]) /\ Commits(c)
    /\ UNCHANGED <<providers, owner, capabilities, agents, default>>
    /\ UNCHANGED projectVars /\ UNCHANGED configVars

AddProvider(c) ==
    /\ request[c].op = "add provider"
    /\ providers' = providers \cup {request[c].p}
    /\ Continues(c, Idle) /\ Commits(c)
    /\ UNCHANGED <<used, owner, capabilities, agents, default, secrets>>
    /\ UNCHANGED projectVars /\ UNCHANGED configVars

\* update_provider reads the provider with its models; a new key is stored before
\* the rows are written.
ReadProvider(c, p) ==
    /\ p \in providers
    /\ Sends(c, [Idle EXCEPT !.op = "save provider", !.p = p, !.seen = Rows(p)])
    /\ UNCHANGED <<secrets, raced>>
    /\ UNCHANGED catalogVars /\ UNCHANGED projectVars /\ UNCHANGED configVars

\* (a key that is there is replaced, which is no change here)
RotateKey(c) ==
    /\ request[c].op = "save provider" /\ request[c].p \notin secrets
    /\ secrets' = secrets \cup {request[c].p}
    /\ Continues(c, request[c]) /\ Commits(c)
    /\ UNCHANGED catalogVars /\ UNCHANGED projectVars /\ UNCHANGED configVars

\* SqliteModelProviderRepository.update: _reconcile_models makes the model rows what
\* was read: a model added since is removed, if it is not in use, and one removed
\* since comes back.
SaveProvider(c) ==
    /\ request[c].op = "save provider"
    /\ LET p == request[c].p
           accepted == p \in providers /\ \A m \in Rows(p) \ request[c].seen : ~InUse(m)
       IN  owner' = IF ~accepted THEN owner
                    ELSE [m \in Model |-> IF m \in request[c].seen THEN p
                                          ELSE IF owner[m] = p THEN None ELSE owner[m]]
    /\ Continues(c, Idle) /\ Commits(c)
    /\ UNCHANGED <<used, providers, capabilities, agents, default, secrets>>
    /\ UNCHANGED projectVars /\ UNCHANGED configVars

\* Not the code: the key is forgotten before the row is removed.
CheckAndForget(c, p) ==
    /\ p \in providers
    /\ \A a \in Agent : Exists(a) => agents[a].provider # p
    /\ \A m \in Rows(p) : ~InUse(m)
    /\ secrets' = secrets \ {p}
    /\ Sends(c, [Idle EXCEPT !.op = "delete provider", !.p = p])
    /\ UNCHANGED raced
    /\ UNCHANGED catalogVars /\ UNCHANGED projectVars /\ UNCHANGED configVars

\* SqliteModelProviderRepository.delete: guarded by the agents bound to the provider
\* and by its models; not by reasoner.provider_id.
CheckProvider(c, p) ==
    /\ p \in providers
    /\ \A a \in Agent : Exists(a) => agents[a].provider # p
    /\ \A m \in Rows(p) : ~InUse(m)
    /\ Sends(c, [Idle EXCEPT !.op = "delete provider", !.p = p])
    /\ UNCHANGED <<secrets, raced>>
    /\ UNCHANGED catalogVars /\ UNCHANGED projectVars /\ UNCHANGED configVars

\* Not the code: its models stay.
RemoveProviderRow(c) ==
    /\ request[c].op = "delete provider"
    /\ providers' = providers \ {request[c].p}
    /\ Continues(c, [request[c] EXCEPT !.op = "forget key"]) /\ Commits(c)
    /\ UNCHANGED <<used, owner, capabilities, agents, default, secrets>>
    /\ UNCHANGED projectVars /\ UNCHANGED configVars

\* Its models go with it; delete_provider forgets the key when the row is gone.
RemoveProvider(c) ==
    /\ request[c].op = "delete provider"
    /\ LET p == request[c].p
       IN  /\ providers' = providers \ {p}
           /\ owner' = [m \in Model |-> IF owner[m] = p THEN None ELSE owner[m]]
    /\ Continues(c, [request[c] EXCEPT !.op = "forget key"]) /\ Commits(c)
    /\ UNCHANGED <<used, capabilities, agents, default, secrets>>
    /\ UNCHANGED projectVars /\ UNCHANGED configVars

ForgetKey(c) ==
    /\ request[c].op = "forget key"
    /\ secrets' = secrets \ {request[c].p}
    /\ Continues(c, Idle) /\ Commits(c)
    /\ UNCHANGED catalogVars /\ UNCHANGED projectVars /\ UNCHANGED configVars

AddModel(c, m, p) ==
    /\ m \notin used /\ p \in providers
    /\ used' = used \cup {m}
    /\ owner' = [owner EXCEPT ![m] = p]
    /\ Sends(c, Idle) /\ Commits(c)
    /\ UNCHANGED <<providers, capabilities, agents, default, secrets>>
    /\ UNCHANGED projectVars /\ UNCHANGED configVars

CheckModel(c, m) ==
    /\ owner[m] # None /\ ~InUse(m)
    /\ Sends(c, [Idle EXCEPT !.op = "delete model", !.m = m])
    /\ UNCHANGED <<secrets, raced>>
    /\ UNCHANGED catalogVars /\ UNCHANGED projectVars /\ UNCHANGED configVars

RemoveModel(c) ==
    /\ request[c].op = "delete model"
    /\ owner' = [owner EXCEPT ![request[c].m] = None]
    /\ Continues(c, Idle) /\ Commits(c)
    /\ UNCHANGED <<used, providers, capabilities, agents, default, secrets>>
    /\ UNCHANGED projectVars /\ UNCHANGED configVars

(***************************************************************************)
(* Agents and capabilities.                                                *)
(***************************************************************************)
\* _to_spec: what is supplied must exist, and fit together. An agent may stay
\* unbound.
Resolves(p, m) ==
    /\ p # None => p \in providers
    /\ m # None => owner[m] # None
    /\ p # None /\ m # None => owner[m] = p

\* What the form holds may be older than the rows: it is checked first.
CheckAgent(c, a, p, m, covers) ==
    /\ a \notin used \/ Exists(a)
    /\ covers \subseteq capabilities
    /\ Resolves(p, m)
    /\ used' = used \cup {a}
    /\ Sends(c, [Idle EXCEPT !.op = IF Exists(a) THEN "save agent" ELSE "add agent",
                             !.a = a, !.p = p, !.m = m, !.covers = covers])
    /\ UNCHANGED <<providers, owner, capabilities, agents, default, secrets, raced>>
    /\ UNCHANGED projectVars /\ UNCHANGED configVars

\* An update of an agent that is gone, or a capability that is gone, is refused.
SaveAgent(c) ==
    /\ request[c].op \in {"add agent", "save agent"}
    /\ LET r == request[c]
           accepted == r.covers \subseteq capabilities /\ (r.op = "save agent" => Exists(r.a))
       IN  agents' = IF ~accepted THEN agents
                     ELSE [agents EXCEPT ![r.a] = [provider |-> r.p, model |-> r.m,
                                                   covers |-> r.covers]]
    /\ Continues(c, Idle) /\ Commits(c)
    /\ UNCHANGED <<used, providers, owner, capabilities, default, secrets>>
    /\ UNCHANGED projectVars /\ UNCHANGED configVars

\* The plans that the scan reads: _NONTERMINAL_PLAN_REF_SQL skips what is done or failed.
Scanned == {j \in Project : plans[j] # None /\ plans[j].phase # "ended"}

\* SqliteAgentRepository.delete: refused while a task of one of them has it as its
\* agent_id. (The pattern does not match role_agent_ids.)
CheckUnnamed(c, a) ==
    /\ Exists(a)
    /\ \A j \in Scanned : a \notin plans[j].named
    /\ Sends(c, [Idle EXCEPT !.op = "delete agent", !.a = a])
    /\ UNCHANGED <<secrets, raced>>
    /\ UNCHANGED catalogVars /\ UNCHANGED projectVars /\ UNCHANGED configVars

\* The marker goes with the row.
RemoveAgent(c) ==
    /\ request[c].op = "delete agent"
    /\ LET a == request[c].a
       IN  /\ agents' = [agents EXCEPT ![a] = None]
           /\ default' = IF default = a THEN None ELSE default
    /\ Continues(c, Idle) /\ Commits(c)
    /\ UNCHANGED <<used, providers, owner, capabilities, secrets>>
    /\ UNCHANGED projectVars /\ UNCHANGED configVars

CheckDefault(c, a) ==
    /\ Exists(a)
    /\ Sends(c, [Idle EXCEPT !.op = "set default", !.a = a])
    /\ UNCHANGED <<secrets, raced>>
    /\ UNCHANGED catalogVars /\ UNCHANGED projectVars /\ UNCHANGED configVars

\* One transaction clears every marker and sets this agent's, if it has a row.
SetDefault(c) ==
    /\ request[c].op = "set default"
    /\ default' = IF Exists(request[c].a) THEN request[c].a ELSE None
    /\ Continues(c, Idle) /\ Commits(c)
    /\ UNCHANGED <<used, providers, owner, capabilities, agents, secrets>>
    /\ UNCHANGED projectVars /\ UNCHANGED configVars

AddCapability(c, k) ==
    /\ k \notin capabilities
    /\ capabilities' = capabilities \cup {k}
    /\ Sends(c, Idle) /\ Commits(c)
    /\ UNCHANGED <<used, providers, owner, agents, default, secrets>>
    /\ UNCHANGED projectVars /\ UNCHANGED configVars

\* The link of an agent restricts it, by the guard and by the foreign key. (So does a plan
\* that mentions it, which is left out: more is deleted here than there.)
DeleteCapability(c, k) ==
    /\ k \in capabilities
    /\ \A a \in Agent : Exists(a) => k \notin agents[a].covers
    /\ capabilities' = capabilities \ {k}
    /\ Sends(c, Idle) /\ Commits(c)
    /\ UNCHANGED <<used, providers, owner, agents, default, secrets>>
    /\ UNCHANGED projectVars /\ UNCHANGED configVars

(***************************************************************************)
(* Projects and forges.                                                    *)
(***************************************************************************)
AddProject(c, j) ==
    /\ j \notin used
    /\ used' = used \cup {j} /\ projects' = projects \cup {j}
    /\ Sends(c, Idle) /\ Commits(c)
    /\ UNCHANGED <<providers, owner, capabilities, agents, default, forges, plans, secrets>>
    /\ UNCHANGED configVars

\* "Its config scope values remain", and so does its token. The foreign key of its plan
\* restricts it.
DeleteProject(c, j) ==
    /\ j \in projects /\ plans[j] = None
    /\ projects' = projects \ {j}
    /\ Sends(c, Idle) /\ Commits(c)
    /\ UNCHANGED <<forges, plans, secrets>> /\ UNCHANGED catalogVars /\ UNCHANGED configVars

\* set_forge_binding: the token is stored once the forge has accepted it, then the
\* binding is written. (Key by key; it is there while all three keys are.)
BindForge(c, j) ==
    /\ j \in projects
    /\ secrets' = secrets \cup {j}
    /\ Sends(c, [Idle EXCEPT !.op = "bind", !.j = j]) /\ Commits(c)
    /\ UNCHANGED catalogVars /\ UNCHANGED projectVars /\ UNCHANGED configVars

WriteBinding(c) ==
    /\ request[c].op = "bind"
    /\ forges' = forges \cup {request[c].j}
    /\ Continues(c, Idle) /\ Commits(c)
    /\ UNCHANGED <<projects, plans, secrets>> /\ UNCHANGED catalogVars /\ UNCHANGED configVars

\* delete_forge_binding: the binding first, then the token.
UnbindForge(c, j) ==
    /\ forges' = forges \ {j}
    /\ Sends(c, [Idle EXCEPT !.op = "unbind", !.j = j]) /\ Commits(c)
    /\ UNCHANGED <<projects, plans, secrets>> /\ UNCHANGED catalogVars /\ UNCHANGED configVars

ForgetToken(c) ==
    /\ request[c].op = "unbind"
    /\ secrets' = secrets \ {request[c].j}
    /\ Continues(c, Idle) /\ Commits(c)
    /\ UNCHANGED catalogVars /\ UNCHANGED projectVars /\ UNCHANGED configVars

(***************************************************************************)
(* Plans: one for each project, opened from a brief; its tasks name agents. *)
(***************************************************************************)
NewPlan == [named |-> {}, authors |-> {}, phase |-> "open"]

\* create (lifecycle.py) looks for the project first.
CheckProject(c, j) ==
    /\ j \in projects
    /\ Sends(c, [Idle EXCEPT !.op = "open plan", !.j = j])
    /\ UNCHANGED <<secrets, raced>>
    /\ UNCHANGED catalogVars /\ UNCHANGED projectVars /\ UNCHANGED configVars

\* open_project_plan: the plan of the project is found, or a new one is saved, which the
\* foreign key refuses when the project has gone.
OpenPlan(c) ==
    /\ request[c].op = "open plan"
    /\ plans' = [plans EXCEPT ![request[c].j] =
                    IF @ = None /\ request[c].j \in projects THEN NewPlan ELSE @]
    /\ Continues(c, Idle) /\ Commits(c)
    /\ UNCHANGED <<projects, forges, secrets>> /\ UNCHANGED catalogVars /\ UNCHANGED configVars

\* delete_plan: its row goes and all that hangs on it, its project stays. (Refused while
\* a worker holds its lease.)
DeletePlan(c, j) ==
    /\ plans[j] # None
    /\ plans' = [plans EXCEPT ![j] = None]
    /\ Sends(c, Idle) /\ Commits(c)
    /\ UNCHANGED <<projects, forges, secrets>> /\ UNCHANGED catalogVars /\ UNCHANGED configVars

\* fail_plan or finish_review: its tasks keep the agents they name.
EndPlan(c, j) ==
    /\ j \in Scanned
    /\ plans' = [plans EXCEPT ![j].phase = "ended"]
    /\ Sends(c, Idle) /\ Commits(c)
    /\ UNCHANGED <<projects, forges, secrets>> /\ UNCHANGED catalogVars /\ UNCHANGED configVars

\* A planner enriches a goal, or an operator has it bound again: the two roles of a task
\* are resolved from the registry, then the plan is saved, if it is still there.
ResolveAgents(c, j, a, t) ==
    /\ plans[j] # None /\ Exists(a) /\ Exists(t)
    /\ Sends(c, [Idle EXCEPT !.op = "name agents", !.j = j, !.a = a, !.t = t])
    /\ UNCHANGED <<secrets, raced>>
    /\ UNCHANGED catalogVars /\ UNCHANGED projectVars /\ UNCHANGED configVars

\* Either makes a plan that has failed a running one.
NameAgents(c) ==
    /\ request[c].op = "name agents"
    /\ LET r == request[c]
       IN  plans' = [plans EXCEPT ![r.j] =
               IF @ = None THEN None
               ELSE [named |-> @.named \cup {r.a}, authors |-> @.authors \cup {r.t},
                     phase |-> IF @.phase = "open" THEN "open" ELSE "revived"]]
    /\ Continues(c, Idle) /\ Commits(c)
    /\ UNCHANGED <<projects, forges, secrets>> /\ UNCHANGED catalogVars /\ UNCHANGED configVars

(***************************************************************************)
(* The config: a key is set to anything, checked by nobody.                *)
(***************************************************************************)
\* A row of ReasonerSection
SaveReasonerKey(c, key, value) ==
    /\ config' = [config EXCEPT ![key] = value] /\ config' # config
    /\ byHand' = TRUE
    /\ Sends(c, Idle) /\ Commits(c)
    /\ UNCHANGED secrets /\ UNCHANGED catalogVars /\ UNCHANGED projectVars

\* RunnerSection and RunnerStep
SaveRunner(c, mode) ==
    /\ config.runner # mode
    /\ config' = [config EXCEPT !.runner = mode]
    /\ Sends(c, Idle) /\ Commits(c)
    /\ UNCHANGED <<secrets, byHand>> /\ UNCHANGED catalogVars /\ UNCHANGED projectVars

\* ReasonerStep: three requests, each sent when the one before has been answered. A
\* model that was chosen, or was configured, stays when another provider is chosen.
PlanProvider(c, p, m) ==
    /\ p \in used /\ m \in used
    /\ config' = [config EXCEPT !.provider = p]
    /\ Sends(c, [Idle EXCEPT !.op = "plan model", !.m = m]) /\ Commits(c)
    /\ UNCHANGED <<secrets, byHand>> /\ UNCHANGED catalogVars /\ UNCHANGED projectVars

PlanModel(c) ==
    /\ request[c].op = "plan model"
    /\ config' = [config EXCEPT !.model = request[c].m]
    /\ Continues(c, [request[c] EXCEPT !.op = "plan mode"]) /\ Commits(c)
    /\ UNCHANGED <<secrets, byHand>> /\ UNCHANGED catalogVars /\ UNCHANGED projectVars

PlanMode(c) ==
    /\ request[c].op = "plan mode"
    /\ config' = [config EXCEPT !.mode = "llm"]
    /\ Continues(c, Idle) /\ Commits(c)
    /\ UNCHANGED <<secrets, byHand>> /\ UNCHANGED catalogVars /\ UNCHANGED projectVars

\* ReasonerStep of tier 0
UseStub(c) ==
    /\ config.mode # "stub"
    /\ config' = [config EXCEPT !.mode = "stub"]
    /\ Sends(c, Idle) /\ Commits(c)
    /\ UNCHANGED <<secrets, byHand>> /\ UNCHANGED catalogVars /\ UNCHANGED projectVars

\* The request fails, the tab is closed or the API stops between two steps.
Dies(c) ==
    /\ request[c].op # "none"
    /\ Continues(c, Idle)
    /\ UNCHANGED <<secrets, raced>>
    /\ UNCHANGED catalogVars /\ UNCHANGED projectVars /\ UNCHANGED configVars

(***************************************************************************)
(* The wizard (setupSteps, nextStep) and the forms of its steps, as the    *)
(* operator finds them when its facts are up to date.                      *)
(***************************************************************************)
Tier == {"tier0", "tier1"}
Bound(a) == Exists(a) /\ agents[a].provider # None /\ agents[a].model # None

\* Not the code: the agent is asked for before there is anything to bind it to.
StepsAgentFirst(tier) ==
    <<"agent">> \o (IF tier = "tier1" THEN <<"provider", "model">> ELSE <<>>)
    \o <<"default agent", "reasoner", "runner", "project">>

Steps(tier) ==
    IF tier = "tier1"
    THEN <<"provider", "model", "agent", "default agent", "reasoner", "runner", "project">>
    ELSE <<"agent", "default agent", "reasoner", "runner", "project">>

Done(step, tier) ==
    CASE step = "provider" -> providers # {}
      [] step = "model"    -> \E m \in Model : owner[m] # None
      [] step = "agent"    -> \E a \in Agent : IF tier = "tier1" THEN Bound(a) ELSE Exists(a)
      [] step = "default agent" -> default # None
      [] step = "reasoner" ->
            IF tier = "tier1"
            THEN config.mode = "llm" /\ config.provider # None /\ config.model # None
            ELSE config.mode = "stub"
      [] step = "runner"   -> config.runner = IF tier = "tier1" THEN "real" ELSE "dry-run"
      [] step = "project"  -> projects # {}

\* The steps that are left, by their place; when none is, the install "can run".
Left(tier) == {i \in DOMAIN Steps(tier) : ~Done(Steps(tier)[i], tier)}

\* nextStep: the first of them, if there is one.
NextStep(tier) == {Steps(tier)[i] : i \in {k \in Left(tier) : \A j \in Left(tier) : k <= j}}

\* A model is added to one of the providers.
ModelForm == providers

\* On tier 1 an agent is created with a provider and one of its models.
AgentForm(tier) ==
    IF tier = "tier1" THEN {pm \in Provider \X Model : owner[pm[2]] = pm[1]} ELSE {<<None, None>>}

DefaultAgentForm == {a \in Agent : Exists(a)}

\* On tier 1 what is configured already may stay, a model whatever the provider.
ReasonerForm(tier) ==
    IF tier = "tier1"
    THEN {pm \in Provider \X Model :
             /\ pm[1] \in providers \/ config.provider = pm[1]
             /\ owner[pm[2]] = pm[1] \/ config.model = pm[2]}
    ELSE {<<None, None>>}

CanSubmit(step, tier) ==
    CASE step = "model"         -> ModelForm # {}
      [] step = "agent"         -> AgentForm(tier) # {}
      [] step = "default agent" -> DefaultAgentForm # {}
      [] step = "reasoner"      -> ReasonerForm(tier) # {}
      [] OTHER                  -> TRUE

(***************************************************************************)
(* The settings sections. A list or a select shows rows that were there    *)
(* when they were fetched, and a form keeps what was chosen before.        *)
(***************************************************************************)
Listed(rows) == rows \cap used

ProviderDialog(c) == \E p \in Provider : StoreKey(c, p) \/ ReadProvider(c, p)
ProviderCard(c)   == \E p \in Listed(Provider) : CheckProvider(c, p)
ModelList(c)      == \E m \in Model, p \in Listed(Provider) : AddModel(c, m, p)
ModelRow(c)       == \E m \in Listed(Model) : CheckModel(c, m)

\* The binding that the fieldset of the runtime may hold: the model stays when another
\* provider is chosen, and both stay, hidden, for a dry run.
RuntimeFields == [provider : Listed(Provider) \cup {None}, model : Listed(Model) \cup {None}]

AgentDialog(c) ==
    \E a \in Agent, fields \in RuntimeFields, covers \in SUBSET Capability :
        CheckAgent(c, a, fields.provider, fields.model, covers)

AgentCard(c) ==
    \E a \in Listed(Agent) : CheckUnnamed(c, a) \/ (default # a /\ CheckDefault(c, a))

CapabilityDialog(c)    == \E k \in Capability : AddCapability(c, k)
CapabilitiesSection(c) == \E k \in Capability : DeleteCapability(c, k)

\* The wizard of a new project binds its forge once the project is there; a project that
\* is renamed keeps its row.
ProjectWizard(c)   == \E j \in Project : AddProject(c, j) \/ BindForge(c, j)
ProjectsSection(c) == \E j \in Project : DeleteProject(c, j)

\* Plans.tsx: the composer of a new plan, in which a project can be created too, and the
\* list.
PlanComposer(c) == \E j \in Project : (j \in used /\ CheckProject(c, j)) \/ AddProject(c, j)
PlanList(c)     == \E j \in Listed(Project) : DeletePlan(c, j)

\* A row of the section offers the providers, and the models of the provider that is
\* selected in the other row, saved or not.
ReasonerSection(c) ==
    \/ \E mode \in {"stub", "llm"} : SaveReasonerKey(c, "mode", mode)
    \/ \E p \in Listed(Provider) : SaveReasonerKey(c, "provider", p)
    \/ \E m \in Listed(Model) : SaveReasonerKey(c, "model", m)

RunnerSection(c) == \E mode \in {"dry-run", "real"} : SaveRunner(c, mode)

\* The wizard's form of the reasoner
ReasonerStep(c) ==
    \/ \E p \in Provider, m \in Model : PlanProvider(c, p, m)
    \/ PlanModel(c) \/ PlanMode(c) \/ UseStub(c)

(***************************************************************************)
(* An empty install, or one that "praxis seed demo" has filled, with the   *)
(* stub or with a provider. (Of its two agents, the default one.)          *)
(***************************************************************************)
Empty ==
    /\ used = {} /\ providers = {} /\ owner = [m \in Model |-> None]
    /\ capabilities = {} /\ agents = [a \in Agent |-> None] /\ default = None
    /\ secrets = {}
    /\ config = [mode |-> "stub", provider |-> None, model |-> None, runner |-> "dry-run"]

Seeded(p, m, a) ==
    /\ used = {p, m, a} \ {None} /\ providers = {p} \ {None} /\ secrets = {p} \ {None}
    /\ owner = [x \in Model |-> IF x = m THEN p ELSE None]
    /\ capabilities = Capability /\ default = a
    /\ agents = [x \in Agent |->
           IF x = a THEN [provider |-> p, model |-> m, covers |-> Capability] ELSE None]
    /\ config = [mode |-> IF p = None THEN "stub" ELSE "llm",
                 provider |-> p, model |-> m, runner |-> "dry-run"]

Init ==
    /\ \/ Empty
       \/ \E a \in Agent : \/ Seeded(None, None, a)
                          \/ \E p \in Provider, m \in Model : Seeded(p, m, a)
    /\ projects = {} /\ forges = {} /\ plans = [j \in Project |-> None]
    /\ request = [c \in Client |-> Idle]
    /\ raced = FALSE /\ byHand = FALSE /\ sent = 0

Form(c) ==
    \/ ProviderDialog(c) \/ ProviderCard(c) \/ ModelList(c) \/ ModelRow(c)
    \/ AgentDialog(c) \/ AgentCard(c) \/ CapabilityDialog(c) \/ CapabilitiesSection(c)
    \/ ProjectWizard(c) \/ ProjectsSection(c)
    \/ PlanComposer(c) \/ PlanList(c)
    \/ ReasonerSection(c) \/ RunnerSection(c) \/ ReasonerStep(c)

\* The rest of a request.
Finishes(c) ==
    \/ AddProvider(c) \/ RotateKey(c) \/ SaveProvider(c) \/ RemoveProvider(c) \/ ForgetKey(c)
    \/ RemoveModel(c) \/ SaveAgent(c) \/ RemoveAgent(c) \/ SetDefault(c)
    \/ WriteBinding(c) \/ ForgetToken(c) \/ OpenPlan(c) \/ NameAgents(c)

\* What happens to a plan of a project, for these rows.
PlanGoesOn(c, j) == EndPlan(c, j) \/ \E a, t \in Agent : ResolveAgents(c, j, a, t)

\* No form unbinds a forge, the API does; a planner is one more client of the rows.
Next == \E c \in Client :
    \/ Form(c) \/ Finishes(c) \/ Dies(c)
    \/ \E j \in Project : UnbindForge(c, j) \/ PlanGoesOn(c, j)

Spec == Init /\ [][Next]_vars

(***************************************************************************)
(* Properties.                                                             *)
(***************************************************************************)
TypeOK ==
    /\ used \subseteq Provider \cup Model \cup Agent \cup Project
    /\ providers \subseteq Provider /\ owner \in [Model -> providers \cup {None}]
    /\ capabilities \subseteq Capability /\ agents \in [Agent -> Binding \cup {None}]
    /\ default \in Agent \cup {None} /\ projects \subseteq Project /\ forges \subseteq Project
    /\ plans \in [Project -> Plan \cup {None}]
    /\ secrets \subseteq Provider \cup Project /\ config \in Config
    /\ request \in [Client -> Request] /\ raced \in BOOLEAN /\ byHand \in BOOLEAN
    /\ sent \in 0..MaxRequests

\* Whatever two tabs do, and wherever a request dies, a provider that is listed has its
\* key (create_provider and delete_provider write two stores in two transactions).
\* A forge binding has its token, unless two requests overlapped.
CredentialsInPlace ==
    /\ providers \subseteq secrets
    /\ ~raced => forges \subseteq secrets

\* The plans that have been open all along.
InProgress == {j \in Project : plans[j] # None /\ plans[j].phase = "open"}

\* What an agent is bound to exists and fits together, and the implementer that a task of
\* a plan in progress names exists, through every guard, cascade and reconciliation.
\* Two requests that overlap can break it, because each guard is read before the change
\* it guards; and nothing guards the agents of a plan that has ended, even if the plan
\* is taken up again later.
BindingsResolve ==
    /\ default # None => Exists(default)
    /\ ~raced =>
           /\ \A a \in Agent : Exists(a) =>
                  /\ Resolves(agents[a].provider, agents[a].model)
                  /\ agents[a].covers \subseteq capabilities
           /\ \A j \in InProgress : \A a \in plans[j].named : Exists(a)

\* The guard of SqliteAgentRepository.delete as its module states it: an agent that
\* something active refers to is not deleted, and the scan misses nothing. (It does not
\* hold: the author of a task's tests is dispatched by role_agent_ids, which the scan
\* does not read.)
AuthorsExist ==
    ~raced => \A j \in InProgress : \A a \in plans[j].authors : Exists(a)

\* The wizard asks in an order that can be followed: the form it shows can be
\* submitted; it never leaves the reasoner on a model it has not been given
\* ("mode last"), and what it calls ready has an agent that is bound.
WizardInOrder ==
    /\ \A tier \in Tier : \A step \in NextStep(tier) : CanSubmit(step, tier)
    /\ config.mode = "llm" /\ ~byHand => config.provider # None /\ config.model # None
    /\ Left("tier1") = {} => \E a \in Agent : Bound(a) /\ (~raced => agents[a].provider \in providers)
=============================================================================
