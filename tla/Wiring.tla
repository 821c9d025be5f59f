------------------------------- MODULE Wiring -------------------------------
(***************************************************************************)
(* How a process is put together before its first run: default_container   *)
(* binds and freezes (container/defaults.py), the application registers    *)
(* its agents (agent/registry.py), and bind_agent_registry lays voussoir's *)
(* yaml, the plugins and the environment over them (agent/bootstrap.py,    *)
(* plugins.py), rebuilding an agent for each override                      *)
(* (agent/agent_builder.py).  An application may load more than once.      *)
(***************************************************************************)
EXTENDS Naturals, FiniteSets

CONSTANTS
    Name,           \* agents' names
    Plugin,         \* entry points of the group voussoir.delegates
    Provides,       \* Provides[p]: the name of the delegate p returns
    Reach,          \* what a plugin's factory may try to do to the container: a key it
                    \* binds, or one of Meddling
    Arguments,      \* sets of keys a host may give default_container an argument for
    Optional,       \* the keys only the bind_* helpers bind
    ApiKeys,        \* sets of API keys that may be in the environment
    Built,          \* sets of fields the application may set on an Agent
    Yaml,           \* yaml files: [Name -> fields the entry sets, {} if there is none]
    Environ,        \* environments: [Name -> [Field -> {"unset", "good", "bad"}]]
    Allowed,        \* allow-lists of plugins' delegates
    MaxLoads,       \* bound: calls of bind_agent_registry
    NoAgent

\* "prompt" is system_prompt, "steps" a budget of the policy, "caps" the mask.
Field == {"prompt", "steps", "caps"}

\* The protocols default_container binds.
Key == {"authorizer", "keys", "sink", "llm", "memory", "sessions", "executor", "chain",
        "embedder"}

\* What a factory can do to the registry: add to it, replace what is in it, bind another.
Meddling == {"register", "replace", "rebind"}

\* A delegate in the registry: who made it, whether it is a local Agent, the fields its
\* maker set, the layer that set each field last, and whether it still has an executor,
\* a guard chain or middleware of its own.
Maker == {"app", "yaml", "factory"}
Delegate == [by : Maker \cup Plugin, local : BOOLEAN, made : SUBSET Field, own : BOOLEAN,
             value : [Field -> {"default", "code", "yaml", "env"}]]

ASSUME WiringAssumption ==
    /\ NoAgent \notin Delegate /\ Maker \cap Plugin = {}
    /\ Provides \in [Plugin -> Name]
    /\ Reach \subseteq Key \cup Optional \cup Meddling
    /\ ApiKeys \subseteq SUBSET {"anthropic", "openai", "openrouter"}
    /\ Arguments \subseteq SUBSET Key /\ Optional \cap Key = {}
    /\ Built \subseteq SUBSET Field /\ Yaml \subseteq [Name -> SUBSET Field]
    /\ Environ \subseteq [Name -> [Field -> {"unset", "good", "bad"}]]
    /\ Allowed \subseteq SUBSET Name
    /\ MaxLoads \in Nat

VARIABLES
    pc,        \* bare, app (the application's code runs), yaml, plugins, env, loaded, failed
    guarded,   \* the container is default_container's
    bound,     \* bound[k]: who chose what k is bound to
    frozen,    \* keys that may not be rebound
    given,     \* keys default_container got as arguments (history)
    yaml, environ, allowed,   \* what this process is configured with
    registry,  \* registry[n]: the delegate registered as n, or NoAgent, in the registry that
               \* the container binds
    strayed,   \* a factory has bound another one than the loader was given
    meddled,   \* names whose delegate a factory of the latest load put away by its own
               \* hand (history)
    todo,      \* entries, entry points or variables the load has still to go through
    loads,     \* calls of bind_agent_registry
    cause      \* what raised

config == <<yaml, environ, allowed>>
container == <<guarded, bound, frozen, given>>
meddling == <<strayed, meddled>>
vars == <<pc, container, config, registry, meddling, todo, loads, cause>>

Agent(by, S, own) ==
    [by |-> by, local |-> TRUE, made |-> S, own |-> own,
     value |-> [f \in Field |-> IF f \in S THEN "code" ELSE "default"]]
Remote(by) == [Agent(by, {}, FALSE) EXCEPT !.local = FALSE]
NoRegistry == [n \in Name |-> NoAgent]

Init ==
    /\ pc = "bare" /\ guarded = FALSE
    /\ bound = [k \in Key \cup Optional |-> "none"]
    /\ frozen = {} /\ given = {}
    /\ yaml \in Yaml /\ environ \in Environ /\ allowed \in Allowed
    /\ registry = NoRegistry /\ strayed = FALSE /\ meddled = {}
    /\ todo = {} /\ loads = 0 /\ cause = "none"
-----------------------------------------------------------------------------
(* The container.                                                          *)

\* The first provider the environment has a key for.
Provider(keys) ==
    CASE "anthropic" \in keys -> "anthropic"
      [] "anthropic" \notin keys /\ "openai" \in keys -> "openai"
      [] OTHER -> "openrouter"
\* With an OpenAI key its embedder, else the local one if installed, else the fake.
Embedders(keys) == IF "openai" \in keys THEN {"openai"} ELSE {"local", "fake"}

\* Faulty variants: the guard chain is left out of the freeze; a default wins.
SecuredButChain == Key \ {"embedder", "chain"}
ChoosesDefault(k, S, keys) == "default"
Secured == Key \ {"embedder"}
Chooses(k, S, keys) ==
    IF k \in S THEN "host" ELSE IF k = "llm" THEN Provider(keys) ELSE "default"

\* default_container(...), with arguments for S: no model and no API key is an error.
DefaultContainer(S, keys) ==
    /\ pc = "bare"
    /\ IF "llm" \notin S /\ keys = {}
       THEN /\ pc' = "failed" /\ cause' = "no_llm"
            /\ UNCHANGED container
       ELSE /\ pc' = "app" /\ guarded' = TRUE /\ given' = S /\ frozen' = Secured
            /\ \E e \in Embedders(keys) :
                  bound' = [k \in Key \cup Optional |->
                      CASE k \in Optional -> "none"
                        [] k = "embedder" /\ k \notin S -> e
                        [] OTHER -> Chooses(k, S, keys)]
            /\ UNCHANGED cause
    /\ UNCHANGED <<config, meddling, registry, todo, loads>>

\* An application wires a Container() of its own.
OwnContainer ==
    /\ pc = "bare"
    /\ pc' = "app"
    /\ bound' = [k \in Key \cup Optional |-> IF k \in Key THEN "host" ELSE "none"]
    /\ UNCHANGED <<guarded, frozen, given, config, meddling, registry, todo, loads, cause>>

Binds(S, who) == bound' = [k \in DOMAIN bound |-> IF k \in S THEN who ELSE bound[k]]

\* bind_postgres_memory, bind_sqlite_memory, and the helpers for an optional key: on a
\* default container the first two raise, and the application goes on without.
TierUp(S) ==
    /\ pc = "app" /\ S \cap frozen = {}
    /\ Binds(S, "host")
    /\ UNCHANGED <<pc, guarded, frozen, given, config, meddling, registry, todo, loads, cause>>
-----------------------------------------------------------------------------
(* Agents and their registry.                                              *)

\* register_agent: a name that is taken is refused.
Register(n, S) ==
    /\ pc = "app" /\ registry[n] = NoAgent
    /\ registry' = [registry EXCEPT ![n] = Agent("app", S, TRUE)]
    /\ UNCHANGED <<pc, container, config, meddling, todo, loads, cause>>

\* Faulty variant: build() forwards no budget.
LayeredNoBudget(a, S, layer) ==
    [a EXCEPT !.value = [f \in Field |-> IF f \in S \ {"steps"} THEN layer ELSE @[f]]]
\* apply_config: the fields the layer sets, over those the builder has.
Layered(a, S, layer) ==
    [a EXCEPT !.value = [f \in Field |-> IF f \in S THEN layer ELSE @[f]]]
\* from_agent(a).apply_config(...).build(): a new Agent with a's fields, of which an
\* executor and a guard chain of its own are not any.
Rebuilt(a, S, layer) == [Layered(a, S, layer) EXCEPT !.own = FALSE]

Raises(why) == pc' = "failed" /\ cause' = why /\ UNCHANGED <<registry, todo>>

\* bind_agent_registry reads the yaml file, if there is one.
Load ==
    /\ pc = "app" /\ loads < MaxLoads
    /\ loads' = loads + 1 /\ strayed' = FALSE /\ meddled' = {}
    /\ pc' = "yaml" /\ todo' = {n \in Name : yaml[n] # {}}
    /\ UNCHANGED <<container, config, registry, cause>>

Defined(n) == Layered(Agent("yaml", {}, FALSE), yaml[n], "yaml")

\* One entry: it overrides an agent, is skipped for a delegate that is not one, or
\* defines a new one, which needs a prompt.
Entry(n) ==
    /\ pc = "yaml" /\ n \in todo
    /\ CASE registry[n] = NoAgent /\ "prompt" \notin yaml[n] -> Raises("yaml")
         [] registry[n] = NoAgent /\ "prompt" \in yaml[n] ->
               /\ registry' = [registry EXCEPT ![n] = Defined(n)]
               /\ todo' = todo \ {n} /\ UNCHANGED <<pc, cause>>
         [] OTHER ->
               /\ registry' = IF registry[n].local
                              THEN [registry EXCEPT ![n] = Rebuilt(@, yaml[n], "yaml")] ELSE registry
               /\ todo' = todo \ {n} /\ UNCHANGED <<pc, cause>>
    /\ UNCHANGED <<container, config, meddling, loads>>

EntriesDone ==
    /\ pc = "yaml" /\ todo = {}
    /\ pc' = "plugins" /\ todo' = Plugin
    /\ UNCHANGED <<container, config, meddling, registry, loads, cause>>
-----------------------------------------------------------------------------
(* Plugins.                                                                *)

\* What a factory does to the container before it returns stays when it raises
\* afterwards; a frozen key refuses.
SideEffects(s) ==
    /\ bound' = IF s \in DOMAIN bound \ frozen THEN [bound EXCEPT ![s] = "plugin"] ELSE bound
    /\ UNCHANGED <<guarded, frozen, given>>
\* The container gives it the registry too, which is not frozen: register_agent refuses a
\* name that is taken, replace() does not, and bind(AgentRegistry, ...) leaves nothing of
\* the one that was bound.
OfFactory == {Remote("factory"), Agent("factory", {"prompt"}, FALSE)}
Handiwork(s) ==
    CASE s = "register" -> {registry} \cup
             {[registry EXCEPT ![n] = d] : n \in {m \in Name : registry[m] = NoAgent}, d \in OfFactory}
      [] s = "replace" -> {[registry EXCEPT ![n] = d] : n \in Name, d \in OfFactory}
      [] s = "rebind" -> {NoRegistry} \cup {[NoRegistry EXCEPT ![n] = d] : n \in Name, d \in OfFactory}
      [] OTHER -> {registry}
PutAway(r) == {n \in Name : registry[n] # NoAgent /\ r[n] # registry[n]}

\* Faulty variants: a name that is taken, or one that is not on the list.
TakesAny(p, r) == Provides[p] \in allowed
TakesUnlisted(p, r) == r[Provides[p]] = NoAgent
Takes(p, r) == Provides[p] \in allowed /\ r[Provides[p]] = NoAgent

\* One entry point: it does not load, or its factory raises or returns no delegate; or
\* it returns an AgentRef or an Agent, which is added if it is allowed and its name free.
\* The loader adds to the registry it was given: once that is not the container's any
\* more, nobody will find there what it adds.
LoadPlugin(p, s) ==
    /\ pc = "plugins" /\ p \in todo
    /\ todo' = todo \ {p}
    /\ SideEffects(s)
    /\ strayed' = (strayed \/ s = "rebind")
    /\ \E r \in Handiwork(s), d \in {Remote(p), Agent(p, {"prompt"}, FALSE), NoAgent} :
          /\ meddled' = meddled \cup PutAway(r)
          /\ registry' = IF d # NoAgent /\ ~strayed' /\ Takes(p, r)
                         THEN [r EXCEPT ![Provides[p]] = d] ELSE r
    /\ UNCHANGED <<pc, config, loads, cause>>

Variables == {v \in Name \X Field : environ[v[1]][v[2]] # "unset"}

PluginsDone ==
    /\ pc = "plugins" /\ todo = {}
    /\ pc' = "env" /\ todo' = Variables
    /\ UNCHANGED <<container, config, meddling, registry, loads, cause>>
-----------------------------------------------------------------------------
(* Environment overrides, which come last.                                 *)

\* A budget that is no number is skipped, while any text is a prompt.
Valid(n, f) == environ[n][f] = "good" \/ (f = "prompt" /\ environ[n][f] = "bad")
Local(n) == registry[n] # NoAgent /\ registry[n].local

\* One variable.  It is skipped for a name that is not registered and for a delegate
\* that is no local Agent; an unknown capability is found out only when the agent is
\* rebuilt, past the checks that skip, and raises.
Override(n, f) ==
    /\ pc = "env" /\ <<n, f>> \in todo
    /\ IF Local(n) /\ f = "caps" /\ ~Valid(n, f)
       THEN Raises("environment")
       ELSE /\ registry' = IF Local(n) /\ Valid(n, f)
                           THEN [registry EXCEPT ![n] = Rebuilt(@, {f}, "env")] ELSE registry
            /\ todo' = todo \ {<<n, f>>} /\ UNCHANGED <<pc, cause>>
    /\ UNCHANGED <<container, config, meddling, loads>>

OverridesDone ==
    /\ pc = "env" /\ todo = {}
    /\ pc' = "loaded"
    /\ UNCHANGED <<container, config, meddling, registry, todo, loads, cause>>

Continue ==
    /\ pc = "loaded"
    /\ pc' = "app"
    /\ UNCHANGED <<container, config, meddling, registry, todo, loads, cause>>

Next ==
    \/ \E S \in Arguments, keys \in ApiKeys : DefaultContainer(S, keys)
    \/ OwnContainer \/ Load \/ EntriesDone \/ PluginsDone \/ OverridesDone \/ Continue
    \/ \E S \in {{"memory", "sessions"}, {"memory"}} \cup {{k} : k \in Optional} : TierUp(S)
    \/ \E n \in Name, S \in Built : Register(n, S)
    \/ \E n \in Name : Entry(n)
    \/ \E p \in Plugin, s \in Reach \cup {"nothing"} : LoadPlugin(p, s)
    \/ \E n \in Name, f \in Field : Override(n, f)

Spec == Init /\ [][Next]_vars
-----------------------------------------------------------------------------
\* Every variable keeps its type.
TypeOK ==
    /\ pc \in {"bare", "app", "yaml", "plugins", "env", "loaded", "failed"}
    /\ bound \in [Key \cup Optional -> {"none", "host", "default", "plugin", "local", "fake",
                                       "anthropic", "openai", "openrouter"}]
    /\ guarded \in BOOLEAN /\ frozen \subseteq Key /\ given \subseteq Key
    /\ registry \in [Name -> Delegate \cup {NoAgent}]
    /\ strayed \in BOOLEAN /\ meddled \subseteq Name
    /\ loads \in 0..MaxLoads

\* On a container default_container made, each protocol a run is guarded by is, for
\* good, what the host passed for it, and the default where it passed nothing: neither
\* a plugin's factory nor a later bind helper replaces it (defaults.py:60-88, 111-135).
ChoicesStand == guarded =>
    \A k \in {"authorizer", "keys", "sink", "llm", "memory", "sessions", "executor", "chain"} :
        /\ bound[k] # "plugin"
        /\ bound[k] = "host" <=> k \in given

\* After a load, each field of a registered Agent comes from the highest layer that has
\* it: the environment, then yaml, then whoever made the agent - after a second load as
\* after the first, and whichever other variables the rebuilds went through
\* (bootstrap.py:186-187, 247-249; agent_builder.py:48-74).  Only what a factory itself
\* put where yaml's agent was never had yaml's fields.
Precedence == pc = "loaded" =>
    \A n \in Name, f \in Field : Local(n) =>
        registry[n].value[f] =
            CASE Valid(n, f) -> "env"
              [] ~Valid(n, f) /\ f \in yaml[n] /\ n \notin meddled -> "yaml"
              [] OTHER -> IF f \in registry[n].made THEN "code" ELSE "default"

\* A name that is registered stays its delegate's through every load, whatever entry
\* points return it, and one the loader added for a plugin is on the allow-list
\* (plugins.py:45-55).  Only a factory's own hand puts a delegate away, by replace() or
\* by binding another registry; then its own is there, or none: no plugin's that the
\* loader took.
ApplicationWins ==
    [][/\ \A n \in Name : registry[n] # NoAgent =>
             \/ registry'[n] # NoAgent /\ registry'[n].by = registry[n].by
             \/ n \in meddled' /\ (registry'[n] # NoAgent => registry'[n].by = "factory")
       /\ \A n \in Name : registry'[n] # NoAgent =>
             registry'[n].by \notin Plugin \/ n \in allowed]_vars

\* "A bad override must degrade to skipped, with a warning, like every other one, never
\* take down process startup" (bootstrap.py:132-135).
BadOverridesSkipped == cause # "environment"
=============================================================================
