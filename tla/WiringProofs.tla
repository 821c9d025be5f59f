---------------------------- MODULE WiringProofs ----------------------------
(***************************************************************************)
(* Proofs about how a process is put together: for any agents, plugins,    *)
(* layers and number of loads.                                             *)
(***************************************************************************)
EXTENDS Wiring, TLAPS

\* What a default container guards stays what the host or the default chose: it is
\* frozen from the call on that made the container.
GuardInv ==
    /\ pc = "bare" => ~guarded
    /\ guarded => /\ frozen = Secured
                  /\ \A k \in Secured : bound[k] # "plugin" /\ (bound[k] = "host" <=> k \in given)

Base(n, f) == IF f \in registry[n].made THEN "code" ELSE "default"

\* The yaml entry of n is behind the load that is under way.
Past(n) == pc \in {"plugins", "env", "loaded"} \/ (pc = "yaml" /\ n \notin todo)

\* A field that no layer sets has its base value, one that only yaml sets has yaml's
\* once the entry is past, and one the environment sets its value once that is.  What a
\* factory put where another delegate was has yaml's fields from the next load on.
LayerInv ==
    /\ pc = "yaml" => meddled = {}
    /\ \A n \in Name : Past(n) /\ yaml[n] # {} => registry[n] # NoAgent \/ n \in meddled
    /\ \A n \in Name, f \in Field : Local(n) =>
          /\ f \notin yaml[n] \/ n \in meddled =>
                registry[n].value[f] = Base(n, f) \/ (Valid(n, f) /\ registry[n].value[f] = "env")
          /\ Past(n) /\ f \in yaml[n] /\ n \notin meddled /\ ~Valid(n, f) =>
                registry[n].value[f] = "yaml"
          /\ pc = "env" /\ Valid(n, f) /\ <<n, f>> \notin todo => registry[n].value[f] = "env"
          /\ pc = "loaded" /\ Valid(n, f) => registry[n].value[f] = "env"

\* A delegate a plugin is the maker of is on the allow-list.
ListInv ==
    \A n \in Name : registry[n] # NoAgent => registry[n].by \notin Plugin \/ n \in allowed

Configured ==
    /\ yaml \in [Name -> SUBSET Field] /\ allowed \subseteq Name
    /\ environ \in [Name -> [Field -> {"unset", "good", "bad"}]]

Inv == TypeOK /\ Configured /\ GuardInv /\ LayerInv /\ ListInv
-----------------------------------------------------------------------------
LEMMA AgentTyped ==
    ASSUME NEW by \in Maker \cup Plugin, NEW S \in SUBSET Field, NEW own \in BOOLEAN
    PROVE  /\ Agent(by, S, own) \in Delegate
           /\ Remote(by) \in Delegate
BY DEF Agent, Remote, Delegate

LEMMA RebuiltTyped ==
    ASSUME NEW a \in Delegate, NEW S \in SUBSET Field, NEW layer \in {"yaml", "env"}
    PROVE  /\ Layered(a, S, layer) \in Delegate
           /\ Rebuilt(a, S, layer) \in Delegate
           /\ Rebuilt(a, S, layer).by = a.by
           /\ Rebuilt(a, S, layer).made = a.made
           /\ Rebuilt(a, S, layer).local = a.local
           /\ \A f \in Field : Rebuilt(a, S, layer).value[f] = IF f \in S THEN layer ELSE a.value[f]
BY DEF Layered, Rebuilt, Delegate

LEMMA DefinedTyped ==
    ASSUME Configured, NEW n \in Name
    PROVE  /\ Defined(n) \in Delegate
           /\ Defined(n).by = "yaml" /\ Defined(n).made = {}
           /\ \A f \in Field : Defined(n).value[f] = IF f \in yaml[n] THEN "yaml" ELSE "default"
<1>1. Agent("yaml", {}, FALSE) \in Delegate
    BY AgentTyped DEF Maker
<1> QED
    BY <1>1 DEF Defined, Layered, Agent, Delegate, Configured

LEMMA InitInv == Init => Inv
<1> SUFFICES ASSUME Init PROVE Inv
    OBVIOUS
<1>1. Configured
    BY WiringAssumption DEF Init, Configured
<1>2. TypeOK
  <2>1. guarded \in BOOLEAN /\ strayed \in BOOLEAN
      BY Zenon DEF Init
  <2>2. registry \in [Name -> Delegate \cup {NoAgent}] /\ loads \in 0..MaxLoads
      BY WiringAssumption DEF Init, NoRegistry
  <2> QED
      BY <2>1, <2>2 DEF Init, TypeOK
<1>3. GuardInv /\ LayerInv /\ ListInv
    BY DEF Init, GuardInv, LayerInv, ListInv, Local, Past, NoRegistry
<1> QED
    BY <1>1, <1>2, <1>3 DEF Inv

\* What a step leaves alone keeps its part of the invariant.
LEMMA ContainerKept ==
    ASSUME Inv, UNCHANGED container, pc' # "bare"
    PROVE  GuardInv'
BY DEF Inv, GuardInv, container, Secured

LEMMA ConfigKept == ASSUME Inv, UNCHANGED config PROVE Configured'
BY DEF Inv, Configured, config

LEMMA DefaultContainerInv ==
    ASSUME Inv, NEW S \in Arguments, NEW keys \in ApiKeys, DefaultContainer(S, keys)
    PROVE  Inv'
<1>1. S \subseteq Key
    BY WiringAssumption
<1>2. TypeOK'
  <2>1. guarded' \in BOOLEAN /\ pc' \in {"app", "failed"} /\ frozen' \subseteq Key /\ given' \subseteq Key
      BY <1>1 DEF DefaultContainer, Inv, TypeOK, Secured, container
  <2>2. bound' \in [Key \cup Optional -> {"none", "host", "default", "plugin", "local", "fake",
                                       "anthropic", "openai", "openrouter"}]
    <3>1. CASE UNCHANGED bound
        BY <3>1 DEF Inv, TypeOK
    <3>2. ASSUME NEW e \in Embedders(keys),
                 bound' = [k \in Key \cup Optional |->
                      CASE k \in Optional -> "none"
                        [] k = "embedder" /\ k \notin S -> e
                        [] OTHER -> Chooses(k, S, keys)]
          PROVE  bound' \in [Key \cup Optional -> {"none", "host", "default", "plugin", "local", "fake",
                                       "anthropic", "openai", "openrouter"}]
      <4>1. e \in {"openai", "local", "fake"}
          BY <3>2 DEF Embedders
      <4>2. \A k \in Key : Chooses(k, S, keys) \in {"host", "default", "anthropic", "openai", "openrouter"}
          BY DEF Chooses, Provider
      <4> QED
          BY <3>2, <4>1, <4>2
    <3> QED
        BY <3>1, <3>2 DEF DefaultContainer, container
  <2> QED
      BY <2>1, <2>2 DEF DefaultContainer, Inv, TypeOK, meddling
<1>3. GuardInv'
  <2>1. CASE UNCHANGED container
      BY <2>1, ContainerKept DEF DefaultContainer
  <2>2. CASE ~UNCHANGED container
    <3>1. /\ pc' = "app" /\ given' = S /\ frozen' = Secured
          /\ \E e \in Embedders(keys) :
                bound' = [k \in Key \cup Optional |->
                      CASE k \in Optional -> "none"
                        [] k = "embedder" /\ k \notin S -> e
                        [] OTHER -> Chooses(k, S, keys)]
        BY <2>2 DEF DefaultContainer
    <3>2. \A k \in Secured : bound'[k] = Chooses(k, S, keys)
        BY <3>1, WiringAssumption DEF Secured, Key
    <3>3. \A k \in Secured : Chooses(k, S, keys) # "plugin" /\ (Chooses(k, S, keys) = "host" <=> k \in S)
        BY DEF Chooses, Provider
    <3> QED
        BY <3>1, <3>2, <3>3 DEF GuardInv, Secured
  <2> QED
      BY <2>1, <2>2
<1>4. LayerInv' /\ ListInv'
    BY DEF DefaultContainer, Inv, LayerInv, ListInv, Local, Past, Valid, Base, config, meddling
<1> QED
    BY <1>2, <1>3, <1>4, ConfigKept DEF DefaultContainer, Inv

LEMMA OwnContainerInv == ASSUME Inv, OwnContainer PROVE Inv'
<1>1. TypeOK'
    BY DEF OwnContainer, Inv, TypeOK, meddling
<1>2. GuardInv'
    BY DEF OwnContainer, Inv, GuardInv
<1>3. LayerInv' /\ ListInv'
    BY DEF OwnContainer, Inv, LayerInv, ListInv, Local, Past, Valid, Base, config, meddling
<1> QED
    BY <1>1, <1>2, <1>3, ConfigKept DEF OwnContainer, Inv

LEMMA TierUpInv ==
    ASSUME Inv, NEW S, TierUp(S)
    PROVE  Inv'
<1>1. TypeOK'
    BY DEF TierUp, Binds, Inv, TypeOK, meddling
<1>2. GuardInv'
    BY DEF TierUp, Binds, Inv, TypeOK, GuardInv, Secured
<1>3. LayerInv' /\ ListInv'
    BY DEF TierUp, Inv, LayerInv, ListInv, Local, Past, Valid, Base, config, meddling
<1> QED
    BY <1>1, <1>2, <1>3, ConfigKept DEF TierUp, Inv

LEMMA RegisterInv ==
    ASSUME Inv, NEW n \in Name, NEW S \in Built, Register(n, S)
    PROVE  Inv'
<1> DEFINE a == Agent("app", S, TRUE)
<1>. S \in SUBSET Field
    BY WiringAssumption
<1>0. Agent("app", S, TRUE) \in Delegate
    BY AgentTyped DEF Maker
<1>1. a \in Delegate /\ a # NoAgent
    BY <1>0, WiringAssumption
<1>2. /\ registry' = [registry EXCEPT ![n] = a] /\ registry[n] = NoAgent
      /\ pc = "app"
    BY Zenon DEF Register
<1>. UNCHANGED <<pc, container, config, meddling, todo, loads>>
    BY DEF Register
<1>3. a.by = "app" /\ a.made = S /\ \A f \in Field : a.value[f] = IF f \in S THEN "code" ELSE "default"
    BY DEF Agent
<1> HIDE DEF a
<1>4. TypeOK'
    BY <1>1, <1>2 DEF Inv, TypeOK, container, meddling
<1>5. LayerInv'
    BY <1>1, <1>2, <1>3 DEF Inv, TypeOK, LayerInv, Local, Past, Valid, Base, config, meddling
<1>6. ListInv'
    BY <1>1, <1>2, <1>3, WiringAssumption DEF Inv, TypeOK, ListInv, config, meddling, Maker
<1> QED
    BY <1>2, <1>4, <1>5, <1>6, ConfigKept, ContainerKept DEF Inv

LEMMA LoadInv == ASSUME Inv, Load PROVE Inv'
<1>1. TypeOK'
  <2>1. strayed' \in BOOLEAN
      BY Zenon DEF Load
  <2> QED
      BY <2>1, WiringAssumption DEF Load, Inv, TypeOK, container
<1>2. LayerInv'
    BY DEF Load, Inv, LayerInv, Local, Past, Valid, Base, config, meddling
<1>3. ListInv'
    BY DEF Load, Inv, ListInv, config, meddling
<1> QED
    BY <1>1, <1>2, <1>3, ConfigKept, ContainerKept DEF Load, Inv

LEMMA EntryInv == ASSUME Inv, NEW n \in Name, Entry(n) PROVE Inv'
<1>1. pc = "yaml" /\ n \in todo /\ pc' \in {"yaml", "failed"}
      /\ UNCHANGED <<container, config, meddling, loads>>
    BY DEF Entry, Raises
<1>3. CASE UNCHANGED registry /\ pc' = "failed"
  <2>1. TypeOK'
      BY <1>1, <1>3 DEF Inv, TypeOK, container, meddling
  <2>2. LayerInv' /\ ListInv'
      BY <1>1, <1>3 DEF Inv, LayerInv, ListInv, Local, Past, Valid, Base, config, meddling
  <2> QED
      BY <1>1, <2>1, <2>2, <1>3, ConfigKept, ContainerKept DEF Inv
<1>4. CASE /\ registry[n] = NoAgent /\ registry' = [registry EXCEPT ![n] = Defined(n)]
           /\ todo' = todo \ {n} /\ pc' = pc
  <2> DEFINE a == Defined(n)
  <2>1. /\ a \in Delegate /\ a.by = "yaml" /\ a.made = {}
        /\ \A f \in Field : a.value[f] = IF f \in yaml[n] THEN "yaml" ELSE "default"
      BY DefinedTyped DEF Inv
  <2>2. a # NoAgent
      BY <2>1, WiringAssumption
  <2>3. registry' = [registry EXCEPT ![n] = a]
      BY <1>4
  <2> HIDE DEF a
  <2>4. TypeOK'
      BY <1>1, <1>4, <2>1, <2>3 DEF Inv, TypeOK, container, meddling
  <2>5. LayerInv'
      BY <1>1, <1>4, <2>1, <2>2, <2>3 DEF Inv, TypeOK, LayerInv, Local, Past, Valid, Base, config, meddling
  <2>6. ListInv'
      BY <1>1, <1>4, <2>1, <2>2, <2>3, WiringAssumption DEF Inv, TypeOK, ListInv, config, meddling, Maker
  <2> QED
      BY <1>1, <1>4, <2>4, <2>5, <2>6, ConfigKept, ContainerKept DEF Inv
<1>5. CASE /\ registry[n] # NoAgent /\ todo' = todo \ {n} /\ pc' = pc
           /\ registry' = IF registry[n].local
                          THEN [registry EXCEPT ![n] = Rebuilt(registry[n], yaml[n], "yaml")] ELSE registry
  <2>1. registry[n] \in Delegate /\ yaml[n] \in SUBSET Field
      BY <1>5 DEF Inv, TypeOK, Configured
  <2> DEFINE a == Rebuilt(registry[n], yaml[n], "yaml")
  <2>2. /\ a \in Delegate /\ a.by = registry[n].by /\ a.made = registry[n].made
        /\ a.local = registry[n].local
        /\ \A f \in Field : a.value[f] = IF f \in yaml[n] THEN "yaml" ELSE registry[n].value[f]
      BY <2>1, RebuiltTyped
  <2>3. a # NoAgent
      BY <2>2, WiringAssumption
  <2>4. registry' = IF registry[n].local THEN [registry EXCEPT ![n] = a] ELSE registry
      BY <1>5
  <2> HIDE DEF a
  <2>5. TypeOK'
      BY <1>1, <1>5, <2>2, <2>4 DEF Inv, TypeOK, container, meddling
  <2>6. LayerInv'
    <3>1. CASE registry[n].local
        BY <3>1, <1>1, <1>5, <2>2, <2>3, <2>4 DEF Inv, TypeOK, LayerInv, Local, Past, Valid, Base, config, meddling
    <3>2. CASE ~registry[n].local
        BY <3>2, <1>1, <1>5, <2>4 DEF Inv, TypeOK, LayerInv, Local, Past, Valid, Base, config, meddling
    <3> QED
        BY <3>1, <3>2
  <2>7. ListInv'
      BY <1>1, <1>5, <2>2, <2>3, <2>4 DEF Inv, TypeOK, ListInv, config, meddling
  <2> QED
      BY <1>1, <1>5, <2>5, <2>6, <2>7, ConfigKept, ContainerKept DEF Inv
<1> QED
    BY <1>1, <1>3, <1>4, <1>5 DEF Entry, Raises

LEMMA PhaseInv == ASSUME Inv, EntriesDone \/ PluginsDone \/ OverridesDone \/ Continue PROVE Inv'
<1>1. /\ UNCHANGED <<container, config, meddling, registry, loads>>
      /\ pc' \in {"plugins", "env", "loaded", "app"}
    BY DEF EntriesDone, PluginsDone, OverridesDone, Continue
<1>2. TypeOK'
    BY <1>1 DEF Inv, TypeOK, container, meddling
<1>3. ListInv'
    BY <1>1 DEF Inv, ListInv, config, meddling
<1>4. LayerInv'
  <2>1. CASE EntriesDone
      BY <2>1, <1>1 DEF EntriesDone, Inv, LayerInv, Local, Past, Valid, Base, config, meddling
  <2>2. CASE PluginsDone
    <3>1. \A n \in Name, f \in Field : Valid(n, f) => <<n, f>> \in Variables
        BY DEF Valid, Variables
    <3> QED
        BY <2>2, <3>1, <1>1 DEF PluginsDone, Inv, LayerInv, Local, Past, Valid, Base, config, meddling
  <2>3. CASE OverridesDone
      BY <2>3, <1>1 DEF OverridesDone, Inv, LayerInv, Local, Past, Valid, Base, config, meddling
  <2>4. CASE Continue
      BY <2>4, <1>1 DEF Continue, Inv, LayerInv, Local, Past, Valid, Base, config, meddling
  <2> QED
      BY <2>1, <2>2, <2>3, <2>4
<1> QED
    BY <1>1, <1>2, <1>3, <1>4, ConfigKept, ContainerKept DEF Inv

\* A factory adds delegates of its own, or puts them, or none, where others were; only a
\* registry it binds lacks a name the other one had.
LEMMA HandiworkLeaves ==
    ASSUME Inv, NEW s, NEW r \in Handiwork(s)
    PROVE  /\ r \in [Name -> Delegate \cup {NoAgent}]
           /\ s # "rebind" => \A n \in Name : r[n] = NoAgent => registry[n] = NoAgent
           /\ \A n \in Name : \/ r[n] = registry[n]
                              \/ r[n] = NoAgent /\ registry[n] # NoAgent /\ n \in PutAway(r)
                              \/ /\ registry[n] = NoAgent \/ n \in PutAway(r)
                                 /\ r[n] \in OfFactory
<1>1. OfFactory \in SUBSET Delegate /\ NoAgent \notin OfFactory
  <2>1. Agent("factory", {"prompt"}, FALSE) \in Delegate /\ Remote("factory") \in Delegate
      BY AgentTyped DEF Maker, Field
  <2> QED
      BY <2>1, WiringAssumption DEF OfFactory
<1>2. registry \in [Name -> Delegate \cup {NoAgent}] /\ NoRegistry \in [Name -> Delegate \cup {NoAgent}]
      /\ \A n \in Name : NoRegistry[n] = NoAgent
    BY DEF Inv, TypeOK, NoRegistry
<1>3. \/ r = registry
      \/ s = "rebind" /\ r = NoRegistry
      \/ \E n \in Name, d \in OfFactory : r = [registry EXCEPT ![n] = d]
      \/ s = "rebind" /\ \E n \in Name, d \in OfFactory : r = [NoRegistry EXCEPT ![n] = d]
    BY DEF Handiwork
<1>4. CASE r = registry \/ (s = "rebind" /\ r = NoRegistry)
    BY <1>2, <1>4 DEF PutAway
<1>5. ASSUME NEW n \in Name, NEW d \in OfFactory, NEW g \in {registry, NoRegistry},
             g = registry \/ s = "rebind", r = [g EXCEPT ![n] = d]
      PROVE  /\ r \in [Name -> Delegate \cup {NoAgent}]
             /\ s # "rebind" => \A m \in Name : r[m] = NoAgent => registry[m] = NoAgent
             /\ \A m \in Name : \/ r[m] = registry[m]
                                \/ r[m] = NoAgent /\ registry[m] # NoAgent /\ m \in PutAway(r)
                                \/ /\ registry[m] = NoAgent \/ m \in PutAway(r)
                                   /\ r[m] \in OfFactory
  <2>1. g \in [Name -> Delegate \cup {NoAgent}] /\ d \in Delegate /\ d # NoAgent
        /\ \A m \in Name : g[m] \in {registry[m], NoAgent}
      BY <1>1, <1>2, <1>5
  <2>2. r \in [Name -> Delegate \cup {NoAgent}] /\ r[n] = d /\ \A m \in Name \ {n} : r[m] = g[m]
      BY <1>5, <2>1
  <2> QED
      BY <1>5, <2>1, <2>2 DEF PutAway
<1> QED
    BY <1>3, <1>4, <1>5

\* A delegate as its maker hands it over has the fields the maker set, and no layer's.
LEMMA MadePlain ==
    ASSUME NEW by \in Maker \cup Plugin, NEW d \in {Remote(by), Agent(by, {"prompt"}, FALSE)}
    PROVE  /\ d \in Delegate /\ d # NoAgent /\ d.by = by
           /\ \A f \in Field : d.value[f] = IF f \in d.made THEN "code" ELSE "default"
<1>1. Agent(by, {"prompt"}, FALSE) \in Delegate /\ Remote(by) \in Delegate
    BY AgentTyped DEF Field
<1>2. CASE d = Remote(by)
    BY <1>1, <1>2, WiringAssumption DEF Remote, Agent
<1>3. CASE d = Agent(by, {"prompt"}, FALSE)
    BY <1>1, <1>3, WiringAssumption DEF Agent
<1> QED
    BY <1>2, <1>3

\* What an entry point leaves of a name: what was there, a delegate of the factory's own or
\* nothing where it put one away, or what the loader takes where there was none.
LEMMA PluginLeaves ==
    ASSUME Inv, NEW p \in Plugin, NEW s, LoadPlugin(p, s)
    PROVE  /\ registry' \in [Name -> Delegate \cup {NoAgent}]
           /\ meddled \subseteq meddled' /\ meddled' \subseteq Name
           /\ \A n \in Name :
                \/ registry'[n] = registry[n] /\ n \notin meddled' \ meddled
                \/ registry'[n] = NoAgent /\ n \in meddled'
                \/ /\ registry[n] = NoAgent \/ n \in meddled'
                   /\ registry'[n] \in OfFactory
                \/ /\ registry[n] = NoAgent /\ n \in allowed
                   /\ registry'[n] \in {Remote(p), Agent(p, {"prompt"}, FALSE)}
<1>1. PICK r \in Handiwork(s), d \in {Remote(p), Agent(p, {"prompt"}, FALSE), NoAgent} :
         /\ meddled' = meddled \cup PutAway(r)
         /\ registry' = IF d # NoAgent /\ ~strayed' /\ Takes(p, r)
                        THEN [r EXCEPT ![Provides[p]] = d] ELSE r
    BY Zenon DEF LoadPlugin
<1>2. /\ r \in [Name -> Delegate \cup {NoAgent}]
      /\ s # "rebind" => \A n \in Name : r[n] = NoAgent => registry[n] = NoAgent
      /\ \A n \in Name : \/ r[n] = registry[n]
                         \/ r[n] = NoAgent /\ registry[n] # NoAgent /\ n \in PutAway(r)
                         \/ /\ registry[n] = NoAgent \/ n \in PutAway(r)
                            /\ r[n] \in OfFactory
    BY HandiworkLeaves
<1>3. /\ meddled \subseteq meddled' /\ PutAway(r) \subseteq meddled' /\ meddled' \subseteq Name
      /\ \A n \in Name : r[n] = registry[n] => n \notin meddled' \ meddled
    BY <1>1 DEF PutAway, Inv, TypeOK
<1>4. CASE registry' = r
    BY <1>2, <1>3, <1>4
<1>5. CASE d # NoAgent /\ ~strayed' /\ Takes(p, r) /\ registry' = [r EXCEPT ![Provides[p]] = d]
  <2>1. s # "rebind"
      BY <1>5, Zenon DEF LoadPlugin
  <2>2. Provides[p] \in Name /\ Provides[p] \in allowed /\ r[Provides[p]] = NoAgent
      BY <1>5, WiringAssumption DEF Takes
  <2>3. d \in {Remote(p), Agent(p, {"prompt"}, FALSE)} /\ d \in Delegate
      BY <1>5, MadePlain
  <2>4. registry' \in [Name -> Delegate \cup {NoAgent}] /\ registry'[Provides[p]] = d
        /\ \A n \in Name \ {Provides[p]} : registry'[n] = r[n]
      BY <1>2, <1>5, <2>2, <2>3
  <2>5. registry[Provides[p]] = NoAgent
      BY <1>2, <2>1, <2>2
  <2> QED
      BY <1>2, <1>3, <2>2, <2>3, <2>4, <2>5
<1> QED
    BY <1>1, <1>4, <1>5

LEMMA LoadPluginInv ==
    ASSUME Inv, NEW p \in Plugin, NEW s \in Reach \cup {"nothing"}, LoadPlugin(p, s)
    PROVE  Inv'
<1>1. pc = "plugins" /\ pc' = pc /\ SideEffects(s) /\ UNCHANGED <<config, loads>>
    BY DEF LoadPlugin
<1>2. /\ registry' \in [Name -> Delegate \cup {NoAgent}]
      /\ meddled \subseteq meddled' /\ meddled' \subseteq Name
      /\ \A n \in Name :
           \/ registry'[n] = registry[n] /\ n \notin meddled' \ meddled
           \/ registry'[n] = NoAgent /\ n \in meddled'
           \/ /\ registry[n] = NoAgent \/ n \in meddled'
              /\ registry'[n] \in OfFactory
           \/ /\ registry[n] = NoAgent /\ n \in allowed
              /\ registry'[n] \in {Remote(p), Agent(p, {"prompt"}, FALSE)}
    BY PluginLeaves
<1>3. ASSUME NEW d \in OfFactory
      PROVE  /\ d # NoAgent /\ d.by = "factory"
             /\ \A f \in Field : d.value[f] = IF f \in d.made THEN "code" ELSE "default"
    BY MadePlain DEF OfFactory, Maker
<1>4. ASSUME NEW d \in {Remote(p), Agent(p, {"prompt"}, FALSE)}
      PROVE  /\ d # NoAgent /\ d.by = p
             /\ \A f \in Field : d.value[f] = IF f \in d.made THEN "code" ELSE "default"
    BY MadePlain
<1>5. TypeOK'
  <2>1. guarded' \in BOOLEAN /\ frozen' \subseteq Key /\ given' \subseteq Key
      BY <1>1 DEF Inv, TypeOK, SideEffects
  <2>2. bound' \in [Key \cup Optional -> {"none", "host", "default", "plugin", "local", "fake",
                                       "anthropic", "openai", "openrouter"}]
      BY <1>1 DEF Inv, TypeOK, SideEffects
  <2>3. strayed' \in BOOLEAN
      BY Zenon DEF LoadPlugin, Inv, TypeOK
  <2> QED
      BY <1>1, <1>2, <2>1, <2>2, <2>3 DEF Inv, TypeOK
<1>6. GuardInv'
    BY <1>1 DEF Inv, TypeOK, GuardInv, SideEffects, Secured
<1>7. LayerInv'
  <2>1. ASSUME NEW n \in Name, NEW f \in Field, Local(n)'
        PROVE  \/ registry'[n] = registry[n] /\ Local(n) /\ n \notin meddled' \ meddled
               \/ /\ registry[n] = NoAgent \/ n \in meddled'
                  /\ registry'[n].value[f] = IF f \in registry'[n].made THEN "code" ELSE "default"
    <3>1. registry'[n] # NoAgent /\ (registry'[n] = registry[n] => Local(n))
        BY <2>1 DEF Local
    <3>2. CASE registry'[n] \in OfFactory
        BY <3>2, <1>3, <1>2, <3>1
    <3>3. CASE registry'[n] \in {Remote(p), Agent(p, {"prompt"}, FALSE)}
        BY <3>3, <1>4, <1>2, <3>1
    <3> QED
        BY <1>2, <3>1, <3>2, <3>3
  <2>2. \A n \in Name : yaml[n] # {} => registry[n] # NoAgent \/ n \in meddled
      BY <1>1 DEF Inv, LayerInv, Past
  <2>3. \A n \in Name : yaml[n] # {} => registry'[n] # NoAgent \/ n \in meddled'
      BY <1>2, <1>3, <1>4, <2>2
  <2>4. ASSUME NEW n \in Name, NEW f \in Field, Local(n)'
        PROVE  /\ f \notin yaml[n] \/ n \in meddled' =>
                     \/ registry'[n].value[f] = IF f \in registry'[n].made THEN "code" ELSE "default"
                     \/ Valid(n, f) /\ registry'[n].value[f] = "env"
               /\ f \in yaml[n] /\ n \notin meddled' /\ ~Valid(n, f) => registry'[n].value[f] = "yaml"
    <3>1. CASE /\ registry[n] = NoAgent \/ n \in meddled'
               /\ registry'[n].value[f] = IF f \in registry'[n].made THEN "code" ELSE "default"
        BY <1>2, <2>2, <3>1
    <3>2. CASE registry'[n] = registry[n] /\ Local(n) /\ n \notin meddled' \ meddled
        BY <1>1, <1>2, <3>2 DEF Inv, LayerInv, Past, Base
    <3> QED
        BY <2>1, <2>4, <3>1, <3>2
  <2> QED
      BY <1>1, <2>3, <2>4 DEF LayerInv, Past, Base, Valid, config
<1>8. ListInv'
    BY <1>1, <1>2, <1>3, <1>4, WiringAssumption DEF Inv, ListInv, config, Maker
<1>9. Configured'
    BY <1>1 DEF Inv, Configured, config
<1> QED
    BY <1>5, <1>6, <1>7, <1>8, <1>9 DEF Inv

LEMMA OverrideInv ==
    ASSUME Inv, NEW n \in Name, NEW f \in Field, Override(n, f)
    PROVE  Inv'
<1>1. pc = "env" /\ UNCHANGED <<container, config, meddling, loads>>
    BY DEF Override
<1>2. CASE UNCHANGED registry /\ pc' = "failed"
  <2>1. TypeOK'
      BY <1>1, <1>2 DEF Inv, TypeOK, container, meddling
  <2>2. ListInv'
      BY <1>1, <1>2 DEF Inv, ListInv, config, meddling
  <2>3. LayerInv'
    <3>1. \A m \in Name, g \in Field : Valid(m, g)' <=> Valid(m, g)
        BY <1>1 DEF Valid, config, meddling
    <3>2. yaml' = yaml /\ registry' = registry /\ meddled' = meddled
        BY <1>1, <1>2 DEF config, meddling
    <3> QED
        BY <1>2, <3>1, <3>2 DEF Inv, LayerInv, Local, Past, Base
  <2> QED
      BY <1>1, <2>1, <2>2, <2>3, <1>2, ConfigKept, ContainerKept DEF Inv
<1>3. CASE /\ pc' = pc /\ todo' = todo \ {<<n, f>>}
           /\ ~(Local(n) /\ Valid(n, f)) /\ registry' = registry
  <2>1. TypeOK'
      BY <1>1, <1>3 DEF Inv, TypeOK, container, meddling
  <2>2. \A m \in Name, g \in Field :
           Local(m) /\ Valid(m, g) /\ <<m, g>> \notin todo' => <<m, g>> \notin todo
      BY <1>3
  <2>3. LayerInv'
      BY <1>1, <1>3, <2>2 DEF Inv, LayerInv, Local, Past, Valid, Base, config, meddling
  <2>4. ListInv'
      BY <1>1, <1>3 DEF Inv, ListInv, config, meddling
  <2> QED
      BY <1>1, <2>1, <2>3, <2>4, <1>3, ConfigKept, ContainerKept DEF Inv
<1>4. CASE /\ pc' = pc /\ todo' = todo \ {<<n, f>>} /\ Local(n) /\ Valid(n, f)
           /\ registry' = [registry EXCEPT ![n] = Rebuilt(registry[n], {f}, "env")]
  <2>1. registry[n] \in Delegate
      BY <1>4 DEF Inv, TypeOK, Local
  <2> DEFINE a == Rebuilt(registry[n], {f}, "env")
  <2>2. /\ a \in Delegate /\ a.by = registry[n].by /\ a.made = registry[n].made
        /\ a.local = registry[n].local
        /\ \A g \in Field : a.value[g] = IF g \in {f} THEN "env" ELSE registry[n].value[g]
    <3>1. {f} \in SUBSET Field
        OBVIOUS
    <3> QED
        BY <2>1, <3>1, RebuiltTyped
  <2>3. a # NoAgent
      BY <2>2, WiringAssumption
  <2>4. registry' = [registry EXCEPT ![n] = a]
      BY <1>4
  <2> HIDE DEF a
  <2>5. TypeOK'
      BY <1>1, <1>4, <2>2, <2>4 DEF Inv, TypeOK, container, meddling
  <2>6. LayerInv'
    <3>1. \A m \in Name, g \in Field :
             <<m, g>> \notin todo' => <<m, g>> \notin todo \/ (m = n /\ g = f)
        BY <1>4
    <3>2. \A m \in Name : m # n => registry'[m] = registry[m]
        BY <2>4 DEF Inv, TypeOK
    <3>3. registry'[n] = a /\ registry[n] # NoAgent /\ registry[n].local
        BY <1>4, <2>4 DEF Inv, TypeOK, Local
    <3>4. \A m \in Name, g \in Field : Valid(m, g)' <=> Valid(m, g)
        BY <1>1 DEF Valid, config, meddling
    <3>5. yaml' = yaml /\ pc' = "env" /\ pc = "env" /\ meddled' = meddled
        BY <1>1, <1>4 DEF config, meddling
    <3>6. \A m \in Name : Local(m)' <=> Local(m)
        BY <2>2, <2>3, <3>2, <3>3 DEF Local
    <3>7. ASSUME NEW m \in Name, NEW g \in Field, Local(m)
          PROVE  /\ g \notin yaml[m] \/ m \in meddled =>
                       \/ registry'[m].value[g] = IF g \in registry'[m].made THEN "code" ELSE "default"
                       \/ Valid(m, g) /\ registry'[m].value[g] = "env"
                 /\ g \in yaml[m] /\ m \notin meddled /\ ~Valid(m, g) => registry'[m].value[g] = "yaml"
                 /\ Valid(m, g) /\ <<m, g>> \notin todo' => registry'[m].value[g] = "env"
      <4>1. CASE m # n
          BY <3>1, <3>2, <3>5, <3>7, <4>1 DEF Inv, LayerInv, Past, Base
      <4>2. CASE m = n /\ g # f
          BY <2>2, <3>1, <3>3, <3>5, <3>7, <4>2 DEF Inv, LayerInv, Past, Base
      <4>3. CASE m = n /\ g = f
          BY <1>4, <2>2, <3>3, <4>3
      <4> QED
          BY <4>1, <4>2, <4>3
    <3>8. \A m \in Name : yaml[m] # {} => registry'[m] # NoAgent \/ m \in meddled
        BY <2>3, <3>2, <3>3, <3>5 DEF Inv, LayerInv, Past
    <3> QED
        BY <3>4, <3>5, <3>6, <3>7, <3>8 DEF LayerInv, Past, Base
  <2>7. ListInv'
      BY <1>1, <1>4, <2>2, <2>3, <2>4 DEF Inv, TypeOK, ListInv, config, meddling, Local
  <2> QED
      BY <1>1, <1>4, <2>5, <2>6, <2>7, ConfigKept, ContainerKept DEF Inv
<1> QED
    BY <1>1, <1>2, <1>3, <1>4 DEF Override, Raises

LEMMA NextInv == Inv /\ [Next]_vars => Inv'
<1> SUFFICES ASSUME Inv, [Next]_vars PROVE Inv'
    OBVIOUS
<1>1. CASE UNCHANGED vars
  <2>1. TypeOK' /\ Configured' /\ GuardInv'
      BY <1>1 DEF vars, container, config, meddling, Inv, TypeOK, Configured, GuardInv, Secured
  <2>2. LayerInv' /\ ListInv'
      BY <1>1 DEF vars, container, config, meddling, Inv, LayerInv, ListInv, Local, Past, Valid, Base
  <2> QED
      BY <2>1, <2>2 DEF Inv
<1>2. CASE Next
    BY <1>2, DefaultContainerInv, OwnContainerInv, TierUpInv, RegisterInv, LoadInv, EntryInv,
       PhaseInv, LoadPluginInv, OverrideInv DEF Next
<1> QED
    BY <1>1, <1>2

THEOREM Invariance == Spec => []Inv
<1> QED
    BY InitInv, NextInv, PTL DEF Spec

\* Every variable keeps its type.
THEOREM TypeCorrect == Spec => []TypeOK
<1>1. Inv => TypeOK
    BY DEF Inv
<1> QED
    BY <1>1, Invariance, PTL

\* On a default container no protocol that guards a run is ever bound to anything but
\* the host's choice, or the default where it made none.
THEOREM ChoicesKept == Spec => []ChoicesStand
<1>1. Inv => ChoicesStand
    BY DEF Inv, GuardInv, ChoicesStand, Secured, Key
<1> QED
    BY <1>1, Invariance, PTL

\* After every load the highest layer that sets a field has it, in every agent but those a
\* factory put where yaml's had been.
THEOREM LayersOrdered == Spec => []Precedence
<1>1. Inv => Precedence
    BY DEF Inv, LayerInv, Precedence, Past, Base, Local
<1> QED
    BY <1>1, Invariance, PTL

\* A name keeps the delegate of the maker that registered it first, and what the loader
\* added for a plugin is on the allow-list.  A factory that replaces a delegate itself, or
\* binds another registry, leaves its own there or none.
THEOREM NamesKept == Spec => ApplicationWins
<1> DEFINE Kept ==
       /\ \A n \in Name : registry[n] # NoAgent =>
             \/ registry'[n] # NoAgent /\ registry'[n].by = registry[n].by
             \/ n \in meddled' /\ (registry'[n] # NoAgent => registry'[n].by = "factory")
       /\ \A n \in Name : registry'[n] # NoAgent =>
             registry'[n].by \notin Plugin \/ n \in allowed
<1>1. Inv /\ Inv' /\ [Next]_vars => [Kept]_vars
  <2> SUFFICES ASSUME Inv, Inv', [Next]_vars PROVE Kept \/ UNCHANGED vars
      OBVIOUS
  <2>1. allowed' = allowed
      BY DEF Next, vars, container, DefaultContainer, OwnContainer, Load, EntriesDone, PluginsDone,
             OverridesDone, Continue, TierUp, Register, Entry, LoadPlugin, Override, config, meddling
  <2>2. \A n \in Name : registry'[n] # NoAgent => registry'[n].by \notin Plugin \/ n \in allowed
      BY <2>1 DEF Inv, ListInv
  <2>3. ASSUME NEW n \in Name, registry[n] # NoAgent
        PROVE  \/ registry'[n] # NoAgent /\ registry'[n].by = registry[n].by
               \/ n \in meddled' /\ (registry'[n] # NoAgent => registry'[n].by = "factory")
    <3>1. registry[n] \in Delegate
        BY <2>3 DEF Inv, TypeOK
    <3>2. ASSUME registry' = registry
          PROVE  registry'[n] # NoAgent /\ registry'[n].by = registry[n].by
        BY <3>2, <2>3
    <3>3. ASSUME NEW m \in Name, registry[m] = NoAgent, NEW a,
                 registry' = [registry EXCEPT ![m] = a]
          PROVE  registry'[n] = registry[n]
        BY <2>3, <3>3 DEF Inv, TypeOK
    <3>4. ASSUME NEW m \in Name, registry[m] # NoAgent,
                 NEW S \in SUBSET Field, NEW layer \in {"yaml", "env"},
                 registry' = [registry EXCEPT ![m] = Rebuilt(registry[m], S, layer)]
          PROVE  registry'[n] # NoAgent /\ registry'[n].by = registry[n].by
      <4>1. registry[m] \in Delegate
          BY <3>4 DEF Inv, TypeOK
      <4> DEFINE a == Rebuilt(registry[m], S, layer)
      <4>2. a \in Delegate /\ a.by = registry[m].by
          BY <4>1, RebuiltTyped
      <4>3. registry' = [registry EXCEPT ![m] = a]
          BY <3>4
      <4> HIDE DEF a
      <4> QED
          BY <2>3, <4>2, <4>3, WiringAssumption DEF Inv, TypeOK
    <3>5. ASSUME NEW m \in Name, NEW S \in Built, Register(m, S)
          PROVE  registry'[n] = registry[n]
        BY <3>5, <3>3 DEF Register
    <3>6. ASSUME NEW m \in Name, Entry(m)
          PROVE  registry'[n] # NoAgent /\ registry'[n].by = registry[n].by
      <4>1. yaml[m] \in SUBSET Field
          BY DEF Inv, Configured
      <4>2. \/ registry' = registry
            \/ registry[m] = NoAgent /\ registry' = [registry EXCEPT ![m] = Defined(m)]
            \/ /\ registry[m] # NoAgent
               /\ registry' = [registry EXCEPT ![m] = Rebuilt(registry[m], yaml[m], "yaml")]
          BY <3>6 DEF Entry, Raises
      <4> QED
          BY <4>1, <4>2, <2>3, <3>2, <3>3, <3>4
    <3>7. ASSUME NEW p \in Plugin, NEW s \in Reach \cup {"nothing"}, LoadPlugin(p, s)
          PROVE  \/ registry'[n] = registry[n]
                 \/ n \in meddled' /\ (registry'[n] # NoAgent => registry'[n].by = "factory")
      <4>1. \A d \in OfFactory : d.by = "factory"
          BY MadePlain DEF OfFactory, Maker
      <4> QED
          BY <2>3, <3>7, <4>1, PluginLeaves
    <3>8. ASSUME NEW m \in Name, NEW f \in Field, Override(m, f)
          PROVE  registry'[n] # NoAgent /\ registry'[n].by = registry[n].by
      <4>1. {f} \in SUBSET Field
          OBVIOUS
      <4>2. \/ registry' = registry
            \/ /\ registry[m] # NoAgent
               /\ registry' = [registry EXCEPT ![m] = Rebuilt(registry[m], {f}, "env")]
          BY <3>8 DEF Override, Raises, Local
      <4> QED
          BY <4>1, <4>2, <3>2, <3>4
    <3>9. CASE \/ \E S \in Arguments, keys \in ApiKeys : DefaultContainer(S, keys)
               \/ OwnContainer \/ Load \/ EntriesDone \/ PluginsDone \/ OverridesDone \/ Continue
               \/ \E S \in {{"memory", "sessions"}, {"memory"}} \cup {{k} : k \in Optional} : TierUp(S)
               \/ UNCHANGED vars
        BY <3>2, <3>9 DEF vars, container, config, meddling, DefaultContainer, OwnContainer, Load, EntriesDone, PluginsDone,
             OverridesDone, Continue, TierUp
    <3> QED
        BY <2>3, <3>5, <3>6, <3>7, <3>8, <3>9 DEF Next
  <2> QED
      BY <2>2, <2>3
<1> QED
    BY <1>1, Invariance, PTL DEF Spec, ApplicationWins
=============================================================================
