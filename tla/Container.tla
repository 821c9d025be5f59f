------------------------------ MODULE Container ------------------------------
(***************************************************************************)
(* container/container.py and container/scopes.py: bindings, the caches of *)
(* the instances made from them, children, and the scope of a run.         *)
(*                                                                         *)
(* The run in whose name a key is resolved is not passed along: it is read *)
(* from a context variable, which a task shares with every run it executes *)
(* and hands as a copy to the tasks it creates (the tool calls of a run,   *)
(* AgentContext.open of the sub-runs inside them).                         *)
(***************************************************************************)
EXTENDS Naturals, Sequences, SequencesExt

CONSTANTS
    Key,          \* (protocol, name) pairs
    Cont, Root,   \* containers; Root is default_container()'s
    Run, NoRun,   \* runs, each opened once
    Task,
    Host, Free,   \* what a task that works for no run works for
    Interleaved,  \* one task may drive several streams in turn
    MaxBind       \* bound: bindings ever made

\* The scopes that cache something; a TRANSIENT key is made anew on every resolve.
Scope == {"singleton", "run"}

NoCont == "none"
ASSUME ContainerAssumption ==
    /\ Root \in Cont /\ NoCont \notin Cont /\ {NoRun, Host, Free} \cap Run = {}
    /\ Interleaved \in BOOLEAN /\ MaxBind \in Nat

VARIABLES
    binding,    \* binding[c][k]: what key k is bound to in container c
    frozen,     \* frozen[c]: keys that may not be rebound
    single,     \* single[c][k]: the cached singleton, or NoInst
    caches,     \* caches[c]: the caches of the runs opened on c, by run
    made,       \* bindings made so far
    parent,     \* parent[c]: the container c is a child of, NoCont before it exists
    inherited,  \* history: keys frozen in the parent when the child was made
    where,      \* where[r]: the container run r was opened on
    saved,      \* saved[r]: the token of its run_scope, what the variable held before
    stack,      \* stack[t]: open runs of task t, in the order they were opened
    caller,     \* caller[t]: the run task t makes a tool call for, Host, or Free
    current,    \* current[t]: _run_id_ctx as task t sees it
    got,        \* got[r]: history: for which runs the RUN instances r was given were made
    missed      \* history: open runs whose RUN instance could not be resolved

vars == <<binding, frozen, single, caches, made, parent, inherited, where, saved, stack,
          caller, current, got, missed>>
wiring == <<binding, frozen, made, parent, inherited>>
running == <<where, saved, stack, caller, current>>

NoInst == [ver |-> 0]
Unbound == [ver |-> 0, scope |-> "unbound", factory |-> FALSE]
EmptyCache == [k \in Key |-> NoInst]

Exists(c) == parent[c] # NoCont
InTask(t) == {stack[t][i] : i \in DOMAIN stack[t]}
OpenRuns == UNION {InTask(t) : t \in Task}
-----------------------------------------------------------------------------
Init ==
    /\ binding = [c \in Cont |-> [k \in Key |-> Unbound]]
    /\ frozen = [c \in Cont |-> {}]
    /\ single = [c \in Cont |-> EmptyCache]
    /\ caches = [c \in Cont |-> [r \in {} |-> EmptyCache]]
    /\ made = 0
    /\ parent = [c \in Cont |-> IF c = Root THEN Root ELSE NoCont]
    /\ inherited = [c \in Cont |-> {}]
    /\ where = [r \in Run |-> NoCont] /\ saved = [r \in Run |-> NoRun]
    /\ stack = [t \in Task |-> <<>>] /\ caller = [t \in Task |-> Free]
    /\ current = [t \in Task |-> NoRun]
    /\ got = [r \in Run |-> {}] /\ missed = {}

\* Faulty variant: a rebind leaves the caches of open runs alone.
EvictedSingle(c, k) == caches[c]
Evicted(c, k) ==
    [r \in DOMAIN caches[c] |-> [caches[c][r] EXCEPT ![k] = NoInst]]

\* bind: a frozen key is refused; what the old binding made is evicted.
Bind(c, k) ==
    /\ Exists(c) /\ k \notin frozen[c] /\ made < MaxBind
    /\ made' = made + 1
    /\ \E s \in Scope, f \in BOOLEAN :
          binding' = [binding EXCEPT ![c][k] = [ver |-> made', scope |-> s, factory |-> f]]
    /\ single' = [single EXCEPT ![c][k] = NoInst]
    /\ caches' = [caches EXCEPT ![c] = Evicted(c, k)]
    /\ UNCHANGED <<frozen, parent, inherited, running, got, missed>>

Freeze(c, k) ==
    /\ Exists(c) /\ k \notin frozen[c]
    /\ frozen' = [frozen EXCEPT ![c] = @ \cup {k}]
    /\ UNCHANGED <<binding, made, parent, inherited, single, caches, running, got, missed>>

\* Faulty variant: the child starts with nothing frozen.
FrozenForgotten(c) == {}
FrozenCopied(c) == frozen[c]

\* child: copies of the bindings, the frozen keys and the singletons, no run caches.
Child(p, c) ==
    /\ Exists(p) /\ ~Exists(c)
    /\ parent' = [parent EXCEPT ![c] = p]
    /\ binding' = [binding EXCEPT ![c] = binding[p]]
    /\ frozen' = [frozen EXCEPT ![c] = FrozenCopied(p)]
    /\ single' = [single EXCEPT ![c] = single[p]]
    /\ inherited' = [inherited EXCEPT ![c] = frozen[p]]
    /\ UNCHANGED <<caches, made, running, got, missed>>
-----------------------------------------------------------------------------
(* Tasks and runs.                                                         *)

\* The runs whose code task t may execute next: the innermost, or any open one when
\* the task drives several streams.
Active(t) == IF stack[t] = <<>> THEN {} ELSE IF Interleaved THEN InTask(t) ELSE {Last(stack[t])}

\* The host starts a task; a run starts one for a tool call, with a copy of the
\* context variables of its own task.
Start(t) ==
    /\ caller[t] = Free
    /\ \/ /\ caller' = [caller EXCEPT ![t] = Host]
          /\ UNCHANGED current
       \/ \E u \in Task : \E r \in Active(u) :
             /\ caller' = [caller EXCEPT ![t] = r]
             /\ current' = [current EXCEPT ![t] = current[u]]
    /\ UNCHANGED <<wiring, single, caches, where, saved, stack, got, missed>>

End(t) ==
    /\ caller[t] # Free /\ stack[t] = <<>>
    /\ caller' = [caller EXCEPT ![t] = Free]
    /\ current' = [current EXCEPT ![t] = NoRun]
    /\ UNCHANGED <<wiring, single, caches, where, saved, stack, got, missed>>

\* AgentContext.open: run_scope sets the variable, and makes the run's cache.
OpenRun(t, r, c) ==
    /\ caller[t] # Free /\ where[r] = NoCont /\ Exists(c)
    /\ where' = [where EXCEPT ![r] = c]
    /\ saved' = [saved EXCEPT ![r] = current[t]]
    /\ current' = [current EXCEPT ![t] = r]
    /\ stack' = [stack EXCEPT ![t] = Append(@, r)]
    /\ caches' = [caches EXCEPT ![c] = [x \in DOMAIN @ \cup {r} |-> IF x = r THEN EmptyCache ELSE @[x]]]
    /\ UNCHANGED <<wiring, single, caller, got, missed>>

\* Faulty variants: the variable is cleared, or left alone; the cache stays.
Cleared(t, r) == NoRun
LeftAlone(t, r) == current[t]
Restored(t, r) == saved[r]
Kept(c, r) == caches[c]
Popped(c, r) == [x \in DOMAIN caches[c] \ {r} |-> caches[c][x]]

\* The run is over, after the tool calls it waits for: the cache goes, the variable
\* gets its old value back.
CloseRun(t, r) ==
    /\ r \in Active(t) /\ \A u \in Task : caller[u] # r
    /\ caches' = [caches EXCEPT ![where[r]] = Popped(where[r], r)]
    /\ current' = [current EXCEPT ![t] = Restored(t, r)]
    /\ \E i \in DOMAIN stack[t] : stack[t][i] = r /\ stack' = [stack EXCEPT ![t] = RemoveAt(@, i)]
    /\ UNCHANGED <<wiring, single, where, saved, caller, got, missed>>
-----------------------------------------------------------------------------
(* resolve, by code of run r in task t: the run's own code or a tool call. *)

WorksFor(t) == IF stack[t] # <<>> THEN Active(t) ELSE {caller[t]} \cap Run

\* A bound instance is the same for everybody; a factory makes one, here for run r.
Made(b, c, r) ==
    IF b.factory THEN [ver |-> b.ver, at |-> c, for |-> r] ELSE [ver |-> b.ver]

ResolveSingleton(c, k, b, r) ==
    /\ b.scope = "singleton"
    /\ single' = [single EXCEPT ![c][k] = IF @ # NoInst THEN @ ELSE Made(b, c, NoRun)]
    /\ UNCHANGED <<caches, got, missed>>

\* The cache is the one of the run the variable names, in this container.
ResolveRun(c, k, b, r, id) ==
    /\ b.scope = "run"
    /\ IF id \notin DOMAIN caches[c]
       THEN missed' = missed \cup {r} /\ UNCHANGED <<caches, got>>
       ELSE LET i == IF caches[c][id][k] # NoInst THEN caches[c][id][k] ELSE Made(b, c, r) IN
            /\ caches' = [caches EXCEPT ![c][id][k] = i]
            /\ got' = IF "for" \in DOMAIN i THEN [got EXCEPT ![r] = @ \cup {i.for}] ELSE got
            /\ UNCHANGED missed
    /\ UNCHANGED single

Resolve(t, r, k) ==
    /\ r \in WorksFor(t)
    /\ LET c == where[r] b == binding[where[r]][k] IN
          ResolveSingleton(c, k, b, r) \/ ResolveRun(c, k, b, r, current[t])
    /\ UNCHANGED <<wiring, running>>

Next ==
    \/ \E c \in Cont, k \in Key : Bind(c, k) \/ Freeze(c, k)
    \/ \E p, c \in Cont : Child(p, c)
    \/ \E t \in Task :
          \/ Start(t) \/ End(t)
          \/ \E r \in Run : CloseRun(t, r) \/ \E c \in Cont : OpenRun(t, r, c)
          \/ \E r \in Run, k \in Key : Resolve(t, r, k)

Spec == Init /\ [][Next]_vars
-----------------------------------------------------------------------------
Instances(v) == [ver : {v}] \cup [ver : {v}, at : Cont, for : Run \cup {NoRun}]
Inst == UNION {Instances(v) : v \in 0..MaxBind}
Cache == [Key -> Inst]
RunCaches == UNION {[s -> Cache] : s \in SUBSET Run}

\* A cache is a map of the keys, and a container has one for each of some runs.
TypeOK ==
    /\ binding \in [Cont -> [Key -> [ver : 0..MaxBind, scope : Scope \cup {"unbound"}, factory : BOOLEAN]]]
    /\ frozen \in [Cont -> SUBSET Key] /\ inherited \in [Cont -> SUBSET Key]
    /\ single \in [Cont -> Cache] /\ caches \in [Cont -> RunCaches]
    /\ made \in 0..MaxBind /\ parent \in [Cont -> Cont \cup {NoCont}]
    /\ where \in [Run -> Cont \cup {NoCont}] /\ saved \in [Run -> Run \cup {NoRun}]
    /\ stack \in [Task -> Seq(Run)] /\ caller \in [Task -> Run \cup {Host, Free}]
    /\ current \in [Task -> Run \cup {NoRun}]
    /\ got \in [Run -> SUBSET (Run \cup {NoRun})] /\ missed \subseteq Run

\* A cached instance, of a run too, was made from the binding its container has now:
\* no rebind, in the container or in one it was copied from, is a silent no-op.
CacheMatchesBinding ==
    \A c \in Cont, k \in Key :
        /\ single[c][k] # NoInst => single[c][k].ver = binding[c][k].ver
        /\ \A r \in DOMAIN caches[c] : caches[c][r][k] # NoInst =>
              caches[c][r][k].ver = binding[c][k].ver

\* What was frozen when a container was copied is the same in the copy for ever: no
\* rebind through a child replaces it, directly or through a child of the child.
FrozenInherited ==
    \A c \in Cont : \A k \in inherited[c] :
        k \in frozen[c] /\ binding[c][k] = binding[parent[c]][k]

\* A run-scoped key resolves while its run is open, in the run's own code, in its
\* tool calls and after a run nested in it, and what it gives was made for that run.
RunScoped == missed = {} /\ \A r \in Run : got[r] \subseteq {r}

\* A run's cache exists exactly while it is open, and only in its own container.
RunCachesClosed ==
    \A c \in Cont, r \in Run : r \in DOMAIN caches[c] <=> r \in OpenRuns /\ where[r] = c

\* What is made for a run is that run's while it is open, and gone afterwards.
RunScopeHeld == RunScoped /\ RunCachesClosed
=============================================================================
