-------------------------- MODULE ContainerProofs --------------------------
(***************************************************************************)
(* Proofs about the container: for any containers, keys, tasks and runs.   *)
(***************************************************************************)
EXTENDS Container, TLAPS

\* A child's bindings are its parent's where the parent was frozen when it was made.
ChainInv ==
    \A c \in Cont :
        /\ inherited[c] \subseteq frozen[c]
        /\ ~Exists(c) => inherited[c] = {} /\ DOMAIN caches[c] = {}
        /\ Exists(c) => parent[c] \in Cont /\ Exists(parent[c]) /\ inherited[c] \subseteq frozen[parent[c]]
        /\ \A k \in inherited[c] : binding[c][k] = binding[parent[c]][k]

\* A run is open in one task, once, on a container; a task works for an open run.
StackInv ==
    \A t \in Task :
        /\ \A i, j \in DOMAIN stack[t] : stack[t][i] = stack[t][j] => i = j
        /\ \A r \in InTask(t) : where[r] \in Cont /\ Exists(where[r])
        /\ \A u \in Task : u # t => InTask(t) \cap InTask(u) = {}
        /\ caller[t] = Free => stack[t] = <<>>
        /\ caller[t] \in Run => caller[t] \in OpenRuns

\* What the variable holds below the i-th run of a task: the run before it, or the
\* one whose tool call the task is.
Under(t, i) == IF i # 0 THEN stack[t][i] ELSE IF caller[t] \in Run THEN caller[t] ELSE NoRun

\* The variable names the innermost run, the saved values those around it.
Nested(t) ==
    /\ current[t] = Under(t, Len(stack[t]))
    /\ \A i \in DOMAIN stack[t] : saved[stack[t][i]] = Under(t, i - 1)

\* What a run's cache holds was made for that run.
MadeFor ==
    \A c \in Cont : \A r \in DOMAIN caches[c] : \A k \in Key :
        "for" \in DOMAIN caches[c][r][k] => caches[c][r][k].for = r

\* So it is where no task drives several streams.
CurrentInv == ~Interleaved => (\A t \in Task : Nested(t)) /\ MadeFor /\ RunScoped

Inv == TypeOK /\ ChainInv /\ CacheMatchesBinding /\ StackInv /\ RunCachesClosed /\ CurrentInv
-----------------------------------------------------------------------------
\* What is left of a stack when one run is taken out.
LEMMA Removed ==
    ASSUME NEW s \in Seq(Run), NEW i \in DOMAIN s
    PROVE  /\ RemoveAt(s, i) \in Seq(Run) /\ Len(RemoveAt(s, i)) = Len(s) - 1
           /\ \A j \in 1..(Len(s) - 1) : RemoveAt(s, i)[j] = IF j < i THEN s[j] ELSE s[j + 1]
<1> DEFINE a == SubSeq(s, 1, i - 1)
           b == SubSeq(s, i + 1, Len(s))
<1>1. a \in Seq(Run) /\ Len(a) = i - 1 /\ \A j \in 1..(i - 1) : a[j] = s[j]
    OBVIOUS
<1>2. b \in Seq(Run) /\ Len(b) = Len(s) - i /\ \A j \in 1..(Len(s) - i) : b[j] = s[j + i]
    OBVIOUS
<1>3. RemoveAt(s, i) = a \o b
    BY DEF RemoveAt
<1>4. i \in 1..Len(s) /\ Len(s) \in Nat
    OBVIOUS
<1> HIDE DEF a, b
<1>5. a \o b \in Seq(Run) /\ Len(a \o b) = Len(s) - 1
    BY <1>1, <1>2, <1>4
<1>6. \A j \in 1..(Len(s) - 1) : (a \o b)[j] = IF j < i THEN a[j] ELSE b[j - i + 1]
    BY <1>1, <1>2, <1>4
<1>7. \A j \in 1..(Len(s) - 1) : (a \o b)[j] = IF j < i THEN s[j] ELSE s[j + 1]
    BY <1>1, <1>2, <1>4, <1>6
<1> QED
    BY <1>3, <1>5, <1>7

\* Taking out a run that is on a stack once leaves the others.
LEMMA RemovedSet ==
    ASSUME NEW s \in Seq(Run), NEW i \in DOMAIN s,
           \A j, k \in DOMAIN s : s[j] = s[k] => j = k
    PROVE  LET z == RemoveAt(s, i) IN
              /\ {z[j] : j \in DOMAIN z} = {s[j] : j \in DOMAIN s} \ {s[i]}
              /\ \A j, k \in DOMAIN z : z[j] = z[k] => j = k
<1> DEFINE z == RemoveAt(s, i)
<1>1. z \in Seq(Run) /\ Len(z) = Len(s) - 1
      /\ \A j \in 1..(Len(s) - 1) : z[j] = IF j < i THEN s[j] ELSE s[j + 1]
    BY Removed
<1> HIDE DEF z
<1>2. \A j \in DOMAIN z : \E k \in DOMAIN s : k # i /\ z[j] = s[k]
    BY <1>1
<1>3. \A k \in DOMAIN s : k # i => \E j \in DOMAIN z : z[j] = s[k]
  <2> SUFFICES ASSUME NEW k \in DOMAIN s, k # i PROVE \E j \in DOMAIN z : z[j] = s[k]
      OBVIOUS
  <2>1. CASE k < i
    <3>1. k \in DOMAIN z /\ z[k] = s[k]
        BY <1>1, <2>1
    <3> QED
        BY <3>1
  <2>2. CASE k > i
    <3>1. k - 1 \in DOMAIN z /\ z[k - 1] = s[k]
        BY <1>1, <2>2
    <3> QED
        BY <3>1
  <2> QED
      BY <2>1, <2>2
<1>4. \A j, k \in DOMAIN z : z[j] = z[k] => j = k
    BY <1>1
<1> QED
    BY <1>2, <1>3, <1>4 DEF z

-----------------------------------------------------------------------------
LEMMA CachesTyped ==
    /\ \A s \in SUBSET Run : \A f \in [s -> Cache] : f \in RunCaches
    /\ \A f \in RunCaches : DOMAIN f \in SUBSET Run /\ f \in [DOMAIN f -> Cache]
<1>1. ASSUME NEW s \in SUBSET Run, NEW f \in [s -> Cache] PROVE f \in RunCaches
    BY DEF RunCaches
<1>2. ASSUME NEW f \in RunCaches PROVE DOMAIN f \in SUBSET Run /\ f \in [DOMAIN f -> Cache]
  <2>1. PICK s \in SUBSET Run : f \in [s -> Cache]
      BY DEF RunCaches
  <2> QED
      BY <2>1
<1> QED
    BY <1>1, <1>2

LEMMA NoneTyped == NoInst \in Inst /\ EmptyCache \in Cache
<1>1. 0 \in 0..MaxBind
    BY ContainerAssumption
<1>2. NoInst \in Instances(0)
    BY DEF NoInst, Instances
<1>3. NoInst \in Inst
    BY <1>1, <1>2 DEF Inst
<1> QED
    BY <1>3 DEF EmptyCache, Cache

LEMMA InitInv == Init => Inv
<1> SUFFICES ASSUME Init PROVE Inv
    OBVIOUS
<1>1. Unbound \in [ver : 0..MaxBind, scope : Scope \cup {"unbound"}, factory : BOOLEAN]
    BY ContainerAssumption DEF Unbound
<1>2. EmptyCache \in Cache /\ [r \in {} |-> EmptyCache] \in RunCaches
    BY NoneTyped, CachesTyped
<1>3. TypeOK
    BY <1>1, <1>2, ContainerAssumption DEF Init, TypeOK
<1>4. ChainInv
    BY ContainerAssumption DEF Init, ChainInv, Exists
<1>5. CacheMatchesBinding
    BY DEF Init, CacheMatchesBinding, EmptyCache
<1>6. \A t \in Task : InTask(t) = {}
    BY DEF Init, InTask
<1>7. StackInv
    BY <1>6, ContainerAssumption DEF Init, StackInv
<1>8. RunCachesClosed
    BY <1>6 DEF Init, RunCachesClosed, OpenRuns
<1>9. CurrentInv
    BY ContainerAssumption DEF Init, CurrentInv, Nested, Under, MadeFor, RunScoped
<1> QED
    BY <1>3, <1>4, <1>5, <1>7, <1>8, <1>9 DEF Inv

\* How the parts that a step leaves alone carry over.
LEMMA WiringKept ==
    ASSUME ChainInv, UNCHANGED wiring,
           \A c \in Cont : ~Exists(c) => DOMAIN caches'[c] = {}
    PROVE  ChainInv'
BY DEF ChainInv, wiring, Exists

LEMMA RunningKept ==
    ASSUME StackInv, RunCachesClosed, UNCHANGED running,
           \A c \in Cont : Exists(c) => Exists(c)',
           \A c \in Cont : DOMAIN caches'[c] = DOMAIN caches[c]
    PROVE  StackInv' /\ RunCachesClosed'
<1>1. OpenRuns' = OpenRuns /\ \A t \in Task : InTask(t)' = InTask(t)
    BY DEF running, OpenRuns, InTask
<1>2. StackInv'
    BY <1>1 DEF StackInv, running
<1>3. RunCachesClosed'
    BY <1>1 DEF RunCachesClosed, running
<1> QED
    BY <1>2, <1>3

LEMMA CurrentKept ==
    ASSUME CurrentInv, UNCHANGED <<running, got, missed>>, ~Interleaved => MadeFor'
    PROVE  CurrentInv'
<1>1. \A t \in Task : Nested(t)' = Nested(t)
    BY DEF Nested, Under, running
<1> QED
    BY <1>1 DEF CurrentInv, RunScoped
-----------------------------------------------------------------------------
(* Wiring.                                                                 *)

\* What a rebind leaves of a container's run caches.
LEMMA EvictedCaches ==
    ASSUME TypeOK, NEW c \in Cont, NEW k \in Key
    PROVE  /\ Evicted(c, k) \in RunCaches /\ DOMAIN Evicted(c, k) = DOMAIN caches[c]
           /\ \A r \in DOMAIN caches[c] : \A j \in Key :
                 Evicted(c, k)[r][j] = IF j = k THEN NoInst ELSE caches[c][r][j]
<1>1. DOMAIN caches[c] \in SUBSET Run /\ \A r \in DOMAIN caches[c] : caches[c][r] \in [Key -> Inst]
    BY CachesTyped DEF TypeOK, Cache
<1>2. \A r \in DOMAIN caches[c] : [caches[c][r] EXCEPT ![k] = NoInst] \in [Key -> Inst]
    BY <1>1, NoneTyped
<1>3. Evicted(c, k) \in [DOMAIN caches[c] -> Cache]
    BY <1>2 DEF Evicted, Cache
<1>4. Evicted(c, k) \in RunCaches
    BY <1>1, <1>3, CachesTyped
<1> QED
    BY <1>1, <1>3, <1>4 DEF Evicted

LEMMA BindInv == ASSUME Inv, NEW c \in Cont, NEW k \in Key, Bind(c, k) PROVE Inv'
<1>1. PICK s \in Scope, f \in BOOLEAN :
         binding' = [binding EXCEPT ![c][k] = [ver |-> made', scope |-> s, factory |-> f]]
    BY DEF Bind
<1>2. /\ Exists(c) /\ k \notin frozen[c] /\ made' = made + 1 /\ made' \in 0..MaxBind
      /\ single' = [single EXCEPT ![c][k] = NoInst]
      /\ caches' = [caches EXCEPT ![c] = Evicted(c, k)]
      /\ UNCHANGED <<frozen, parent, inherited, running, got, missed>>
    BY ContainerAssumption DEF Bind, Inv, TypeOK
<1> DEFINE b == [ver |-> made', scope |-> s, factory |-> f]
<1>3. b \in [ver : 0..MaxBind, scope : Scope \cup {"unbound"}, factory : BOOLEAN] /\ b.ver = made'
    BY <1>2
<1>4. binding' = [binding EXCEPT ![c][k] = b]
    BY <1>1
<1> HIDE DEF b
<1>5. TypeOK'
  <2>1. binding' \in [Cont -> [Key -> [ver : 0..MaxBind, scope : Scope \cup {"unbound"}, factory : BOOLEAN]]]
      BY <1>3, <1>4 DEF Inv, TypeOK
  <2>2. single' \in [Cont -> Cache]
      BY <1>2, NoneTyped DEF Inv, TypeOK, Cache
  <2>3. caches' \in [Cont -> RunCaches]
      BY <1>2, EvictedCaches DEF Inv, TypeOK
  <2> QED
      BY <1>2, <2>1, <2>2, <2>3 DEF Inv, TypeOK, running
<1>6. \A d \in Cont : \A j \in Key :
         binding'[d][j] = IF d = c /\ j = k THEN b ELSE binding[d][j]
    BY <1>4 DEF Inv, TypeOK
<1>7. \A d \in Cont : DOMAIN caches'[d] = DOMAIN caches[d]
    BY <1>2, EvictedCaches DEF Inv, TypeOK
<1>8. \A d \in Cont : \A r \in DOMAIN caches[d] : \A j \in Key :
         caches'[d][r][j] = IF d = c /\ j = k THEN NoInst ELSE caches[d][r][j]
  <2>1. caches'[c] = Evicted(c, k) /\ \A d \in Cont : d # c => caches'[d] = caches[d]
      BY <1>2 DEF Inv, TypeOK
  <2> QED
      BY <2>1, EvictedCaches DEF Inv
<1>9. ChainInv'
  <2>1. UNCHANGED <<frozen, parent, inherited>> /\ \A d \in Cont : Exists(d)' = Exists(d)
      BY <1>2 DEF Exists
  <2>2. \A d \in Cont : \A j \in inherited[d] : j \in Key /\ j \in frozen[d]
      BY DEF Inv, TypeOK, ChainInv
  <2>3. \A d \in Cont : inherited[d] # {} => Exists(d) /\ parent[d] \in Cont /\ inherited[d] \subseteq frozen[parent[d]]
      BY DEF Inv, ChainInv
  <2>4. \A d \in Cont : \A j \in inherited[d] : binding'[d][j] = binding'[parent[d]][j]
    <3> SUFFICES ASSUME NEW d \in Cont, NEW j \in inherited[d]
                 PROVE  binding'[d][j] = binding'[parent[d]][j]
        OBVIOUS
    <3>1. j \in Key /\ parent[d] \in Cont /\ j \in frozen[d] /\ j \in frozen[parent[d]]
        BY <2>2, <2>3
    <3>2. binding'[d][j] = binding[d][j] /\ binding'[parent[d]][j] = binding[parent[d]][j]
        BY <1>2, <1>6, <3>1
    <3> QED
        BY <3>2 DEF Inv, ChainInv
  <2> QED
      BY <1>7, <2>1, <2>4 DEF Inv, ChainInv
<1>10. CacheMatchesBinding'
  <2>1. \A d \in Cont : \A j \in Key : single'[d][j] = IF d = c /\ j = k THEN NoInst ELSE single[d][j]
      BY <1>2 DEF Inv, TypeOK, Cache
  <2> QED
      BY <1>6, <1>7, <1>8, <2>1 DEF Inv, CacheMatchesBinding
<1>11. StackInv' /\ RunCachesClosed'
    BY <1>2, <1>7, RunningKept DEF Inv, Exists
<1>12. CurrentInv'
  <2>1. "for" \notin DOMAIN NoInst
      BY DEF NoInst
  <2>2. ~Interleaved => MadeFor'
      BY <1>7, <1>8, <2>1 DEF Inv, CurrentInv, MadeFor
  <2> QED
      BY <1>2, <2>2, CurrentKept DEF Inv
<1> QED
    BY <1>5, <1>9, <1>10, <1>11, <1>12 DEF Inv

LEMMA FreezeInv == ASSUME Inv, NEW c \in Cont, NEW k \in Key, Freeze(c, k) PROVE Inv'
<1>1. /\ frozen' = [frozen EXCEPT ![c] = @ \cup {k}]
      /\ UNCHANGED <<binding, made, parent, inherited, single, caches, running, got, missed>>
    BY DEF Freeze
<1>2. TypeOK'
    BY <1>1 DEF Inv, TypeOK, running
<1>3. \A d \in Cont : frozen[d] \subseteq frozen'[d]
    BY <1>1 DEF Inv, TypeOK
<1>4. ChainInv'
    BY <1>1, <1>3 DEF Inv, ChainInv, Exists
<1>5. CacheMatchesBinding'
    BY <1>1 DEF Inv, CacheMatchesBinding
<1>6. StackInv' /\ RunCachesClosed'
    BY <1>1, RunningKept DEF Inv, Exists
<1>7. CurrentInv'
  <2>1. ~Interleaved => MadeFor'
      BY <1>1 DEF Inv, CurrentInv, MadeFor
  <2> QED
      BY <1>1, <2>1, CurrentKept DEF Inv
<1> QED
    BY <1>2, <1>4, <1>5, <1>6, <1>7 DEF Inv

LEMMA ChildInv == ASSUME Inv, NEW p \in Cont, NEW c \in Cont, Child(p, c) PROVE Inv'
<1>1. /\ Exists(p) /\ ~Exists(c) /\ p # c
      /\ parent' = [parent EXCEPT ![c] = p] /\ binding' = [binding EXCEPT ![c] = binding[p]]
      /\ frozen' = [frozen EXCEPT ![c] = frozen[p]] /\ single' = [single EXCEPT ![c] = single[p]]
      /\ inherited' = [inherited EXCEPT ![c] = frozen[p]]
      /\ UNCHANGED <<caches, made, running, got, missed>>
    BY DEF Child, FrozenCopied
<1>2. TypeOK'
    BY <1>1 DEF Inv, TypeOK, running
<1>3. \A d \in Cont : /\ d = c => /\ parent'[d] = p /\ binding'[d] = binding[p] /\ frozen'[d] = frozen[p]
                                  /\ single'[d] = single[p] /\ inherited'[d] = frozen[p]
                      /\ d # c => /\ parent'[d] = parent[d] /\ binding'[d] = binding[d] /\ frozen'[d] = frozen[d]
                                  /\ single'[d] = single[d] /\ inherited'[d] = inherited[d]
    BY <1>1 DEF Inv, TypeOK
<1>4. \A d \in Cont : Exists(d)' <=> Exists(d) \/ d = c
    BY <1>3, ContainerAssumption DEF Exists
<1>5. ChainInv'
    BY <1>1, <1>3, <1>4 DEF Inv, ChainInv
<1>6. CacheMatchesBinding'
    BY <1>1, <1>3 DEF Inv, ChainInv, CacheMatchesBinding
<1>7. StackInv' /\ RunCachesClosed'
    BY <1>1, <1>4, RunningKept DEF Inv
<1>8. CurrentInv'
  <2>1. ~Interleaved => MadeFor'
      BY <1>1 DEF Inv, CurrentInv, MadeFor
  <2> QED
      BY <1>1, <2>1, CurrentKept DEF Inv
<1> QED
    BY <1>2, <1>5, <1>6, <1>7, <1>8 DEF Inv

-----------------------------------------------------------------------------
(* Tasks and runs.                                                         *)

\* A task that works for nobody has no run open, and starts with what it is given.
LEMMA StartInv == ASSUME Inv, NEW t \in Task, Start(t) PROVE Inv'
<1>1. /\ caller[t] = Free /\ stack[t] = <<>> /\ Len(stack[t]) = 0
      /\ UNCHANGED <<wiring, single, caches, where, saved, stack, got, missed>>
    BY DEF Start, Inv, StackInv
<1>2. \/ caller' = [caller EXCEPT ![t] = Host] /\ current' = current
      \/ \E u \in Task : \E r \in Active(u) : /\ caller' = [caller EXCEPT ![t] = r]
                                              /\ current' = [current EXCEPT ![t] = current[u]]
    BY DEF Start
<1>3. \A u \in Task : InTask(u) \subseteq Run /\ Active(u) \subseteq InTask(u)
    BY DEF Inv, TypeOK, Active, InTask, Last
<1>4. \A u \in Task : InTask(u)' = InTask(u)
    BY <1>1 DEF InTask
<1>5. OpenRuns' = OpenRuns
    BY <1>4 DEF OpenRuns
<1>6. TypeOK'
    BY <1>1, <1>2, <1>3 DEF Inv, TypeOK, wiring
<1>7. ChainInv'
    BY <1>1, WiringKept DEF Inv, ChainInv
<1>8. CacheMatchesBinding'
    BY <1>1 DEF Inv, CacheMatchesBinding, wiring
<1>9. StackInv'
  <2>1. \A u \in Task : u # t => caller'[u] = caller[u]
      BY <1>2 DEF Inv, TypeOK
  <2>2. (caller'[t] # Free /\ (caller'[t] \in Run => caller'[t] \in OpenRuns)) \/ caller'[t] = Host
      BY <1>2, <1>3, ContainerAssumption DEF Inv, TypeOK, OpenRuns
  <2>3. caller'[t] = Host => caller'[t] \notin Run
      BY ContainerAssumption
  <2>4. \A u \in Task : /\ caller'[u] = Free => stack'[u] = <<>>
                        /\ caller'[u] \in Run => caller'[u] \in OpenRuns'
      BY <1>1, <1>5, <2>1, <2>2, <2>3 DEF Inv, StackInv
  <2> QED
      BY <1>1, <1>4, <2>4 DEF Inv, StackInv, wiring, Exists
<1>10. RunCachesClosed'
    BY <1>1, <1>5 DEF Inv, RunCachesClosed
<1>11. CurrentInv'
  <2> SUFFICES ASSUME ~Interleaved PROVE CurrentInv'
      BY DEF CurrentInv
  <2>1. \A u \in Task : u # t => /\ current'[u] = current[u] /\ caller'[u] = caller[u]
      BY <1>1, <1>2 DEF Inv, TypeOK
  <2>2. current'[t] = Under(t, 0)'
    <3>1. CASE caller' = [caller EXCEPT ![t] = Host] /\ current' = current
      <4>1. current[t] = NoRun
          BY <1>1, ContainerAssumption DEF Inv, CurrentInv, Nested, Under
      <4> QED
          BY <3>1, <4>1, ContainerAssumption DEF Inv, TypeOK, Under
    <3>2. ASSUME NEW u \in Task, NEW r \in Active(u), caller' = [caller EXCEPT ![t] = r],
                 current' = [current EXCEPT ![t] = current[u]]
          PROVE  current'[t] = Under(t, 0)'
      <4>1. stack[u] # <<>> /\ r = stack[u][Len(stack[u])] /\ Len(stack[u]) # 0 /\ r \in Run
          BY <1>3, <3>2 DEF Active, Last, Inv, TypeOK
      <4>2. current[u] = r
          BY <4>1 DEF Inv, CurrentInv, Nested, Under
      <4> QED
          BY <3>2, <4>1, <4>2 DEF Inv, TypeOK, Under
    <3> QED
        BY <1>2, <3>1, <3>2
  <2>3. ASSUME NEW u \in Task PROVE Nested(u)'
    <3>1. CASE u = t
        BY <1>1, <2>2, <3>1 DEF Nested
    <3>2. CASE u # t
        BY <1>1, <2>1, <3>2 DEF Inv, CurrentInv, Nested, Under
    <3> QED
        BY <3>1, <3>2
  <2>4. RunScoped'
      BY <1>1 DEF Inv, CurrentInv, RunScoped
  <2>5. MadeFor'
      BY <1>1 DEF Inv, CurrentInv, MadeFor
  <2> QED
      BY <2>3, <2>4, <2>5 DEF CurrentInv
<1> QED
    BY <1>6, <1>7, <1>8, <1>9, <1>10, <1>11 DEF Inv

LEMMA EndInv == ASSUME Inv, NEW t \in Task, End(t) PROVE Inv'
<1>1. /\ stack[t] = <<>> /\ Len(stack[t]) = 0
      /\ caller' = [caller EXCEPT ![t] = Free] /\ current' = [current EXCEPT ![t] = NoRun]
      /\ UNCHANGED <<wiring, single, caches, where, saved, stack, got, missed>>
    BY DEF End
<1>2. \A u \in Task : InTask(u)' = InTask(u)
    BY <1>1 DEF InTask
<1>3. OpenRuns' = OpenRuns
    BY <1>2 DEF OpenRuns
<1>4. TypeOK'
    BY <1>1 DEF Inv, TypeOK, wiring
<1>5. ChainInv'
    BY <1>1, WiringKept DEF Inv, ChainInv
<1>6. CacheMatchesBinding'
    BY <1>1 DEF Inv, CacheMatchesBinding, wiring
<1>7. StackInv'
  <2>1. \A u \in Task : /\ caller'[u] = Free => stack'[u] = <<>>
                        /\ caller'[u] \in Run => caller'[u] \in OpenRuns'
      BY <1>1, <1>3, ContainerAssumption DEF Inv, TypeOK, StackInv
  <2> QED
      BY <1>1, <1>2, <2>1 DEF Inv, StackInv, wiring, Exists
<1>8. RunCachesClosed'
    BY <1>1, <1>3 DEF Inv, RunCachesClosed
<1>9. CurrentInv'
  <2> SUFFICES ASSUME ~Interleaved PROVE CurrentInv'
      BY DEF CurrentInv
  <2>1. \A u \in Task : u # t => /\ current'[u] = current[u] /\ caller'[u] = caller[u]
      BY <1>1 DEF Inv, TypeOK
  <2>2. current'[t] = Under(t, 0)'
      BY <1>1, ContainerAssumption DEF Inv, TypeOK, Under
  <2>3. ASSUME NEW u \in Task PROVE Nested(u)'
    <3>1. CASE u = t
        BY <1>1, <2>2, <3>1 DEF Nested
    <3>2. CASE u # t
        BY <1>1, <2>1, <3>2 DEF Inv, CurrentInv, Nested, Under
    <3> QED
        BY <3>1, <3>2
  <2>4. RunScoped'
      BY <1>1 DEF Inv, CurrentInv, RunScoped
  <2>5. MadeFor'
      BY <1>1 DEF Inv, CurrentInv, MadeFor
  <2> QED
      BY <2>3, <2>4, <2>5 DEF CurrentInv
<1> QED
    BY <1>4, <1>5, <1>6, <1>7, <1>8, <1>9 DEF Inv

\* A run that was never opened is on no stack; then it is on top of one.
LEMMA OpenRunInv == ASSUME Inv, NEW t \in Task, NEW r \in Run, NEW c \in Cont, OpenRun(t, r, c) PROVE Inv'
<1> DEFINE opened == [x \in DOMAIN caches[c] \cup {r} |-> IF x = r THEN EmptyCache ELSE caches[c][x]]
<1>1. /\ caller[t] # Free /\ where[r] = NoCont /\ Exists(c)
      /\ where' = [where EXCEPT ![r] = c] /\ saved' = [saved EXCEPT ![r] = current[t]]
      /\ current' = [current EXCEPT ![t] = r] /\ stack' = [stack EXCEPT ![t] = Append(stack[t], r)]
      /\ caches' = [caches EXCEPT ![c] = opened]
      /\ UNCHANGED <<wiring, single, caller, got, missed>>
    BY DEF OpenRun
<1>2. \A u \in Task : r \notin InTask(u)
    BY <1>1, ContainerAssumption DEF Inv, StackInv
<1>3. \A u \in Task : u # t => stack'[u] = stack[u] /\ current'[u] = current[u] /\ InTask(u)' = InTask(u)
    BY <1>1 DEF Inv, TypeOK, InTask
<1>4. /\ stack[t] \in Seq(Run) /\ stack'[t] \in Seq(Run) /\ Len(stack'[t]) = Len(stack[t]) + 1
      /\ stack'[t][Len(stack[t]) + 1] = r /\ \A i \in DOMAIN stack[t] : stack'[t][i] = stack[t][i]
      /\ DOMAIN stack'[t] = DOMAIN stack[t] \cup {Len(stack[t]) + 1}
    BY <1>1 DEF Inv, TypeOK
<1>5. InTask(t)' = InTask(t) \cup {r}
    BY <1>4 DEF InTask
<1>6. OpenRuns' = OpenRuns \cup {r} /\ r \notin OpenRuns
    BY <1>2, <1>3, <1>5 DEF OpenRuns
<1>7. /\ opened \in RunCaches /\ DOMAIN opened = DOMAIN caches[c] \cup {r}
      /\ r \notin DOMAIN caches[c] /\ opened[r] = EmptyCache
      /\ \A x \in DOMAIN caches[c] : opened[x] = caches[c][x]
  <2>1. DOMAIN caches[c] \in SUBSET Run /\ caches[c] \in [DOMAIN caches[c] -> Cache]
      BY CachesTyped DEF Inv, TypeOK
  <2>2. r \notin DOMAIN caches[c]
      BY <1>1, ContainerAssumption DEF Inv, RunCachesClosed
  <2>3. opened \in [DOMAIN caches[c] \cup {r} -> Cache]
      BY <2>1, NoneTyped
  <2>4. opened \in RunCaches
      BY <2>1, <2>3, CachesTyped
  <2> QED
      BY <2>2, <2>4
<1> HIDE DEF opened
<1>8. caches'[c] = opened /\ \A d \in Cont : d # c => caches'[d] = caches[d]
    BY <1>1 DEF Inv, TypeOK
<1>9. TypeOK'
    BY <1>1, <1>3, <1>4, <1>7 DEF Inv, TypeOK, wiring
<1>10. ChainInv'
    BY <1>1, <1>8, WiringKept DEF Inv, ChainInv
<1>11. CacheMatchesBinding'
    BY <1>1, <1>7, <1>8 DEF Inv, CacheMatchesBinding, wiring, EmptyCache
<1>12. StackInv'
  <2>1. \A i, j \in DOMAIN stack'[t] : stack'[t][i] = stack'[t][j] => i = j
      BY <1>2, <1>4 DEF Inv, StackInv, InTask
  <2>2. \A u \in Task : \A i, j \in DOMAIN stack'[u] : stack'[u][i] = stack'[u][j] => i = j
      BY <1>3, <2>1 DEF Inv, StackInv
  <2>3. \A u \in Task : \A x \in InTask(u)' : where'[x] \in Cont /\ Exists(where[x])'
    <3>1. \A u \in Task : \A x \in InTask(u)' : x = r \/ x \in InTask(u)
        BY <1>3, <1>5
    <3>2. \A d \in Cont : Exists(d)' = Exists(d)
        BY <1>1 DEF wiring, Exists
    <3> QED
        BY <1>1, <3>1, <3>2 DEF Inv, TypeOK, StackInv
  <2>4. \A u, v \in Task : u # v => InTask(u)' \cap InTask(v)' = {}
      BY <1>2, <1>3, <1>5 DEF Inv, StackInv
  <2>5. \A u \in Task : /\ caller'[u] = Free => stack'[u] = <<>>
                        /\ caller'[u] \in Run => caller'[u] \in OpenRuns'
      BY <1>1, <1>3, <1>6 DEF Inv, StackInv
  <2> QED
      BY <2>2, <2>3, <2>4, <2>5 DEF StackInv
<1>13. RunCachesClosed'
  <2>1. \A d \in Cont : \A x \in Run : x # r => (x \in DOMAIN caches'[d] <=> x \in DOMAIN caches[d]) /\ where'[x] = where[x]
      BY <1>1, <1>7, <1>8 DEF Inv, TypeOK
  <2>2. \A d \in Cont : r \in DOMAIN caches'[d] <=> d = c
      BY <1>1, <1>7, <1>8, ContainerAssumption DEF Inv, RunCachesClosed
  <2>3. where'[r] = c
      BY <1>1 DEF Inv, TypeOK
  <2> QED
      BY <1>6, <2>1, <2>2, <2>3 DEF Inv, RunCachesClosed
<1>14. CurrentInv'
  <2> SUFFICES ASSUME ~Interleaved PROVE CurrentInv'
      BY DEF CurrentInv
  <2>1. ASSUME NEW u \in Task PROVE Nested(u)'
    <3>1. Nested(u) /\ \A i \in DOMAIN stack[u] : stack[u][i] # r /\ stack[u][i] \in Run
        BY <1>2 DEF Inv, TypeOK, CurrentInv, InTask
    <3>2. CASE u # t
        BY <1>1, <1>3, <3>1, <3>2 DEF Inv, TypeOK, Nested, Under
    <3>3. CASE u = t
      <4> PICK n \in Nat : n = Len(stack[t])
          BY <1>4
      <4>1. current'[t] = r /\ Under(t, n + 1)' = r
          BY <1>1, <1>4 DEF Inv, TypeOK, Under
      <4>2. \A i \in DOMAIN stack[t] : saved'[stack'[t][i]] = Under(t, i - 1)'
          BY <1>1, <1>4, <3>1, <3>3 DEF Inv, TypeOK, Nested, Under
      <4>3. saved'[r] = Under(t, n) /\ Under(t, n)' = Under(t, n)
          BY <1>1, <1>4, <3>1, <3>3 DEF Inv, TypeOK, Nested, Under
      <4> QED
          BY <1>4, <3>3, <4>1, <4>2, <4>3 DEF Nested, Under
    <3> QED
        BY <3>2, <3>3
  <2>2. RunScoped'
      BY <1>1 DEF Inv, CurrentInv, RunScoped
  <2>3. MadeFor'
      BY <1>7, <1>8 DEF Inv, CurrentInv, MadeFor, EmptyCache, NoInst
  <2> QED
      BY <2>1, <2>2, <2>3 DEF CurrentInv
<1> QED
    BY <1>9, <1>10, <1>11, <1>12, <1>13, <1>14 DEF Inv

\* Only a run that no task works for is closed; without interleaving it is the top one.
LEMMA CloseRunInv == ASSUME Inv, NEW t \in Task, NEW r \in Run, CloseRun(t, r) PROVE Inv'
<1> DEFINE c == where[r]
           popped == [x \in DOMAIN caches[c] \ {r} |-> caches[c][x]]
<1>1. PICK i \in DOMAIN stack[t] : stack[t][i] = r /\ stack' = [stack EXCEPT ![t] = RemoveAt(stack[t], i)]
    BY DEF CloseRun
<1>2. /\ r \in Active(t) /\ \A u \in Task : caller[u] # r
      /\ caches' = [caches EXCEPT ![c] = popped]
      /\ current' = [current EXCEPT ![t] = saved[r]]
      /\ UNCHANGED <<wiring, single, where, saved, caller, got, missed>>
    BY DEF CloseRun, Popped, Restored
<1>3. /\ stack[t] \in Seq(Run) /\ i \in 1..Len(stack[t]) /\ Len(stack[t]) \in Nat
      /\ r \in InTask(t) /\ c \in Cont /\ stack'[t] = RemoveAt(stack[t], i)
    BY <1>1 DEF Inv, TypeOK, StackInv, InTask
<1>4. \A u \in Task : u # t => stack'[u] = stack[u] /\ current'[u] = current[u] /\ InTask(u)' = InTask(u)
    BY <1>1, <1>2 DEF Inv, TypeOK, InTask
<1>5. /\ stack'[t] \in Seq(Run) /\ Len(stack'[t]) = Len(stack[t]) - 1
      /\ \A j \in 1..(Len(stack[t]) - 1) : stack'[t][j] = IF j < i THEN stack[t][j] ELSE stack[t][j + 1]
    BY <1>3, Removed
<1>6. InTask(t)' = InTask(t) \ {r} /\ \A j, k \in DOMAIN stack'[t] : stack'[t][j] = stack'[t][k] => j = k
  <2>1. \A j, k \in DOMAIN stack[t] : stack[t][j] = stack[t][k] => j = k
      BY DEF Inv, StackInv
  <2> DEFINE z == RemoveAt(stack[t], i)
  <2>2. /\ {z[j] : j \in DOMAIN z} = {stack[t][j] : j \in DOMAIN stack[t]} \ {stack[t][i]}
        /\ \A j, k \in DOMAIN z : z[j] = z[k] => j = k
      BY <1>3, <2>1, RemovedSet
  <2>3. z = stack'[t]
      BY <1>3
  <2> HIDE DEF z
  <2> QED
      BY <1>1, <2>2, <2>3 DEF InTask
<1>7. OpenRuns' = OpenRuns \ {r}
  <2>1. \A u \in Task : u # t => r \notin InTask(u)
      BY <1>3 DEF Inv, StackInv
  <2> QED
      BY <1>4, <1>6, <2>1 DEF OpenRuns
<1>8. /\ popped \in RunCaches /\ DOMAIN popped = DOMAIN caches[c] \ {r}
      /\ \A x \in DOMAIN popped : popped[x] = caches[c][x]
  <2>1. DOMAIN caches[c] \in SUBSET Run /\ caches[c] \in [DOMAIN caches[c] -> Cache]
      BY <1>3, CachesTyped DEF Inv, TypeOK
  <2>2. popped \in [DOMAIN caches[c] \ {r} -> Cache]
      BY <2>1
  <2>3. popped \in RunCaches
      BY <2>1, <2>2, CachesTyped
  <2> QED
      BY <2>3
<1> HIDE DEF popped
<1>9. caches'[c] = popped /\ \A d \in Cont : d # c => caches'[d] = caches[d]
    BY <1>2, <1>3 DEF Inv, TypeOK
<1> HIDE DEF c
<1>10. TypeOK'
    BY <1>1, <1>2, <1>3, <1>5, <1>8 DEF Inv, TypeOK, wiring
<1>11. ChainInv'
    BY <1>2, <1>8, <1>9, WiringKept DEF Inv, ChainInv
<1>12. CacheMatchesBinding'
    BY <1>2, <1>8, <1>9 DEF Inv, CacheMatchesBinding, wiring
<1>13. StackInv'
  <2>1. \A u \in Task : \A j, k \in DOMAIN stack'[u] : stack'[u][j] = stack'[u][k] => j = k
      BY <1>4, <1>6 DEF Inv, StackInv
  <2>2. \A u \in Task : \A x \in InTask(u)' : where'[x] \in Cont /\ Exists(where[x])'
    <3>1. \A u \in Task : \A x \in InTask(u)' : x \in InTask(u)
        BY <1>4, <1>6
    <3> QED
        BY <1>2, <3>1 DEF Inv, StackInv, wiring, Exists
  <2>3. \A u, v \in Task : u # v => InTask(u)' \cap InTask(v)' = {}
      BY <1>4, <1>6 DEF Inv, StackInv
  <2>4. caller[t] # Free
      BY <1>3 DEF Inv, StackInv, InTask
  <2>5. \A u \in Task : /\ caller'[u] = Free => stack'[u] = <<>>
                        /\ caller'[u] \in Run => caller'[u] \in OpenRuns'
      BY <1>2, <1>4, <1>7, <2>4 DEF Inv, StackInv
  <2> QED
      BY <2>1, <2>2, <2>3, <2>5 DEF StackInv
<1>14. RunCachesClosed'
  <2>1. \A d \in Cont : \A x \in Run : x # r => (x \in DOMAIN caches'[d] <=> x \in DOMAIN caches[d])
      BY <1>8, <1>9
  <2>2. \A d \in Cont : r \notin DOMAIN caches'[d]
      BY <1>8, <1>9 DEF Inv, RunCachesClosed, c
  <2> QED
      BY <1>2, <1>7, <2>1, <2>2 DEF Inv, RunCachesClosed
<1>15. CurrentInv'
  <2> SUFFICES ASSUME ~Interleaved PROVE CurrentInv'
      BY DEF CurrentInv
  <2>1. i = Len(stack[t])
    <3>1. r = stack[t][Len(stack[t])]
        BY <1>2, <1>3 DEF Active, Last
    <3> QED
        BY <1>1, <1>3, <3>1 DEF Inv, StackInv
  <2>2. ASSUME NEW u \in Task PROVE Nested(u)'
    <3>1. Nested(u)
        BY DEF Inv, CurrentInv
    <3>2. CASE u # t
        BY <1>2, <1>4, <3>1, <3>2 DEF Nested, Under
    <3>3. CASE u = t
      <4>1. PICK n \in Nat : n + 1 = Len(stack[t]) /\ n = Len(stack'[t])
          BY <1>3, <1>5
      <4>2. \A j \in 1..n : stack'[t][j] = stack[t][j]
          BY <1>5, <2>1, <4>1
      <4>3. \A j \in 0..n : Under(t, j)' = Under(t, j)
          BY <1>2, <4>2 DEF Under
      <4>4. saved[r] = Under(t, n)
          BY <1>1, <2>1, <3>1, <3>3, <4>1 DEF Nested
      <4>5. current'[t] = saved[r]
          BY <1>2 DEF Inv, TypeOK
      <4>6. \A j \in 1..n : saved[stack[t][j]] = Under(t, j - 1)
          BY <1>3, <3>1, <3>3, <4>1 DEF Nested
      <4>7. current'[t] = Under(t, n)' /\ \A j \in 1..n : saved'[stack'[t][j]] = Under(t, j - 1)'
          BY <1>2, <4>1, <4>2, <4>3, <4>4, <4>5, <4>6
      <4>8. DOMAIN stack'[t] = 1..n
          BY <1>5, <4>1
      <4> QED
          BY <3>3, <4>1, <4>7, <4>8 DEF Nested
    <3> QED
        BY <3>2, <3>3
  <2>3. RunScoped'
      BY <1>2 DEF Inv, CurrentInv, RunScoped
  <2>4. MadeFor'
      BY <1>8, <1>9 DEF Inv, CurrentInv, MadeFor
  <2> QED
      BY <2>2, <2>3, <2>4 DEF CurrentInv
<1> QED
    BY <1>10, <1>11, <1>12, <1>13, <1>14, <1>15 DEF Inv

-----------------------------------------------------------------------------
(* resolve.                                                                *)

Binding == [ver : 0..MaxBind, scope : Scope \cup {"unbound"}, factory : BOOLEAN]

\* What a binding makes says which one it was, and for which run.
LEMMA MadeTyped ==
    ASSUME NEW b \in Binding, NEW c \in Cont, NEW r \in Run \cup {NoRun}
    PROVE  /\ Made(b, c, r) \in Inst /\ Made(b, c, r).ver = b.ver
           /\ "for" \in DOMAIN Made(b, c, r) => Made(b, c, r).for = r
<1>1. b.ver \in 0..MaxBind
    BY DEF Binding
<1>2. CASE b.factory
  <2>1. [ver |-> b.ver, at |-> c, for |-> r] \in Instances(b.ver)
      BY DEF Instances
  <2> QED
      BY <1>1, <1>2, <2>1 DEF Made, Inst
<1>3. CASE ~b.factory
  <2>1. [ver |-> b.ver] \in Instances(b.ver)
      BY DEF Instances
  <2>2. "for" \notin DOMAIN [ver |-> b.ver]
      OBVIOUS
  <2> QED
      BY <1>1, <1>3, <2>1, <2>2 DEF Made, Inst
<1> QED
    BY <1>2, <1>3

LEMMA ForTyped ==
    ASSUME NEW i \in Inst, "for" \in DOMAIN i PROVE i.for \in Run \cup {NoRun}
<1>1. PICK v \in 0..MaxBind : i \in Instances(v)
    BY DEF Inst
<1>2. CASE i \in [ver : {v}]
    BY <1>2
<1>3. CASE i \in [ver : {v}, at : Cont, for : Run \cup {NoRun}]
    BY <1>3
<1> QED
    BY <1>1, <1>2, <1>3 DEF Instances

\* Code of a run runs in a task that has it open, or makes a tool call for it; without
\* interleaving the variable names that run there.
LEMMA WorksForOpen ==
    ASSUME Inv, NEW t \in Task, NEW r \in Run, r \in WorksFor(t)
    PROVE  r \in OpenRuns /\ where[r] \in Cont /\ (~Interleaved => current[t] = r)
<1>1. CASE stack[t] # <<>>
  <2>1. stack[t] \in Seq(Run) /\ Len(stack[t]) # 0 /\ Len(stack[t]) \in DOMAIN stack[t]
      BY <1>1 DEF Inv, TypeOK
  <2>2. r \in InTask(t) /\ (~Interleaved => r = stack[t][Len(stack[t])])
      BY <1>1, <2>1 DEF WorksFor, Active, Last, InTask
  <2>3. ~Interleaved => current[t] = stack[t][Len(stack[t])]
      BY <2>1 DEF Inv, CurrentInv, Nested, Under
  <2> QED
      BY <2>2, <2>3 DEF Inv, StackInv, OpenRuns
<1>2. CASE stack[t] = <<>>
  <2>1. r = caller[t] /\ r \in OpenRuns
      BY <1>2 DEF WorksFor, Inv, StackInv
  <2>2. where[r] \in Cont
      BY <2>1 DEF Inv, StackInv, OpenRuns
  <2>3. ~Interleaved => current[t] = r
      BY <1>2, <2>1 DEF Inv, CurrentInv, Nested, Under
  <2> QED
      BY <2>1, <2>2, <2>3
<1> QED
    BY <1>1, <1>2

LEMMA ResolveInv == ASSUME Inv, NEW t \in Task, NEW r \in Run, NEW k \in Key, Resolve(t, r, k) PROVE Inv'
<1> PICK c \in Cont : c = where[r]
    BY WorksForOpen DEF Resolve
<1> PICK b \in Binding : b = binding[c][k]
    BY DEF Inv, TypeOK, Binding
<1>1. r \in OpenRuns /\ (~Interleaved => current[t] = r)
    BY WorksForOpen DEF Resolve
<1>2. /\ ResolveSingleton(c, k, b, r) \/ ResolveRun(c, k, b, r, current[t])
      /\ UNCHANGED <<wiring, running>>
    BY DEF Resolve
<1>3. UNCHANGED <<binding, frozen, made, parent, inherited, where, saved, stack, caller, current>>
    BY <1>2 DEF wiring, running
<1>4. \A d \in Cont : Exists(d)' = Exists(d)
    BY <1>3 DEF Exists
<1>5. CASE ResolveSingleton(c, k, b, r)
  <2> DEFINE i == IF single[c][k] # NoInst THEN single[c][k] ELSE Made(b, c, NoRun)
  <2>1. single' = [single EXCEPT ![c][k] = i] /\ UNCHANGED <<caches, got, missed>>
      BY <1>5 DEF ResolveSingleton
  <2>2. i \in Inst /\ (i # NoInst => i.ver = b.ver)
      BY MadeTyped DEF Inv, TypeOK, Cache, CacheMatchesBinding
  <2> HIDE DEF i
  <2>3. single' \in [Cont -> Cache] /\ \A d \in Cont : \A j \in Key :
            single'[d][j] = IF d = c /\ j = k THEN i ELSE single[d][j]
      BY <2>1, <2>2 DEF Inv, TypeOK, Cache
  <2>4. TypeOK'
      BY <1>3, <2>1, <2>3 DEF Inv, TypeOK
  <2>5. CacheMatchesBinding'
      BY <1>3, <2>1, <2>2, <2>3 DEF Inv, CacheMatchesBinding
  <2>6. ChainInv'
      BY <1>2, <2>1, WiringKept DEF Inv, ChainInv
  <2>7. StackInv' /\ RunCachesClosed'
      BY <1>2, <1>4, <2>1, RunningKept DEF Inv
  <2>8. CurrentInv'
      BY <1>2, <2>1, CurrentKept DEF Inv, CurrentInv, MadeFor
  <2> QED
      BY <2>4, <2>5, <2>6, <2>7, <2>8 DEF Inv
<1>6. CASE ResolveRun(c, k, b, r, current[t]) /\ current[t] \notin DOMAIN caches[c]
  <2>1. missed' = missed \cup {r} /\ UNCHANGED <<single, caches, got>>
      BY <1>6 DEF ResolveRun
  <2>2. Interleaved
      BY <1>1, <1>6 DEF Inv, RunCachesClosed
  <2>3. TypeOK'
      BY <1>3, <2>1 DEF Inv, TypeOK
  <2>4. CacheMatchesBinding'
      BY <1>3, <2>1 DEF Inv, CacheMatchesBinding
  <2>5. ChainInv'
      BY <1>2, <2>1, WiringKept DEF Inv, ChainInv
  <2>6. StackInv' /\ RunCachesClosed'
      BY <1>2, <1>4, <2>1, RunningKept DEF Inv
  <2> QED
      BY <2>2, <2>3, <2>4, <2>5, <2>6 DEF Inv, CurrentInv
<1>7. CASE ResolveRun(c, k, b, r, current[t]) /\ current[t] \in DOMAIN caches[c]
  <2> PICK id \in Run : id = current[t]
      BY <1>7, CachesTyped DEF Inv, TypeOK
  <2> DEFINE i == IF caches[c][id][k] # NoInst THEN caches[c][id][k] ELSE Made(b, c, r)
  <2>1. /\ id \in DOMAIN caches[c] /\ caches' = [caches EXCEPT ![c][id][k] = i]
        /\ got' = IF "for" \in DOMAIN i THEN [got EXCEPT ![r] = @ \cup {i.for}] ELSE got
        /\ UNCHANGED <<single, missed>>
      BY <1>7 DEF ResolveRun
  <2>2. DOMAIN caches[c] \in SUBSET Run /\ caches[c] \in [DOMAIN caches[c] -> [Key -> Inst]]
      BY CachesTyped DEF Inv, TypeOK, Cache
  <2>3. /\ i \in Inst /\ (i # NoInst => i.ver = b.ver)
        /\ ~Interleaved /\ "for" \in DOMAIN i => i.for = r /\ id = r
    <3>1. caches[c][id][k] \in Inst
        BY <2>1, <2>2
    <3>2. caches[c][id][k] # NoInst => caches[c][id][k].ver = b.ver
        BY <2>1 DEF Inv, CacheMatchesBinding
    <3>3. ~Interleaved => id = r /\ ("for" \in DOMAIN caches[c][id][k] => caches[c][id][k].for = id)
        BY <1>1, <2>1 DEF Inv, CurrentInv, MadeFor
    <3> QED
        BY <3>1, <3>2, <3>3, MadeTyped
  <2>4. "for" \in DOMAIN i => i.for \in Run \cup {NoRun}
      BY <2>3, ForTyped
  <2> HIDE DEF i
  <2> DEFINE f == [caches[c] EXCEPT ![id][k] = i]
  <2>5. f \in [DOMAIN caches[c] -> [Key -> Inst]] /\ \A x \in DOMAIN caches[c] : \A j \in Key :
            f[x][j] = IF x = id /\ j = k THEN i ELSE caches[c][x][j]
      BY <2>1, <2>2, <2>3
  <2>6. caches' = [caches EXCEPT ![c] = f]
      BY <2>1 DEF Inv, TypeOK
  <2>7. f \in RunCaches /\ DOMAIN f = DOMAIN caches[c]
      BY <2>2, <2>5, CachesTyped DEF Cache
  <2> HIDE DEF f
  <2>8. caches'[c] = f /\ \A d \in Cont : d # c => caches'[d] = caches[d]
      BY <2>6 DEF Inv, TypeOK
  <2>9. TypeOK'
    <3>1. got' \in [Run -> SUBSET (Run \cup {NoRun})]
        BY <2>1, <2>4 DEF Inv, TypeOK
    <3>2. caches' \in [Cont -> RunCaches]
        BY <2>6, <2>7 DEF Inv, TypeOK
    <3> QED
        BY <1>3, <2>1, <3>1, <3>2 DEF Inv, TypeOK
  <2>10. CacheMatchesBinding'
      BY <1>3, <2>1, <2>3, <2>5, <2>7, <2>8 DEF Inv, CacheMatchesBinding
  <2>11. ChainInv'
      BY <1>2, <2>7, <2>8, WiringKept DEF Inv, ChainInv
  <2>12. StackInv' /\ RunCachesClosed'
      BY <1>2, <1>4, <2>7, <2>8, RunningKept DEF Inv
  <2>13. CurrentInv'
    <3> SUFFICES ASSUME ~Interleaved PROVE CurrentInv'
        BY DEF CurrentInv
    <3>1. \A u \in Task : Nested(u)'
        BY <1>3 DEF Inv, CurrentInv, Nested, Under
    <3>2. MadeFor'
        BY <2>3, <2>5, <2>7, <2>8 DEF Inv, CurrentInv, MadeFor
    <3>3. RunScoped'
        BY <2>1, <2>3 DEF Inv, TypeOK, CurrentInv, RunScoped
    <3> QED
        BY <3>1, <3>2, <3>3 DEF CurrentInv
  <2> QED
      BY <2>9, <2>10, <2>11, <2>12, <2>13 DEF Inv
<1> QED
    BY <1>2, <1>5, <1>6, <1>7
-----------------------------------------------------------------------------
LEMMA NextInv == Inv /\ [Next]_vars => Inv'
<1> SUFFICES ASSUME Inv, [Next]_vars PROVE Inv'
    OBVIOUS
<1>1. CASE UNCHANGED vars
  <2>1. UNCHANGED <<wiring, running, single, caches, got, missed>>
      BY <1>1 DEF vars, wiring, running
  <2>2. TypeOK' /\ CacheMatchesBinding'
      BY <2>1 DEF Inv, TypeOK, CacheMatchesBinding, wiring, running
  <2>3. ChainInv'
      BY <2>1, WiringKept DEF Inv, ChainInv
  <2>4. StackInv' /\ RunCachesClosed'
      BY <2>1, RunningKept DEF Inv, wiring, Exists
  <2>5. CurrentInv'
      BY <2>1, CurrentKept DEF Inv, CurrentInv, MadeFor
  <2> QED
      BY <2>2, <2>3, <2>4, <2>5 DEF Inv
<1>2. ASSUME NEW c \in Cont, NEW k \in Key, Bind(c, k) \/ Freeze(c, k) PROVE Inv'
    BY <1>2, BindInv, FreezeInv
<1>3. ASSUME NEW p \in Cont, NEW c \in Cont, Child(p, c) PROVE Inv'
    BY <1>3, ChildInv
<1>4. ASSUME NEW t \in Task, Start(t) \/ End(t) PROVE Inv'
    BY <1>4, StartInv, EndInv
<1>5. ASSUME NEW t \in Task, NEW r \in Run, CloseRun(t, r) \/ \E c \in Cont : OpenRun(t, r, c) PROVE Inv'
    BY <1>5, CloseRunInv, OpenRunInv
<1>6. ASSUME NEW t \in Task, NEW r \in Run, NEW k \in Key, Resolve(t, r, k) PROVE Inv'
    BY <1>6, ResolveInv
<1> QED
    BY <1>1, <1>2, <1>3, <1>4, <1>5, <1>6 DEF Next

LEMMA Invariance == Spec => []Inv
<1> QED
    BY InitInv, NextInv, PTL DEF Spec
-----------------------------------------------------------------------------
\* Every variable keeps its type: a container's run caches belong to runs, a cache
\* holds instances of bindings that were made.
THEOREM TypeCorrect == Spec => []TypeOK
<1>1. Inv => TypeOK
    BY DEF Inv
<1> QED
    BY <1>1, Invariance, PTL

\* Container.bind evicts all that the old binding made, in the container and in the
\* caches of its open runs, and child copies bindings and singletons together.
THEOREM CachesCurrent == Spec => []CacheMatchesBinding
<1>1. Inv => CacheMatchesBinding
    BY DEF Inv
<1> QED
    BY <1>1, Invariance, PTL

\* Container.freeze outlives child: no chain of copies unfreezes a key or changes what
\* it is bound to.
THEOREM FrozenForGood == Spec => []FrozenInherited
<1>1. Inv => FrozenInherited
    BY DEF Inv, ChainInv, FrozenInherited
<1> QED
    BY <1>1, Invariance, PTL

\* run_scope: a run resolves its own instances, in its own code and in its tool calls,
\* however runs nest, unless one task drives several streams in turn; a run's cache is
\* there while the run is open, and then gone, even so.
THEOREM ScopesHeld == Spec => []((~Interleaved => RunScopeHeld) /\ RunCachesClosed)
<1>1. Inv => ((~Interleaved => RunScopeHeld) /\ RunCachesClosed)
    BY DEF Inv, CurrentInv, RunScopeHeld
<1> QED
    BY <1>1, Invariance, PTL
=============================================================================
