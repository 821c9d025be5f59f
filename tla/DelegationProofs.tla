-------------------------- MODULE DelegationProofs --------------------------
(***************************************************************************)
(* Proofs about runs inside runs: for any agents, whatever delegates and   *)
(* escalates to whatever, any limits, and any number of runs and turns.    *)
(***************************************************************************)
EXTENDS Delegation, FiniteSetTheorems, TLAPS

Roots == {"top", "escalation"}

\* What a node is, by where it is.
Kind(n) ==
    /\ node[n].via # "tool" => node[n].agent \in Agent
    /\ node[n].st \in {"opening", "asking", "attempting", "waiting"} => node[n].via # "tool"
    /\ node[n].st \in {"opening", "asking"} => ~Escalating(n)
    /\ node[n].st = "attempting" => Escalating(n)
    /\ node[n].st = "queued" => node[n].via \in {"tool", "delegate"} /\ node[n].caps = {}
    /\ node[n].st = "running" => node[n].via = "tool"
    /\ node[n].via = "delegate" => node[n].need = {}
    /\ node[n].st \in {"attempting", "waiting"} /\ Escalating(n)
       => node[n].attempt < MaxAttempts[node[n].agent]

\* Who waits for it: a turn for its calls, a cascade for its attempt.
Parent(n) ==
    LET p == node[n].up IN
    /\ node[n].via = "top" <=> p = 0
    /\ p # 0 =>
             /\ p \in Busy \ {n} /\ node[p].st \in {"waiting", "draining"} /\ node[p].via # "tool"
             /\ node[n].via \in {"delegate", "tool"} => ~Escalating(p)
             /\ node[n].via \in {"sas", "escalation"} => Escalating(p)
             /\ node[n].via = "sas" => node[n].agent = node[p].agent

ParentInv == \A n \in Busy : Parent(n)

\* Grants shrink from one run to the next.
Grant(n) ==
    LET p == node[n].up IN
    /\ node[n].via # "tool" /\ node[n].st # "queued" => node[n].caps \subseteq Declared[node[n].agent]
    /\ node[n].via \in {"delegate", "sas"} => node[n].caps \subseteq node[p].caps
    /\ node[n].via = "tool" => node[n].need \subseteq node[p].caps

\* The lineage n works under: its own at a root, else the one of the run it works for.
Own(n) ==
    IF node[n].via \in Roots THEN [depth |-> 0, limit |-> MaxDepth[node[n].agent]]
    ELSE [depth |-> node[node[n].up].depth + 1, limit |-> node[node[n].up].limit]

Lin(n) ==
    IF node[n].via = "sas" THEN Own(node[n].up)
    ELSE IF node[n].via = "tool" THEN [depth |-> node[node[n].up].depth, limit |-> node[node[n].up].limit]
    ELSE Own(n)

\* It is left on the object that runs, and is what the run reads when it opens.
Handed(n) ==
    \/ node[n].stash = NoLineage /\ Lin(n) = [depth |-> 0, limit |-> MaxDepth[node[n].agent]]
    \/ node[n].stash = Lin(n)

Lineaged(n) ==
    /\ node[n].via \in {"delegate", "tool"} =>
          /\ node[node[n].up].depth = Lin(node[n].up).depth
          /\ node[node[n].up].limit = Lin(node[n].up).limit
    /\ node[n].st \in {"asking", "waiting"} /\ ~Escalating(n)
       => node[n].depth = Lin(n).depth /\ node[n].limit = Lin(n).limit
    /\ node[n].st = "opening" \/ (node[n].st = "attempting" /\ node[n].attempt = 0) => Handed(n)
    /\ Lin(n).depth \in Nat /\ Lin(n).limit \in Nat /\ Lin(n).depth <= Lin(n).limit

\* The cascades n is nested in, and its own.
Outer(n) == IF node[n].up = 0 THEN 0 ELSE node[node[n].up].cascades

Cascaded(n) ==
    node[n].st \in {"opening", "asking", "attempting", "waiting"} =>
        /\ node[n].cascades >= Outer(n)
        /\ Escalating(n) => node[n].cascades > Outer(n) /\ node[n].cascades <= MaxCascade[node[n].agent]

\* The numbers a run carries are those of the path above it.
Counted(n) ==
    /\ Cardinality({m \in LineOf(n) : node[m].via = "delegate"}) <= Lin(n).depth
    /\ \E m \in LineOf(n) : node[m].via \in Roots
    /\ Cardinality({m \in PathOf(n) \ {n} : Escalating(m)}) <= Outer(n)

Ok(n) == Kind(n) /\ Grant(n) /\ Lineaged(n) /\ Cascaded(n) /\ Counted(n)

Inv == TypeOK /\ ParentInv /\ \A n \in Busy : Ok(n)
-----------------------------------------------------------------------------
(* The path above a node.                                                  *)

LEMMA BusyTyped ==
    TypeOK => \A n \in Node : /\ n \in Busy <=> node[n] \in NodeRecord
                              /\ n \notin Busy <=> node[n] = Free
<1> SUFFICES ASSUME TypeOK, NEW n \in Node
             PROVE  node[n] \in NodeRecord => node[n] # Free
    BY DEF TypeOK, Busy
<1>1. \A r \in NodeRecord : r.st # "free"
    BY DEF NodeRecord, State, Ended
<1>2. Free.st = "free"
    BY DEF Free
<1> QED
    BY <1>1, <1>2

LEMMA AboveSelf ==
    ASSUME NEW n \in Busy, NEW stop PROVE n \in Above(n, stop) /\ Above(n, stop) \subseteq Busy
BY DEF Above

LEMMA AboveClosed ==
    ASSUME ParentInv, NEW n \in Busy, NEW stop, "top" \in stop
    PROVE  /\ \A x \in Busy : node[x].via \in stop \/ node[x].up \in Busy
           /\ \A x \in Above(n, stop) : node[x].via \in stop \/ node[x].up \in Above(n, stop)
<1>1. \A x \in Busy : node[x].via \in stop \/ node[x].up \in Busy
    BY DEF ParentInv, Parent
<1>2. ASSUME NEW x \in Above(n, stop), node[x].via \notin stop PROVE node[x].up \in Above(n, stop)
  <2>1. \A s \in SUBSET Busy : n \in s /\ (\A y \in s : node[y].via \in stop \/ node[y].up \in s)
                               => node[x].up \in s
      BY <1>2 DEF Above
  <2>2. node[x].up \in Busy
      BY <1>1, <1>2 DEF Above
  <2> QED
      BY <2>1, <2>2 DEF Above
<1> QED
    BY <1>1, <1>2

\* The path of n is n and, if it goes on, the path of the run that waits for n.
LEMMA AboveUp ==
    ASSUME ParentInv, NEW n \in Busy, NEW stop, "top" \in stop
    PROVE  /\ node[n].via \in stop => Above(n, stop) = {n}
           /\ node[n].via \notin stop => /\ node[n].up \in Busy
                                         /\ Above(n, stop) = {n} \cup Above(node[n].up, stop)
<1>1. CASE node[n].via \in stop
  <2>1. \A m \in Above(n, stop) : m \in {n}
      BY <1>1 DEF Above
  <2> QED
      BY <1>1, <2>1, AboveSelf
<1>2. CASE node[n].via \notin stop
  <2> DEFINE p == node[n].up
             z == {n} \cup Above(p, stop)
  <2>1. p \in Busy
      BY <1>2, AboveClosed
  <2>2. z \subseteq Busy /\ p \in z
      BY <2>1, AboveSelf
  <2>3. \A x \in z : node[x].via \in stop \/ node[x].up \in z
      BY <2>1, <2>2, AboveClosed
  <2>4. Above(n, stop) \subseteq z
    <3> HIDE DEF z
    <3> QED
        BY <2>2, <2>3 DEF Above, z
  <2>5. Above(p, stop) \subseteq Above(n, stop)
      BY <1>2, <2>1 DEF Above
  <2> QED
      BY <1>2, <2>1, <2>4, <2>5, AboveSelf
<1> QED
    BY <1>1, <1>2

\* Nodes that stay keep their path, whatever else comes and goes.
LEMMA AboveKept ==
    ASSUME ParentInv, ParentInv',
           \A x \in Busy \cap Busy' : node'[x].up = node[x].up /\ node'[x].via = node[x].via,
           NEW n \in Busy \cap Busy', NEW stop, "top" \in stop
    PROVE  Above(n, stop)' = Above(n, stop)
<1>1. \A x \in Busy : node[x].via \in stop \/ node[x].up \in Busy
    BY DEF ParentInv, Parent
<1>2. \A x \in Busy' : node'[x].via \in stop \/ node'[x].up \in Busy'
    BY DEF ParentInv, Parent
<1>3. Above(n, stop)' \subseteq Above(n, stop)
  <2> DEFINE s == Above(n, stop) \cap Busy'
  <2>1. \A x \in s : node'[x].via \in stop \/ node'[x].up \in s
      BY <1>2, AboveClosed, AboveSelf
  <2>2. n \in s /\ s \in SUBSET Busy'
      BY AboveSelf
  <2> HIDE DEF s
  <2>3. \A m \in Above(n, stop)' : m \in s
      BY <2>1, <2>2 DEF Above
  <2> QED
      BY <2>3 DEF s
<1>4. Above(n, stop) \subseteq Above(n, stop)'
  <2> SUFFICES ASSUME NEW m \in Above(n, stop), NEW z \in SUBSET Busy', n \in z,
                      \A x \in z : node'[x].via \in stop \/ node'[x].up \in z
               PROVE  m \in z
    <3>1. \A m \in Above(n, stop) : m \in Busy'
      <4> DEFINE b == Busy \cap Busy'
      <4>1. \A x \in b : node[x].via \in stop \/ node[x].up \in b
          BY <1>1, <1>2
      <4>2. n \in b /\ b \in SUBSET Busy
          OBVIOUS
      <4> HIDE DEF b
      <4>3. \A m \in Above(n, stop) : m \in b
          BY <4>1, <4>2 DEF Above
      <4> QED
          BY <4>3 DEF b
    <3> QED
        BY <3>1 DEF Above
  <2> DEFINE s == z \cap Busy
  <2>1. \A x \in s : node[x].via \in stop \/ node[x].up \in s
      BY <1>1
  <2>2. n \in s /\ s \in SUBSET Busy
      OBVIOUS
  <2> HIDE DEF s
  <2>3. m \in s
      BY <2>1, <2>2 DEF Above
  <2> QED
      BY <2>3 DEF s
<1> QED
    BY <1>3, <1>4
-----------------------------------------------------------------------------
(* What a step that touches the nodes `touched` leaves as it was.          *)

\* n stands where it stood.
Same(n) ==
    /\ node'[n].up = node[n].up /\ node'[n].via = node[n].via
    /\ node'[n].agent = node[n].agent /\ node'[n].need = node[n].need

\* n goes on to wait.
Steady(n) ==
    /\ n \in Busy' /\ Same(n) /\ node'[n].st \in {"waiting", "draining"}
    /\ node'[n].caps = node[n].caps /\ node'[n].depth = node[n].depth
    /\ node'[n].limit = node[n].limit /\ node'[n].cascades = node[n].cascades

Framed(touched) ==
    /\ \A n \in Busy \cap Busy' : Same(n) /\ (node[n].up # 0 => Steady(node[n].up))
    /\ \A n \in (Busy \cap Busy') \ touched : node'[n] = node[n]

LEMMA EdgesKept ==
    ASSUME Inv, NEW touched, Framed(touched), NEW n \in Busy \cap Busy'
    PROVE  /\ Parent(n)' /\ Lin(n)' = Lin(n) /\ Outer(n)' = Outer(n)
           /\ node[n].up # 0 => Lin(node[n].up)' = Lin(node[n].up)
           /\ Escalating(n)' = Escalating(n)
<1>1. \A x \in Busy \cap Busy' : /\ Parent(x)' /\ Own(x)' = Own(x) /\ Outer(x)' = Outer(x)
                                 /\ Escalating(x)' = Escalating(x)
  <2> SUFFICES ASSUME NEW x \in Busy \cap Busy'
               PROVE  /\ Parent(x)' /\ Own(x)' = Own(x) /\ Outer(x)' = Outer(x)
                      /\ Escalating(x)' = Escalating(x)
      OBVIOUS
  <2>1. Same(x) /\ (node[x].up # 0 => Steady(node[x].up)) /\ Parent(x)
      BY DEF Framed, Inv, ParentInv
  <2>2. Parent(x)'
      BY <2>1 DEF Parent, Same, Steady, Escalating
  <2>3. Own(x)' = Own(x) /\ Outer(x)' = Outer(x)
      BY <2>1 DEF Own, Outer, Same, Steady, Parent, Roots
  <2> QED
      BY <2>1, <2>2, <2>3 DEF Escalating, Same
<1>2. \A x \in Busy \cap Busy' : node[x].up # 0 => node[x].up \in Busy \cap Busy'
    BY DEF Framed, Steady, Inv, ParentInv, Parent
<1>3. \A x \in Busy \cap Busy' : Lin(x)' = Lin(x)
  <2> SUFFICES ASSUME NEW x \in Busy \cap Busy' PROVE Lin(x)' = Lin(x)
      OBVIOUS
  <2>1. Same(x) /\ (node[x].up # 0 => Steady(node[x].up)) /\ Parent(x) /\ Own(x)' = Own(x)
      BY <1>1 DEF Framed, Inv, ParentInv
  <2> PICK p : p = node[x].up
      OBVIOUS
  <2>2. p # 0 => Own(p)' = Own(p) /\ Steady(p)
      BY <1>1, <1>2, <2>1
  <2>3. node'[x].up = p /\ node'[x].via = node[x].via
      BY <2>1 DEF Same
  <2>4. CASE p = 0
      BY <2>1, <2>3, <2>4 DEF Lin, Parent
  <2>5. CASE node[x].via = "sas" /\ p # 0
      BY <2>2, <2>3, <2>5 DEF Lin
  <2>6. CASE node[x].via # "sas" /\ p # 0
      BY <2>1, <2>2, <2>3, <2>6 DEF Lin, Steady
  <2> QED
      BY <2>4, <2>5, <2>6
<1>4. node[n].up # 0 => Lin(node[n].up)' = Lin(node[n].up)
  <2> PICK p : p = node[n].up
      OBVIOUS
  <2>1. node'[n].up = p
      BY DEF Framed, Same
  <2> QED
      BY <1>2, <1>3, <2>1
<1> QED
    BY <1>1, <1>4, <1>3

LEMMA CountedKept ==
    ASSUME Inv, NEW touched, Framed(touched), ParentInv', NEW n \in Busy \cap Busy'
    PROVE  Counted(n)'
<1>1. \A x \in Busy \cap Busy' : node'[x].up = node[x].up /\ node'[x].via = node[x].via
    BY DEF Framed, Same
<1>2. LineOf(n)' = LineOf(n) /\ PathOf(n)' = PathOf(n)
    BY <1>1, AboveKept DEF LineOf, PathOf, Inv
<1>3. LineOf(n) \subseteq Busy \cap Busy' /\ PathOf(n) \subseteq Busy \cap Busy'
  <2>1. LineOf(n) \subseteq Busy /\ PathOf(n) \subseteq Busy
      BY DEF LineOf, PathOf, Above
  <2>2. LineOf(n)' \subseteq Busy' /\ PathOf(n)' \subseteq Busy'
      BY DEF LineOf, PathOf, Above
  <2> QED
      BY <1>2, <2>1, <2>2
<1>4. {m \in LineOf(n)' : node'[m].via = "delegate"} = {m \in LineOf(n) : node[m].via = "delegate"}
    BY <1>1, <1>2, <1>3
<1>5. {m \in PathOf(n)' \ {n} : Escalating(m)'} = {m \in PathOf(n) \ {n} : Escalating(m)}
    BY <1>2, <1>3, EdgesKept
<1>6. \E m \in LineOf(n)' : node'[m].via \in Roots
    BY <1>1, <1>2, <1>3 DEF Inv, Ok, Counted
<1>7. Lin(n)' = Lin(n) /\ Outer(n)' = Outer(n)
    BY EdgesKept
<1>8. Counted(n)
    BY DEF Inv, Ok
<1> QED
    BY <1>4, <1>5, <1>6, <1>7, <1>8 DEF Counted

LEMMA UntouchedOk ==
    ASSUME Inv, NEW touched, Framed(touched), ParentInv', NEW n \in (Busy \cap Busy') \ touched
    PROVE  Ok(n)'
<1> PICK p : p = node[n].up
    OBVIOUS
<1>1. node'[n] = node[n] /\ Ok(n) /\ Parent(n) /\ node'[n].up = p
      /\ (p # 0 => Steady(p) /\ Lin(p)' = Lin(p))
    BY EdgesKept DEF Framed, Inv, ParentInv
<1>2. Escalating(n)' = Escalating(n) /\ Lin(n)' = Lin(n) /\ Outer(n)' = Outer(n)
    BY EdgesKept
<1>3. Kind(n)'
    BY <1>1, <1>2 DEF Ok, Kind
<1>4. Grant(n)'
    BY <1>1 DEF Ok, Grant, Parent, Steady
<1>5. Lineaged(n)'
  <2>1. Handed(n)' = Handed(n)
      BY <1>1, <1>2 DEF Handed
  <2>2. node'[n].via \in {"delegate", "tool"} => node'[p].depth = Lin(p)'.depth /\ node'[p].limit = Lin(p)'.limit
      BY <1>1 DEF Ok, Lineaged, Parent, Steady
  <2> QED
      BY <1>1, <1>2, <2>1, <2>2 DEF Ok, Lineaged
<1>6. Cascaded(n)'
    BY <1>1, <1>2 DEF Ok, Cascaded
<1>7. Counted(n)'
    BY CountedKept
<1> QED
    BY <1>3, <1>4, <1>5, <1>6, <1>7 DEF Ok

LEMMA OneMore ==
    ASSUME NEW s, NEW x, IsFiniteSet(s)
    PROVE  /\ IsFiniteSet(s \cup {x}) /\ Cardinality(s \cup {x}) \in Nat
           /\ Cardinality(s \cup {x}) <= Cardinality(s) + 1
<1>1. IsFiniteSet(s \cup {x}) /\ (Cardinality(s \cup {x}) = Cardinality(s) \/ Cardinality(s \cup {x}) = Cardinality(s) + 1)
    BY FS_AddElement
<1>2. Cardinality(s \cup {x}) \in Nat /\ Cardinality(s) \in Nat
    BY <1>1, FS_CardinalityType
<1> QED
    BY <1>1, <1>2

\* The count of a node that has just been added to a waiting run is the run's, and one
\* more for a delegation.
LEMMA CountedFrom ==
    TypeOK /\ ParentInv =>
        \A x \in Busy :
            /\ node[x].up # 0 => Ok(node[x].up) /\ node[node[x].up].st = "waiting"
            /\ Lineaged(x)
            => Counted(x)
<1> SUFFICES ASSUME TypeOK, ParentInv, NEW x \in Busy, Lineaged(x),
                    node[x].up # 0 => Ok(node[x].up) /\ node[node[x].up].st = "waiting"
             PROVE  Counted(x)
    OBVIOUS
<1> PICK p : p = node[x].up
    OBVIOUS
<1>0. /\ Parent(x) /\ node[x].via \in Via /\ \A z \in Busy : node[z] \in NodeRecord
      /\ \A s \in SUBSET Busy : IsFiniteSet(s) /\ Cardinality(s) \in Nat
  <2>1. IsFiniteSet(Node) /\ Busy \in SUBSET Node
      BY FS_Interval, DelegationAssumption DEF Node, Busy
  <2>2. \A z \in Busy : node[z] \in NodeRecord
      BY BusyTyped DEF Busy
  <2>3. \A s \in SUBSET Busy : IsFiniteSet(s) /\ Cardinality(s) \in Nat
      BY <2>1, FS_Subset, FS_CardinalityType
  <2> QED
      BY <2>2, <2>3 DEF ParentInv, NodeRecord
<1>1. CASE p = 0
  <2>1. node[x].via = "top"
      BY <1>0, <1>1 DEF Parent
  <2>2. LineOf(x) = {x} /\ PathOf(x) = {x}
      BY <2>1, AboveUp DEF LineOf, PathOf
  <2>3. {m \in LineOf(x) : node[m].via = "delegate"} = {} /\ {m \in PathOf(x) \ {x} : Escalating(m)} = {}
      BY <2>1, <2>2
  <2>4. Lin(x) = [depth |-> 0, limit |-> MaxDepth[node[x].agent]] /\ Outer(x) = 0
      BY <1>1, <2>1 DEF Lin, Own, Roots, Outer
  <2> QED
      BY <2>1, <2>2, <2>3, <2>4, FS_EmptySet DEF Counted, Roots
<1>2. CASE p # 0
  <2>1. p \in Busy /\ node[x].via # "top" /\ Ok(p) /\ node[p].st = "waiting" /\ Parent(x)
      BY <1>0, <1>2 DEF Parent
  <2> DEFINE d(z) == {m \in LineOf(z) : node[m].via = "delegate"}
             e(z) == {m \in PathOf(z) \ {z} : Escalating(m)}
  <2>2. PathOf(x) = {x} \cup PathOf(p) /\ p \in PathOf(p) /\ PathOf(p) \subseteq Busy
      BY <2>1, AboveUp, AboveSelf DEF PathOf
  <2>3. Cardinality(e(x)) <= Outer(x)
    <3>1. e(x) \subseteq e(p) \cup {p} /\ (~Escalating(p) => e(x) \subseteq e(p)) /\ e(p) \in SUBSET Busy
          /\ e(x) \in SUBSET Busy
        BY <2>1, <2>2
    <3>2. Cardinality(e(p)) <= Outer(p) /\ IsFiniteSet(e(p)) /\ Cardinality(e(p)) \in Nat /\ Cardinality(e(x)) \in Nat
        BY <1>0, <2>1, <3>1 DEF Ok, Counted
    <3> HIDE DEF e
    <3>3. Cardinality(e(x)) <= Cardinality(e(p)) + 1 /\ (~Escalating(p) => Cardinality(e(x)) <= Cardinality(e(p)))
      <4>1. IsFiniteSet(e(p) \cup {p}) /\ Cardinality(e(p) \cup {p}) <= Cardinality(e(p)) + 1
            /\ Cardinality(e(p) \cup {p}) \in Nat
          BY <3>2, OneMore
      <4>3. Cardinality(e(x)) <= Cardinality(e(p) \cup {p})
          BY <3>1, <4>1, FS_Subset
      <4>4. ~Escalating(p) => Cardinality(e(x)) <= Cardinality(e(p))
          BY <3>1, <3>2, FS_Subset
      <4> QED
          BY <3>2, <4>1, <4>3, <4>4
    <3>4. node[p].cascades >= Outer(p) /\ (Escalating(p) => node[p].cascades > Outer(p))
        BY <2>1 DEF Ok, Cascaded
    <3>5. Outer(x) = node[p].cascades /\ Outer(p) \in Nat /\ node[p].cascades \in Nat
      <4>1. Parent(p) /\ node[p].cascades \in Nat
          BY <1>0, <2>1 DEF ParentInv, NodeRecord
      <4>2. Outer(p) \in Nat
          BY <1>0, <4>1 DEF Outer, Parent, NodeRecord
      <4> QED
          BY <1>2, <4>1, <4>2 DEF Outer
    <3> QED
        BY <3>2, <3>3, <3>4, <3>5
  <2>4. CASE node[x].via = "escalation"
    <3>1. LineOf(x) = {x}
        BY <2>4, AboveUp DEF LineOf
    <3>2. d(x) = {} /\ Lin(x).depth \in Nat
        BY <2>4, <3>1 DEF Lineaged
    <3> QED
      <4>1. Cardinality(d(x)) <= Lin(x).depth
        <5> HIDE DEF d
        <5>1. Cardinality(d(x)) = 0
            BY <3>2, FS_EmptySet
        <5> QED
            BY <3>2, <5>1
      <4>2. \E m \in LineOf(x) : node[m].via \in Roots
          BY <2>4, <3>1 DEF Roots
      <4> QED
          BY <2>3, <4>1, <4>2 DEF Counted
  <2>5. CASE node[x].via # "escalation"
    <3>1. LineOf(x) = {x} \cup LineOf(p) /\ LineOf(p) \in SUBSET Busy
        BY <2>1, <2>5, AboveUp, AboveSelf DEF LineOf
    <3>2. \E m \in LineOf(x) : node[m].via \in Roots
        BY <2>1, <3>1 DEF Ok, Counted
    <3>3. Cardinality(d(p)) <= Lin(p).depth /\ IsFiniteSet(d(p)) /\ Cardinality(d(p)) \in Nat
          /\ Lin(p).depth \in Nat
        BY <1>0, <2>1, <3>1 DEF Ok, Counted, Lineaged
    <3>4. CASE node[x].via = "delegate"
      <4>1. d(x) = {x} \cup d(p)
          BY <3>1, <3>4
      <4>2. Cardinality(d(x)) <= Cardinality(d(p)) + 1 /\ Cardinality(d(x)) \in Nat
        <5> HIDE DEF d
        <5>1. d(x) = d(p) \cup {x}
            BY <4>1
        <5> QED
            BY <3>3, <5>1, OneMore
      <4>3. Lin(x).depth = Lin(p).depth + 1
          BY <3>4 DEF Lin, Own, Roots, Lineaged
      <4> QED
          BY <2>3, <3>2, <3>3, <4>2, <4>3 DEF Counted
    <3>5. CASE node[x].via # "delegate"
      <4>1. d(x) = d(p)
          BY <3>1, <3>5
      <4>2. Lin(x).depth = Lin(p).depth
        <5>1. CASE node[x].via = "tool"
            BY <5>1 DEF Lin, Lineaged
        <5>2. CASE node[x].via = "sas"
          <6>1. Escalating(p) /\ node[p].via # "tool"
              BY <1>2, <2>1, <5>2 DEF Parent
          <6> QED
              BY <5>2, <6>1 DEF Lin, Escalating
        <5> QED
            BY <1>0, <2>1, <2>5, <3>5, <5>1, <5>2 DEF Via
      <4> QED
          BY <2>3, <3>2, <3>3, <4>1, <4>2 DEF Counted
    <3> QED
        BY <3>4, <3>5
  <2> QED
      BY <2>4, <2>5
<1> QED
    BY <1>1, <1>2

\* So a step keeps the invariant if it does for the nodes it touches and those it adds.
LEMMA FrameInv ==
    ASSUME Inv, TypeOK', NEW touched, Framed(touched),
           \A n \in Busy' \ Busy : /\ Parent(n)'
                                   /\ node'[n].up # 0 => /\ node'[n].up \in Busy
                                                         /\ node'[node'[n].up].st = "waiting",
           ParentInv' => \A n \in Busy' :
               n \in touched \/ n \notin Busy => Kind(n)' /\ Grant(n)' /\ Lineaged(n)' /\ Cascaded(n)'
    PROVE  Inv'
<1>1. ParentInv'
  <2>1. \A n \in Busy' : n \in Busy \/ n \notin Busy
      OBVIOUS
  <2> QED
      BY <2>1, EdgesKept DEF ParentInv
<1>2. ASSUME NEW n \in Busy', n \in Busy PROVE Ok(n)'
  <2>2. CASE n \in touched
      BY <1>1, <1>2, <2>2, CountedKept DEF Ok
  <2>3. CASE n \notin touched
      BY <1>1, <1>2, <2>3, UntouchedOk
  <2> QED
      BY <2>2, <2>3
<1>3. ASSUME NEW n \in Busy', n \notin Busy PROVE Ok(n)'
  <2> PICK p : p = node'[n].up
      OBVIOUS
  <2>1. Kind(n)' /\ Grant(n)' /\ Lineaged(n)' /\ Cascaded(n)' /\ Parent(n)'
      BY <1>1, <1>3
  <2>2. p # 0 => p \in Busy /\ p \in Busy' /\ node'[p].st = "waiting"
      BY <1>3, <2>1 DEF Parent
  <2>3. p # 0 => Ok(p)'
      BY <1>2, <2>2
  <2>4. (TypeOK /\ ParentInv =>
          \A x \in Busy :
            /\ node[x].up # 0 => Ok(node[x].up) /\ node[node[x].up].st = "waiting"
            /\ Lineaged(x)
            => Counted(x))'
      BY CountedFrom, PTL
  <2>5. Counted(n)'
      BY <1>1, <2>1, <2>2, <2>3, <2>4
  <2> QED
      BY <2>1, <2>5 DEF Ok
<1> QED
    BY <1>1, <1>2, <1>3 DEF Inv

-----------------------------------------------------------------------------
(* A step of one node: it may add nodes and drop nodes that have ended.     *)

Stepped(n, r) ==
    /\ node' \in [Node -> {Free} \cup NodeRecord] /\ r \in NodeRecord /\ node'[n] = r
    /\ r.up = node[n].up /\ r.via = node[n].via /\ r.agent = node[n].agent /\ r.need = node[n].need
    /\ r.agent \in Cascading => r.attempt <= MaxAttempts[r.agent]
    /\ \A x \in Node \ {n} :
          \/ node'[x] = node[x]
          \/ x \in Busy /\ node[x].st \in Ended /\ node'[x] = Free
          \/ x \notin Busy /\ node'[x] # Free
             /\ (node'[x].agent \in Cascading => node'[x].attempt <= MaxAttempts[node'[x].agent])
    /\ node[n].st \in {"waiting", "draining"} =>
          \/ \A x \in Busy \cap Busy' : node[x].up # n
          \/ /\ r.st \in {"waiting", "draining"} /\ r.caps = node[n].caps
             /\ r.depth = node[n].depth /\ r.limit = node[n].limit /\ r.cascades = node[n].cascades

LEMMA SteppedFrames ==
    ASSUME Inv, NEW n \in Busy, NEW r, Stepped(n, r)
    PROVE  TypeOK' /\ Framed({n}) /\ n \in Busy \cap Busy'
<1>1. n \in Node /\ node'[n] = r /\ r # Free
  <2>1. r # Free
      BY DEF Stepped, NodeRecord, State, Ended, Free
  <2> QED
      BY <2>1 DEF Stepped, Busy
<1>2. n \in Busy \cap Busy'
    BY <1>1 DEF Busy
<1>3. \A x \in (Busy \cap Busy') \ {n} : node'[x] = node[x]
  <2> SUFFICES ASSUME NEW x \in (Busy \cap Busy') \ {n} PROVE node'[x] = node[x]
      OBVIOUS
  <2>1. x \in Node \ {n} /\ node'[x] # Free
      BY DEF Busy
  <2> QED
      BY <2>1 DEF Stepped
<1>4. TypeOK'
  <2>1. ASSUME NEW x \in Busy', x # n, node'[x].agent \in Cascading PROVE node'[x].attempt <= MaxAttempts[node'[x].agent]
    <3>1. x \in Node \ {n} /\ node'[x] # Free
        BY <2>1 DEF Busy
    <3>2. \/ node'[x] = node[x] /\ x \in Busy
          \/ node'[x].attempt <= MaxAttempts[node'[x].agent]
      <4>1. node[x] # Free => x \in Busy
          BY <3>1 DEF Busy
      <4> QED
          BY <2>1, <3>1, <4>1 DEF Stepped
    <3> QED
        BY <2>1, <3>2 DEF Inv, TypeOK
  <2>2. node'[n].agent \in Cascading => node'[n].attempt <= MaxAttempts[node'[n].agent]
      BY <1>1 DEF Stepped
  <2> QED
      BY <2>1, <2>2 DEF TypeOK, Stepped
<1>5. ASSUME NEW x \in Busy \cap Busy' PROVE Same(x) /\ (node[x].up # 0 => Steady(node[x].up))
  <2>1. \A y \in Busy \cap Busy' : Same(y)
    <3>1. Same(n)
        BY <1>1 DEF Stepped, Same
    <3> QED
        BY <1>3, <3>1 DEF Same
  <2>2. ASSUME NEW p \in Busy, p # n, node[p].st \in {"waiting", "draining"} PROVE Steady(p)
    <3>1. p \in Node \ {n} /\ node[p].st \notin Ended
        BY <2>2 DEF Busy, Ended
    <3>2. node'[p] = node[p] /\ p \in Busy'
      <4>1. node'[p] = node[p]
          BY <3>1 DEF Stepped
      <4>2. node[p] # Free
          BY DEF Busy
      <4> QED
          BY <3>1, <4>1, <4>2 DEF Busy
    <3> QED
        BY <2>1, <2>2, <3>2 DEF Steady
  <2>3. ASSUME node[x].up = n, node[n].st \in {"waiting", "draining"} PROVE Steady(n)
      BY <1>1, <1>2, <2>1, <2>3 DEF Stepped, Steady
  <2>4. Parent(x)
      BY DEF Inv, ParentInv
  <2> QED
      BY <2>1, <2>2, <2>3, <2>4 DEF Parent
<1>6. Framed({n})
    BY <1>3, <1>5 DEF Framed
<1> QED
    BY <1>2, <1>4, <1>6

\* Such a step keeps the invariant if what n becomes fits its place, and so do the nodes
\* it adds.
LEMMA SteppedInv ==
    ASSUME Inv, NEW n \in Busy, NEW r, Stepped(n, r),
           r.caps = node[n].caps \/ (r.caps \subseteq Declared[r.agent] /\ r.caps \subseteq node[r.up].caps /\ r.up # 0),
           r.st # "queued",
           /\ Lin(n)' = Lin(n) /\ Outer(n)' = Outer(n) /\ Escalating(n)' = Escalating(n)
           => Kind(n)'
              /\ (r.st \in {"asking", "waiting"} /\ ~Escalating(n) => r.depth = Lin(n).depth /\ r.limit = Lin(n).limit)
              /\ (r.st = "opening" \/ (r.st = "attempting" /\ r.attempt = 0) => Handed(n)')
              /\ Cascaded(n)',
           \A x \in Busy' \ Busy : node'[x].up # 0 /\ node'[x].up = n /\ r.st = "waiting" /\ Parent(x)'
                                   /\ Kind(x)' /\ Grant(x)' /\ Lineaged(x)' /\ Cascaded(x)'
    PROVE  Inv'
<1>1. TypeOK' /\ Framed({n}) /\ n \in Busy \cap Busy' /\ node'[n] = r
    BY SteppedFrames DEF Stepped
<1> PICK p : p = node[n].up
    OBVIOUS
<1>2. /\ Lin(n)' = Lin(n) /\ Outer(n)' = Outer(n) /\ Escalating(n)' = Escalating(n)
      /\ node'[n].up = p /\ Same(n) /\ Parent(n) /\ Ok(n)
      /\ p # 0 => Steady(p) /\ Lin(p)' = Lin(p)
    BY <1>1, EdgesKept DEF Framed, Same, Inv, ParentInv
<1>3. Kind(n)' /\ Cascaded(n)'
    BY <1>2
<1>4. Grant(n)'
  <2>1. CASE r.caps = node[n].caps /\ node[n].st # "queued"
      BY <1>1, <1>2, <2>1 DEF Ok, Grant, Parent, Steady, Same
  <2>2. CASE r.caps = node[n].caps /\ node[n].st = "queued"
      BY <1>1, <1>2, <2>2 DEF Ok, Kind, Grant, Parent, Steady, Same
  <2>3. CASE r.caps # node[n].caps
      BY <1>1, <1>2, <2>3 DEF Ok, Grant, Parent, Steady, Same
  <2> QED
      BY <2>1, <2>2, <2>3
<1>5. Lineaged(n)'
  <2>1. node'[n].via \in {"delegate", "tool"} => node'[p].depth = Lin(p)'.depth /\ node'[p].limit = Lin(p)'.limit
      BY <1>2 DEF Ok, Lineaged, Parent, Steady, Same
  <2>2. r.st \in {"asking", "waiting"} /\ ~Escalating(n)' => r.depth = Lin(n)'.depth /\ r.limit = Lin(n)'.limit
      BY <1>2
  <2>3. Lin(n)'.depth \in Nat /\ Lin(n)'.limit \in Nat /\ Lin(n)'.depth <= Lin(n)'.limit
      BY <1>2 DEF Ok, Lineaged
  <2>4. r.st = "opening" \/ (r.st = "attempting" /\ r.attempt = 0) => Handed(n)'
      BY <1>2
  <2> QED
      BY <1>1, <1>2, <2>1, <2>2, <2>3, <2>4 DEF Lineaged
<1>6. \A x \in Busy' \ Busy : Parent(x)' /\ node'[x].up \in Busy /\ node'[node'[x].up].st = "waiting"
  <2> SUFFICES ASSUME NEW x \in Busy' \ Busy PROVE Parent(x)' /\ node'[x].up \in Busy /\ node'[node'[x].up].st = "waiting"
      OBVIOUS
  <2>1. node'[x].up = n /\ Parent(x)' /\ node'[n].st = "waiting"
      BY <1>1
  <2> QED
      BY <2>1
<1> QED
    BY <1>1, <1>3, <1>4, <1>5, <1>6, FrameInv

LEMMA Facts ==
    ASSUME Inv, NEW n \in Busy
    PROVE  /\ n \in Node /\ node \in [Node -> {Free} \cup NodeRecord] /\ node[n] \in NodeRecord
           /\ Kind(n) /\ Grant(n) /\ Lineaged(n) /\ Cascaded(n) /\ Counted(n) /\ Parent(n)
           /\ node[n].agent \in Cascading => node[n].attempt <= MaxAttempts[node[n].agent]
           /\ \A x \in Node : x \in Busy <=> node[x] # Free
           /\ n # 0 /\ node[n].up # n
<1>1. n \in Node /\ n # 0 /\ Parent(n)
    BY DEF Inv, ParentInv, Busy, Node
<1>2. node[n].up # n
    BY <1>1 DEF Parent
<1> QED
    BY <1>1, <1>2, BusyTyped DEF Inv, TypeOK, Ok, Busy

LEMMA AloneStepped ==
    ASSUME Inv, NEW n \in Busy, NEW r \in NodeRecord, node' = [node EXCEPT ![n] = r],
           r.up = node[n].up, r.via = node[n].via, r.agent = node[n].agent, r.need = node[n].need,
           r.agent \in Cascading => r.attempt <= MaxAttempts[r.agent],
           node[n].st \in {"waiting", "draining"} =>
               /\ r.st \in {"waiting", "draining"} /\ r.caps = node[n].caps
               /\ r.depth = node[n].depth /\ r.limit = node[n].limit /\ r.cascades = node[n].cascades
    PROVE  Stepped(n, r) /\ Busy' \ Busy = {} /\ node'[n] = r
<1>1. n \in Node /\ node \in [Node -> {Free} \cup NodeRecord]
    BY Facts
<1>2. node' \in [Node -> {Free} \cup NodeRecord] /\ node'[n] = r /\ \A x \in Node \ {n} : node'[x] = node[x]
    BY <1>1
<1>3. Busy' \ Busy = {}
    BY <1>1, <1>2 DEF Busy
<1> QED
    BY <1>2, <1>3 DEF Stepped

\* A node in a stage that says nothing more of it.
LEMMA BecomesInv ==
    ASSUME Inv, NEW n \in Busy, NEW st \in {"running", "draining", "done", "failed"}, Becomes(n, st),
           st = "running" => node[n].via = "tool",
           node[n].st \in {"waiting", "draining"} => st = "draining"
    PROVE  Inv'
<1> DEFINE r == [node[n] EXCEPT !.st = st]
<1>1. /\ r \in NodeRecord /\ r.st = st /\ r.up = node[n].up /\ r.via = node[n].via
      /\ r.agent = node[n].agent /\ r.need = node[n].need /\ r.caps = node[n].caps
      /\ r.depth = node[n].depth /\ r.limit = node[n].limit /\ r.cascades = node[n].cascades
      /\ r.attempt = node[n].attempt
    BY Facts DEF NodeRecord, State, Ended
<1>2. node' = [node EXCEPT ![n] = r]
    BY DEF Becomes
<1> HIDE DEF r
<1>3. Stepped(n, r) /\ Busy' \ Busy = {} /\ node'[n] = r
    BY <1>1, <1>2, AloneStepped, Facts
<1>4. Escalating(n)' = Escalating(n) => Kind(n)'
    BY <1>1, <1>3, Facts DEF Kind
<1>5. Cascaded(n)'
    BY <1>1, <1>3 DEF Cascaded
<1> QED
    BY <1>1, <1>3, <1>4, <1>5, SteppedInv

LEMMA OpenedInv ==
    ASSUME Inv, NEW n \in Busy, Opened(n) PROVE Inv'
<1> DEFINE s == node[n].stash
           depth == IF s = NoLineage THEN 0 ELSE s.depth
           limit == IF s = NoLineage THEN MaxDepth[node[n].agent] ELSE s.limit
<1>1. PICK st \in {"failed", "asking"} :
        node' = [node EXCEPT ![n].depth = depth, ![n].limit = limit, ![n].stash = NoLineage, ![n].st = st]
    BY DEF Opened, StashOf
<1>2. node[n].st = "opening" /\ node[n].via # "tool" /\ node[n].agent \in Agent /\ ~Escalating(n)
    BY Facts DEF Opened, Kind
<1>3. Handed(n) /\ Lin(n).depth \in Nat /\ Lin(n).limit \in Nat
    BY <1>2, Facts DEF Lineaged
<1>4. depth = Lin(n).depth /\ limit = Lin(n).limit
    BY <1>3 DEF Handed, NoLineage
<1> HIDE DEF depth, limit, s
<1> DEFINE r == [node[n] EXCEPT !.depth = depth, !.limit = limit, !.stash = NoLineage, !.st = st]
<1>5. /\ r \in NodeRecord /\ r.st = st /\ r.up = node[n].up /\ r.via = node[n].via
      /\ r.agent = node[n].agent /\ r.need = node[n].need /\ r.caps = node[n].caps
      /\ r.depth = depth /\ r.limit = limit /\ r.cascades = node[n].cascades
      /\ r.attempt = node[n].attempt
  <2>1. node[n] \in NodeRecord /\ depth \in Nat /\ limit \in Nat
      BY <1>3, <1>4, Facts
  <2>2. NoLineage \in Lineages /\ st \in State
      BY DEF Lineages, State, Ended
  <2> QED
      BY <2>1, <2>2 DEF NodeRecord
<1>6. node' = [node EXCEPT ![n] = r]
    BY <1>1, Facts
<1> HIDE DEF r
<1>7. Stepped(n, r) /\ Busy' \ Busy = {} /\ node'[n] = r
    BY <1>2, <1>5, <1>6, AloneStepped, Facts
<1>8. Escalating(n)' = Escalating(n) => Kind(n)'
    BY <1>2, <1>5, <1>7, Facts DEF Kind
<1>9. Outer(n)' = Outer(n) /\ Escalating(n)' = Escalating(n) => Cascaded(n)'
    BY <1>2, <1>5, <1>7, Facts DEF Cascaded
<1> QED
    BY <1>2, <1>4, <1>5, <1>7, <1>8, <1>9, SteppedInv
LEMMA CallFields ==
    ASSUME NEW p \in 0..MaxNodes, NEW via \in Via, NEW a \in Agent \cup {NoAgent},
           NEW need \in SUBSET Cap, NEW r, r = Call(p, via, a, need)
    PROVE  /\ r \in NodeRecord /\ r.st = "queued" /\ r.up = p /\ r.via = via /\ r.agent = a
           /\ r.need = need /\ r.caps = {} /\ r.attempt = 0
<1>1. NoLineage \in Lineages /\ "queued" \in State /\ 0 \in 0..MaxTurns /\ 0 \in Nat /\ {} \in SUBSET Cap
    BY DelegationAssumption DEF Lineages, State
<1>2. r = [st |-> "queued", up |-> p, via |-> via, agent |-> a, need |-> need, caps |-> {},
           stash |-> NoLineage, depth |-> 0, limit |-> 0, cascades |-> 0, attempt |-> 0, turns |-> 0]
    BY DEF Call
<1>3. r \in NodeRecord
    BY <1>1, <1>2 DEF NodeRecord
<1> QED
    BY <1>2, <1>3

\* What Normal returns.
Opens(r, p, via, a, caps, stash, c) ==
    /\ r \in NodeRecord /\ r.st = "opening" /\ r.up = p /\ r.via = via /\ r.agent = a
    /\ r.need = {} /\ r.caps = caps /\ r.stash = stash /\ r.cascades = c /\ r.attempt = 0

LEMMA NormalFields ==
    ASSUME NEW p \in 0..MaxNodes, NEW via \in Via, NEW a \in Agent, NEW caps \in SUBSET Cap,
           NEW stash \in Lineages, NEW c \in Nat
    PROVE  Opens(Normal(p, via, a, caps, stash, c), p, via, a, caps, stash, c)
<1> DEFINE q == Call(p, via, a, {})
           r == Normal(p, via, a, caps, stash, c)
<1>1. /\ q \in NodeRecord /\ q.up = p /\ q.via = via /\ q.agent = a /\ q.need = {} /\ q.attempt = 0
    BY CallFields
<1>2. r = [q EXCEPT !.st = "opening", !.caps = caps, !.stash = stash, !.cascades = c]
    BY DEF Normal
<1>3. "opening" \in State
    BY DEF State
<1> HIDE DEF q, r
<1>4. Opens(r, p, via, a, caps, stash, c)
    BY <1>1, <1>2, <1>3 DEF NodeRecord, Opens
<1> QED
    BY <1>4 DEF r

\* What Run returns.
Started(r, p, via, a, caps, stash, c) ==
    /\ r \in NodeRecord /\ r.up = p /\ r.via = via /\ r.agent = a
    /\ r.need = {} /\ r.caps = caps /\ r.stash = stash /\ r.attempt = 0
    /\ \/ a \notin Cascading /\ r.st = "opening" /\ r.cascades = c
       \/ a \in Cascading /\ r.st = "failed"
       \/ a \in Cascading /\ r.st = "attempting" /\ r.cascades = c + 1 /\ r.cascades <= MaxCascade[a]

LEMMA RunFields ==
    ASSUME NEW p \in 0..MaxNodes, NEW via \in Via, NEW a \in Agent, NEW caps \in SUBSET Cap,
           NEW stash \in Lineages, NEW c \in Nat
    PROVE  Started(Run(p, via, a, caps, stash, c), p, via, a, caps, stash, c)
<1> DEFINE q == Normal(p, via, a, caps, stash, c)
           r == Run(p, via, a, caps, stash, c)
<1>1. Opens(q, p, via, a, caps, stash, c)
    BY NormalFields
<1>2. r = IF a \notin Cascading THEN q
          ELSE IF c >= MaxCascade[a] THEN [q EXCEPT !.st = "failed"]
          ELSE [q EXCEPT !.st = "attempting", !.cascades = @ + 1]
    BY DEF Run
<1> HIDE DEF q, r
<1>3. "failed" \in State /\ "attempting" \in State
    BY DEF State, Ended
<1> SUFFICES Started(r, p, via, a, caps, stash, c)
    BY DEF r
<1>4. CASE a \notin Cascading
    BY <1>1, <1>2, <1>4 DEF Started, Opens
<1>5. CASE a \in Cascading /\ c >= MaxCascade[a]
  <2>1. r = [q EXCEPT !.st = "failed"]
      BY <1>2, <1>5
  <2> QED
      BY <1>1, <1>3, <1>5, <2>1 DEF NodeRecord, Started, Opens
<1>6. CASE a \in Cascading /\ ~(c >= MaxCascade[a])
  <2>1. r = [q EXCEPT !.st = "attempting", !.cascades = @ + 1]
      BY <1>2, <1>6
  <2>2. MaxCascade[a] \in Nat /\ c + 1 <= MaxCascade[a] /\ c + 1 \in Nat
    <3>1. MaxCascade[a] \in Nat
        BY <1>6, DelegationAssumption
    <3> QED
        BY <1>6, <3>1
  <2>3. /\ r.up = p /\ r.via = via /\ r.agent = a /\ r.need = {} /\ r.caps = caps /\ r.stash = stash
        /\ r.attempt = 0 /\ r.st = "attempting" /\ r.cascades = c + 1
      BY <1>1, <2>1 DEF NodeRecord, Opens
  <2>4. r \in NodeRecord
      BY <1>1, <1>3, <2>1, <2>2 DEF NodeRecord, Opens
  <2> QED
      BY <1>6, <2>2, <2>3, <2>4 DEF Started
<1> QED
    BY <1>4, <1>5, <1>6

\* A run that starts under the cascades around it.
LEMMA RunFits ==
    ASSUME NEW n, NEW p, NEW via, NEW a \in Agent, NEW caps, NEW stash, NEW c \in Nat,
           Started(node'[n], p, via, a, caps, stash, c), Outer(n)' = c, via \notin {"sas", "tool"}
    PROVE  Kind(n)' /\ Cascaded(n)'
<1> PICK r : r = node'[n]
    OBVIOUS
<1>1. Started(r, p, via, a, caps, stash, c) /\ r.st # "queued" /\ r.st # "running" /\ r.st # "waiting"
    BY DEF Started
<1>2. Escalating(n)' <=> a \in Cascading
    BY <1>1 DEF Escalating, Started
<1>3. a \in Cascading => MaxAttempts[a] \in Nat /\ 0 < MaxAttempts[a]
    BY DelegationAssumption
<1>4. Kind(n)'
  <2>1. r.via = via /\ r.agent = a /\ r.need = {} /\ r.attempt = 0
      BY <1>1 DEF Started
  <2>2. (r.st \in {"opening", "asking"} => a \notin Cascading) /\ (r.st \in {"attempting", "waiting"} => a \in Cascading)
      BY <1>1 DEF Started
  <2> QED
      BY <1>1, <1>2, <1>3, <2>1, <2>2 DEF Kind
<1>5. Cascaded(n)'
    BY <1>1, <1>2 DEF Cascaded, Started
<1> QED
    BY <1>4, <1>5

LEMMA BeginInv ==
    ASSUME Inv, NEW n \in Busy, Begin(n) PROVE Inv'
<1> PICK p : p = node[n].up
    OBVIOUS
<1>1. node[n].st = "queued" /\ node[n].via \in {"tool", "delegate"} /\ Parent(n) /\ node[n].caps = {}
    BY Facts DEF Begin, Kind
<1>2. CASE node[n].via = "tool"
  <2>1. Becomes(n, "running")
      BY <1>2 DEF Begin
  <2> QED
      BY <1>1, <1>2, <2>1, BecomesInv
<1>3. CASE node[n].via # "tool" /\ ClampedEmpty(node[p].caps, node[n].agent)
  <2>1. Becomes(n, "failed")
      BY <1>3 DEF Begin
  <2> QED
      BY <1>1, <1>3, <2>1, BecomesInv
<1>4. CASE node[n].via # "tool" /\ ~ClampedEmpty(node[p].caps, node[n].agent)
  <2> PICK a : a = node[n].agent
      OBVIOUS
  <2> DEFINE caps == node[p].caps \cap Declared[a]
             stash == [depth |-> node[p].depth + 1, limit |-> node[p].limit]
             r == Run(p, "delegate", a, caps, stash, node[p].cascades)
  <2>1. node' = [node EXCEPT ![n] = r]
      BY <1>4 DEF Begin, Clamped, Lineage, CascadesOf
  <2>2. a \in Agent /\ node[n].via = "delegate" /\ node[n].need \in SUBSET Cap
      BY <1>1, <1>4, Facts DEF Kind, NodeRecord
  <2>3. p \in Busy /\ node[p] \in NodeRecord /\ p # 0 /\ p \in 0..MaxNodes
    <3>1. p \in Busy /\ p # 0
        BY <1>1, <2>2 DEF Parent
    <3>2. node[p] \in NodeRecord
        BY <3>1, Facts
    <3> QED
        BY <3>1, <3>2 DEF Busy, Node
  <2>4. caps \in SUBSET Cap /\ stash \in Lineages /\ node[p].cascades \in Nat /\ "delegate" \in Via
      BY <2>3 DEF NodeRecord, Lineages, Via
  <2>5. Lin(n) = stash /\ Outer(n) = node[p].cascades
      BY <2>2, <2>3 DEF Lin, Own, Roots, Outer
  <2> HIDE DEF caps, stash
  <2>5a. Started(r, p, "delegate", a, caps, stash, node[p].cascades)
      BY <2>2, <2>3, <2>4, RunFields
  <2> HIDE DEF r
  <2>6. /\ r \in NodeRecord /\ r.up = p /\ r.via = "delegate" /\ r.agent = a
        /\ r.need = {} /\ r.caps = caps /\ r.stash = stash /\ r.attempt = 0
        /\ r.st \in {"opening", "failed", "attempting"}
      BY <2>5a DEF Started
  <2>7. node[n].need = {} /\ node[n].st \notin {"waiting", "draining"}
        /\ (r.agent \in Cascading => r.attempt <= MaxAttempts[r.agent])
    <3>1. a \in Cascading => MaxAttempts[a] \in Nat /\ 0 <= MaxAttempts[a]
        BY DelegationAssumption
    <3> QED
        BY <1>1, <2>2, <2>6, <3>1, Facts DEF Kind
  <2>8. Stepped(n, r) /\ Busy' \ Busy = {} /\ node'[n] = r
      BY <2>1, <2>2, <2>6, <2>7, AloneStepped
  <2>9. Outer(n)' = Outer(n) => Kind(n)' /\ Cascaded(n)'
      BY <2>2, <2>4, <2>5, <2>5a, <2>8, RunFits
  <2>10. Lin(n)' = Lin(n) => Handed(n)'
      BY <2>5, <2>6, <2>8 DEF Handed
  <2>11. r.caps \subseteq Declared[r.agent] /\ r.caps \subseteq node[r.up].caps /\ r.up # 0
      BY <2>3, <2>6 DEF caps
  <2>12. r.st \notin {"queued", "asking", "waiting"}
      BY <2>6
  <2> QED
      BY <2>8, <2>9, <2>10, <2>11, <2>12, SteppedInv
<1> QED
    BY <1>2, <1>3, <1>4
-----------------------------------------------------------------------------
(* Steps that add nodes.                                                   *)

LEMMA SteppedKeeps ==
    ASSUME Inv, NEW n \in Busy, NEW r, Stepped(n, r)
    PROVE  /\ Lin(n)' = Lin(n) /\ Outer(n)' = Outer(n) /\ Escalating(n)' = Escalating(n)
           /\ n \in Busy' /\ node'[n] = r /\ n # 0
<1>1. Framed({n}) /\ n \in Busy \cap Busy' /\ node'[n] = r
    BY SteppedFrames DEF Stepped
<1>2. n # 0
    BY DEF Busy, Node
<1> QED
    BY <1>1, <1>2, EdgesKept

LEMMA AwaitsStepped ==
    ASSUME Inv, NEW n \in Busy, NEW r \in NodeRecord, NEW new, DOMAIN new \subseteq Node \ Busy,
           \A m \in DOMAIN new : new[m] \in NodeRecord /\ new[m].attempt = 0,
           Awaits(n, r, new), node[n].st \notin {"waiting", "draining"},
           r.up = node[n].up, r.via = node[n].via, r.agent = node[n].agent, r.need = node[n].need,
           r.attempt = node[n].attempt
    PROVE  Stepped(n, r) /\ \A x \in Busy' \ Busy : x \in DOMAIN new /\ node'[x] = new[x]
<1>1. n \in Node /\ node \in [Node -> {Free} \cup NodeRecord] /\ n \notin DOMAIN new
    BY Facts
<1>2. /\ node' \in [Node -> {Free} \cup NodeRecord] /\ node'[n] = r
      /\ \A x \in Node \ {n} : node'[x] = IF x \in DOMAIN new THEN new[x] ELSE node[x]
    BY <1>1 DEF Awaits
<1>3. \A x \in Busy' \ Busy : x \in DOMAIN new /\ node'[x] = new[x]
  <2> SUFFICES ASSUME NEW x \in Busy', x \notin Busy PROVE x \in DOMAIN new /\ node'[x] = new[x]
      OBVIOUS
  <2>1. x \in Node \ {n} /\ node'[x] # Free /\ node[x] = Free
      BY Facts DEF Busy
  <2> QED
      BY <1>2, <2>1
<1>4. \A x \in DOMAIN new : node'[x] # Free /\ x \notin Busy
                            /\ (node'[x].agent \in Cascading => node'[x].attempt <= MaxAttempts[node'[x].agent])
  <2>1. \A q \in NodeRecord : q # Free
      BY DEF NodeRecord, State, Ended, Free
  <2>2. \A a \in Cascading : 0 <= MaxAttempts[a]
      BY DelegationAssumption
  <2> QED
      BY <1>1, <1>2, <2>1, <2>2
<1>5. r.agent \in Cascading => r.attempt <= MaxAttempts[r.agent]
    BY Facts
<1>6. \A x \in Node \ {n} :
          \/ node'[x] = node[x]
          \/ x \notin Busy /\ node'[x] # Free
             /\ (node'[x].agent \in Cascading => node'[x].attempt <= MaxAttempts[node'[x].agent])
    BY <1>2, <1>4
<1> QED
    BY <1>2, <1>3, <1>5, <1>6 DEF Stepped

LEMMA TurnInv ==
    ASSUME Inv, NEW n \in Busy, Turn(n) PROVE Inv'
<1>1. PICK k \in 1..MaxCalls : \E calls \in [Fresh(k) -> Callable(n)] :
          Awaits(n, [node[n] EXCEPT !.st = "waiting", !.turns = @ + 1], calls)
    BY DEF Turn
<1>2. PICK calls \in [Fresh(k) -> Callable(n)] :
          Awaits(n, [node[n] EXCEPT !.st = "waiting", !.turns = @ + 1], calls)
    BY <1>1
<1>3. /\ node[n].st = "asking" /\ node[n].turns < MaxTurns /\ ~Escalating(n) /\ node[n].via # "tool"
      /\ node[n].agent \in Agent /\ n \in Node /\ node[n] \in NodeRecord
    BY Facts DEF Turn, Kind
<1> DEFINE r == [node[n] EXCEPT !.st = "waiting", !.turns = @ + 1]
<1>4. /\ r \in NodeRecord /\ r.st = "waiting" /\ r.up = node[n].up /\ r.via = node[n].via
      /\ r.agent = node[n].agent /\ r.need = node[n].need /\ r.caps = node[n].caps
      /\ r.depth = node[n].depth /\ r.limit = node[n].limit /\ r.cascades = node[n].cascades
      /\ r.attempt = node[n].attempt
  <2>1. "waiting" \in State /\ node[n].turns + 1 \in 0..MaxTurns
    <3>1. node[n].turns \in 0..MaxTurns /\ MaxTurns \in Nat
        BY <1>3, DelegationAssumption DEF NodeRecord
    <3> QED
        BY <1>3, <3>1 DEF State
  <2> QED
      BY <1>3, <2>1 DEF NodeRecord
<1> HIDE DEF r
<1>5. \A m \in DOMAIN calls :
        \/ \E c \in Tools[node[n].agent] \cap node[n].caps : calls[m] = Call(n, "tool", NoAgent, {c})
        \/ \E d \in Delegates[node[n].agent] :
              calls[m] = Call(n, "delegate", d, {}) /\ node[n].depth < node[n].limit
  <2> SUFFICES ASSUME NEW q \in Callable(n)
               PROVE  \/ \E c \in Tools[node[n].agent] \cap node[n].caps : q = Call(n, "tool", NoAgent, {c})
                      \/ \E d \in Delegates[node[n].agent] :
                            q = Call(n, "delegate", d, {}) /\ node[n].depth < node[n].limit
      OBVIOUS
  <2> QED
      BY DEF Callable, MayDelegate
<1>6. \A m \in DOMAIN calls :
        LET q == calls[m] IN
          /\ q \in NodeRecord /\ q.attempt = 0 /\ q.st = "queued" /\ q.up = n /\ q.caps = {}
          /\ \/ q.via = "tool" /\ q.need \subseteq node[n].caps
             \/ q.via = "delegate" /\ q.agent \in Agent /\ q.need = {} /\ node[n].depth < node[n].limit
  <2> SUFFICES ASSUME NEW m \in DOMAIN calls, NEW q, q = calls[m]
               PROVE  /\ q \in NodeRecord /\ q.attempt = 0 /\ q.st = "queued" /\ q.up = n /\ q.caps = {}
                      /\ \/ q.via = "tool" /\ q.need \subseteq node[n].caps
                         \/ q.via = "delegate" /\ q.agent \in Agent /\ q.need = {}
                            /\ node[n].depth < node[n].limit
      OBVIOUS
  <2>1. n \in 0..MaxNodes /\ "tool" \in Via /\ "delegate" \in Via /\ {} \in SUBSET Cap
      BY <1>3 DEF Node, Via
  <2>2. ASSUME NEW c \in Tools[node[n].agent] \cap node[n].caps, q = Call(n, "tool", NoAgent, {c})
        PROVE  /\ q \in NodeRecord /\ q.attempt = 0 /\ q.st = "queued" /\ q.up = n /\ q.caps = {}
               /\ q.via = "tool" /\ q.need \subseteq node[n].caps
    <3>1. {c} \in SUBSET Cap
        BY <1>3 DEF NodeRecord
    <3> QED
        BY <2>1, <2>2, <3>1, CallFields
  <2>3. ASSUME NEW d \in Delegates[node[n].agent], q = Call(n, "delegate", d, {})
        PROVE  /\ q \in NodeRecord /\ q.attempt = 0 /\ q.st = "queued" /\ q.up = n /\ q.caps = {}
               /\ q.via = "delegate" /\ q.agent \in Agent /\ q.need = {}
    <3>1. d \in Agent
        BY <1>3, DelegationAssumption
    <3> QED
        BY <2>1, <2>3, <3>1, CallFields
  <2> QED
      BY <1>5, <2>2, <2>3
<1>7. DOMAIN calls \subseteq Node \ Busy
    BY DEF Fresh
<1>8. Stepped(n, r) /\ \A x \in Busy' \ Busy : x \in DOMAIN calls /\ node'[x] = calls[x]
  <2>1. Awaits(n, r, calls)
      BY <1>2 DEF r
  <2> QED
      BY <1>3, <1>4, <1>6, <1>7, <2>1, AwaitsStepped
<1>9. /\ Lin(n)' = Lin(n) /\ Outer(n)' = Outer(n) /\ Escalating(n)' = Escalating(n)
      /\ n \in Busy' /\ node'[n] = r /\ n # 0
    BY <1>8, SteppedKeeps
<1>10. r.depth = Lin(n).depth /\ r.limit = Lin(n).limit /\ Lin(n).depth \in Nat /\ Lin(n).limit \in Nat
       /\ Lin(n).depth <= Lin(n).limit
    BY <1>3, <1>4, Facts DEF Lineaged
<1>11. Kind(n)' /\ Cascaded(n)'
  <2>1. Kind(n)'
      BY <1>3, <1>4, <1>9, Facts DEF Kind
  <2>2. Cascaded(n)'
      BY <1>3, <1>4, <1>9, Facts DEF Cascaded
  <2> QED
      BY <2>1, <2>2
<1>12. ASSUME NEW x \in Busy' \ Busy
       PROVE  node'[x].up # 0 /\ node'[x].up = n /\ Parent(x)' /\ Kind(x)' /\ Grant(x)' /\ Lineaged(x)' /\ Cascaded(x)'
  <2> PICK q : q = node'[x]
      OBVIOUS
  <2>1. /\ q \in NodeRecord /\ q.st = "queued" /\ q.up = n /\ q.caps = {}
        /\ \/ q.via = "tool" /\ q.need \subseteq node[n].caps
           \/ q.via = "delegate" /\ q.agent \in Agent /\ q.need = {} /\ node[n].depth < node[n].limit
      BY <1>6, <1>8
  <2>2. Parent(x)'
      BY <1>3, <1>4, <1>9, <2>1 DEF Parent
  <2>3. Kind(x)'
      BY <2>1 DEF Kind
  <2>4. Grant(x)'
      BY <1>4, <1>9, <2>1 DEF Grant
  <2>5. Lineaged(x)'
    <3>1. CASE q.via = "tool"
      <4>1. Lin(x)' = [depth |-> r.depth, limit |-> r.limit]
          BY <1>9, <2>1, <3>1 DEF Lin
      <4> QED
          BY <1>9, <1>10, <2>1, <3>1, <4>1 DEF Lineaged
    <3>2. CASE q.via = "delegate"
      <4>1. Lin(x)' = [depth |-> r.depth + 1, limit |-> r.limit]
          BY <1>9, <2>1, <3>2 DEF Lin, Own, Roots
      <4> QED
          BY <1>4, <1>9, <1>10, <2>1, <3>2, <4>1 DEF Lineaged
    <3> QED
        BY <2>1, <3>1, <3>2
  <2>6. Cascaded(x)'
      BY <2>1 DEF Cascaded
  <2> QED
      BY <1>9, <2>1, <2>2, <2>3, <2>4, <2>5, <2>6
<1> QED
    BY <1>4, <1>8, <1>9, <1>10, <1>11, <1>12, SteppedInv

LEMMA AttemptInv ==
    ASSUME Inv, NEW n \in Busy, Attempt(n) PROVE Inv'
<1>1. /\ node[n].st = "attempting" /\ Escalating(n) /\ node[n].via \notin {"tool", "sas"}
      /\ node[n].agent \in Agent /\ node[n].agent \in Cascading /\ n \in Node /\ n \in 0..MaxNodes
      /\ node[n] \in NodeRecord /\ node[n].attempt < MaxAttempts[node[n].agent]
  <2>1. node[n].st = "attempting"
      BY DEF Attempt
  <2>2. n \in Node /\ n \in 0..MaxNodes
      BY DEF Busy, Node
  <2> QED
      BY <2>1, <2>2, Facts DEF Kind, Escalating
<1> PICK a : a = node[n].agent
    OBVIOUS
<1> DEFINE r == [node[n] EXCEPT !.st = "waiting", !.stash = NoLineage]
<1>2. /\ r \in NodeRecord /\ r.st = "waiting" /\ r.up = node[n].up /\ r.via = node[n].via
      /\ r.agent = a /\ r.need = node[n].need /\ r.caps = node[n].caps
      /\ r.depth = node[n].depth /\ r.limit = node[n].limit /\ r.cascades = node[n].cascades
      /\ r.attempt = node[n].attempt
  <2>1. "waiting" \in State /\ NoLineage \in Lineages
      BY DEF State, Lineages
  <2> QED
      BY <1>1, <2>1 DEF NodeRecord
<1> HIDE DEF r
\* Whatever the attempt is: it does for Inv if it fits its place below n.
<1>3. ASSUME NEW m \in Node \ Busy, NEW q \in NodeRecord, Awaits(n, r, [x \in {m} |-> q]), q.attempt = 0,
             /\ Lin(n)' = Lin(n) /\ Outer(n)' = Outer(n) /\ Escalating(n)' = Escalating(n)
             /\ n \in Busy' /\ node'[n] = r /\ n # 0 /\ node'[m] = q
             => q.up = n /\ Parent(m)' /\ Kind(m)' /\ Grant(m)' /\ Lineaged(m)' /\ Cascaded(m)'
      PROVE  Inv'
  <2> DEFINE new == [x \in {m} |-> q]
  <2>1. DOMAIN new = {m} /\ new[m] = q
      OBVIOUS
  <2> HIDE DEF new
  <2>2. Awaits(n, r, new)
      BY <1>3 DEF new
  <2>3. Stepped(n, r) /\ \A x \in Busy' \ Busy : x \in DOMAIN new /\ node'[x] = new[x]
      BY <1>1, <1>2, <1>3, <2>1, <2>2, AwaitsStepped
  <2>4. node'[m] = q
      BY <1>1, <2>1, <2>2 DEF Awaits
  <2>5. /\ Lin(n)' = Lin(n) /\ Outer(n)' = Outer(n) /\ Escalating(n)' = Escalating(n)
        /\ n \in Busy' /\ node'[n] = r /\ n # 0
      BY <2>3, SteppedKeeps
  <2>6. Kind(n)'
      BY <1>1, <1>2, <2>5, Facts DEF Kind
  <2>7. Cascaded(n)'
      BY <1>1, <1>2, <2>5, Facts DEF Cascaded
  <2>8. \A x \in Busy' \ Busy : node'[x].up # 0 /\ node'[x].up = n /\ r.st = "waiting" /\ Parent(x)'
                                /\ Kind(x)' /\ Grant(x)' /\ Lineaged(x)' /\ Cascaded(x)'
    <3> SUFFICES ASSUME NEW x \in Busy' \ Busy
                 PROVE  node'[x].up # 0 /\ node'[x].up = n /\ r.st = "waiting" /\ Parent(x)'
                        /\ Kind(x)' /\ Grant(x)' /\ Lineaged(x)' /\ Cascaded(x)'
        OBVIOUS
    <3>1. x = m
        BY <2>1, <2>3
    <3>2. q.up = n /\ Parent(m)' /\ Kind(m)' /\ Grant(m)' /\ Lineaged(m)' /\ Cascaded(m)'
        BY <1>3, <2>4, <2>5
    <3> QED
        BY <1>2, <2>4, <2>5, <3>1, <3>2
  <2> QED
      BY <1>1, <1>2, <2>3, <2>5, <2>6, <2>7, <2>8, SteppedInv
<1>4. CASE node[n].attempt = 0 /\ a \in SasFirst
  <2> DEFINE q == Normal(n, "sas", a, node[n].caps, node[n].stash, node[n].cascades)
  <2>1. PICK m \in Fresh(1) : Awaits(n, r, [x \in {m} |-> q])
      BY <1>4 DEF Attempt, r
  <2>2. m \in Node \ Busy
      BY DEF Fresh
  <2>3. Opens(q, n, "sas", a, node[n].caps, node[n].stash, node[n].cascades)
    <3>1. /\ node[n].caps \in SUBSET Cap /\ node[n].stash \in Lineages /\ node[n].cascades \in Nat
          /\ "sas" \in Via
        BY <1>1 DEF NodeRecord, Via
    <3> QED
        BY <1>1, <3>1, NormalFields
  <2> HIDE DEF q
  <2>4. /\ q \in NodeRecord /\ q.st = "opening" /\ q.up = n /\ q.via = "sas" /\ q.agent = a
        /\ q.need = {} /\ q.caps = node[n].caps /\ q.stash = node[n].stash
        /\ q.cascades = node[n].cascades /\ q.attempt = 0
      BY <2>3 DEF Opens
  <2>5. ASSUME Lin(n)' = Lin(n), Escalating(n)' = Escalating(n), n \in Busy', node'[n] = r, n # 0, node'[m] = q
        PROVE  q.up = n /\ Parent(m)' /\ Kind(m)' /\ Grant(m)' /\ Lineaged(m)' /\ Cascaded(m)'
    <3>1. Parent(m)'
        BY <1>1, <1>2, <2>2, <2>4, <2>5 DEF Parent
    <3>2. Kind(m)'
        BY <1>1, <2>4, <2>5 DEF Kind, Escalating
    <3>3. Grant(m)'
      <4>1. node[n].caps \subseteq Declared[a]
          BY <1>1, Facts DEF Grant
      <4> QED
          BY <1>2, <2>4, <2>5, <4>1 DEF Grant
    <3>4. Lin(n)' = Own(n)'
        BY <1>1, <1>2, <2>5 DEF Lin
    <3>5. Lin(m)' = Lin(n)
        BY <2>4, <2>5, <3>4 DEF Lin
    <3>6. Handed(n) /\ Lin(n).depth \in Nat /\ Lin(n).limit \in Nat /\ Lin(n).depth <= Lin(n).limit
        BY <1>1, <1>4, Facts DEF Lineaged
    <3>7. Handed(m)'
        BY <2>4, <2>5, <3>5, <3>6 DEF Handed
    <3>8. Lineaged(m)'
        BY <2>4, <2>5, <3>5, <3>6, <3>7 DEF Lineaged
    <3>9. Cascaded(m)'
      <4>1. Outer(m)' = node[n].cascades /\ ~Escalating(m)' /\ node[n].cascades \in Nat
          BY <1>1, <1>2, <2>4, <2>5 DEF Outer, Escalating, NodeRecord
      <4> QED
          BY <2>4, <2>5, <4>1 DEF Cascaded
    <3> QED
        BY <2>4, <3>1, <3>2, <3>3, <3>8, <3>9
  <2> QED
      BY <1>3, <2>1, <2>2, <2>4, <2>5
<1>5. CASE ~(node[n].attempt = 0 /\ a \in SasFirst) /\ Escalation[a] = NoAgent
  <2>1. Becomes(n, "failed")
      BY <1>5 DEF Attempt
  <2> QED
      BY <1>1, <2>1, BecomesInv
<1>6. CASE ~(node[n].attempt = 0 /\ a \in SasFirst) /\ Escalation[a] # NoAgent
  <2> PICK e : e = Escalation[a]
      OBVIOUS
  <2> DEFINE q == Run(n, "escalation", e, Declared[e], NoLineage, node[n].cascades)
  <2>1. PICK m \in Fresh(1) : Awaits(n, r, [x \in {m} |-> q])
      BY <1>6 DEF Attempt, r
  <2>2. m \in Node \ Busy
      BY DEF Fresh
  <2>3. e \in Agent /\ MaxDepth[e] \in Nat
      BY <1>1, <1>6, DelegationAssumption
  <2>4. Started(q, n, "escalation", e, Declared[e], NoLineage, node[n].cascades)
    <3>1. /\ Declared[e] \in SUBSET Cap /\ NoLineage \in Lineages /\ node[n].cascades \in Nat
          /\ "escalation" \in Via
        BY <1>1, <2>3 DEF NodeRecord, Via, Cap, Lineages
    <3> QED
        BY <1>1, <2>3, <3>1, RunFields
  <2> HIDE DEF q
  <2>5. /\ q \in NodeRecord /\ q.up = n /\ q.via = "escalation" /\ q.agent = e
        /\ q.need = {} /\ q.caps = Declared[e] /\ q.stash = NoLineage /\ q.attempt = 0
        /\ q.st \in {"opening", "failed", "attempting"}
      BY <2>4 DEF Started
  <2>6. ASSUME Lin(n)' = Lin(n), Escalating(n)' = Escalating(n), n \in Busy', node'[n] = r, n # 0, node'[m] = q
        PROVE  q.up = n /\ Parent(m)' /\ Kind(m)' /\ Grant(m)' /\ Lineaged(m)' /\ Cascaded(m)'
    <3>1. Parent(m)'
        BY <1>1, <1>2, <2>2, <2>5, <2>6 DEF Parent
    <3>2. Outer(m)' = node[n].cascades /\ node[n].cascades \in Nat
        BY <1>1, <1>2, <2>5, <2>6 DEF Outer, NodeRecord
    <3>3. Kind(m)' /\ Cascaded(m)'
      <4> PICK via : via = "escalation"
          OBVIOUS
      <4>1. Started(node'[m], n, via, e, Declared[e], NoLineage, node[n].cascades) /\ via \notin {"sas", "tool"}
          BY <2>4, <2>6
      <4> QED
          BY <2>3, <3>2, <4>1, RunFits, Zenon
    <3>4. Grant(m)'
        BY <2>5, <2>6 DEF Grant
    <3>5. Lin(m)' = [depth |-> 0, limit |-> MaxDepth[e]]
        BY <2>5, <2>6 DEF Lin, Own, Roots
    <3>6. Handed(m)'
        BY <2>5, <2>6, <3>5 DEF Handed
    <3>7. Lineaged(m)'
        BY <2>3, <2>5, <2>6, <3>5, <3>6 DEF Lineaged
    <3> QED
        BY <2>5, <3>1, <3>3, <3>4, <3>7
  <2> QED
      BY <1>3, <2>1, <2>2, <2>5, <2>6
<1> QED
    BY <1>4, <1>5, <1>6
-----------------------------------------------------------------------------
(* Steps that drop nodes which have ended, and the first node.             *)

\* The calls or the attempt of n are over: n goes on without them.
LEMMA SettlesInv ==
    ASSUME Inv, NEW n \in Busy, Over(n), NEW r \in NodeRecord, Settles(n, r),
           r.up = node[n].up, r.via = node[n].via, r.agent = node[n].agent, r.need = node[n].need,
           r.caps = node[n].caps, r.depth = node[n].depth, r.limit = node[n].limit,
           r.cascades = node[n].cascades,
           \/ r.st \in {"done", "failed"} /\ r.attempt = node[n].attempt
           \/ Escalating(n) /\ r.st = "done" /\ r.attempt = node[n].attempt + 1
           \/ ~Escalating(n) /\ r.st = "asking" /\ r.attempt = node[n].attempt
           \/ Escalating(n) /\ r.st = "attempting" /\ r.attempt = node[n].attempt + 1
              /\ r.attempt < MaxAttempts[r.agent]
    PROVE  Inv'
<1>1. /\ node[n].st = "waiting" /\ n \in Node /\ node[n].attempt \in Nat /\ node[n].via # "tool"
      /\ node \in [Node -> {Free} \cup NodeRecord]
      /\ Escalating(n) => /\ node[n].attempt < MaxAttempts[node[n].agent]
                          /\ MaxAttempts[node[n].agent] \in Nat
  <2>1. Escalating(n) => MaxAttempts[node[n].agent] \in Nat
      BY DelegationAssumption DEF Escalating
  <2> QED
      BY <2>1, Facts DEF Over, Kind, NodeRecord
<1>2. \A x \in Children(n) : x \in Busy /\ node[x].st \in Ended
    BY DEF Over, Children, Live
<1>3. /\ node' \in [Node -> {Free} \cup NodeRecord] /\ node'[n] = r
      /\ \A x \in Node \ {n} : node'[x] = IF x \in Children(n) THEN Free ELSE node[x]
    BY <1>1 DEF Settles
<1>4. \A x \in Busy \cap Busy' : node[x].up # n
  <2> SUFFICES ASSUME NEW x \in Busy \cap Busy', node[x].up = n PROVE FALSE
      OBVIOUS
  <2>1. x # n
      BY Facts
  <2>2. x \in Children(n) /\ x \in Node /\ node'[x] # Free
      BY DEF Children, Busy
  <2> QED
      BY <1>3, <2>1, <2>2
<1>5. Busy' \ Busy = {}
  <2> SUFFICES ASSUME NEW x \in Busy', x \notin Busy PROVE FALSE
      OBVIOUS
  <2>1. x \in Node \ {n} /\ node'[x] # Free /\ node[x] = Free
      BY DEF Busy
  <2> QED
      BY <1>3, <2>1
<1>6. \A x \in Node \ {n} : node'[x] = node[x] \/ (x \in Busy /\ node[x].st \in Ended /\ node'[x] = Free)
    BY <1>2, <1>3
<1>7. r.agent \in Cascading => r.attempt <= MaxAttempts[r.agent]
  <2>1. Escalating(n) => r.attempt <= MaxAttempts[r.agent]
      BY <1>1
  <2> QED
      BY <2>1, Facts
<1>8. Stepped(n, r)
    BY <1>3, <1>4, <1>6, <1>7 DEF Stepped
<1>9. /\ Lin(n)' = Lin(n) /\ Outer(n)' = Outer(n) /\ Escalating(n)' = Escalating(n)
      /\ n \in Busy' /\ node'[n] = r
    BY <1>8, SteppedKeeps
<1>10. Kind(n)'
    BY <1>1, <1>9, Facts DEF Kind
<1>11. Cascaded(n)'
    BY <1>1, <1>9, Facts DEF Cascaded
<1>12. r.st \in {"asking", "waiting"} /\ ~Escalating(n) => r.depth = Lin(n).depth /\ r.limit = Lin(n).limit
    BY <1>1, Facts DEF Lineaged
<1>13. r.st \notin {"queued", "opening"} /\ (r.st = "attempting" => r.attempt # 0)
    BY <1>1
<1> QED
    BY <1>5, <1>8, <1>9, <1>10, <1>11, <1>12, <1>13, SteppedInv

LEMMA CollectInv ==
    ASSUME Inv, NEW n \in Busy, Collect(n) PROVE Inv'
<1> DEFINE r == [node[n] EXCEPT !.st = "asking"]
<1>1. Over(n) /\ ~Escalating(n) /\ Settles(n, r)
    BY DEF Collect
<1>2. /\ r \in NodeRecord /\ r.st = "asking" /\ r.up = node[n].up /\ r.via = node[n].via
      /\ r.agent = node[n].agent /\ r.need = node[n].need /\ r.caps = node[n].caps
      /\ r.depth = node[n].depth /\ r.limit = node[n].limit /\ r.cascades = node[n].cascades
      /\ r.attempt = node[n].attempt
    BY Facts DEF NodeRecord, State
<1> HIDE DEF r
<1> QED
    BY <1>1, <1>2, SettlesInv

LEMMA JudgeInv ==
    ASSUME Inv, NEW n \in Busy, Judge(n) PROVE Inv'
<1>1. /\ Over(n) /\ Escalating(n) /\ node[n] \in NodeRecord /\ node[n].attempt \in Nat
      /\ node[n].agent \in Cascading /\ MaxAttempts[node[n].agent] \in Nat
  <2>1. Over(n) /\ Escalating(n)
      BY DEF Judge
  <2>2. node[n] \in NodeRecord /\ node[n].agent \in Cascading
      BY <2>1, Facts DEF Escalating
  <2> QED
      BY <2>1, <2>2, DelegationAssumption DEF NodeRecord
<1>2. ASSUME NEW st \in {"done", "failed"}, Settles(n, [node[n] EXCEPT !.st = st]) PROVE Inv'
  <2> DEFINE r == [node[n] EXCEPT !.st = st]
  <2>1. /\ r \in NodeRecord /\ r.st = st /\ r.up = node[n].up /\ r.via = node[n].via
        /\ r.agent = node[n].agent /\ r.need = node[n].need /\ r.caps = node[n].caps
        /\ r.depth = node[n].depth /\ r.limit = node[n].limit /\ r.cascades = node[n].cascades
        /\ r.attempt = node[n].attempt
      BY <1>1 DEF NodeRecord, State, Ended
  <2>2. Settles(n, r)
      BY <1>2
  <2> HIDE DEF r
  <2> QED
      BY <1>1, <2>1, <2>2, SettlesInv
<1>3. ASSUME NEW st \in {"done", "attempting"}, Settles(n, [node[n] EXCEPT !.attempt = @ + 1, !.st = st]),
             st = "attempting" => node[n].attempt + 1 < MaxAttempts[node[n].agent]
      PROVE  Inv'
  <2> DEFINE r == [node[n] EXCEPT !.attempt = @ + 1, !.st = st]
  <2>1. /\ r \in NodeRecord /\ r.st = st /\ r.up = node[n].up /\ r.via = node[n].via
        /\ r.agent = node[n].agent /\ r.need = node[n].need /\ r.caps = node[n].caps
        /\ r.depth = node[n].depth /\ r.limit = node[n].limit /\ r.cascades = node[n].cascades
        /\ r.attempt = node[n].attempt + 1
    <3>1. st \in State /\ node[n].attempt + 1 \in Nat
        BY <1>1 DEF State, Ended
    <3> QED
        BY <1>1, <3>1 DEF NodeRecord
  <2>2. Settles(n, r)
      BY <1>3
  <2> HIDE DEF r
  <2> QED
      BY <1>1, <1>3, <2>1, <2>2, SettlesInv
<1>4. CASE \E m \in Children(n) : node[m].st = "failed"
    BY <1>2, <1>4 DEF Judge
<1>5. CASE ~\E m \in Children(n) : node[m].st = "failed"
  <2> DEFINE last == Escalation[node[n].agent] = NoAgent \/ node[n].attempt + 1 >= MaxAttempts[node[n].agent]
  <2>1. \/ Settles(n, [node[n] EXCEPT !.st = "done"])
        \/ Settles(n, [node[n] EXCEPT !.attempt = @ + 1, !.st = IF last THEN "done" ELSE "attempting"])
      BY <1>5 DEF Judge, Attempts
  <2>2. CASE last
    <3>1. \/ Settles(n, [node[n] EXCEPT !.st = "done"])
          \/ Settles(n, [node[n] EXCEPT !.attempt = @ + 1, !.st = "done"])
        BY <2>1, <2>2
    <3> QED
        BY <1>2, <1>3, <3>1
  <2>3. CASE ~last
    <3>1. \/ Settles(n, [node[n] EXCEPT !.st = "done"])
          \/ Settles(n, [node[n] EXCEPT !.attempt = @ + 1, !.st = "attempting"])
        BY <2>1, <2>3
    <3>2. node[n].attempt + 1 < MaxAttempts[node[n].agent]
        BY <1>1, <2>3
    <3> QED
        BY <1>2, <1>3, <3>1, <3>2
  <2> QED
      BY <2>2, <2>3
<1> QED
    BY <1>4, <1>5

LEMMA GoneInv ==
    ASSUME Inv, NEW n \in Busy, Gone(n) PROVE Inv'
<1>1. /\ node[n].st = "draining" /\ n \in Node /\ node[n] \in NodeRecord
      /\ node \in [Node -> {Free} \cup NodeRecord]
    BY Facts DEF Gone
<1> DEFINE r == [node[n] EXCEPT !.st = "failed"]
<1>2. /\ r \in NodeRecord /\ r.st = "failed" /\ r.up = node[n].up /\ r.via = node[n].via
      /\ r.agent = node[n].agent /\ r.need = node[n].need /\ r.caps = node[n].caps
      /\ r.attempt = node[n].attempt
    BY <1>1 DEF NodeRecord, State, Ended
<1>3. \A x \in Children(n) : x \in Busy /\ x \notin Live /\ node[x].st \in Ended
    BY DEF Gone, Drained, Children, Live
<1>4. /\ node' \in [Node -> {Free} \cup NodeRecord] /\ node'[n] = r
      /\ \A x \in Node \ {n} : node'[x] = IF x \in Children(n) \ Live THEN Free ELSE node[x]
    BY <1>1, <1>2 DEF Gone
<1> HIDE DEF r
<1>5. \A x \in Busy \cap Busy' : node[x].up # n
  <2> SUFFICES ASSUME NEW x \in Busy \cap Busy', node[x].up = n PROVE FALSE
      OBVIOUS
  <2>1. x # n
      BY Facts
  <2>2. x \in Children(n) \ Live /\ x \in Node /\ node'[x] # Free
      BY <1>3 DEF Children, Busy
  <2> QED
      BY <1>4, <2>1, <2>2
<1>6. Busy' \ Busy = {}
  <2> SUFFICES ASSUME NEW x \in Busy', x \notin Busy PROVE FALSE
      OBVIOUS
  <2>1. x \in Node \ {n} /\ node'[x] # Free /\ node[x] = Free
      BY DEF Busy
  <2> QED
      BY <1>4, <2>1
<1>7. Stepped(n, r)
  <2>1. \A x \in Node \ {n} : node'[x] = node[x] \/ (x \in Busy /\ node[x].st \in Ended /\ node'[x] = Free)
      BY <1>3, <1>4
  <2>2. r.agent \in Cascading => r.attempt <= MaxAttempts[r.agent]
      BY <1>2, Facts
  <2> QED
      BY <1>2, <1>4, <1>5, <2>1, <2>2 DEF Stepped
<1>8. node'[n] = r
    BY <1>4
<1>9. Escalating(n)' = Escalating(n) => Kind(n)'
    BY <1>2, <1>8, Facts DEF Kind
<1>10. Cascaded(n)'
    BY <1>2, <1>8 DEF Cascaded
<1> QED
    BY <1>2, <1>6, <1>7, <1>9, <1>10, SteppedInv

\* Nobody works for a run that has ended.
LEMMA LeaveInv ==
    ASSUME Inv, NEW n \in Busy, Leave(n) PROVE Inv'
<1>1. /\ n \in Node /\ node[n].st \in Ended /\ node' = [node EXCEPT ![n] = Free]
      /\ node \in [Node -> {Free} \cup NodeRecord]
    BY Facts DEF Leave
<1>2. /\ node' \in [Node -> {Free} \cup NodeRecord]
      /\ \A x \in Node : node'[x] = IF x = n THEN Free ELSE node[x]
    BY <1>1
<1>3. Busy' = Busy \ {n}
  <2>1. \A x \in Node : x \in Busy' <=> x \in Busy /\ x # n
      BY <1>2 DEF Busy
  <2>2. Busy' \subseteq Node /\ Busy \subseteq Node
      BY DEF Busy
  <2> QED
      BY <2>1, <2>2
<1>4. \A x \in Busy : x # n => node'[x] = node[x]
    BY <1>2 DEF Busy
<1>5. TypeOK'
    BY <1>2, <1>3, <1>4, Facts DEF TypeOK
<1>6. Framed({})
  <2>1. ASSUME NEW x \in Busy \cap Busy' PROVE Same(x) /\ (node[x].up # 0 => Steady(node[x].up))
    <3>1. \A y \in Busy' : Same(y)
        BY <1>3, <1>4 DEF Same
    <3>2. \A p \in Busy : node[p].st \in {"waiting", "draining"} => Steady(p)
      <4> SUFFICES ASSUME NEW p \in Busy, node[p].st \in {"waiting", "draining"} PROVE Steady(p)
          OBVIOUS
      <4>1. p # n
          BY <1>1 DEF Ended
      <4> QED
          BY <1>3, <1>4, <3>1, <4>1 DEF Steady
    <3> QED
        BY <2>1, <3>1, <3>2, Facts DEF Parent
  <2>2. \A x \in Busy \cap Busy' : node'[x] = node[x]
      BY <1>3, <1>4
  <2> QED
      BY <2>1, <2>2 DEF Framed
<1>7. Busy' \subseteq Busy
    BY <1>3
<1> QED
    BY <1>5, <1>6, <1>7, FrameInv

LEMMA OpenInv ==
    ASSUME Inv, Open PROVE Inv'
<1>1. PICK a \in Top, n \in Fresh(1) :
          node' = [node EXCEPT ![n] = Run(0, "top", a, Declared[a], NoLineage, 0)]
    BY DEF Open
<1>2. n \in Node /\ n \notin Busy /\ n # 0 /\ a \in Agent /\ MaxDepth[a] \in Nat
      /\ node \in [Node -> {Free} \cup NodeRecord]
    BY DelegationAssumption DEF Fresh, Node, Inv, TypeOK
<1> DEFINE r == Run(0, "top", a, Declared[a], NoLineage, 0)
<1>3. Started(r, 0, "top", a, Declared[a], NoLineage, 0)
  <2>1. /\ Declared[a] \in SUBSET Cap /\ NoLineage \in Lineages /\ "top" \in Via /\ 0 \in 0..MaxNodes
      BY <1>2, DelegationAssumption DEF Via, Cap, Lineages
  <2> QED
      BY <1>2, <2>1, RunFields
<1>4. /\ node' \in [Node -> {Free} \cup NodeRecord] /\ node'[n] = r
      /\ \A x \in Node \ {n} : node'[x] = node[x]
  <2>1. r \in NodeRecord
      BY <1>3 DEF Started
  <2> QED
      BY <1>1, <1>2, <2>1
<1> HIDE DEF r
<1>5. /\ r \in NodeRecord /\ r.up = 0 /\ r.via = "top" /\ r.agent = a /\ r.need = {}
      /\ r.caps = Declared[a] /\ r.stash = NoLineage /\ r.attempt = 0
      /\ r.st \in {"opening", "failed", "attempting"}
    BY <1>3 DEF Started
<1>6. Busy' = Busy \cup {n} /\ \A x \in Busy : x # n /\ node'[x] = node[x]
  <2>1. r # Free
      BY <1>5 DEF Free
  <2>2. \A x \in Node : x \in Busy' <=> x \in Busy \/ x = n
      BY <1>2, <1>4, <2>1 DEF Busy
  <2>3. Busy' \subseteq Node /\ Busy \subseteq Node
      BY DEF Busy
  <2>4. \A x \in Busy : x # n /\ node'[x] = node[x]
      BY <1>2, <1>4, <2>3
  <2> QED
      BY <1>2, <2>2, <2>3, <2>4
<1>7. TypeOK'
  <2>1. a \in Cascading => 0 <= MaxAttempts[a]
      BY DelegationAssumption
  <2>2. \A x \in Busy' : node'[x].agent \in Cascading => node'[x].attempt <= MaxAttempts[node'[x].agent]
      BY <1>4, <1>5, <1>6, <2>1, Facts
  <2> QED
      BY <1>4, <2>2 DEF TypeOK
<1>8. Framed({})
  <2>1. \A x \in Busy : Same(x) /\ x \in Busy'
      BY <1>6 DEF Same
  <2>2. \A p \in Busy : node[p].st \in {"waiting", "draining"} => Steady(p)
      BY <1>6, <2>1 DEF Steady
  <2>3. \A x \in Busy : node[x].up # 0 => Steady(node[x].up)
      BY <2>2, Facts DEF Parent
  <2> QED
      BY <1>6, <2>1, <2>3 DEF Framed
<1>9. Parent(n)' /\ Outer(n)' = 0 /\ Lin(n)' = [depth |-> 0, limit |-> MaxDepth[a]]
  <2>1. node'[n].up = 0 /\ node'[n].via = "top" /\ node'[n].agent = a
      BY <1>4, <1>5
  <2> QED
      BY <2>1 DEF Parent, Outer, Lin, Own, Roots
<1>10. Kind(n)' /\ Cascaded(n)'
  <2> PICK via, c : via = "top" /\ c = 0
      OBVIOUS
  <2>1. Started(node'[n], 0, via, a, Declared[a], NoLineage, c) /\ via \notin {"sas", "tool"} /\ c \in Nat
      BY <1>3, <1>4
  <2>2. Outer(n)' = c
      BY <1>9
  <2> QED
      BY <1>2, <2>1, <2>2, RunFits, Zenon
<1>11. Grant(n)'
    BY <1>4, <1>5 DEF Grant
<1>12. Lineaged(n)'
    BY <1>2, <1>4, <1>5, <1>9 DEF Lineaged, Handed
<1>13. \A x \in Busy' \ Busy : x = n
    BY <1>6
<1>14. node'[n].up = 0
    BY <1>4, <1>5
<1> QED
    BY <1>7, <1>8, <1>9, <1>10, <1>11, <1>12, <1>13, <1>14, FrameInv
-----------------------------------------------------------------------------
(* The invariant, and what follows from it.                                *)

LEMMA CancelInv ==
    ASSUME Inv, NEW n \in Busy, Cancel(n) \/ Raise(n) \/ Answer(n) \/ ToolEnds(n) PROVE Inv'
<1>1. CASE Cancel(n)
  <2>1. CASE node[n].st = "queued"
    <3>1. Becomes(n, "failed")
        BY <1>1, <2>1 DEF Cancel
    <3> QED
        BY <2>1, <3>1, BecomesInv
  <2>2. CASE node[n].st # "queued"
    <3>1. Becomes(n, "draining")
        BY <1>1, <2>2 DEF Cancel
    <3> QED
        BY <3>1, BecomesInv
  <2> QED
      BY <2>1, <2>2
<1>2. CASE Raise(n)
    BY <1>2, BecomesInv DEF Raise
<1>3. CASE Answer(n) \/ ToolEnds(n)
    BY <1>3, BecomesInv DEF Answer, ToolEnds
<1> QED
    BY <1>1, <1>2, <1>3

LEMMA NextInv ==
    ASSUME Inv, [Next]_vars PROVE Inv'
<1>1. CASE Open
    BY <1>1, OpenInv
<1>2. ASSUME NEW n \in Busy, Leave(n) \/ Begin(n) \/ RunStep(n) \/ Raise(n) PROVE Inv'
  <2>1. CASE Leave(n)
      BY <2>1, LeaveInv
  <2>2. CASE Begin(n)
      BY <2>2, BeginInv
  <2>3. CASE Opened(n)
      BY <2>3, OpenedInv
  <2>4. CASE Turn(n)
      BY <2>4, TurnInv
  <2>5. CASE Answer(n) \/ ToolEnds(n) \/ Cancel(n) \/ Raise(n)
      BY <2>5, CancelInv
  <2>6. CASE Collect(n)
      BY <2>6, CollectInv
  <2>7. CASE Attempt(n)
      BY <2>7, AttemptInv
  <2>8. CASE Judge(n)
      BY <2>8, JudgeInv
  <2>9. CASE Gone(n)
      BY <2>9, GoneInv
  <2> QED
      BY <1>2, <2>1, <2>2, <2>3, <2>4, <2>5, <2>6, <2>7, <2>8, <2>9 DEF RunStep
<1>3. CASE UNCHANGED vars
  <2>1. node' = node
      BY <1>3 DEF vars
  <2>2. Busy' = Busy
      BY <2>1 DEF Busy
  <2>3. TypeOK'
      BY <2>1, <2>2 DEF Inv, TypeOK
  <2>4. Framed({})
    <3>1. \A x \in Busy : Same(x)
        BY <2>1 DEF Same
    <3>2. \A p \in Busy : node[p].st \in {"waiting", "draining"} => Steady(p)
        BY <2>1, <2>2, <3>1 DEF Steady
    <3> QED
        BY <2>1, <3>1, <3>2, Facts DEF Framed, Parent
  <2>5. \A n \in Busy' : n \in Busy
      BY <2>2
  <2> QED
      BY <2>3, <2>4, <2>5, FrameInv
<1> QED
    BY <1>1, <1>2, <1>3 DEF Next

LEMMA Invariance == Spec => []Inv
<1>1. Init => Inv
  <2> SUFFICES ASSUME Init PROVE Inv
      OBVIOUS
  <2>1. Busy = {}
      BY DEF Init, Busy
  <2>2. node \in [Node -> {Free} \cup NodeRecord]
      BY DEF Init
  <2> QED
      BY <2>1, <2>2 DEF Inv, TypeOK, ParentInv
<1>2. Inv /\ [Next]_vars => Inv'
    BY NextInv
<1> QED
    BY <1>1, <1>2, PTL DEF Spec

\* Nodes are free or records of their fields, and attempts stay within their limit.
THEOREM TypeCorrect == Spec => []TypeOK
<1>1. Inv => TypeOK
    BY DEF Inv
<1> QED
    BY <1>1, Invariance, PTL

\* No sub-run, attempt or tool call outlives the run it works for, however runs raise
\* and are cancelled.
THEOREM ChildrenEndFirst == Spec => []ParentsOutlive
<1>1. Inv => ParentsOutlive
  <2> SUFFICES ASSUME Inv, NEW n \in Live, node[n].up # 0
               PROVE  node[n].up \in Live /\ node[node[n].up].st \in {"waiting", "draining"}
      BY DEF ParentsOutlive
  <2>1. node[n].up \in Busy /\ node[node[n].up].st \in {"waiting", "draining"}
      BY Facts DEF Live, Parent
  <2> QED
      BY <2>1 DEF Live, Ended
<1> QED
    BY <1>1, Invariance, PTL

\* A running tool is allowed by every run of its grant, up to the one the host or an
\* escalation started.
THEOREM GrantsHold == Spec => []ToolsWithinGrant
<1> DEFINE stop == {"top", "escalation"}
<1>1. Inv => ToolsWithinGrant
  <2> SUFFICES ASSUME Inv, NEW n \in Live, node[n].st = "running", NEW m \in LineOf(n) \ {n}
               PROVE  node[n].need \subseteq Declared[node[m].agent]
      BY DEF ToolsWithinGrant
  <2> PICK p : p = node[n].up
      OBVIOUS
  <2>1. n \in Busy /\ node[n].via = "tool" /\ p \in Busy /\ node[n].need \subseteq node[p].caps
        /\ node[p].via # "tool" /\ node[p].st \in {"waiting", "draining"}
      BY Facts DEF Live, Kind, Parent, Grant
  <2> DEFINE s == {x \in Busy : /\ node[n].need \subseteq node[x].caps /\ node[x].via # "tool"
                                /\ node[x].st \in {"waiting", "draining"}}
  <2>2. p \in s /\ s \in SUBSET Busy
      BY <2>1
  <2>3. \A x \in s : node[x].via \in stop \/ node[x].up \in s
    <3> SUFFICES ASSUME NEW x \in s, node[x].via \notin stop PROVE node[x].up \in s
        OBVIOUS
    <3> PICK q : q = node[x].up
        OBVIOUS
    <3>1. node[x].via \in {"delegate", "sas"}
        BY Facts DEF NodeRecord, Via
    <3>2. q \in Busy /\ node[q].via # "tool" /\ node[q].st \in {"waiting", "draining"}
          /\ node[x].caps \subseteq node[q].caps
        BY <3>1, Facts DEF Parent, Grant
    <3> QED
        BY <3>2
  <2>4. m \in Above(p, stop)
      BY <2>1, AboveUp DEF LineOf, Inv
  <2>5. m \in s
    <3> HIDE DEF s, stop
    <3> QED
        BY <2>2, <2>3, <2>4 DEF Above
  <2> QED
      BY <2>5, Facts DEF Grant
<1> QED
    BY <1>1, Invariance, PTL

\* Delegations below a run stay within that run's max_delegation_depth, and cascades
\* within one another stay within max_cascade_depth.
THEOREM NestingBounded == Spec => []LimitsHold
<1> DEFINE stop == {"top", "escalation"}
<1>0. ASSUME Inv PROVE \A s \in SUBSET Busy : IsFiniteSet(s) /\ Cardinality(s) \in Nat
  <2>1. IsFiniteSet(Node) /\ Busy \in SUBSET Node
      BY FS_Interval, DelegationAssumption DEF Node, Busy
  <2> QED
      BY <2>1, FS_Subset, FS_CardinalityType
<1>1. Inv => DepthWithinLimit
  <2> SUFFICES ASSUME Inv, NEW n \in Live
               PROVE  Cardinality({m \in LineOf(n) : node[m].via = "delegate"})
                          <= MaxDepth[node[RootOf(n)].agent]
      BY DEF DepthWithinLimit
  <2> PICK root : root = RootOf(n)
      OBVIOUS
  <2>1. n \in Busy /\ LineOf(n) \in SUBSET Busy /\ Counted(n) /\ Lineaged(n)
      BY Facts, AboveSelf DEF Live, LineOf
  <2>2. root \in LineOf(n) /\ node[root].via \in stop
      BY <2>1 DEF RootOf, Counted, Roots
  <2> DEFINE s == {x \in Busy : Lin(x).limit = Lin(n).limit}
  <2>3. \A x \in s : node[x].via \in stop \/ node[x].up \in s
    <3> SUFFICES ASSUME NEW x \in s, node[x].via \notin stop PROVE node[x].up \in s
        OBVIOUS
    <3> PICK q : q = node[x].up
        OBVIOUS
    <3>1. node[x].via \in {"delegate", "sas", "tool"}
        BY Facts DEF NodeRecord, Via
    <3>2. q \in Busy /\ (node[x].via = "sas" => node[q].via \notin {"tool", "sas"})
        BY <3>1, Facts DEF Parent, Escalating
    <3>3. Lin(x).limit = Lin(q).limit
      <4>1. CASE node[x].via = "sas"
          BY <3>2, <4>1 DEF Lin
      <4>2. CASE node[x].via = "tool"
          BY <4>2, Facts DEF Lin, Lineaged
      <4>3. CASE node[x].via = "delegate"
          BY <4>3, Facts DEF Lin, Own, Roots, Lineaged
      <4> QED
          BY <3>1, <4>1, <4>2, <4>3
    <3> QED
        BY <3>2, <3>3
  <2>4. root \in s
    <3>1. n \in s /\ s \in SUBSET Busy /\ root \in Above(n, stop)
        BY <2>1, <2>2 DEF LineOf
    <3> HIDE DEF s, stop
    <3> QED
        BY <2>3, <3>1 DEF Above
  <2>5. Lin(root).limit = MaxDepth[node[root].agent]
      BY <2>2 DEF Lin, Own, Roots
  <2>6. Cardinality({m \in LineOf(n) : node[m].via = "delegate"}) <= Lin(n).depth
        /\ Lin(n).depth \in Nat /\ Lin(n).limit \in Nat /\ Lin(n).depth <= Lin(n).limit
        /\ Cardinality({m \in LineOf(n) : node[m].via = "delegate"}) \in Nat
      BY <1>0, <2>1 DEF Counted, Lineaged
  <2> QED
      BY <2>4, <2>5, <2>6
<1>2. Inv => CascadesWithinLimit
  <2> SUFFICES ASSUME Inv, NEW n \in Live, Escalating(n), node[n].st \in {"attempting", "waiting"}
               PROVE  Cardinality({m \in PathOf(n) : Escalating(m)}) <= MaxCascade[node[n].agent]
      BY DEF CascadesWithinLimit
  <2> DEFINE e == {m \in PathOf(n) \ {n} : Escalating(m)}
             all == {m \in PathOf(n) : Escalating(m)}
  <2>1. n \in Busy /\ n \in PathOf(n) /\ PathOf(n) \in SUBSET Busy
      BY AboveSelf DEF Live, PathOf
  <2>2. Cardinality(e) <= Outer(n) /\ node[n].cascades > Outer(n)
        /\ node[n].cascades <= MaxCascade[node[n].agent]
      BY <2>1, Facts DEF Counted, Cascaded
  <2>3. all = e \cup {n} /\ e \in SUBSET Busy
      BY <2>1
  <2>4. MaxCascade[node[n].agent] \in Nat /\ node[n].cascades \in Nat /\ Outer(n) \in Nat
    <3>1. node[n].cascades \in Nat /\ MaxCascade[node[n].agent] \in Nat
        BY <2>1, Facts, DelegationAssumption DEF Escalating, NodeRecord
    <3>2. node[n].up # 0 => node[n].up \in Busy
        BY <2>1, Facts DEF Parent
    <3>3. Outer(n) \in Nat
        BY <3>2, Facts DEF Outer, NodeRecord
    <3> QED
        BY <3>1, <3>3
  <2> HIDE DEF e, all
  <2>5. Cardinality(all) \in Nat /\ Cardinality(all) <= Cardinality(e) + 1 /\ Cardinality(e) \in Nat
      BY <1>0, <2>3, OneMore
  <2>6. Cardinality(all) <= MaxCascade[node[n].agent]
      BY <2>2, <2>4, <2>5
  <2> QED
      BY <2>6 DEF all
<1>3. Inv => LimitsHold
    BY <1>1, <1>2 DEF LimitsHold
<1> QED
    BY <1>3, Invariance, PTL
=============================================================================
