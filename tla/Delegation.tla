----------------------------- MODULE Delegation -----------------------------
(***************************************************************************)
(* Runs inside runs: a delegate tool call runs a sub-agent                 *)
(* (Agent.delegate, make_delegate_invoker), a cascading agent runs itself  *)
(* without delegates and then its escalation agent (_run_with_cascade).    *)
(*                                                                         *)
(* The runs and tool calls of the process form a forest: a node is one     *)
(* call of Agent.run, or one plain tool call, and knows who waits for it.  *)
(* How one turn dispatches its calls is ToolDispatch; here a turn creates  *)
(* its calls at once and is over when they all are.                        *)
(***************************************************************************)
EXTENDS Integers, FiniteSets

CONSTANTS
    Agent,
    Top,          \* agents the host application runs
    Delegates,    \* Delegates[a]: a.delegates
    Tools,        \* Tools[a]: the capabilities a's own tools need, one each
    Declared,     \* Declared[a]: a.allowed_capabilities as constructed
    ReadPrivate,  \* the capability of a delegate tool
    MaxDepth,     \* MaxDepth[a]: a.max_delegation_depth
    Cascading,    \* agents with a RequestCascade
    SasFirst,     \* those with sas_attempt_first
    Escalation,   \* Escalation[a]: the escalation agent, or NoAgent
    MaxAttempts,  \* MaxAttempts[a]: max_attempts
    MaxCascade,   \* MaxCascade[a]: max_cascade_depth
    MaxTurns,     \* policy.max_steps
    Permits,      \* VOUSSOIR_MAX_CONCURRENT_TOOLS
    NoAgent,
    Runs,         \* bound: top-level runs at a time
    MaxCalls,     \* bound: calls of one turn
    TurnNodes,    \* bound: TurnNodes[k]: nodes there may be once a turn adds k calls
    MaxNodes      \* bound: nodes at a time

ASSUME DelegationAssumption ==
    /\ NoAgent \notin Agent /\ Top \subseteq Agent
    /\ SasFirst \subseteq Cascading /\ Cascading \subseteq Agent
    /\ Delegates \in [Agent -> SUBSET Agent]
    /\ Escalation \in [Cascading -> Agent \cup {NoAgent}]
    /\ MaxDepth \in [Agent -> Nat]
    /\ MaxAttempts \in [Cascading -> Nat \ {0}] /\ MaxCascade \in [Cascading -> Nat \ {0}]
    /\ {MaxTurns, Permits, Runs, MaxCalls, MaxNodes} \subseteq Nat
    /\ TurnNodes \in [1..MaxCalls -> Nat]

VARIABLE node    \* node[n]: the run or call n, or Free

vars == <<node>>

Node == 1..MaxNodes
Cap == {ReadPrivate} \cup UNION {Declared[a] \cup Tools[a] : a \in Agent}
Via == {"top", "delegate", "sas", "escalation", "tool"}
Ended == {"done", "failed"}
State == {"queued", "running", "opening", "asking", "attempting", "waiting", "draining"} \cup Ended

Free == [st |-> "free"]
Busy == {n \in Node : node[n] # Free}
Live == {n \in Busy : node[n].st \notin Ended}
Children(n) == {m \in Busy : node[m].up = n}

\* The k lowest free nodes: which node stands for a run has no meaning.
Fresh(k) == {n \in Node \ Busy : Cardinality({m \in Node \ Busy : m < n}) < k}
-----------------------------------------------------------------------------
(* What a run is created with.                                             *)

\* _DelegationLineage, the part of it that decides anything.
NoLineage == [depth |-> -1, limit |-> -1]

\* A tool call waiting for a permit; `need` is a plain tool's capability.
Call(p, via, a, need) ==
    [st |-> "queued", up |-> p, via |-> via, agent |-> a, need |-> need, caps |-> {},
     stash |-> NoLineage, depth |-> 0, limit |-> 0, cascades |-> 0, attempt |-> 0, turns |-> 0]

\* Agent._run_normal, under `cascades` cascades.
Normal(p, via, a, caps, stash, cascades) ==
    [Call(p, via, a, {}) EXCEPT !.st = "opening", !.caps = caps, !.stash = stash,
                                !.cascades = cascades]

\* Agent.run: a cascade starts unless its path already holds max_cascade_depth.
Run(p, via, a, caps, stash, cascades) ==
    LET r == Normal(p, via, a, caps, stash, cascades) IN
        IF a \notin Cascading THEN r
        ELSE IF cascades >= MaxCascade[a] THEN [r EXCEPT !.st = "failed"]
        ELSE [r EXCEPT !.st = "attempting", !.cascades = @ + 1]

\* Faulty variants: the sub-agent keeps its own mask; its own depth limit; the call's
\* task does not inherit the context its turn runs in.
ClampedToDeclared(p, a) == Declared[a]
LineageOwnLimit(p, a) == [depth |-> node[p].depth + 1, limit |-> MaxDepth[a]]
CascadesReset(p) == 0
Clamped(p, a) == node[p].caps \cap Declared[a]
Lineage(p, a) == [depth |-> node[p].depth + 1, limit |-> node[p].limit]
CascadesOf(p) == node[p].cascades

\* clamp_tools leaves an agent that has tools none of them.
ClampedEmpty(caps, a) == Tools[a] # {} /\ Tools[a] \cap caps \cap Declared[a] = {}
-----------------------------------------------------------------------------
Init == node = [n \in Node |-> Free]

Becomes(n, st) == node' = [node EXCEPT ![n].st = st]

\* n goes on, as r, without its calls or its attempt.
Settles(n, r) ==
    node' = [m \in Node |-> IF m = n THEN r ELSE IF m \in Children(n) THEN Free ELSE node[m]]

\* n goes on, as r, waiting for the new nodes new.
Awaits(n, r, new) ==
    node' = [m \in Node |-> IF m = n THEN r ELSE IF m \in DOMAIN new THEN new[m] ELSE node[m]]

\* The host calls Agent.run, and leaves with what it returns or raises.
Open ==
    /\ Cardinality({n \in Busy : node[n].via = "top"}) < Runs
    /\ \E a \in Top, n \in Fresh(1) :
          node' = [node EXCEPT ![n] = Run(0, "top", a, Declared[a], NoLineage, 0)]

Leave(n) ==
    /\ node[n].via = "top" /\ node[n].st \in Ended
    /\ node' = [node EXCEPT ![n] = Free]

\* Faulty variant: the lineage is left on the agent itself, where the first of its
\* concurrent runs takes it.
StashShared(n) ==
    IF \E m \in Live \ {n} : /\ node[m].agent = node[n].agent
                             /\ node[m].st \notin {"queued", "opening"}
    THEN NoLineage ELSE node[n].stash
StashOf(n) == node[n].stash

MayDelegate(via, depth, limit) == via # "sas" /\ depth < limit

\* The run's context is open: the lineage left on the object that runs is taken, and
\* the delegate tools are built, which fails when one would have no tool left.
Opened(n) ==
    LET s == StashOf(n)
        depth == IF s = NoLineage THEN 0 ELSE s.depth
        limit == IF s = NoLineage THEN MaxDepth[node[n].agent] ELSE s.limit
        empty == \E d \in Delegates[node[n].agent] : ClampedEmpty(node[n].caps, d)
    IN  /\ node[n].st = "opening"
        /\ node' = [node EXCEPT
              ![n].depth = depth, ![n].limit = limit, ![n].stash = NoLineage,
              ![n].st = IF MayDelegate(node[n].via, depth, limit) /\ empty
                        THEN "failed" ELSE "asking"]

\* The calls n may make: its tools within its mask, and its delegates.
Callable(n) ==
    LET r == node[n] IN
        {Call(n, "tool", NoAgent, {c}) : c \in Tools[r.agent] \cap r.caps}
        \cup {Call(n, "delegate", d, {}) :
                d \in {b \in Delegates[r.agent] : /\ MayDelegate(r.via, r.depth, r.limit)
                                                  /\ ReadPrivate \in r.caps}}

\* The model asks for one call or more.
Turn(n) ==
    /\ node[n].st = "asking" /\ node[n].turns < MaxTurns
    /\ \E k \in 1..MaxCalls : \E calls \in [Fresh(k) -> Callable(n)] :
          /\ Cardinality(Busy) + k <= TurnNodes[k]
          /\ Awaits(n, [node[n] EXCEPT !.st = "waiting", !.turns = @ + 1], calls)

\* The model answers, or the policy stops the run.
Answer(n) == node[n].st = "asking" /\ Becomes(n, "done")

\* Permits of _tool_semaphore in use: a delegate call has one until its run is over.
Holders == {n \in Live : node[n].via \in {"tool", "delegate"} /\ node[n].st # "queued"}

\* The call gets its permit.  A delegate call clones the sub-agent, clamps the clone,
\* leaves the lineage on it and runs it.
Begin(n) ==
    LET r == node[n] p == node[n].up IN
        /\ r.st = "queued" /\ Cardinality(Holders) < Permits
        /\ IF r.via = "tool" THEN Becomes(n, "running")
           ELSE IF ClampedEmpty(node[p].caps, r.agent) THEN Becomes(n, "failed")
           ELSE node' = [node EXCEPT ![n] = Run(p, "delegate", r.agent, Clamped(p, r.agent),
                                                Lineage(p, r.agent), CascadesOf(p))]

\* With a value or with an error, which is an outcome too.
ToolEnds(n) == node[n].st = "running" /\ Becomes(n, "done")

Escalating(n) == node[n].via # "sas" /\ node[n].agent \in Cascading
Over(n) == node[n].st = "waiting" /\ Children(n) \cap Live = {}

\* Every call of the turn is over, an error being an outcome too: the model is asked
\* again.
Collect(n) ==
    /\ Over(n) /\ ~Escalating(n)
    /\ Settles(n, [node[n] EXCEPT !.st = "asking"])

\* The next attempt: the agent itself without delegates, or the escalation agent with
\* a context of its own.  Without either there is nothing to return.
Attempt(n) ==
    LET r == node[n]
        waits == [r EXCEPT !.st = "waiting", !.stash = NoLineage]
    IN  /\ r.st = "attempting"
        /\ IF r.attempt = 0 /\ r.agent \in SasFirst
           THEN \E m \in Fresh(1) : Awaits(n, waits,
                   [x \in {m} |-> Normal(n, "sas", r.agent, r.caps, r.stash, r.cascades)])
           ELSE LET e == Escalation[r.agent] IN
                IF e = NoAgent THEN Becomes(n, "failed")
                ELSE \E m \in Fresh(1) : Awaits(n, waits,
                        [x \in {m} |-> Run(n, "escalation", e, Declared[e], NoLineage, r.cascades)])

\* A first attempt by the agent itself counts.
Attempts(r) == MaxAttempts[r.agent]

\* The attempt is over.  The verifier accepts it, or another one follows while there
\* are attempts left; an attempt that raised ends the cascade.
Judge(n) ==
    LET r == node[n]
        last == Escalation[r.agent] = NoAgent \/ r.attempt + 1 >= Attempts(r)
    IN  /\ Over(n) /\ Escalating(n)
        /\ IF \E m \in Children(n) : node[m].st = "failed"
           THEN Settles(n, [r EXCEPT !.st = "failed"])
           ELSE \/ Settles(n, [r EXCEPT !.st = "done"])
                \/ Settles(n, [r EXCEPT !.attempt = @ + 1,
                                        !.st = IF last THEN "done" ELSE "attempting"])

\* An exception ends the run: a denial, an interrupt, an error of the model, a
\* cancellation of the host's.  Its calls are cancelled and drained first.
Raise(n) ==
    /\ n \in Live /\ node[n].via # "tool" /\ node[n].st \notin {"queued", "draining"}
    /\ Becomes(n, "draining")

Cancel(n) ==
    /\ n \in Live /\ node[n].st # "draining"
    /\ node[n].up # 0 /\ node[node[n].up].st = "draining"
    /\ Becomes(n, IF node[n].st = "queued" THEN "failed" ELSE "draining")

\* Faulty variants: the exception leaves before what it cancelled has ended; it waits
\* for calls that have ended already.
DrainedUnawaited(n) == TRUE
DrainedAll(n) == Children(n) = {}
Drained(n) == Children(n) \cap Live = {}

Gone(n) ==
    /\ node[n].st = "draining" /\ Drained(n)
    /\ node' = [m \in Node |-> IF m = n THEN [node[n] EXCEPT !.st = "failed"]
                               ELSE IF m \in Children(n) \ Live THEN Free ELSE node[m]]

RunStep(n) ==
    \/ Opened(n) \/ Turn(n) \/ Answer(n) \/ ToolEnds(n)
    \/ Collect(n) \/ Attempt(n) \/ Judge(n) \/ Cancel(n) \/ Gone(n)

Next == Open \/ \E n \in Busy : Leave(n) \/ Begin(n) \/ RunStep(n) \/ Raise(n)

\* Models, tools and verifiers answer, and the event loop runs what is ready.
Goes == \E n \in Busy : Begin(n) \/ RunStep(n)
Fairness == WF_vars(Goes)

Spec == Init /\ [][Next]_vars
FairSpec == Spec /\ Fairness
-----------------------------------------------------------------------------
Lineages == {NoLineage} \cup [depth : Nat, limit : Nat]
NodeRecord ==
    [st : State, up : 0..MaxNodes, via : Via, agent : Agent \cup {NoAgent},
     need : SUBSET Cap, caps : SUBSET Cap, stash : Lineages, depth : Nat, limit : Nat,
     cascades : Nat, attempt : Nat, turns : 0..MaxTurns]

\* A node is free or a record of these fields; attempts are counted up to the limit.
TypeOK ==
    /\ node \in [Node -> {Free} \cup NodeRecord]
    /\ \A n \in Busy : node[n].agent \in Cascading => node[n].attempt <= MaxAttempts[node[n].agent]

\* n and the runs that wait for it, up to the first that was started as `stop` says:
\* what is in every set that has n and who waits for its members.
Above(n, stop) ==
    {m \in Busy : \A s \in SUBSET Busy :
        n \in s /\ (\A x \in s : node[x].via \in stop \/ node[x].up \in s) => m \in s}

PathOf(n) == Above(n, {"top"})

\* Those that belong to one grant: up to the nearest run whose lineage is its own,
\* which the host or an escalation started.
LineOf(n) == Above(n, {"top", "escalation"})

RootOf(n) == CHOOSE m \in LineOf(n) : node[m].via \in {"top", "escalation"}

\* Every run that is waited for exists and waits (or drains): no sub-run outlives the
\* run it works for, whatever fails in between.
ParentsOutlive ==
    \A n \in Live : node[n].up # 0 =>
        node[n].up \in Live /\ node[node[n].up].st \in {"waiting", "draining"}

\* A tool that runs is allowed by every run on whose behalf it runs, up to the run
\* that carries the grant (getting-started.md:160, within one lineage).
ToolsWithinGrant ==
    \A n \in Live : node[n].st = "running" =>
        \A m \in LineOf(n) \ {n} : node[n].need \subseteq Declared[node[m].agent]

\* The nesting of delegations below a run stays within the limit of that run's agent,
\* whatever limits the sub-agents declare, and through cascades in between.
DepthWithinLimit ==
    \A n \in Live :
        Cardinality({m \in LineOf(n) : node[m].via = "delegate"})
            <= MaxDepth[node[RootOf(n)].agent]

\* No path nests more cascades than the innermost one's max_cascade_depth, whether
\* they are entered by escalation or by delegation.
CascadesWithinLimit ==
    \A n \in Live : Escalating(n) /\ node[n].st \in {"attempting", "waiting"} =>
        Cardinality({m \in PathOf(n) : Escalating(m)}) <= MaxCascade[node[n].agent]

\* Neither recursion of agents is unbounded.
LimitsHold == DepthWithinLimit /\ CascadesWithinLimit

\* Every run the host starts comes back, however agents delegate and escalate to each
\* other, as long as there are more permits than delegate calls under way: nothing
\* recurses for ever, no cancelled call is waited for in vain.
\* (architecture.md:207: callers always get an AgentResult even on budget exhaustion.)
Served == {n \in Live : node[n].via = "top"}
RunsReturn == Served # {} ~> Served = {}

\* getting-started.md:160: a sub-agent cannot exceed the permissions its parent holds,
\* the sub-agents an escalation runs included.
ToolsWithinParents ==
    \A n \in Live : node[n].st = "running" =>
        \A m \in PathOf(n) \ {n} : node[n].need \subseteq Declared[node[m].agent]
=============================================================================
