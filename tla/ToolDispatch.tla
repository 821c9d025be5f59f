---------------------------- MODULE ToolDispatch ----------------------------
(***************************************************************************)
(* One run's tool turns: agent/dispatch.py and executors/standard.py.      *)
(*                                                                         *)
(* The model declares a set of tool calls per assistant turn.  The         *)
(* dispatcher runs them as asyncio tasks in two waves, the calls that      *)
(* cannot send first and the EXFILTRATION-capable ones after.  A task      *)
(* screens its call, copies the run's taint into a ToolContext, waits for  *)
(* a process-wide permit, and runs the executor's gates and the tool; what *)
(* it learns is merged back when it leaves.  An exception that is not a    *)
(* plain tool error cancels the siblings, waits for them, and ends the run.*)
(*                                                                         *)
(* An action is the code between two awaits of one task.                   *)
(***************************************************************************)
EXTENDS Naturals, FiniteSets

CONSTANTS
    Slot,         \* positions an assistant turn can fill with a tool_use block
    Tool,         \* names the model may emit
    NoTool,       \* an unfilled position
    Registered,   \* the names the ToolRegistry resolves
    Caps,         \* Caps[t]: the capability flags tool t declares
    OutputTrust,  \* OutputTrust[t]: @tool(output_trust=...), or NoOverride
    NoOverride,
    NeedsAuth,    \* tools that declare an auth_requirement
    Delegates,    \* the synthetic delegate_to_* tools
    SubRunTaint,  \* the taint sets a delegate's sub-run may end with
    AllowedCaps,  \* the agent's allowed_capabilities
    Permits,      \* VOUSSOIR_MAX_CONCURRENT_TOOLS
    MaxTurns      \* bound: assistant turns with tool calls

Capability == {"READ_PUBLIC", "READ_PRIVATE", "WRITE_PRIVATE", "EXFILTRATION"}
Trust == {"SYSTEM", "USER", "INTERNAL", "UNTRUSTED"}

ASSUME ToolAssumption ==
    /\ NoTool \notin Tool
    /\ NoOverride \notin Trust
    /\ Registered \subseteq Tool /\ NeedsAuth \subseteq Tool /\ Delegates \subseteq Tool
    /\ Caps \in [Tool -> SUBSET Capability]
    /\ OutputTrust \in [Tool -> Trust \cup {NoOverride}]
    /\ AllowedCaps \subseteq Capability
    /\ SubRunTaint \subseteq SUBSET Trust
ASSUME BoundAssumption == Permits \in Nat \ {0} /\ MaxTurns \in Nat /\ IsFiniteSet(Slot)

VARIABLES
    phase,      \* where the run is: see Phase
    turn,       \* assistant turns begun
    tool,       \* tool[s]: the tool the current turn calls in position s
    pc,         \* pc[s]: where that call's task is: see Pc
    snap,       \* snap[s]: tool_ctx.taint, the call's own copy
    sub,        \* sub[s]: taint of the sub-agent result the call carries
    taint,      \* ctx.taint
    audit,      \* this turn's calls whose decision is in ctx.authz_decisions
    ran,        \* this turn's calls whose tool body was entered
    free,       \* permits of _tool_semaphore nobody holds
    elsewhere,  \* permits held by other runs of the process
    entry       \* history: ctx.taint as the current turn began

vars == <<phase, turn, tool, pc, snap, sub, taint, audit, ran, free, elsewhere, entry>>
calls == <<tool, snap, sub, audit, ran>>
run == <<turn, entry>>

Phase == {"llm", "first", "exfil", "draining", "raised", "ended"}
Holding == {"authz", "creds", "running", "refresh", "rerun"}
Live == {"new", "queued", "output"} \cup Holding
Outcome == {"ok", "withheld", "refused", "error"}   \* a ToolCallOutcome was returned
Fatal == {"raised"}                                 \* the task ended with an exception
Pc == {"absent", "cancelled"} \cup Live \cup Outcome \cup Fatal
-----------------------------------------------------------------------------
(* The executor's pure decisions.                                          *)

\* _CAP_TO_TRUST_ON_OUTPUT is walked in declaration order: READ_PUBLIC wins.
TrustForOutput(t) ==
    IF OutputTrust[t] # NoOverride THEN OutputTrust[t]
    ELSE IF "READ_PUBLIC" \in Caps[t] THEN "UNTRUSTED"
    ELSE IF Caps[t] # {} THEN "INTERNAL"
    ELSE "SYSTEM"

IsExfiltration(t) == t \in Registered /\ "EXFILTRATION" \in Caps[t]

CapabilityMask(t) == Caps[t] \subseteq AllowedCaps

TaintGate(t, seen) == ~("EXFILTRATION" \in Caps[t] /\ "UNTRUSTED" \in seen)

Declared == {s \in Slot : tool[s] # NoTool}
ExfilWave == {s \in Declared : IsExfiltration(tool[s])}
FirstWave == Declared \ ExfilWave
WaveOf(ph) == IF ph = "first" THEN FirstWave ELSE ExfilWave

\* gather has an outcome of every task of the wave.
Returned(wave) == \A s \in wave : pc[s] \in Outcome
-----------------------------------------------------------------------------
Init ==
    /\ phase = "llm" /\ turn = 0
    /\ tool = [s \in Slot |-> NoTool]
    /\ pc = [s \in Slot |-> "absent"]
    /\ snap = [s \in Slot |-> {}] /\ sub = [s \in Slot |-> {}]
    /\ taint = {} /\ entry = {}
    /\ audit = {} /\ ran = {}
    /\ free = Permits /\ elsewhere = 0

(* The parent task: dispatch_tool_calls, _gather_wave, tool_turn_dispatch. *)

\* The wave the turn's tasks start in.
Opening == IF FirstWave # {} THEN FirstWave ELSE ExfilWave

\* The model's reply declares the calls f: dispatch_tool_calls splits them and
\* creates the tasks of the first non-empty wave.
Declare(f) ==
    /\ tool' = [s \in Slot |-> IF s \in DOMAIN f THEN f[s] ELSE NoTool]
    /\ phase' = IF FirstWave' # {} THEN "first" ELSE "exfil"
    /\ pc' = [s \in Slot |-> IF s \in Opening' THEN "new" ELSE "absent"]

BeginTurn ==
    /\ phase = "llm" /\ turn < MaxTurns
    /\ turn' = turn + 1 /\ entry' = taint
    /\ \E D \in (SUBSET Slot) \ {{}} : \E f \in [D -> Tool] : Declare(f)
    /\ snap' = [s \in Slot |-> {}] /\ sub' = [s \in Slot |-> {}]
    /\ audit' = {} /\ ran' = {}
    /\ UNCHANGED <<taint, free, elsewhere>>

FirstWaveDone == Returned(FirstWave)

\* gather returned every first-wave outcome: the EXFILTRATION wave starts.
OpenExfilWave ==
    /\ phase = "first" /\ FirstWaveDone /\ ExfilWave # {}
    /\ phase' = "exfil"
    /\ pc' = [s \in Slot |-> IF s \in ExfilWave THEN "new" ELSE pc[s]]
    /\ UNCHANGED <<calls, run, taint, free, elsewhere>>

WavesDone ==
    \/ phase = "first" /\ ExfilWave = {} /\ Returned(FirstWave)
    \/ phase = "exfil" /\ Returned(ExfilWave)

SubTaint == UNION {sub[s] : s \in Declared}

\* Every outcome is in and recorded: accumulate_outcomes folds the sub-agents'
\* taint into the run and the model is asked again.
Accumulate ==
    /\ WavesDone
    /\ taint' = taint \cup SubTaint
    /\ phase' = "llm"
    /\ UNCHANGED <<pc, calls, run, free, elsewhere>>

\* ctx.record_tool_use raised: the turn is lost with its outcomes.
RecordFails ==
    /\ WavesDone
    /\ phase' = "raised"
    /\ UNCHANGED <<pc, calls, run, taint, free, elsewhere>>

\* gather re-raises the first fatal exception; the finally block of _gather_wave
\* cancels the unfinished siblings and waits for them.
GatherRaises ==
    /\ phase \in {"first", "exfil"}
    /\ \E s \in WaveOf(phase) : pc[s] \in Fatal
    /\ phase' = "draining"
    /\ UNCHANGED <<pc, calls, run, taint, free, elsewhere>>

\* The caller of Agent.run cancels it: gather forwards the cancellation.
CancelRun ==
    /\ phase \in {"first", "exfil"}
    /\ phase' = "draining"
    /\ UNCHANGED <<pc, calls, run, taint, free, elsewhere>>

\* Faulty variant: the exception leaves before the siblings are drained.
DrainedUnawaited == TRUE
Drained == \A s \in Slot : pc[s] \notin Live

Raise ==
    /\ phase = "draining" /\ Drained
    /\ phase' = "raised"
    /\ UNCHANGED <<pc, calls, run, taint, free, elsewhere>>

\* The model answers without tool calls, or the policy stops the run.
Stop ==
    /\ phase = "llm"
    /\ phase' = "ended"
    /\ UNCHANGED <<pc, calls, run, taint, free, elsewhere>>
-----------------------------------------------------------------------------
(* A call's task: _dispatch_one and StandardExecutor.invoke.               *)

Dispatching == phase \in {"first", "exfil"}
\* A tool or a guardrail may return although its task was asked to stop.
InTurn == Dispatching \/ phase = "draining"
Moves(s, from, to) == pc[s] = from /\ pc' = [pc EXCEPT ![s] = to]

\* Resolving the name, screening the call, validating its arguments.  An unknown
\* name or a failing guardrail raises; a blocked call never reaches the executor.
Refuse(s) ==
    /\ Dispatching
    /\ \/ tool[s] \in Registered /\ Moves(s, "new", "refused")
       \/ Moves(s, "new", "raised")
    /\ UNCHANGED <<phase, calls, run, taint, free, elsewhere>>

\* Faulty variant: the calls' contexts are built before the first wave runs.
SnapshotAtTurnStart == entry
Snapshot == taint

\* The call is admitted: ToolContext copies ctx.taint, then waits for a permit.
Admit(s) ==
    /\ Dispatching
    /\ tool[s] \in Registered
    /\ Moves(s, "new", "queued")
    /\ snap' = [snap EXCEPT ![s] = Snapshot]
    /\ UNCHANGED <<phase, tool, sub, audit, ran, run, taint, free, elsewhere>>

Acquire(s) ==
    /\ Dispatching
    /\ free > 0
    /\ Moves(s, "queued", "authz")
    /\ free' = free - 1
    /\ UNCHANGED <<phase, calls, run, taint, elsewhere>>

\* Faulty variants: the call's own tag is forgotten; the log is merged only when the
\* first attempt succeeds; a permit is not given back, or given back twice.
MergedStale(s, gained) == taint \cup snap[s]
AuditedFirstTry(s, decided) == IF pc[s] = "running" THEN audit \cup {s} ELSE audit
ReleaseForgotten == free
ReleasedTwice == free + 2
Merged(s, gained) == taint \cup snap[s] \cup gained
Audited(s, decided) == IF decided THEN audit \cup {s} ELSE audit
Released == free + 1

\* Leaving the permit's block, whatever happened in it: release, then the finally
\* block merges tool_ctx.taint and the authorization record into the run.
Leave(s, to, gained, decided) ==
    /\ pc[s] \in Holding
    /\ pc' = [pc EXCEPT ![s] = to]
    /\ free' = Released
    /\ taint' = Merged(s, gained)
    /\ audit' = Audited(s, decided)
    /\ UNCHANGED <<phase, tool, snap, run, elsewhere>>

\* The authorizer answers.  A denial, the capability mask and the taint gate raise
\* PolicyViolationError; the gate reads the call's copy of the taint.
Authorize(s) ==
    /\ Dispatching /\ pc[s] = "authz"
    /\ \/ /\ CapabilityMask(tool[s]) /\ TaintGate(tool[s], snap[s])
          /\ IF tool[s] \in NeedsAuth
             THEN Moves(s, "authz", "creds") /\ UNCHANGED ran
             ELSE Moves(s, "authz", "running") /\ ran' = ran \cup {s}
          /\ UNCHANGED <<phase, tool, snap, sub, audit, run, taint, free, elsewhere>>
       \/ Leave(s, "raised", {}, TRUE) /\ UNCHANGED <<sub, ran>>
       \/ Leave(s, "error", {}, FALSE) /\ UNCHANGED <<sub, ran>>  \* the authorizer failed

\* broker.resolve: a credential, or an error the model reads as TOOL_ERROR.
ResolveCredential(s) ==
    /\ Dispatching /\ pc[s] = "creds"
    /\ \/ /\ Moves(s, "creds", "running")
          /\ ran' = ran \cup {s}
          /\ UNCHANGED <<phase, tool, snap, sub, audit, run, taint, free, elsewhere>>
       \/ Leave(s, "error", {}, TRUE) /\ UNCHANGED <<sub, ran>>

Invoking(s) == pc[s] \in {"running", "rerun"}

\* The tool returns: its trust tag joins the call's taint.  A delegate's sub-run
\* leaves its own taint in the sub-result, or none when it was refused.
ToolReturns(s) ==
    /\ InTurn /\ Invoking(s)
    /\ IF tool[s] \in Delegates
       THEN \E T \in SubRunTaint \cup {{}} : sub' = [sub EXCEPT ![s] = T]
       ELSE UNCHANGED sub
    /\ Leave(s, "output", {TrustForOutput(tool[s])}, TRUE)
    /\ UNCHANGED ran

\* The tool raises: an ordinary exception becomes the outcome, a control-flow one
\* (an interrupt, a policy error) leaves the task.
ToolRaises(s) ==
    /\ InTurn /\ Invoking(s)
    /\ \E to \in {"error", "raised"} : Leave(s, to, {}, TRUE)
    /\ UNCHANGED <<sub, ran>>

\* AuthenticationFailedError on the first attempt of a tool that has credentials.
AskRefresh(s) ==
    /\ Dispatching /\ tool[s] \in NeedsAuth
    /\ Moves(s, "running", "refresh")
    /\ UNCHANGED <<phase, calls, run, taint, free, elsewhere>>

\* broker.refresh: the tool is tried once more, or the call fails.
Refresh(s) ==
    /\ Dispatching
    /\ \/ /\ Moves(s, "refresh", "rerun")
          /\ UNCHANGED <<phase, calls, run, taint, free, elsewhere>>
       \/ pc[s] = "refresh" /\ Leave(s, "error", {}, TRUE) /\ UNCHANGED <<sub, ran>>

\* Output screening: the result as it is (or rewritten), withheld, or a failure.
ScreenOutput(s) ==
    /\ InTurn
    /\ \E to \in {"ok", "withheld", "raised"} : Moves(s, "output", to)
    /\ UNCHANGED <<phase, calls, run, taint, free, elsewhere>>

\* Cancellation is delivered at the await the task is suspended in.
Cancelled(s) ==
    /\ phase = "draining"
    /\ \/ /\ pc[s] \in {"new", "output"}
          /\ pc' = [pc EXCEPT ![s] = "cancelled"]
          /\ UNCHANGED <<phase, calls, run, taint, free, elsewhere>>
       \/ /\ pc[s] = "queued"
          /\ pc' = [pc EXCEPT ![s] = "cancelled"]
          /\ taint' = Merged(s, {})
          /\ UNCHANGED <<phase, calls, run, free, elsewhere>>
       \/ /\ Leave(s, "cancelled", {}, pc[s] # "authz")
          /\ UNCHANGED <<sub, ran>>

CallStep(s) ==
    \/ Refuse(s) \/ Admit(s) \/ Authorize(s) \/ ResolveCredential(s)
    \/ ToolReturns(s) \/ ToolRaises(s) \/ AskRefresh(s) \/ Refresh(s)
    \/ ScreenOutput(s) \/ Cancelled(s)
-----------------------------------------------------------------------------
(* The other runs of the process share the semaphore.                      *)
OthersTake ==
    /\ free > 0 /\ free' = free - 1 /\ elsewhere' = elsewhere + 1
    /\ UNCHANGED <<phase, pc, calls, run, taint>>

OthersGive ==
    /\ elsewhere > 0 /\ free' = free + 1 /\ elsewhere' = elsewhere - 1
    /\ UNCHANGED <<phase, pc, calls, run, taint>>

ParentStep == OpenExfilWave \/ Accumulate \/ RecordFails \/ GatherRaises \/ Raise

Next ==
    \/ BeginTurn \/ ParentStep \/ CancelRun \/ Stop
    \/ \E s \in Slot : Acquire(s) \/ CallStep(s)
    \/ OthersTake \/ OthersGive

\* Tools, guardrails, authorizers and brokers answer; the loop runs every ready
\* task; asyncio.Semaphore wakes its waiters in arrival order.
Fairness ==
    /\ WF_vars(ParentStep)
    /\ WF_vars(OthersGive)
    /\ \A s \in Slot : WF_vars(CallStep(s)) /\ SF_vars(Acquire(s))

Spec == Init /\ [][Next]_vars
FairSpec == Spec /\ Fairness
-----------------------------------------------------------------------------
TypeOK ==
    /\ phase \in Phase /\ turn \in 0..MaxTurns
    /\ tool \in [Slot -> Tool \cup {NoTool}]
    /\ pc \in [Slot -> Pc]
    /\ snap \in [Slot -> SUBSET Trust] /\ sub \in [Slot -> SUBSET Trust]
    /\ taint \subseteq Trust /\ entry \subseteq Trust
    /\ audit \subseteq Slot /\ ran \subseteq Slot
    /\ free \in 0..Permits /\ elsewhere \in 0..Permits

\* The call's tool returned a value, so its trust tag exists.
Produced(s) == pc[s] \in {"output", "ok", "withheld"}

\* A tool that can send is entered only if nothing untrusted reached the run before
\* its turn, and no call of its turn's first wave returned untrusted content: two
\* calls declared together cannot read and send (dispatch.py, the two waves).
NoSendAfterFetch ==
    \A s \in ran : "EXFILTRATION" \in Caps[tool[s]] =>
        /\ "UNTRUSTED" \notin entry
        /\ \A r \in FirstWave : Produced(r) => TrustForOutput(tool[r]) # "UNTRUSTED"

\* A task of the EXFILTRATION wave exists only after every first-wave call has
\* returned an outcome: a denial or interrupt in wave 1 means wave 2 never runs.
WaveBarrier ==
    \A s \in ExfilWave, r \in FirstWave : pc[s] # "absent" => pc[r] \in Outcome

\* The two waves together keep what was fetched from what can send.
SendsHeldBack == NoSendAfterFetch /\ WaveBarrier

\* The tag of every value a tool returned is in the run's taint, also when the
\* call was then withheld, or a sibling's denial or a cancellation ended the run.
\* After the turn the sub-agents' taint is there too.
TaintAccounted ==
    /\ \A s \in Declared : Produced(s) => TrustForOutput(tool[s]) \in taint
    /\ phase = "llm" => SubTaint \subseteq taint

\* When a call that entered its tool is over, however it ended, its authorization
\* decision is in the run's audit log.
AuditComplete == \A s \in ran : pc[s] \notin Holding => s \in audit

\* When the turn is over, by its outcomes or by an exception, no task of it is left
\* running or holding a permit of the process-wide semaphore.
NoTaskOutlivesTurn ==
    phase \in {"llm", "raised", "ended"} =>
        /\ \A s \in Slot : pc[s] \notin Live
        /\ free + elsewhere = Permits

\* However a turn ends - denials, errors, an exception, a cancellation - nothing of it is
\* lost: no provenance, no audit record, no task, no permit.
NothingLost == TaintAccounted /\ AuditComplete /\ NoTaskOutlivesTurn

\* Seen from the run loop a turn is ToolTurn's: an outcome for every call or one
\* failure, outcomes never change, and nothing happens behind the loop's back.
Turn ==
    INSTANCE ToolTurn WITH
        Call <- Slot, Tag <- Trust,
        state <- CASE phase = "llm" -> "idle" [] phase = "raised" -> "failed"
                   [] phase = "ended" -> "over" [] OTHER -> "busy",
        asked <- Declared,
        open <- {s \in Slot : pc[s] \in Live},
        answered <- {s \in Slot : pc[s] \in Outcome}
ImplementsTurn == Turn!Spec

\* Taint is only ever added to: no step of a turn forgets provenance.
TaintGrows == [][taint \subseteq taint']_vars

\* Once its tasks exist, a turn ends: with outcomes or with an exception.
TurnEnds == (phase \in {"first", "exfil", "draining"}) ~> (phase \in {"llm", "raised"})

\* Comment at dispatch.py:426, as the EXFILTRATION wave opens: "ctx.taint now
\* carries every trust tag wave 1 produced", sub-agents' tags included.
FirstWaveTaintMerged ==
    phase = "exfil" => \A r \in FirstWave : Produced(r) => sub[r] \subseteq taint

\* docs/architecture.md:343: with UNTRUSTED in the run's taint no EXFILTRATION tool
\* may run.
NoSendWhileTainted ==
    [][\A s \in ran' \ ran : "EXFILTRATION" \in Caps[tool[s]] => "UNTRUSTED" \notin taint]_vars
=============================================================================
