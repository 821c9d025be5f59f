------------------------------ MODULE RunLoop ------------------------------
(***************************************************************************)
(* One run of an agent, from its first await to its last: Agent._run_normal*)
(* ("run") and Agent.stream over its simple path ("simple") and its        *)
(* tool-using path ("tools").  The tool turn itself is ToolDispatch; here  *)
(* it is one step that returns or raises.                                  *)
(*                                                                         *)
(* `at` names the await, or the yield, the run is suspended in.  Any of    *)
(* them may end with an exception: an error, a cancellation, or, at a      *)
(* yield, the consumer closing the generator.                              *)
(***************************************************************************)
EXTENDS Naturals

CONSTANTS
    Hooks,      \* number of middlewares, called in order
    MaxSteps,   \* policy.max_steps
    Budget,     \* policy.max_input_tokens (output tokens and cost are checked alike)
    MaxCost     \* bound: what one model call, or one turn's sub-agents, add to it

Mw == 1..Hooks
Costs == 0..MaxCost

ASSUME LoopAssumption ==
    /\ Hooks \in Nat /\ MaxSteps \in Nat /\ Budget \in Nat \ {0}
    /\ MaxCost \in Nat

VARIABLES
    mode,      \* which of the three bodies runs
    at,        \* where it is suspended: see At
    hook,      \* the middleware a hook fan-out is at
    step,      \* step_idx
    spent,     \* tokens_in
    convo,     \* messages: "asked" when it ends in tool calls without their results
    log,       \* what the session recorded last
    finish,    \* finish_reason
    answered,  \* history: the model gave a final answer
    screened,  \* history: the input guardrail blocked the run
    tried,     \* history: the run got to the part that reports its failures
    said,      \* stream: the last kind of event yielded
    dones,     \* stream: `done` events yielded
    after,     \* after[m]: after_run calls middleware m got
    error,     \* error[m]: on_error calls it got
    cut,       \* history: a cancellation hit the on_error fan-out
    ambient    \* whose context parent_ctx_var names

vars == <<mode, at, hook, step, spent, convo, log, finish, answered, screened, tried,
          said, dones, after, error, cut, ambient>>
told == <<after, error, cut>>
turn == <<step, spent, convo, answered>>
stream == <<said, dones>>

Preparing == {"user", "input", "before"}
Looping == {"check", "llm", "announce", "dispatch", "report", "after_step"}
Ending == {"output", "record", "done", "gate", "verdict", "after"}
Closed == {"returned", "raised"}
At == {"new", "chunks", "blocked", "failing"} \cup Preparing \cup Looping \cup Ending \cup Closed

Streaming == mode # "run"
Open == at \notin {"new", "failing"} \cup Closed
-----------------------------------------------------------------------------
Init ==
    /\ mode \in {"run", "simple", "tools"}
    /\ at = "new" /\ hook = 1
    /\ step = 0 /\ spent = 0 /\ convo = "ready" /\ answered = FALSE
    /\ log = "empty" /\ finish = "completed" /\ screened = FALSE /\ tried = FALSE
    /\ said = "none" /\ dones = 0
    /\ after = [m \in Mw |-> 0] /\ error = [m \in Mw |-> 0] /\ cut = FALSE
    /\ ambient = "caller"

Goes(from, to) == at = from /\ at' = to

Yields(event) ==
    IF Streaming
    THEN said' = event /\ dones' = dones + (IF event = "done" THEN 1 ELSE 0)
    ELSE UNCHANGED stream

\* AgentContext.open: the context exists; a stream publishes it at once.
Enter ==
    /\ Goes("new", "user")
    /\ ambient' = IF Streaming THEN "run" ELSE "caller"
    /\ tried' = Streaming
    /\ UNCHANGED <<mode, hook, log, finish, screened, turn, stream, told>>

RecordUser ==
    /\ Goes("user", "input")
    /\ log' = "user"
    /\ UNCHANGED <<mode, hook, finish, screened, tried, turn, stream, told, ambient>>

\* Faulty variant: the early return of a blocked stream leaves without its event.
BlockedSilently == "returned"
AfterBlock == IF Streaming THEN "blocked" ELSE "returned"

\* Input screening: a rewrite or an allowed input goes on, a blocked run is over
\* before its hooks; a stream yields `done` first.
ScreenInput ==
    \/ /\ Goes("input", "before") /\ hook' = 1
       /\ UNCHANGED <<mode, log, finish, screened, tried, turn, stream, told, ambient>>
    \/ /\ at = "input" /\ at' = AfterBlock
       /\ finish' = "blocked" /\ screened' = TRUE
       /\ IF at' = "blocked" THEN Yields("done") ELSE UNCHANGED stream
       /\ UNCHANGED <<mode, hook, log, tried, turn, told, ambient>>

\* before_run of each middleware, then the registry, the messages and the loop.
BeforeRun ==
    \/ /\ at = "before" /\ hook <= Hooks
       /\ hook' = hook + 1
       /\ UNCHANGED <<mode, at, log, finish, screened, tried, turn, stream, told, ambient>>
    \/ /\ hook > Hooks
       /\ Goes("before", IF mode = "simple" THEN "chunks" ELSE "check")
       /\ ambient' = "run" /\ tried' = TRUE
       /\ UNCHANGED <<mode, hook, log, finish, screened, turn, stream, told>>

\* The body is over: only `run` resets its context variables this early.
LeaveLoop == ambient' = IF Streaming THEN ambient ELSE "caller"

\* llm.stream: a chunk is yielded as it comes, the joined text is the answer.
StreamChunks ==
    /\ at = "chunks"
    /\ \/ /\ Yields("token")
          /\ UNCHANGED <<mode, at, hook, log, finish, screened, tried, turn, told, ambient>>
       \/ /\ at' = "output" /\ answered' = TRUE /\ LeaveLoop
          /\ \E c \in Costs : spent' = spent + c
          /\ UNCHANGED <<mode, hook, step, convo, log, finish, screened, tried, stream, told>>

\* Faulty variants: `>` for `>=`; the steps left to the loop's range.
ViolationOffByOne(late) ==
    IF step >= MaxSteps THEN "max_steps"
    ELSE IF late THEN "max_duration"
    ELSE IF spent > Budget THEN "max_tokens"
    ELSE "none"
ViolationNoSteps(late) ==
    IF late THEN "max_duration" ELSE IF spent >= Budget THEN "max_tokens" ELSE "none"

\* AgentPolicy._violation, in its order; `late`: the clock is past max_duration_s.
Violation(late) ==
    IF step >= MaxSteps THEN "max_steps"
    ELSE IF late THEN "max_duration"
    ELSE IF spent >= Budget THEN "max_tokens"
    ELSE "none"

\* Faulty variant: the last iteration, which only checks, is missing.
LoopRangeShort == MaxSteps
LoopRange == MaxSteps + 1

\* The head of the for loop: policy.check before every model call.
Check ==
    /\ at = "check"
    /\ \E late \in BOOLEAN :
          IF step < LoopRange /\ Violation(late) = "none"
          THEN at' = "llm" /\ UNCHANGED <<finish, ambient>>
          ELSE /\ at' = "output" /\ LeaveLoop
               /\ finish' = IF step < LoopRange THEN Violation(late) ELSE finish
    /\ UNCHANGED <<mode, hook, log, screened, tried, turn, stream, told>>

\* tool_turn_prepare: a final answer, or tool calls appended to the messages; a
\* stream announces them, one event at a time, before they run.
AskModel ==
    /\ at = "llm"
    /\ \E c \in Costs : spent' = spent + c
    /\ \/ /\ at' = "output" /\ answered' = TRUE /\ LeaveLoop
          /\ Yields("token") /\ UNCHANGED convo
       \/ /\ at' = IF Streaming THEN "announce" ELSE "dispatch"
          /\ convo' = "asked" /\ Yields("started")
          /\ UNCHANGED <<answered, ambient>>
    /\ UNCHANGED <<mode, hook, step, log, finish, screened, tried, told>>

Announced ==
    /\ Goes("announce", "dispatch")
    /\ UNCHANGED <<mode, hook, log, finish, screened, tried, turn, stream, told, ambient>>

\* Faulty variant: the tool results are not appended to the messages.
ResultsDropped == convo
ResultsAppended == "ready"

\* tool_turn_dispatch: outcomes recorded in the session, sub-agents' tokens added.
Dispatched ==
    /\ Goes("dispatch", IF Streaming THEN "report" ELSE "after_step")
    /\ \E c \in Costs : spent' = spent + c
    /\ convo' = ResultsAppended /\ log' = "tool"
    /\ Yields("finished")
    /\ UNCHANGED <<mode, hook, step, answered, finish, screened, tried, told, ambient>>

Reported ==
    /\ Goes("report", "after_step")
    /\ UNCHANGED <<mode, hook, log, finish, screened, tried, turn, stream, told, ambient>>

\* Faulty variant: a `while True` loop that counts nothing.
StepUncounted == step
StepCounted == step + 1

AfterStep ==
    /\ Goes("after_step", "check")
    /\ step' = StepCounted
    /\ UNCHANGED <<mode, hook, log, spent, convo, answered, finish, screened, tried, stream, told, ambient>>

\* Output screening: the text may be replaced; only a stream says so in finish_reason.
ScreenOutput ==
    /\ Goes("output", "record")
    /\ \E blocked \in BOOLEAN :
          finish' = IF blocked /\ Streaming THEN "blocked" ELSE finish
    /\ UNCHANGED <<mode, hook, log, screened, tried, turn, stream, told, ambient>>

\* Faulty variant: `done` is yielded before the answer is in the session.
LoggedLate == IF Streaming THEN log ELSE "assistant"
Logged == "assistant"

\* The answer is recorded; `run` has its result, a stream yields `done`.
RecordAnswer ==
    /\ Goes("record", IF Streaming THEN "done" ELSE "after")
    /\ log' = Logged
    /\ hook' = 1 /\ Yields("done")
    /\ UNCHANGED <<mode, finish, screened, tried, turn, told, ambient>>

\* After `done`: the single-pass cascade gate, if there is one and the run
\* completed, yields its verdict; then the after_run fan-out.
AfterDone ==
    /\ at = "done" /\ \/ at' = "after"
                      \/ finish = "completed" /\ at' = "gate"
    /\ UNCHANGED <<mode, hook, log, finish, screened, tried, turn, stream, told, ambient>>

Gate ==
    \/ /\ Goes("gate", "verdict") /\ Yields("gate")
       /\ UNCHANGED <<mode, hook, log, finish, screened, tried, turn, told, ambient>>
    \/ /\ Goes("verdict", "after")
       /\ UNCHANGED <<mode, hook, log, finish, screened, tried, turn, stream, told, ambient>>

\* Faulty variants: the finally block forgets the variable; a failing hook stops the
\* fan-out.
NotRestored == ambient
Restored == "caller"
FanOutStops(i) == {Hooks + 1, i + 1}
NextHook(i) == {i + 1}

\* _safe_hook_fanout("after_run"): a hook that raises does not stop the others.
AfterRun ==
    \/ /\ at = "after" /\ hook <= Hooks
       /\ after' = [after EXCEPT ![hook] = @ + 1]
       /\ hook' \in NextHook(hook)
       /\ UNCHANGED <<mode, at, log, finish, screened, tried, turn, stream, error, cut, ambient>>
    \/ /\ hook > Hooks /\ Goes("after", "returned")
       /\ ambient' = Restored
       /\ UNCHANGED <<mode, hook, log, finish, screened, tried, turn, stream, told>>

\* The consumer resumes a stream that was blocked at its input.
Resumed ==
    /\ Goes("blocked", "returned")
    /\ ambient' = Restored
    /\ UNCHANGED <<mode, hook, log, finish, screened, tried, turn, stream, told>>

\* The part of each body inside the try that reports to on_error.
Reporting == IF Streaming THEN Open ELSE at \in Looping \cup Ending

\* An exception at the await or yield the run is in; only a cancellation gets out of
\* the after_run fan-out, and the middleware it hits has been called.
Fail ==
    /\ Open /\ (at = "after" => hook <= Hooks)
    /\ IF Reporting THEN at' = "failing" /\ hook' = 1 /\ UNCHANGED ambient
       ELSE at' = "raised" /\ ambient' = Restored /\ UNCHANGED hook
    /\ after' = IF at = "after" THEN [after EXCEPT ![hook] = @ + 1] ELSE after
    /\ UNCHANGED <<mode, log, finish, screened, tried, turn, stream, error, cut>>

\* _safe_hook_fanout("on_error"), then the finally block; a cancellation in a hook
\* ends the fan-out early.
OnError ==
    \/ /\ at = "failing" /\ hook <= Hooks
       /\ error' = [error EXCEPT ![hook] = @ + 1]
       /\ hook' \in NextHook(hook)
       /\ UNCHANGED <<mode, at, log, finish, screened, tried, turn, stream, after, cut, ambient>>
    \/ /\ at = "failing" /\ hook <= Hooks
       /\ error' = [error EXCEPT ![hook] = @ + 1] /\ cut' = TRUE
       /\ at' = "raised" /\ ambient' = Restored
       /\ UNCHANGED <<mode, hook, log, finish, screened, tried, turn, stream, after>>
    \/ /\ hook > Hooks /\ Goes("failing", "raised")
       /\ ambient' = Restored
       /\ UNCHANGED <<mode, hook, log, finish, screened, tried, turn, stream, told>>

Proceed ==
    \/ Enter \/ RecordUser \/ ScreenInput \/ BeforeRun \/ StreamChunks \/ Check
    \/ AskModel \/ Announced \/ Dispatched \/ Reported \/ AfterStep \/ ScreenOutput
    \/ RecordAnswer \/ AfterDone \/ Gate \/ AfterRun \/ Resumed \/ OnError

Next == Proceed \/ Fail

\* Whatever the run awaits ends, and a consumer keeps asking a stream for events;
\* llm.stream is finite.
Fairness ==
    /\ WF_vars(Proceed)
    /\ WF_vars(at = "chunks" /\ StreamChunks /\ at' = "output")

Spec == Init /\ [][Next]_vars
FairSpec == Spec /\ Fairness
-----------------------------------------------------------------------------
Count == 0..1
TypeOK ==
    /\ mode \in {"run", "simple", "tools"} /\ at \in At
    /\ hook \in 1..Hooks + 1 /\ step \in 0..MaxSteps /\ spent \in Nat
    /\ convo \in {"ready", "asked"}
    /\ log \in {"empty", "user", "tool", "assistant"}
    /\ finish \in {"completed", "blocked", "max_steps", "max_duration", "max_tokens"}
    /\ answered \in BOOLEAN /\ screened \in BOOLEAN /\ tried \in BOOLEAN /\ cut \in BOOLEAN
    /\ said \in {"none", "token", "started", "finished", "done", "gate"}
    /\ dones \in Count /\ after \in [Mw -> Count] /\ error \in [Mw -> Count]
    /\ ambient \in {"caller", "run"}

\* A run that ends as "completed" was answered by the model: leaving the loop on a
\* budget, at the last iteration too, never passes for a completed run.
CompletedWasAnswered == at = "returned" /\ finish = "completed" => answered

\* The model is never asked while its last message holds tool calls without results,
\* and a turn that raised is never asked about again.
CallsAnswered == at = "llm" => convo = "ready"

\* The budgets are looked at between turns only, so a run may overshoot by what one
\* turn costs, model call and sub-agents together, and by no more.
OvershootOneTurn ==
    mode # "simple" => spent < Budget + 2 * MaxCost

\* What the middlewares hear of the end of a run, whatever their hooks raise.  A run
\* that returns its answer told each after_run once and none on_error.  One whose input
\* was blocked, or that failed before the part that reports (`run` up to its loop), told
\* nobody anything.  One that failed later told each on_error once, or, when a
\* cancellation hit that fan-out, those up to the one it hit.  after_run is heard only
\* of a recorded answer: a run cancelled during that fan-out is told both ways.
HooksToldOnce ==
    /\ at = "returned" /\ ~screened => \A m \in Mw : after[m] = 1 /\ error[m] = 0
    /\ (at = "returned" /\ screened) \/ (at = "raised" /\ ~tried)
          => \A m \in Mw : after[m] = 0 /\ error[m] = 0
    /\ at = "raised" /\ tried
          => \A m \in Mw : error[m] = IF cut /\ m > hook THEN 0 ELSE 1
    /\ \A m \in Mw :
          /\ after[m] \in Count /\ error[m] \in Count
          /\ after[m] = 1 => log = "assistant" /\ ~screened

\* `done` is yielded once in every stream that ends by itself, and only when the
\* session already holds the answer it carries (or the input was blocked).
DoneIsDurable ==
    /\ Streaming /\ at = "returned" => dones = 1
    /\ dones > 0 => log = "assistant" \/ screened

\* However a run ends its context is withdrawn; while its tools run it is there.
AmbientBalanced ==
    /\ at \in Closed => ambient = "caller"
    /\ at \in {"dispatch", "llm"} => ambient = "run"

\* What a run reports of its end and of its budgets is so.
BudgetsHonest == CompletedWasAnswered /\ OvershootOneTurn

\* The conversation is whole whenever somebody reads it: the model, or a caller that
\* saw `done`.
HistoryWhole == CallsAnswered /\ DoneIsDurable

\* On every way out of a run the middlewares heard what HooksToldOnce says, and the
\* context is withdrawn.
ExitsTidy == HooksToldOnce /\ AmbientBalanced

\* What is seen from outside follows RunProtocol: events in the order of a
\* conversation, nothing after `done` but the verdict, the answer settled before it is
\* announced, and no stream that ends without `done`.
Protocol ==
    INSTANCE RunProtocol WITH
        streaming <- Streaming, last <- said,
        settled <- (log = "assistant" \/ screened),
        state <- IF at \in Closed THEN at ELSE "open"
FollowsProtocol == Protocol!Spec

\* Every run ends, by itself or by an exception.
RunEnds == at # "new" ~> at \in Closed
=============================================================================
