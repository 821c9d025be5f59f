--------------------------- MODULE RunLoopProofs ---------------------------
(***************************************************************************)
(* Proofs about the run loop and about what is judged of the runs it does. *)
(*                                                                         *)
(* RunLoop, for any number of middlewares, any step limit and any budget:  *)
(* Inv says of each place a run can be suspended in what has happened so   *)
(* far: what was yielded (SaidInv), what is recorded (LogInv), whom the    *)
(* hooks told (ToldInv), what was spent (SpentInv).                        *)
(*                                                                         *)
(* Judging, for any runs, cascades and guards, nested to any depth:        *)
(* JudgingInv says of each run what fits its place by itself (Local), that *)
(* the runs of a task are a chain in which only the deepest works (NestInv,*)
(* Ranked), that the active sink of a task follows the innermost attempt   *)
(* that is being judged (SinkInv), and that what an attempt owes is in its *)
(* buffer, then in its result (DueInv).                                    *)
(***************************************************************************)
EXTENDS RunLoop, Judging, WellFoundedInduction, TLAPS

Types ==
    /\ mode \in {"run", "simple", "tools"} /\ at \in At
    /\ hook \in 1..Hooks + 1 /\ step \in 0..MaxSteps /\ spent \in Nat
    /\ convo \in {"ready", "asked"}
    /\ log \in {"empty", "user", "tool", "assistant"}
    /\ finish \in {"completed", "blocked", "max_steps", "max_duration", "max_tokens"}
    /\ after \in [Mw -> Count] /\ error \in [Mw -> Count]
    /\ ambient \in {"caller", "run"}

Flags == answered \in BOOLEAN /\ screened \in BOOLEAN /\ tried \in BOOLEAN /\ cut \in BOOLEAN

\* The text and the calls of a reply come between turns.
Early == {"new", "chunks", "check", "llm", "after_step", "output", "record"} \cup Preparing
Late == {"done", "gate", "verdict", "after"}

SaidInv ==
    /\ said \in {"none", "token", "started", "finished", "done", "gate"}
    /\ dones = IF said \in {"done", "gate"} THEN 1 ELSE 0
    /\ ~Streaming => said = "none" /\ at \notin {"chunks", "blocked", "announce", "report", "done", "gate", "verdict"}
    /\ at = "chunks" => mode = "simple"
    /\ at \in Early => said \in {"none", "token", "finished"}
    /\ Streaming =>
          /\ at \in {"announce", "dispatch"} => said = "started"
          /\ at = "report" => said = "finished"
          /\ at \in {"blocked", "done", "gate"} => said = "done"
          /\ at \in {"verdict", "after", "returned"} => said \in {"done", "gate"}

\* The outcome is fixed exactly from the record, or the refusal, on.
LogInv ==
    /\ at \in Early \cup Looping => log # "assistant" /\ ~screened
    /\ at \in Late => log = "assistant" /\ ~screened
    /\ at = "blocked" => screened
    /\ at \in {"blocked", "returned"} \/ said \in {"done", "gate"} => log = "assistant" \/ screened

\* A model is asked only with its calls answered, and only below the step limit.
TurnInv ==
    /\ at \in {"new", "check", "llm", "report", "after_step"} \cup Preparing => convo = "ready"
    /\ at \in Looping \ {"check"} => step < MaxSteps
    /\ at = "blocked" => finish = "blocked"
    /\ at \in Ending \cup {"returned"} /\ finish = "completed" => answered

SpentInv ==
    mode # "simple" =>
        /\ at \in {"new", "llm"} \cup Preparing => spent < Budget
        /\ at \in {"announce", "dispatch"} => spent < Budget + MaxCost
        /\ spent < Budget + 2 * MaxCost

ToldInv ==
    /\ at = "new" => ~tried
    /\ Open => (tried <=> Reporting)
    /\ at \in {"done", "gate", "verdict"} => hook = 1
    /\ at \notin {"after", "failing"} \cup Closed => \A m \in Mw : after[m] = 0
    /\ at \notin {"failing", "raised"} => \A m \in Mw : error[m] = 0
    /\ at = "after" => \A m \in Mw : after[m] = IF m < hook THEN 1 ELSE 0
    /\ at = "failing" => \A m \in Mw : error[m] = IF m < hook THEN 1 ELSE 0
    /\ at = "returned" => \A m \in Mw : after[m] = IF screened THEN 0 ELSE 1
    /\ at = "failing" => tried
    /\ cut => at = "raised" /\ tried
    /\ at = "raised" => \A m \in Mw : error[m] = IF ~tried \/ (cut /\ m > hook) THEN 0 ELSE 1
    /\ at = "raised" /\ ~tried => \A m \in Mw : after[m] = 0
    /\ \A m \in Mw : after[m] = 1 => log = "assistant" /\ ~screened

AmbientInv ==
    /\ at = "new" \/ (at \in Preparing /\ ~Streaming) => ambient = "caller"
    /\ Open /\ Streaming => ambient = "run"
    /\ at \in Looping => ambient = "run"
    /\ at \in Closed => ambient = "caller"

Inv == Types /\ Flags /\ SaidInv /\ LogInv /\ TurnInv /\ SpentInv /\ ToldInv /\ AmbientInv

USE DEF Preparing, Looping, Ending, Closed, At, Streaming, Open, Reporting, Early, Late, Count
USE DEF told, turn, stream, Goes, Yields
-----------------------------------------------------------------------------
LEMMA InitInv == Init => Inv
<1> SUFFICES ASSUME Init PROVE Inv
    OBVIOUS
<1>1. Types
    BY LoopAssumption DEF Init, Types
<1>5. Flags
    BY DEF Init, Flags
<1>2. SaidInv /\ LogInv /\ TurnInv /\ AmbientInv
    BY DEF Init, SaidInv, LogInv, TurnInv, AmbientInv
<1>3. SpentInv
    BY LoopAssumption DEF Init, SpentInv
<1>4. ToldInv
    BY DEF Init, ToldInv
<1> QED
    BY <1>1, <1>2, <1>3, <1>4, <1>5 DEF Inv

LEMMA FlagsStep == Inv /\ [Next]_vars => Flags'
BY Zenon DEF Inv, Flags, Next, Proceed, vars, Enter, RecordUser, ScreenInput, BeforeRun,
   StreamChunks, Check, AskModel, Announced, Dispatched, Reported, AfterStep, ScreenOutput,
   RecordAnswer, AfterDone, Gate, AfterRun, Resumed, Fail, OnError

\* Types through each step.
LEMMA TypesStep == Inv /\ [Next]_vars => Types'
<1> SUFFICES ASSUME Inv, [Next]_vars PROVE Types'
    OBVIOUS
<1> USE LoopAssumption DEF Inv, Types
<1>1. CASE Enter \/ RecordUser \/ ScreenInput \/ BeforeRun
    BY <1>1 DEF Enter, RecordUser, ScreenInput, BeforeRun, AfterBlock
<1>2. CASE StreamChunks
    BY <1>2 DEF StreamChunks, LeaveLoop, Costs
<1>3. CASE Check
    BY <1>3 DEF Check, Violation, LoopRange, LeaveLoop
<1>4. CASE AskModel \/ Announced \/ Dispatched \/ Reported
    BY <1>4 DEF AskModel, Announced, Dispatched, Reported, LeaveLoop, Costs, ResultsAppended
<1>5. CASE AfterStep
    BY <1>5 DEF AfterStep, StepCounted, TurnInv
<1>6. CASE ScreenOutput \/ RecordAnswer \/ AfterDone \/ Gate \/ Resumed
    BY <1>6 DEF ScreenOutput, RecordAnswer, AfterDone, Gate, Resumed, Logged, Restored
<1>7. CASE AfterRun
  <2>1. CASE at = "after" /\ hook <= Hooks /\ after' = [after EXCEPT ![hook] = @ + 1]
    <3>1. hook \in Mw /\ after[hook] = 0
        BY <2>1 DEF ToldInv, Mw
    <3>2. after' \in [Mw -> Count]
        BY <2>1, <3>1
    <3> QED
        BY <1>7, <2>1, <3>2 DEF AfterRun, NextHook
  <2>2. CASE hook > Hooks /\ Goes("after", "returned")
      BY <1>7, <2>2 DEF AfterRun, Restored
  <2> QED
      BY <1>7, <2>1, <2>2 DEF AfterRun
<1>8. CASE Fail
  <2>1. after' \in [Mw -> Count]
    <3>1. CASE at = "after"
      <4>1. hook \in Mw /\ after[hook] = 0
          BY <1>8, <3>1 DEF Fail, ToldInv, Mw
      <4>2. after' = [after EXCEPT ![hook] = 1]
          BY <1>8, <3>1, <4>1 DEF Fail
      <4> QED
          BY <4>1, <4>2
    <3>2. CASE at # "after"
        BY <1>8, <3>2 DEF Fail
    <3> QED
        BY <3>1, <3>2
  <2> QED
      BY <1>8, <2>1 DEF Fail, Restored
<1>9. CASE OnError
  <2>1. CASE at = "failing" /\ hook <= Hooks /\ error' = [error EXCEPT ![hook] = @ + 1]
    <3>1. hook \in Mw /\ error[hook] = 0
        BY <2>1 DEF ToldInv, Mw
    <3>2. error' \in [Mw -> Count]
        BY <2>1, <3>1
    <3> QED
        BY <1>9, <2>1, <3>2 DEF OnError, NextHook, Restored
  <2>2. CASE hook > Hooks /\ Goes("failing", "raised")
      BY <1>9, <2>2 DEF OnError, Restored
  <2> QED
      BY <1>9, <2>1, <2>2 DEF OnError
<1>10. CASE UNCHANGED vars
    BY <1>10 DEF vars
<1> QED
    BY <1>1, <1>2, <1>3, <1>4, <1>5, <1>6, <1>7, <1>8, <1>9, <1>10 DEF Next, Proceed

\* What has been yielded.
LEMMA SaidStep == Inv /\ [Next]_vars => SaidInv'
<1> SUFFICES ASSUME Inv, [Next]_vars PROVE SaidInv'
    OBVIOUS
<1> USE DEF Inv, SaidInv
<1>0. mode' = mode /\ mode \in {"run", "simple", "tools"}
    BY DEF Types, Next, Proceed, vars, Enter, RecordUser, ScreenInput, BeforeRun,
       StreamChunks, Check, AskModel, Announced, Dispatched, Reported, AfterStep,
       ScreenOutput, RecordAnswer, AfterDone, Gate, AfterRun, Resumed, Fail, OnError
<1>1. CASE Enter \/ RecordUser \/ BeforeRun
    BY <1>0, <1>1 DEF Enter, RecordUser, BeforeRun
<1>2. CASE ScreenInput
    BY <1>0, <1>2 DEF ScreenInput, AfterBlock
<1>3. CASE StreamChunks \/ Check
    BY <1>0, <1>3 DEF StreamChunks, Check
<1>4. CASE AskModel
    BY <1>0, <1>4 DEF AskModel
<1>5. CASE Announced \/ Dispatched \/ Reported \/ AfterStep
    BY <1>0, <1>5 DEF Announced, Dispatched, Reported, AfterStep
<1>6. CASE ScreenOutput \/ RecordAnswer \/ AfterDone \/ Gate \/ Resumed
    BY <1>0, <1>6 DEF ScreenOutput, RecordAnswer, AfterDone, Gate, Resumed
<1>7. CASE AfterRun \/ Fail \/ OnError
    BY <1>0, <1>7 DEF AfterRun, Fail, OnError
<1>8. CASE UNCHANGED vars
    BY <1>8 DEF vars
<1> QED
    BY <1>1, <1>2, <1>3, <1>4, <1>5, <1>6, <1>7, <1>8 DEF Next, Proceed

\* What is on record.
LEMMA LogStep == Inv /\ [Next]_vars => LogInv'
<1> SUFFICES ASSUME Inv, [Next]_vars PROVE LogInv'
    OBVIOUS
<1> USE DEF Inv, LogInv
<1>1. CASE Enter \/ RecordUser \/ BeforeRun
    BY <1>1 DEF Enter, RecordUser, BeforeRun, SaidInv
<1>2. CASE ScreenInput
    BY <1>2 DEF ScreenInput, AfterBlock, SaidInv
<1>3. CASE StreamChunks \/ Check
    BY <1>3 DEF StreamChunks, Check, SaidInv
<1>4. CASE AskModel \/ Announced \/ Dispatched \/ Reported \/ AfterStep
    BY <1>4 DEF AskModel, Announced, Dispatched, Reported, AfterStep, SaidInv
<1>5. CASE ScreenOutput \/ RecordAnswer \/ AfterDone \/ Gate \/ Resumed
    BY <1>5 DEF ScreenOutput, RecordAnswer, AfterDone, Gate, Resumed, Logged, SaidInv
<1>6. CASE AfterRun \/ Fail \/ OnError
    BY <1>6 DEF AfterRun, Fail, OnError, SaidInv
<1>7. CASE UNCHANGED vars
    BY <1>7 DEF vars
<1> QED
    BY <1>1, <1>2, <1>3, <1>4, <1>5, <1>6, <1>7 DEF Next, Proceed

\* Calls, steps and the answer.
LEMMA TurnStep == Inv /\ [Next]_vars => TurnInv'
<1> SUFFICES ASSUME Inv, [Next]_vars PROVE TurnInv'
    OBVIOUS
<1> USE LoopAssumption DEF Inv, TurnInv
<1>1. CASE Enter \/ RecordUser \/ ScreenInput \/ BeforeRun
    BY <1>1 DEF Enter, RecordUser, ScreenInput, BeforeRun, AfterBlock
<1>2. CASE StreamChunks
    BY <1>2 DEF StreamChunks
<1>3. CASE Check
  <2>1. step < LoopRange
      BY <1>3 DEF LoopRange, Types
  <2> QED
      BY <1>3, <2>1 DEF Check, Violation, Types
<1>4. CASE AskModel
    BY <1>4 DEF AskModel
<1>5. CASE Announced \/ Dispatched \/ Reported \/ AfterStep
    BY <1>5 DEF Announced, Dispatched, Reported, AfterStep, ResultsAppended
<1>6. CASE ScreenOutput \/ RecordAnswer \/ AfterDone \/ Gate \/ Resumed
    BY <1>6 DEF ScreenOutput, RecordAnswer, AfterDone, Gate, Resumed, LogInv, SaidInv
<1>7. CASE AfterRun \/ Fail \/ OnError
    BY <1>7 DEF AfterRun, Fail, OnError
<1>8. CASE UNCHANGED vars
    BY <1>8 DEF vars
<1> QED
    BY <1>1, <1>2, <1>3, <1>4, <1>5, <1>6, <1>7, <1>8 DEF Next, Proceed

\* What a run has spent: below the budget before a model call, and from there on at
\* most the call and the turn that follows it more.
LEMMA SpentStep == Inv /\ [Next]_vars => SpentInv'
<1> SUFFICES ASSUME Inv, [Next]_vars PROVE SpentInv'
    OBVIOUS
<1> USE LoopAssumption DEF Inv, SpentInv, Types
<1>1. CASE Enter \/ RecordUser \/ ScreenInput \/ BeforeRun
    BY <1>1 DEF Enter, RecordUser, ScreenInput, BeforeRun, AfterBlock
<1>2. CASE StreamChunks
    BY <1>2 DEF StreamChunks, SaidInv
<1>3. CASE Check
    BY <1>3 DEF Check, Violation
<1>4. CASE AskModel
    BY <1>4 DEF AskModel, Costs
<1>5. CASE Dispatched
    BY <1>5 DEF Dispatched, Costs
<1>6. CASE Announced \/ Reported \/ AfterStep
    BY <1>6 DEF Announced, Reported, AfterStep
<1>7. CASE ScreenOutput \/ RecordAnswer \/ AfterDone \/ Gate \/ Resumed
    BY <1>7 DEF ScreenOutput, RecordAnswer, AfterDone, Gate, Resumed
<1>8. CASE AfterRun \/ Fail \/ OnError
    BY <1>8 DEF AfterRun, Fail, OnError
<1>9. CASE UNCHANGED vars
    BY <1>9 DEF vars
<1> QED
    BY <1>1, <1>2, <1>3, <1>4, <1>5, <1>6, <1>7, <1>8, <1>9 DEF Next, Proceed

\* Whom the hooks told.
LEMMA ToldStep == Inv /\ [Next]_vars => ToldInv'
<1> SUFFICES ASSUME Inv, [Next]_vars PROVE ToldInv'
    OBVIOUS
<1> USE DEF Inv, ToldInv
<1>1. CASE Enter
    BY <1>1 DEF Enter
<1>2. CASE RecordUser \/ BeforeRun
    BY <1>2 DEF RecordUser, BeforeRun, SaidInv, Types
<1>3. CASE ScreenInput
    BY <1>3 DEF ScreenInput, AfterBlock
<1>4. CASE StreamChunks \/ Check
    BY <1>4 DEF StreamChunks, Check, SaidInv
<1>5. CASE AskModel \/ Announced \/ Dispatched \/ Reported \/ AfterStep
    BY <1>5 DEF AskModel, Announced, Dispatched, Reported, AfterStep
<1>6. CASE ScreenOutput
    BY <1>6 DEF ScreenOutput
<1>7. CASE RecordAnswer \/ AfterDone \/ Gate
  <2>1. hook' = 1
      BY <1>7 DEF RecordAnswer, AfterDone, Gate
  <2>2. \A m \in Mw : ~(m < hook')
      BY <2>1 DEF Mw
  <2> QED
      BY <1>7, <2>1, <2>2 DEF RecordAnswer, AfterDone, Gate
<1>8. CASE AfterRun
  <2>1. CASE at = "after" /\ hook <= Hooks
    <3>1. hook \in Mw /\ hook \in Nat /\ ~(hook > Hooks)
        BY <2>1, LoopAssumption DEF Types, Mw
    <3>2. at' = "after" /\ hook' = hook + 1 /\ after' = [after EXCEPT ![hook] = @ + 1] /\ error' = error
        BY <1>8, <3>1 DEF AfterRun, NextHook
    <3>3. \A m \in Mw : after'[m] = IF m < hook' THEN 1 ELSE 0
        BY <2>1, <3>1, <3>2 DEF Types, Mw
    <3>4. tried' = tried /\ mode' = mode /\ screened' = screened /\ log' = log /\ cut' = cut
        BY <1>8 DEF AfterRun, vars
    <3>5. log = "assistant" /\ ~screened
        BY <2>1 DEF LogInv
    <3> QED
        BY <2>1, <3>2, <3>3, <3>4, <3>5
  <2>2. CASE hook > Hooks /\ Goes("after", "returned")
    <3>1. \A m \in Mw : after[m] = 1
        BY <2>2, LoopAssumption DEF Types, Mw
    <3>2. ~screened
        BY <2>2 DEF LogInv
    <3> QED
        BY <1>8, <2>2, <3>1, <3>2 DEF AfterRun
  <2> QED
      BY <1>8, <2>1, <2>2 DEF AfterRun
<1>9. CASE Resumed
    BY <1>9 DEF Resumed, LogInv
<1>10. CASE Fail
  <2>1. CASE Reporting
    <3>1. \A m \in Mw : ~(m < hook')
        BY <1>10, <2>1 DEF Fail, Mw
    <3>2. at' = "failing" /\ error' = error /\ cut' = cut /\ tried' = tried
        BY <1>10, <2>1 DEF Fail
    <3>3. \A m \in Mw : after'[m] = 1 => log' = "assistant" /\ ~screened'
      <4>1. CASE at = "after"
          BY <1>10, <4>1 DEF Fail, LogInv
      <4>2. CASE at # "after"
          BY <1>10, <4>2 DEF Fail
      <4> QED
          BY <4>1, <4>2
    <3>4. tried /\ ~cut /\ \A m \in Mw : error[m] = 0
        BY <1>10, <2>1 DEF Fail
    <3> QED
        BY <3>1, <3>2, <3>3, <3>4
  <2>2. CASE ~Reporting
    <3>1. at' = "raised" /\ error' = error /\ cut' = cut /\ tried' = tried /\ log' = log
          /\ screened' = screened /\ at # "after" /\ after' = after
        BY <1>10, <2>2 DEF Fail
    <3>2. at # "returned" /\ ~tried /\ \A m \in Mw : after[m] = 0 /\ error[m] = 0
        BY <1>10, <2>2, <3>1 DEF Fail
    <3> QED
        BY <3>1, <3>2
  <2> QED
      BY <2>1, <2>2
<1>11. CASE OnError
  <2>1. CASE at' = "failing"
    <3>1. hook \in Mw /\ hook' = hook + 1 /\ hook \in Nat /\ at = "failing"
        BY <1>11, <2>1, LoopAssumption DEF OnError, NextHook, Types, Mw
    <3>2. error' = [error EXCEPT ![hook] = @ + 1]
        BY <1>11, <2>1 DEF OnError
    <3>3. \A m \in Mw : error'[m] = IF m < hook' THEN 1 ELSE 0
        BY <3>1, <3>2 DEF Types, Mw
    <3> QED
        BY <1>11, <2>1, <3>1, <3>3 DEF OnError
  <2>2. CASE at = "failing" /\ hook <= Hooks /\ cut' = TRUE /\ at' = "raised"
             /\ error' = [error EXCEPT ![hook] = @ + 1] /\ hook' = hook /\ after' = after
    <3>1. hook \in Mw /\ hook \in Nat
        BY <2>2, LoopAssumption DEF Types, Mw
    <3>2. \A m \in Mw : error'[m] = IF m > hook THEN 0 ELSE 1
        BY <2>2, <3>1 DEF Types, Mw
    <3>3. tried' = tried /\ screened' = screened /\ log' = log /\ tried
        BY <1>11, <2>2 DEF OnError
    <3> QED
        BY <2>2, <3>2, <3>3
  <2>3. CASE hook > Hooks /\ Goes("failing", "raised") /\ UNCHANGED told
    <3>1. \A m \in Mw : error[m] = 1
        BY <2>3, LoopAssumption DEF Types, Mw
    <3>2. tried' = tried /\ screened' = screened /\ log' = log /\ ~cut /\ tried
        BY <1>11, <2>3 DEF OnError
    <3> QED
        BY <2>3, <3>1, <3>2
  <2> QED
      BY <1>11, <2>1, <2>2, <2>3 DEF OnError
<1>12. CASE UNCHANGED vars
    BY <1>12 DEF vars
<1> QED
    BY <1>1, <1>2, <1>3, <1>4, <1>5, <1>6, <1>7, <1>8, <1>9, <1>10, <1>11, <1>12 DEF Next, Proceed

\* Whose context is published.
LEMMA AmbientStep == Inv /\ [Next]_vars => AmbientInv'
<1> SUFFICES ASSUME Inv, [Next]_vars PROVE AmbientInv'
    OBVIOUS
<1> USE DEF Inv, AmbientInv
<1>1. CASE Enter \/ RecordUser \/ BeforeRun
    BY <1>1 DEF Enter, RecordUser, BeforeRun
<1>2. CASE ScreenInput
    BY <1>2 DEF ScreenInput, AfterBlock, ToldInv
<1>3. CASE StreamChunks \/ Check
    BY <1>3 DEF StreamChunks, Check, LeaveLoop, SaidInv
<1>4. CASE AskModel \/ Announced \/ Dispatched \/ Reported \/ AfterStep
    BY <1>4 DEF AskModel, Announced, Dispatched, Reported, AfterStep, LeaveLoop
<1>5. CASE ScreenOutput \/ RecordAnswer \/ AfterDone \/ Gate \/ Resumed
    BY <1>5 DEF ScreenOutput, RecordAnswer, AfterDone, Gate, Resumed, Restored
<1>6. CASE AfterRun \/ Fail \/ OnError
    BY <1>6 DEF AfterRun, Fail, OnError, Restored
<1>7. CASE UNCHANGED vars
    BY <1>7 DEF vars
<1> QED
    BY <1>1, <1>2, <1>3, <1>4, <1>5, <1>6, <1>7 DEF Next, Proceed

LEMMA NextInv == Inv /\ [Next]_vars => Inv'
BY TypesStep, FlagsStep, SaidStep, LogStep, TurnStep, SpentStep, ToldStep, AmbientStep DEF Inv
-----------------------------------------------------------------------------
\* Inv holds in every reachable state.
THEOREM Invariance == Spec => []Inv
BY InitInv, NextInv, PTL DEF Spec

\* Every variable keeps its type; the step counter never passes max_steps, no
\* middleware is told anything twice and `done` is yielded at most once.
THEOREM TypeCorrect == Spec => []TypeOK
<1>1. Inv => TypeOK
  <2> SUFFICES ASSUME Inv PROVE TypeOK
    OBVIOUS
  <2>1. answered \in BOOLEAN /\ screened \in BOOLEAN /\ tried \in BOOLEAN /\ cut \in BOOLEAN
      BY DEF Inv, Flags
  <2>2. Types /\ dones \in Count /\ said \in {"none", "token", "started", "finished", "done", "gate"}
      BY DEF Inv, SaidInv
  <2> HIDE DEF At, Count
  <2> QED
      BY <2>1, <2>2 DEF Types, TypeOK
<1> QED
    BY <1>1, Invariance, PTL

\* A run never reports "completed" unless the model answered: not when a budget ran
\* out, and not when the loop ran to the end of its range.
THEOREM HonestFinish == Spec => []CompletedWasAnswered
<1>1. Inv => CompletedWasAnswered
    BY DEF Inv, TurnInv, CompletedWasAnswered
<1> QED
    BY <1>1, Invariance, PTL

\* The model is never asked to continue a conversation with unanswered tool calls.
THEOREM NoDanglingCalls == Spec => []CallsAnswered
<1>1. Inv => CallsAnswered
    BY DEF Inv, TurnInv, CallsAnswered
<1> QED
    BY <1>1, Invariance, PTL

\* Budgets are overshot by less than the cost of one turn.
THEOREM BoundedOvershoot == Spec => []OvershootOneTurn
<1>1. Inv => OvershootOneTurn
    BY DEF Inv, SpentInv, OvershootOneTurn
<1> QED
    BY <1>1, Invariance, PTL

\* What the middlewares hear of the end of a run is settled by the way it ended, though
\* their hooks raise: after_run once each of a returned answer, on_error once each of a
\* failure inside the reporting part, nothing of a blocked input or an earlier failure.
THEOREM EachHookTold == Spec => []HooksToldOnce
<1>1. Inv => HooksToldOnce
  <2> SUFFICES ASSUME Inv PROVE HooksToldOnce
      OBVIOUS
  <2>1. \A m \in Mw : after[m] \in Count /\ error[m] \in Count
      BY DEF Inv, Types
  <2>2. ASSUME NEW m \in Mw, at \in Closed
        PROVE /\ at = "returned" /\ ~screened => after[m] = 1 /\ error[m] = 0
              /\ (at = "returned" /\ screened) \/ (at = "raised" /\ ~tried)
                    => after[m] = 0 /\ error[m] = 0
              /\ at = "raised" /\ tried => error[m] = IF cut /\ m > hook THEN 0 ELSE 1
      BY <2>2 DEF Inv, ToldInv
  <2>3. \A m \in Mw : after[m] = 1 => log = "assistant" /\ ~screened
      BY DEF Inv, ToldInv
  <2> QED
      BY <2>1, <2>2, <2>3 DEF HooksToldOnce
<1> QED
    BY <1>1, Invariance, PTL

\* What `done` announces is in the session already.
THEOREM DoneDurable == Spec => []DoneIsDurable
<1>1. Inv => DoneIsDurable
    BY DEF Inv, SaidInv, LogInv, DoneIsDurable
<1> QED
    BY <1>1, Invariance, PTL

\* The published context is the run's own while it works, and is withdrawn at its end.
THEOREM AmbientRestored == Spec => []AmbientBalanced
<1>1. Inv => AmbientBalanced
    BY DEF Inv, AmbientInv, AmbientBalanced
<1> QED
    BY <1>1, Invariance, PTL
-----------------------------------------------------------------------------
(* RunLoop implements RunProtocol.                                         *)
LEMMA StepRefined == Inv /\ Inv' /\ [Next]_vars => [Protocol!Next]_(Protocol!vars)
<1> SUFFICES ASSUME Inv, Inv', [Next]_vars PROVE [Protocol!Next]_(Protocol!vars)
    OBVIOUS
<1> USE DEF Inv, SaidInv, LogInv
<1>1. CASE Enter \/ RecordUser \/ BeforeRun \/ Check \/ Announced \/ Reported \/ AfterStep \/ ScreenOutput \/ AfterDone
    BY <1>1 DEF Enter, RecordUser, BeforeRun, Check, Announced, Reported, AfterStep,
       ScreenOutput, AfterDone, Protocol!vars
<1>2. CASE ScreenInput
    BY <1>2 DEF ScreenInput, AfterBlock, Protocol!vars, Protocol!Next, Protocol!Done,
       Protocol!Return, Protocol!Event, Protocol!BetweenTurns
<1>3. CASE StreamChunks
    BY <1>3 DEF StreamChunks, Protocol!vars, Protocol!Next, Protocol!Text, Protocol!Event,
       Protocol!BetweenTurns
<1>4. CASE AskModel
    BY <1>4 DEF AskModel, Protocol!vars, Protocol!Next, Protocol!Text, Protocol!Started,
       Protocol!Event, Protocol!BetweenTurns
<1>5. CASE Dispatched
    BY <1>5 DEF Dispatched, Protocol!vars, Protocol!Next, Protocol!Finished, Protocol!Event
<1>6. CASE RecordAnswer
    BY <1>6 DEF RecordAnswer, Logged, Protocol!Next, Protocol!Done, Protocol!Settle,
       Protocol!Event, Protocol!BetweenTurns
<1>7. CASE Gate
    BY <1>7 DEF Gate, Protocol!vars, Protocol!Next, Protocol!Verdict, Protocol!Event
<1>8. CASE AfterRun \/ Resumed
    BY <1>8 DEF AfterRun, Resumed, Protocol!vars, Protocol!Next, Protocol!Return
<1>9. CASE Fail \/ OnError
    BY <1>9 DEF Fail, OnError, Protocol!vars, Protocol!Next, Protocol!Raise
<1>10. CASE UNCHANGED vars
    BY <1>10 DEF vars, Protocol!vars
<1> QED
    BY <1>1, <1>2, <1>3, <1>4, <1>5, <1>6, <1>7, <1>8, <1>9, <1>10 DEF Next, Proceed

\* Callers and consumers see RunProtocol: whatever fails inside, events come in the
\* order of a conversation and no stream ends by itself without its `done`.
THEOREM ProtocolImplemented == Spec => FollowsProtocol
<1>1. Init => Protocol!Init
    BY DEF Init, Protocol!Init
<1> QED
    BY <1>1, StepRefined, Invariance, PTL DEF Spec, FollowsProtocol, Protocol!Spec

\* completed means answered, and budgets are overshot by one turn at most.
THEOREM HonestBudgets == Spec => []BudgetsHonest
<1>1. CompletedWasAnswered /\ OvershootOneTurn => BudgetsHonest
    BY DEF BudgetsHonest
<1> QED
    BY <1>1, HonestFinish, BoundedOvershoot, PTL

\* The conversation and the session log lack nothing that was announced.
THEOREM WholeHistory == Spec => []HistoryWhole
<1>1. CallsAnswered /\ DoneIsDurable => HistoryWhole
    BY DEF HistoryWhole
<1> QED
    BY <1>1, NoDanglingCalls, DoneDurable, PTL

\* On every way out the middlewares heard what HooksToldOnce says of it, and the ambient
\* context is restored.
THEOREM TidyExits == Spec => []ExitsTidy
<1>1. HooksToldOnce /\ AmbientBalanced => ExitsTidy
    BY DEF ExitsTidy
<1> QED
    BY <1>1, EachHookTold, AmbientRestored, PTL
-----------------------------------------------------------------------------
(* Judging.                                                                *)

HIDE DEF Preparing, Looping, Ending, Closed, At, Streaming, Open, Reporting, Early, Late, Count
HIDE DEF told, turn, stream, Goes, Yields

Verdicts == {"ALLOW", "BLOCK", "REWRITE", "AMBIGUOUS"}

\* What RunState says of a record, field by field.
Fields(y) ==
    /\ y.pc \in {"idle", "screening", "asking", "model", "tool", "attempted", "judging",
                 "consulting", "escalating"} \cup Over
    /\ y.up \in Run \cup {NoRun} /\ y.task \in Host \cup {NoRun} /\ y.attempt \in Nat \ {0}
    /\ y.calls \in Nat /\ y.asked \in Nat /\ y.stage \in Stage /\ y.text \in SUBSET Trait
    /\ y.came \in SUBSET Trait
    /\ y.next \in Nat \ {0} /\ y.again \in BOOLEAN /\ y.vouched \in SUBSET (Nat \ {0})
    /\ y.shown \in {"open", "handed", "withheld"}
    /\ y.audit \in {"none", "ALLOW", "BLOCK", "REWRITE"} /\ y.said \in SUBSET Trait
    /\ y.called \in BOOLEAN /\ y.finish \in {"completed", "blocked", "error"}
    /\ y.reply \in Reply \cup {"none"} /\ y.outer \in Run \cup {NoRun}
    /\ y.token \in Run \cup {NoRun} /\ y.due \in SUBSET Entry /\ y.counted \in SUBSET Entry
\* The fields that say where in its task a run is, and the costs.
Frame(x, y) ==
    /\ x.up = y.up /\ x.task = y.task /\ x.outer = y.outer /\ x.attempt = y.attempt
    /\ x.token = y.token /\ x.due = y.due /\ x.counted = y.counted

\* y is x but for the values of its fields.
Variant(y, x) == DOMAIN y = DOMAIN x /\ y = [f \in DOMAIN y |-> y[f]]

\* As it came, a text passes every guard of its stage; or a guard rewrites it, and those
\* before that one let it pass.
Passed(x) == x.came = x.text /\ \A i \in DOMAIN Chain[x.stage] : Lets(x, i, x.text)
Redacts(x) ==
    /\ x.came = x.text
    /\ \E i \in DOMAIN Chain[x.stage] :
         /\ Chain[x.stage][i] = "pii"
         /\ \A j \in DOMAIN Chain[x.stage] : j < i => Lets(x, j, x.text)

\* What holds of the record of a run r, whatever the others do.
Told(x) ==
    /\ x.shown # "open" => (x.shown = "withheld" <=> x.audit = "BLOCK")
    /\ x.pc \in {"screening", "asking"} => x.shown = "open"
Vetted(r, x) ==
    /\ x.pc = "judging" => Verifier[r] = "judge" \/ (Verifier[r] = "fallback" /\ "hedged" \in x.said)
    /\ x.pc = "consulting" => Verifier[r] = "agent"
    /\ x.pc = "returned" /\ x.finish # "error" =>
         /\ Verifier[r] \in {"heuristic", "fallback"} /\ "hedged" \notin x.said =>
              ("claims" \in x.said => x.called)
         /\ Verifier[r] = "heuristic" => "hedged" \notin x.said
         /\ Verifier[r] = "judge" \/ (Verifier[r] = "fallback" /\ "hedged" \in x.said) =>
              x.reply = "PASS"
Clean(x) ==
    /\ x.shown = "handed" => SeenTo(x)
    /\ x.pc \in {"screening", "asking"} =>
         /\ x.came = x.text
         /\ \A i \in DOMAIN Chain[x.stage] : i < x.next => Lets(x, i, x.text)
    /\ x.pc = "asking" =>
         x.next \in DOMAIN Chain[x.stage] /\ Verdict(Chain[x.stage][x.next], x.text) = "AMBIGUOUS"
Fit(r, x) ==
    /\ x \in RunState /\ x.attempt <= Attempts[r]
    /\ Told(x) /\ Vetted(r, x)
    /\ Clean(x)

\* Nothing but the text, its stage, and what is known of it bears on what the chain saw.
LEMMA KeptSeen ==
    ASSUME NEW x, NEW y, SeenTo(x), y.audit = x.audit, y.stage = x.stage, y.text = x.text,
           y.came = x.came, y.vouched = x.vouched
    PROVE  SeenTo(y)
<1>1. \A i, t : Lets(y, i, t) <=> Lets(x, i, t)
    BY DEF Lets
<1>2. SeenWhole(y) <=> SeenWhole(x)
    BY DEF SeenWhole
<1> QED BY <1>1, <1>2 DEF SeenTo

\* A text that is not being screened stays as clean as it is.
LEMMA KeptClean ==
    ASSUME NEW x, NEW y, Clean(x), y.pc \notin {"screening", "asking"}, y.shown = x.shown,
           y.audit = x.audit, y.stage = x.stage, y.text = x.text, y.came = x.came,
           y.vouched = x.vouched
    PROVE  Clean(y)
BY KeptSeen DEF Clean

LEMMA FieldsTyped == ASSUME NEW x \in RunState PROVE Fields(x)
BY DEF RunState, Fields

LEMMA Retyped ==
    ASSUME NEW x \in RunState, NEW y, Variant(y, x), Fields(y)
    PROVE  y \in RunState
BY DEF RunState, Fields, Variant

\* A new text.
LEMMA MeetsTyped ==
    ASSUME NEW x \in RunState, NEW s \in Stage, NEW t \in SUBSET Trait
    PROVE  Meets(x, s, t) \in RunState /\ Frame(Meets(x, s, t), x)
<1>1. Variant(Meets(x, s, t), x)
    BY DEF Meets, Variant
<1>2. Frame(Meets(x, s, t), x)
    BY DEF Meets, Frame, RunState
<1>3. Fields(Meets(x, s, t))
    BY FieldsTyped DEF Meets, Fields, RunState
<1> QED BY <1>1, <1>2, <1>3, Retyped

LEMMA ShownTyped ==
    ASSUME NEW x \in RunState, NEW a \in {"ALLOW", "REWRITE"}, NEW p \in {"model", "tool", "returned", "attempted"}
    PROVE  Shown(x, a, p) \in RunState /\ Frame(Shown(x, a, p), x)
<1>1. Variant(Shown(x, a, p), x)
    BY DEF Shown, Variant
<1>2. Frame(Shown(x, a, p), x)
    BY DEF Shown, Frame, RunState
<1>3. Fields(Shown(x, a, p))
    BY FieldsTyped DEF Shown, Fields, RunState, Over
<1> QED BY <1>1, <1>2, <1>3, Retyped

LEMMA RewrittenTyped ==
    ASSUME NEW x \in RunState, NEW t \in SUBSET Trait, NEW p \in {"model", "tool", "returned", "attempted"}
    PROVE  Rewritten(x, t, p) \in RunState /\ Frame(Rewritten(x, t, p), x)
<1>1. Variant(Rewritten(x, t, p), x)
    BY DEF Rewritten, Variant
<1>2. Frame(Rewritten(x, t, p), x)
    BY DEF Rewritten, Frame, RunState
<1>3. Fields(Rewritten(x, t, p))
    BY FieldsTyped DEF Rewritten, Fields, RunState, Over
<1> QED BY <1>1, <1>2, <1>3, Retyped

LEMMA WithheldTyped ==
    ASSUME NEW x \in RunState, NEW p \in {"model", "tool", "returned", "attempted"}
    PROVE  Withheld(x, p) \in RunState /\ Frame(Withheld(x, p), x)
<1>1. Variant(Withheld(x, p), x)
    BY DEF Withheld, Variant
<1>2. Frame(Withheld(x, p), x)
    BY DEF Withheld, Frame, RunState
<1>3. Fields(Withheld(x, p))
    BY FieldsTyped DEF Withheld, Fields, RunState, Over
<1> QED BY <1>1, <1>2, <1>3, Retyped

LEMMA VerdictTyped ==
    ASSUME NEW g, NEW t PROVE Verdict(g, t) \in Verdicts
BY DEF Verdict, Verdicts, Caps, Injection, Urls, Exfil, Pii, Schema, Heuristic

LEMMA WhenTyped ==
    ASSUME NEW c \in BOOLEAN, NEW s \in Seq(Guard)
    PROVE  When(c, s) \in Seq(Guard)
BY DEF When

LEMMA DefaultsTyped == ASSUME NEW s \in Stage PROVE Defaults(s) \in Seq(Guard)
<1> DEFINE urls == When(Strict /\ Allowlist, <<"urls">>)
<1>1. /\ <<"length", "injection">> \in Seq(Guard) /\ <<"injection", "length">> \in Seq(Guard)
      /\ <<"schema">> \in Seq(Guard) /\ <<"length">> \in Seq(Guard)
      /\ <<"exfil">> \in Seq(Guard) /\ <<"pii">> \in Seq(Guard) /\ <<"urls">> \in Seq(Guard)
    BY DEF Guard
<1>2. Standard \in BOOLEAN /\ Strict \in BOOLEAN /\ Allowlist \in BOOLEAN
    BY JudgingAssumption DEF Standard, Strict
<1>3. urls \in Seq(Guard)
    BY <1>1, <1>2, WhenTyped
<1>4. When(Standard, <<"length", "injection">>) \in Seq(Guard)
    BY <1>1, <1>2, WhenTyped
<1>5. When(Standard, <<"injection", "length">>) \in Seq(Guard)
    BY <1>1, <1>2, WhenTyped
<1>6. When(Standard, <<"length">>) \in Seq(Guard)
    BY <1>1, <1>2, WhenTyped
<1>7. OutputGuards \in Seq(Guard)
    <2>1. When(Standard, <<"exfil">>) \in Seq(Guard)
        BY <1>1, <1>2, WhenTyped
    <2>2. When(Strict, <<"pii">>) \in Seq(Guard)
        BY <1>1, <1>2, WhenTyped
    <2> QED BY <2>1, <2>2 DEF OutputGuards
<1> HIDE DEF urls
<1>8. CASE s = "input"
    BY <1>8, <1>3, <1>4 DEF Defaults, urls
<1>9. CASE s = "tool_call"
    BY <1>9, <1>1, <1>6 DEF Defaults
<1>10. CASE s = "tool_output"
    BY <1>10, <1>3, <1>5 DEF Defaults, urls
<1>11. CASE s = "output"
    BY <1>11, <1>7 DEF Defaults
<1> QED BY <1>8, <1>9, <1>10, <1>11 DEF Stage

LEMMA ChainTyped ==
    ASSUME NEW s \in Stage
    PROVE  Chain[s] \in Seq(Guard) /\ DOMAIN Chain[s] = 1..Len(Chain[s])
BY DefaultsTyped, JudgingAssumption DEF Chain

LEMMA ConcatElement ==
    ASSUME NEW p \in Seq(Guard), NEW q \in Seq(Guard), NEW i \in DOMAIN (p \o q)
    PROVE  /\ p \o q \in Seq(Guard) /\ i \in Nat \ {0} /\ i <= Len(p) + Len(q)
           /\ Len(p) \in Nat /\ Len(q) \in Nat
           /\ i <= Len(p) => i \in DOMAIN p /\ (p \o q)[i] = p[i]
           /\ i > Len(p) => i - Len(p) \in DOMAIN q /\ (p \o q)[i] = q[i - Len(p)]
OBVIOUS

LEMMA ConcatTyped ==
    ASSUME NEW p \in Seq(Guard), NEW q \in Seq(Guard)
    PROVE  p \o q \in Seq(Guard) /\ Len(p \o q) = Len(p) + Len(q) /\ p \o <<>> = p
OBVIOUS

NeverRedacts(q) == \A i \in DOMAIN q : q[i] # "pii"

LEMMA ConcatNeverRedacts ==
    ASSUME NEW p \in Seq(Guard), NEW q \in Seq(Guard), NeverRedacts(p), NeverRedacts(q)
    PROVE  p \o q \in Seq(Guard) /\ NeverRedacts(p \o q)
<1>1. ASSUME NEW i \in DOMAIN (p \o q) PROVE (p \o q)[i] # "pii"
    <2>1. i <= Len(p) \/ i > Len(p)
        BY ConcatElement
    <2> HIDE <1>1
    <2> QED BY <2>1, ConcatElement DEF NeverRedacts
<1> QED BY <1>1 DEF NeverRedacts

\* bind_default_guardrails binds a redaction behind its other guards.
LEMMA DefaultsRedactLast ==
    ASSUME NEW s \in Stage
    PROVE  \A k \in DOMAIN Defaults(s) : Defaults(s)[k] = "pii" => k = Len(Defaults(s))
<1>1. CASE s # "output"
    <2> DEFINE first == When(Standard, <<"length", "injection">>)
               back == When(Standard, <<"injection", "length">>)
               size == When(Standard, <<"length">>)
               urls == When(Strict /\ Allowlist, <<"urls">>)
    <2>1. /\ first \in Seq(Guard) /\ NeverRedacts(first)
          /\ back \in Seq(Guard) /\ NeverRedacts(back)
          /\ size \in Seq(Guard) /\ NeverRedacts(size)
          /\ urls \in Seq(Guard) /\ NeverRedacts(urls)
          /\ <<"schema">> \in Seq(Guard) /\ NeverRedacts(<<"schema">>)
        <3>1. /\ <<"length", "injection">> \in Seq(Guard) /\ NeverRedacts(<<"length", "injection">>)
              /\ <<"injection", "length">> \in Seq(Guard) /\ NeverRedacts(<<"injection", "length">>)
              /\ <<"length">> \in Seq(Guard) /\ NeverRedacts(<<"length">>)
              /\ <<"urls">> \in Seq(Guard) /\ NeverRedacts(<<"urls">>)
              /\ <<"schema">> \in Seq(Guard) /\ NeverRedacts(<<"schema">>)
            BY DEF NeverRedacts, Guard
        <3>2. <<>> \in Seq(Guard) /\ NeverRedacts(<<>>)
            BY DEF NeverRedacts
        <3> QED BY <3>1, <3>2 DEF When
    <2>2. Defaults(s) \in {first \o urls, <<"schema">> \o size, back \o urls}
        BY <1>1 DEF Defaults, Stage
    <2> HIDE DEF first, back, size, urls
    <2>3. NeverRedacts(Defaults(s))
        BY <2>1, <2>2, ConcatNeverRedacts
    <2> QED BY <2>3 DEF NeverRedacts
<1>2. CASE s = "output"
    <2> DEFINE scan == When(Standard, <<"exfil">>)
               redact == When(Strict, <<"pii">>)
               d == Defaults(s)
    <2>1. scan \in Seq(Guard) /\ NeverRedacts(scan) /\ redact \in Seq(Guard) /\ Len(redact) <= 1
        <3>1. <<"exfil">> \in Seq(Guard) /\ NeverRedacts(<<"exfil">>)
              /\ <<"pii">> \in Seq(Guard) /\ Len(<<"pii">>) = 1
            BY DEF NeverRedacts, Guard
        <3>2. <<>> \in Seq(Guard) /\ NeverRedacts(<<>>) /\ Len(<<>>) = 0
            BY DEF NeverRedacts
        <3> QED BY <3>1, <3>2 DEF When
    <2>2. d = scan \o redact
        BY <1>2 DEF Defaults, OutputGuards
    <2> HIDE DEF scan, redact, d
    <2>3. SUFFICES ASSUME NEW k \in DOMAIN d, d[k] = "pii" PROVE k = Len(d)
        BY DEF d
    <2>4. /\ Len(d) = Len(scan) + Len(redact) /\ Len(scan) \in Nat /\ Len(redact) \in Nat
          /\ k \in Nat /\ k <= Len(d)
        BY <2>1, <2>2, <2>3, ConcatElement, ConcatTyped
    <2>5. k <= Len(scan) => k \in DOMAIN scan /\ scan[k] = "pii"
        BY <2>1, <2>2, <2>3, ConcatElement
    <2>6. ~(k <= Len(scan))
        BY <2>1, <2>5 DEF NeverRedacts
    <2> QED BY <2>1, <2>4, <2>6
<1> QED BY <1>1, <1>2

\* There is a first one among the guards that object.
LEMMA FirstExists ==
    ASSUME NEW S \in SUBSET Nat, S # {}
    PROVE  \E i \in S : \A j \in S : i <= j
<1>1. IsWellFoundedOn(OpToRel(<, Nat), Nat)
    BY NatLessThanWellFounded
<1>2. PICK i \in S : \A j \in S : <<j, i>> \notin OpToRel(<, Nat)
    BY <1>1, WFMin
<1>3. \A j \in S : i <= j
    <2>1. TAKE j \in S
    <2>2. i \in Nat /\ j \in Nat
        OBVIOUS
    <2>3. ~(j < i)
        BY <1>2, <2>2 DEF OpToRel
    <2> QED BY <2>2, <2>3
<1> QED BY <1>3

\* Flag finds the first guard from the n-th on that does not allow the text.
LEMMA FlagFirst ==
    ASSUME NEW s \in Stage, NEW t, NEW n \in Nat \ {0}, NEW f, f = Flag(s, t, n)
    PROVE  /\ f.verdict \in Verdicts
           /\ f.verdict = "ALLOW" =>
                \A i \in DOMAIN Chain[s] : i >= n => Verdict(Chain[s][i], t) = "ALLOW"
           /\ f.verdict # "ALLOW" =>
                /\ f.by \in DOMAIN Chain[s] /\ f.by >= n
                /\ Verdict(Chain[s][f.by], t) = f.verdict
                /\ \A i \in DOMAIN Chain[s] : n <= i /\ i < f.by => Verdict(Chain[s][i], t) = "ALLOW"
<1> DEFINE g == Flagging(s, t, n)
<1>1. DOMAIN Chain[s] = 1..Len(Chain[s]) /\ Len(Chain[s]) \in Nat
    BY ChainTyped
<1>2. g \in SUBSET Nat /\ \A i \in DOMAIN Chain[s] : i >= n =>
            (i \in g <=> Verdict(Chain[s][i], t) # "ALLOW")
    BY <1>1 DEF Flagging
<1>3. CASE g = {}
    <2>1. f.verdict = "ALLOW"
        BY <1>3 DEF Flag
    <2> QED BY <2>1, <1>2, <1>3 DEF Verdicts
<1>4. CASE g # {}
    <2> DEFINE k == CHOOSE i \in g : \A j \in g : i <= j
    <2> HIDE DEF k
    <2>1. k \in g /\ \A j \in g : k <= j
        <3> HIDE DEF g
        <3> QED BY <1>2, <1>4, FirstExists DEF k
    <2>2. f.verdict = Verdict(Chain[s][k], t) /\ f.by = k
        BY <1>4 DEF Flag, k
    <2>3. k \in DOMAIN Chain[s] /\ k >= n /\ Verdict(Chain[s][k], t) # "ALLOW"
        BY <2>1, <1>1 DEF Flagging
    <2>4. \A i \in DOMAIN Chain[s] : n <= i /\ i < k => Verdict(Chain[s][i], t) = "ALLOW"
        BY <2>1, <2>3, <1>1, <1>2
    <2> QED BY <2>2, <2>3, <2>4, VerdictTyped
<1> QED BY <1>3, <1>4

\* A text that a run meets is not judged yet.
LEMMA MeetsFit ==
    ASSUME NEW r \in Run, NEW x \in RunState, x.attempt <= Attempts[r], NEW s \in Stage, NEW t \in SUBSET Trait
    PROVE  Fit(r, Meets(x, s, t))
<1> DEFINE y == Meets(x, s, t)
<1>1. y.pc = "screening" /\ y.shown = "open" /\ y.next = 1 /\ y.stage = s /\ y.came = y.text
    BY DEF Meets, RunState
<1>2. y \in RunState /\ y.attempt <= Attempts[r]
    BY MeetsTyped DEF Frame
<1>3. Told(y) /\ Vetted(r, y)
    BY <1>1 DEF Told, Vetted
<1>4. Clean(y)
    <2>1. \A i \in DOMAIN Chain[s] : ~(i < 1)
        BY ChainTyped
    <2> QED BY <1>1, <2>1 DEF Clean
<1> QED BY <1>2, <1>3, <1>4 DEF Fit

\* Where an answer leaves a run.
Landed(r, p) == p \in {"model", "tool"} \/ p = "attempted" \/ (p = "returned" /\ Verifier[r] = "none")

\* The guards that bind_default_guardrails binds have a redaction behind them, never
\* before them, unless an application's own comes first.
LEMMA OwnRedactsFirst ==
    ASSUME NEW s \in Stage, \A k \in DOMAIN Before[s] : Before[s][k] # "pii",
           NEW i \in DOMAIN Chain[s], Chain[s][i] = "pii",
           NEW j \in DOMAIN Chain[s], j <= Len(Before[s]) + Len(Defaults(s))
    PROVE  j <= i
<1>1. /\ Before[s] \in Seq(Guard) /\ After[s] \in Seq(Guard) /\ Defaults(s) \in Seq(Guard)
      /\ Chain[s] = (Before[s] \o Defaults(s)) \o After[s]
    BY JudgingAssumption, DefaultsTyped DEF Chain
<1> DEFINE own == Before[s]
           d == Defaults(s)
           both == own \o d
<1>2. \A k \in DOMAIN d : d[k] = "pii" => k = Len(d)
    BY DefaultsRedactLast
<1> HIDE DEF own, d
<1>3. own \in Seq(Guard) /\ d \in Seq(Guard) /\ After[s] \in Seq(Guard) /\ Chain[s] = both \o After[s]
    BY <1>1 DEF own, d
<1>4. both \in Seq(Guard) /\ Len(both) = Len(own) + Len(d) /\ Len(own) \in Nat /\ Len(d) \in Nat
    BY <1>3, ConcatTyped
<1>5. i \in Nat /\ j \in Nat /\ j <= Len(both)
    <2>1. j <= Len(own) + Len(d)
        BY DEF own, d
    <2> HIDE DEF both
    <2> QED BY <1>3, <1>4, <2>1, ConcatElement
<1>6. CASE i > Len(both)
    BY <1>4, <1>5, <1>6
<1>7. CASE i <= Len(both)
    <2>1. i \in DOMAIN both /\ both[i] = "pii"
        <3> HIDE DEF both
        <3> QED BY <1>3, <1>4, <1>7, ConcatElement
    <2>2. ~(i <= Len(own))
        <3>1. i <= Len(own) => i \in DOMAIN own /\ both[i] = own[i]
            BY <1>3, <2>1, ConcatElement
        <3> QED BY <2>1, <3>1 DEF own
    <2>3. i - Len(own) \in DOMAIN d /\ d[i - Len(own)] = "pii"
        BY <1>3, <1>4, <1>5, <2>1, <2>2, ConcatElement
    <2>4. i - Len(own) = Len(d)
        BY <1>2, <2>3
    <2> HIDE DEF both
    <2> QED BY <1>4, <1>5, <2>4
<1> QED BY <1>4, <1>5, <1>6, <1>7

LEMMA ShownFit ==
    ASSUME NEW r \in Run, NEW x \in RunState, x.attempt <= Attempts[r],
           NEW a \in {"ALLOW", "REWRITE"}, NEW p, Landed(r, p), Passed(x),
           a = "ALLOW" \/ x.stage = "tool_output", x.stage = "tool_call" => "misfit" \notin x.text
    PROVE  Fit(r, Shown(x, a, p))
<1> DEFINE y == Shown(x, a, p)
<1>1. /\ y.pc = p /\ y.shown = "handed" /\ y.audit = a /\ y.stage = x.stage /\ y.text = x.text
      /\ y.vouched = x.vouched /\ y.came = x.came
    BY DEF Shown, RunState
<1>2. y \in RunState /\ y.attempt <= Attempts[r]
    BY ShownTyped DEF Frame, Landed
<1>3. Told(y) /\ Vetted(r, y)
    BY <1>1 DEF Told, Vetted, Landed
<1>4. Clean(y)
    <2> HIDE DEF y
    <2>1. SeenTo(y)
        BY <1>1 DEF SeenTo, SeenWhole, Passed, Lets
    <2> QED BY <1>1, <2>1 DEF Clean, Landed
<1> QED BY <1>2, <1>3, <1>4 DEF Fit

LEMMA RewrittenFit ==
    ASSUME NEW r \in Run, NEW x \in RunState, x.attempt <= Attempts[r],
           NEW t \in Redactions(x.text), NEW p, Landed(r, p), Redacts(x),
           x.stage # "tool_output", x.stage = "tool_call" => "misfit" \notin t
    PROVE  Fit(r, Rewritten(x, t, p))
<1> DEFINE y == Rewritten(x, t, p)
<1>0. t \in SUBSET Trait /\ "personal" \notin t /\ x.stage \in Stage
    BY JudgingAssumption DEF Redactions, RunState
<1>1. /\ y.pc = p /\ y.shown = "handed" /\ y.audit = "REWRITE" /\ y.stage = x.stage /\ y.text = t
      /\ y.vouched = x.vouched /\ y.came = x.came
    BY DEF Rewritten, RunState
<1>2. y \in RunState /\ y.attempt <= Attempts[r]
    BY <1>0, RewrittenTyped DEF Frame, Landed
<1>3. Told(y) /\ Vetted(r, y)
    BY <1>1 DEF Told, Vetted, Landed
<1>4. Clean(y)
    <2> HIDE DEF y
    <2>1. PICK i \in DOMAIN Chain[x.stage] :
            /\ Chain[x.stage][i] = "pii"
            /\ \A j \in DOMAIN Chain[x.stage] : j < i => Lets(y, j, y.came)
        BY <1>1 DEF Redacts, Lets
    <2>2. ASSUME \A k \in DOMAIN Before[x.stage] : Before[x.stage][k] # "pii",
                 NEW j \in DOMAIN Chain[x.stage],
                 j <= Len(Before[x.stage]) + Len(Defaults(x.stage))
          PROVE  Chain[x.stage][j] = "pii" \/ Lets(y, j, y.came)
        <3>1. j <= i
            BY <1>0, <2>1, <2>2, OwnRedactsFirst
        <3>2. j \in Nat /\ i \in Nat
            BY <1>0, ChainTyped
        <3> QED BY <2>1, <3>1, <3>2
    <2>3. SeenTo(y)
        BY <1>0, <1>1, <2>1, <2>2 DEF SeenTo, SeenWhole
    <2> QED BY <1>1, <2>3 DEF Clean, Landed
<1> QED BY <1>2, <1>3, <1>4 DEF Fit

LEMMA WithheldFit ==
    ASSUME NEW r \in Run, NEW x \in RunState, x.attempt <= Attempts[r], NEW p, Landed(r, p)
    PROVE  Fit(r, Withheld(x, p))
<1> DEFINE y == Withheld(x, p)
<1>1. y.pc = p /\ y.shown = "withheld" /\ y.audit = "BLOCK"
    BY DEF Withheld, RunState
<1>2. y \in RunState /\ y.attempt <= Attempts[r]
    BY WithheldTyped DEF Frame, Landed
<1>3. Told(y) /\ Vetted(r, y)
    BY <1>1 DEF Told, Vetted, Landed
<1>4. Clean(y)
    BY <1>1 DEF Clean, Landed
<1> QED BY <1>2, <1>3, <1>4 DEF Fit

\* The other fields: what a text said, which text it became, and how the run ends.
LEMMA AmendedTyped ==
    ASSUME NEW x \in RunState
    PROVE  /\ \A t \in SUBSET Trait : [x EXCEPT !.text = t] \in RunState
           /\ \A t \in SUBSET Trait : [x EXCEPT !.said = t] \in RunState
           /\ [x EXCEPT !.called = TRUE] \in RunState /\ [x EXCEPT !.again = TRUE] \in RunState
           /\ [x EXCEPT !.finish = "blocked"] \in RunState
<1>1. ASSUME NEW t \in SUBSET Trait PROVE [x EXCEPT !.text = t] \in RunState
    BY DEF RunState
<1>2. ASSUME NEW t \in SUBSET Trait PROVE [x EXCEPT !.said = t] \in RunState
    BY DEF RunState
<1>3. [x EXCEPT !.called = TRUE] \in RunState
    BY DEF RunState
<1>4. [x EXCEPT !.again = TRUE] \in RunState
    BY DEF RunState
<1>5. [x EXCEPT !.finish = "blocked"] \in RunState
    BY DEF RunState
<1> QED BY <1>1, <1>2, <1>3, <1>4, <1>5

LEMMA AmendedFrame ==
    ASSUME NEW x \in RunState, NEW t
    PROVE  /\ Frame([x EXCEPT !.text = t], x) /\ Frame([x EXCEPT !.said = t], x)
           /\ Frame([x EXCEPT !.called = TRUE], x) /\ Frame([x EXCEPT !.again = TRUE], x)
           /\ Frame([x EXCEPT !.finish = "blocked"], x)
BY DEF RunState, Frame

\* The verdict v is one the chain may give of the text r shows it.
Deserved(r, v) ==
    /\ v = "ALLOW" => Passed(run[r])
    /\ v = "REWRITE" => Redacts(run[r])

\* What a verdict leaves.
Result(r, y) == Fit(r, y) /\ Frame(y, run[r]) /\ Landed(r, y.pc)

\* x is r as far as its guards can tell.
Alike(x, r) ==
    /\ x.stage = run[r].stage /\ x.text = run[r].text /\ x.came = run[r].came
    /\ x.vouched = run[r].vouched

LEMMA ShownResult ==
    ASSUME NEW r \in Run, NEW x \in RunState, Frame(x, run[r]), run[r].attempt <= Attempts[r],
           NEW a \in {"ALLOW", "REWRITE"}, NEW p, Landed(r, p), Alike(x, r), Passed(run[r]),
           a = "ALLOW" \/ x.stage = "tool_output", x.stage = "tool_call" => "misfit" \notin x.text
    PROVE  Result(r, Shown(x, a, p))
<1>1. Shown(x, a, p).pc = p
    BY DEF Shown, RunState
<1>2. Frame(Shown(x, a, p), x)
    BY ShownTyped DEF Landed
<1>3. Frame(Shown(x, a, p), run[r]) /\ x.attempt <= Attempts[r]
    BY <1>2 DEF Frame
<1>4. Passed(x)
    BY DEF Passed, Alike, Lets
<1> QED BY <1>1, <1>3, <1>4, ShownFit DEF Result

LEMMA RewrittenResult ==
    ASSUME NEW r \in Run, NEW x \in RunState, Frame(x, run[r]), run[r].attempt <= Attempts[r],
           NEW t \in Redactions(x.text), NEW p, Landed(r, p), Alike(x, r), Redacts(run[r]),
           x.stage # "tool_output", x.stage = "tool_call" => "misfit" \notin t
    PROVE  Result(r, Rewritten(x, t, p))
<1>0. t \in SUBSET Trait
    BY JudgingAssumption DEF Redactions, RunState
<1>1. Rewritten(x, t, p).pc = p
    BY DEF Rewritten, RunState
<1>2. Frame(Rewritten(x, t, p), x)
    BY <1>0, RewrittenTyped DEF Landed
<1>3. Frame(Rewritten(x, t, p), run[r]) /\ x.attempt <= Attempts[r]
    BY <1>2 DEF Frame
<1>4. Redacts(x)
    BY DEF Redacts, Alike, Lets
<1> QED BY <1>1, <1>3, <1>4, RewrittenFit DEF Result

LEMMA WithheldResult ==
    ASSUME NEW r \in Run, NEW x \in RunState, Frame(x, run[r]), run[r].attempt <= Attempts[r],
           NEW p, Landed(r, p)
    PROVE  Result(r, Withheld(x, p))
<1>1. Withheld(x, p).pc = p
    BY DEF Withheld, RunState
<1>2. Frame(Withheld(x, p), x)
    BY WithheldTyped DEF Landed
<1>3. Frame(Withheld(x, p), run[r]) /\ x.attempt <= Attempts[r]
    BY <1>2 DEF Frame
<1> QED BY <1>1, <1>3, WithheldFit DEF Result

LEMMA InputJudgedFit ==
    ASSUME NEW r \in Run, run[r] \in RunState, run[r].attempt <= Attempts[r],
           NEW v \in {"ALLOW", "BLOCK", "REWRITE"}, run[r].stage = "input",
           Deserved(r, v), NEW y \in InputJudged(r, v)
    PROVE  Result(r, y)
<1> DEFINE x == run[r]
<1>1. Landed(r, Answered(r)) /\ Landed(r, "model")
    BY DEF Landed, Answered
<1>2. Frame(x, x) /\ Alike(x, r)
    BY DEF Frame, Alike
<1>3. CASE v = "BLOCK"
    <2>1. [x EXCEPT !.finish = "blocked"] \in RunState /\ Frame([x EXCEPT !.finish = "blocked"], x)
        BY AmendedTyped, AmendedFrame
    <2> QED BY <1>1, <1>3, <2>1, WithheldResult DEF InputJudged
<1>4. CASE v = "REWRITE"
    <2>1. PICK t \in Redactions(x.text) : y = Rewritten(x, t, "model")
        BY <1>4 DEF InputJudged
    <2> QED BY <1>1, <1>2, <1>4, <2>1, RewrittenResult DEF Deserved
<1>5. CASE v = "ALLOW"
    BY <1>1, <1>2, <1>5, ShownResult DEF InputJudged, Deserved
<1> QED BY <1>3, <1>4, <1>5

LEMMA CallJudgedFit ==
    ASSUME NEW r \in Run, run[r] \in RunState, run[r].attempt <= Attempts[r],
           NEW v \in {"ALLOW", "BLOCK", "REWRITE"}, run[r].stage = "tool_call",
           Deserved(r, v), NEW y \in CallJudged(r, v)
    PROVE  Result(r, y)
<1> DEFINE x == [run[r] EXCEPT !.called = TRUE]
<1>1. Landed(r, "model") /\ Landed(r, "tool")
    BY DEF Landed
<1>2. x \in RunState /\ Frame(x, run[r]) /\ Alike(x, r) /\ x.stage = "tool_call"
    <2>1. x \in RunState /\ Frame(x, run[r])
        BY AmendedTyped, AmendedFrame
    <2>2. Alike(x, r) /\ x.stage = "tool_call"
        BY DEF RunState, Alike
    <2> QED BY <2>1, <2>2
<1>3. CASE v = "BLOCK" /\ y = Withheld(x, "model")
    BY <1>1, <1>2, <1>3, WithheldResult
<1>4. CASE v = "REWRITE"
    <2>1. y = Withheld(x, "model") \/
          \E t \in Redactions(x.text) : "misfit" \notin t /\ y = Rewritten(x, t, "tool")
        BY <1>4 DEF CallJudged
    <2> HIDE DEF x
    <2>2. CASE y = Withheld(x, "model")
        BY <1>1, <1>2, <2>2, WithheldResult
    <2>3. CASE \E t \in Redactions(x.text) : "misfit" \notin t /\ y = Rewritten(x, t, "tool")
        <3>1. PICK t \in Redactions(x.text) : "misfit" \notin t /\ y = Rewritten(x, t, "tool")
            BY <2>3
        <3>2. Redacts(run[r])
            BY <1>4 DEF Deserved
        <3> QED BY <1>1, <1>2, <3>1, <3>2, RewrittenResult
    <2> QED BY <2>1, <2>2, <2>3
<1>5. CASE v = "ALLOW"
    <2>1. y = Withheld(x, "model") \/ ("misfit" \notin x.text /\ y = Shown(x, "ALLOW", "tool"))
        BY <1>5 DEF CallJudged
    <2>2. Passed(run[r])
        BY <1>5 DEF Deserved
    <2> HIDE DEF x
    <2>3. CASE y = Withheld(x, "model")
        BY <1>1, <1>2, <2>3, WithheldResult
    <2>4. CASE "misfit" \notin x.text /\ y = Shown(x, "ALLOW", "tool")
        BY <1>1, <1>2, <2>2, <2>4, ShownResult
    <2> QED BY <2>1, <2>3, <2>4
<1>6. v = "BLOCK" => y = Withheld(x, "model")
    BY DEF CallJudged
<1> QED BY <1>3, <1>4, <1>5, <1>6

LEMMA OutputOfToolJudgedFit ==
    ASSUME NEW r \in Run, run[r] \in RunState, run[r].attempt <= Attempts[r],
           NEW v \in {"ALLOW", "BLOCK", "REWRITE"}, run[r].stage = "tool_output",
           Deserved(r, v), NEW y \in OutputOfToolJudged(r, v)
    PROVE  Fit(r, y) /\ Frame(y, run[r]) /\ (y.pc = "screening" \/ Landed(r, y.pc))
<1> DEFINE x == run[r]
<1>1. Landed(r, "model")
    BY DEF Landed
<1>2. Frame(x, x) /\ Alike(x, r)
    BY DEF Frame, Alike
<1>3. Result(r, Withheld(x, "model"))
    BY <1>1, <1>2, WithheldResult
<1>4. CASE v = "ALLOW"
    <2>1. y = Shown(x, v, "model") \/ y = Shown(x, "REWRITE", "model")
        BY <1>4 DEF OutputOfToolJudged, Second, RunState
    <2> QED BY <1>1, <1>2, <1>4, <2>1, ShownResult DEF Deserved, Result
<1>5. CASE v = "REWRITE" /\ ~x.again
    <2>1. PICK t \in Redactions(x.text) : y = Rescreen(x, t)
        BY <1>5 DEF OutputOfToolJudged
    <2> DEFINE m == Meets(x, "tool_output", t)
    <2>2. t \in SUBSET Trait
        BY JudgingAssumption DEF Redactions, RunState
    <2>3. m \in RunState /\ Frame(m, x) /\ Fit(r, m)
        BY <2>2, MeetsTyped, MeetsFit DEF Stage
    <2>4. y = [m EXCEPT !.again = TRUE]
        BY <2>1 DEF Rescreen
    <2>5. m.pc = "screening"
        BY DEF Meets, RunState
    <2> HIDE DEF m
    <2>6. y \in RunState /\ Frame(y, m)
        BY <2>3, <2>4, AmendedTyped, AmendedFrame
    <2>7. /\ y.pc = m.pc /\ y.shown = m.shown /\ y.audit = m.audit /\ y.stage = m.stage
          /\ y.text = m.text /\ y.next = m.next /\ y.vouched = m.vouched /\ y.came = m.came
          /\ y.said = m.said /\ y.called = m.called /\ y.finish = m.finish /\ y.reply = m.reply
        BY <2>3, <2>4 DEF RunState
    <2>8. Told(y) /\ Vetted(r, y)
        BY <2>3, <2>7 DEF Told, Vetted, Fit
    <2>9. Clean(y)
        BY <2>3, <2>5, <2>7 DEF Clean, Lets, Fit, Told
    <2>10. y.attempt <= Attempts[r] /\ Frame(y, x)
        BY <2>3, <2>6 DEF Frame
    <2> QED BY <2>5, <2>6, <2>7, <2>8, <2>9, <2>10 DEF Fit
<1>6. CASE v = "REWRITE" /\ x.again
    BY <1>3, <1>6 DEF OutputOfToolJudged, Second, Result
<1>7. CASE v = "BLOCK"
    BY <1>3, <1>7 DEF OutputOfToolJudged, Second, Result, RunState
<1> QED BY <1>4, <1>5, <1>6, <1>7

LEMMA AnswerJudgedFit ==
    ASSUME NEW r \in Run, run[r] \in RunState, run[r].attempt <= Attempts[r],
           NEW v \in {"ALLOW", "BLOCK", "REWRITE"}, run[r].stage = "output",
           Deserved(r, v), NEW y \in AnswerJudged(r, v)
    PROVE  Result(r, y)
<1> DEFINE x == run[r]
           saying(t) == [x EXCEPT !.said = t \cap {"claims", "hedged"}]
<1>1. Landed(r, Answered(r))
    BY DEF Landed, Answered
<1>2. ASSUME NEW t PROVE saying(t) \in RunState /\ Frame(saying(t), x) /\ Alike(saying(t), r)
                         /\ saying(t).stage = "output"
                         /\ saying(t).text = x.text
    <2>1. t \cap {"claims", "hedged"} \in SUBSET Trait
        BY DEF Trait
    <2>2. saying(t) \in RunState /\ Frame(saying(t), x)
        BY <2>1, AmendedTyped, AmendedFrame
    <2>3. Alike(saying(t), r) /\ saying(t).stage = "output" /\ saying(t).text = x.text
        BY DEF Alike, RunState
    <2> QED BY <2>2, <2>3
<1>3. CASE v = "BLOCK"
    <2>1. y = Withheld(saying({}), Answered(r))
        BY <1>3 DEF AnswerJudged
    <2> HIDE DEF saying
    <2> QED BY <1>1, <1>2, <2>1, WithheldResult
<1>4. CASE v = "REWRITE"
    <2>1. PICK t \in Redactions(x.text) : y = Rewritten(saying(t), t, Answered(r))
        BY <1>4 DEF AnswerJudged
    <2> HIDE DEF saying
    <2>2. Redacts(run[r])
        BY <1>4 DEF Deserved
    <2> QED BY <1>1, <1>2, <2>1, <2>2, RewrittenResult
<1>5. CASE v = "ALLOW"
    <2>1. y = Shown(saying(x.text), "ALLOW", Answered(r))
        BY <1>5 DEF AnswerJudged
    <2> HIDE DEF saying
    <2>2. Passed(run[r])
        BY <1>5 DEF Deserved
    <2> QED BY <1>1, <1>2, <2>1, <2>2, ShownResult
<1> QED BY <1>3, <1>4, <1>5

\* Whatever the verdict, if the chain may give it.
LEMMA JudgedFit ==
    ASSUME NEW r \in Run, run[r] \in RunState, run[r].attempt <= Attempts[r],
           NEW v \in {"ALLOW", "BLOCK", "REWRITE"},
           Deserved(r, v), NEW y \in Judged(r, v)
    PROVE  Fit(r, y) /\ Frame(y, run[r]) /\ (y.pc = "screening" \/ Landed(r, y.pc))
<1>1. run[r].stage \in Stage
    BY DEF RunState
<1>2. CASE run[r].stage = "input"
    BY <1>2, InputJudgedFit DEF Judged, Result
<1>3. CASE run[r].stage = "tool_call"
    BY <1>3, CallJudgedFit DEF Judged, Result
<1>4. CASE run[r].stage = "tool_output"
    BY <1>4, OutputOfToolJudgedFit DEF Judged, Result
<1>5. CASE run[r].stage = "output"
    BY <1>5, AnswerJudgedFit DEF Judged, Result
<1> QED BY <1>1, <1>2, <1>3, <1>4, <1>5 DEF Stage

LEMMA AskingFit ==
    ASSUME NEW r \in Run, NEW x, Fit(r, x), x.pc = "screening", NEW n \in Nat \ {0},
           n \in DOMAIN Chain[x.stage], Verdict(Chain[x.stage][n], x.text) = "AMBIGUOUS",
           \A i \in DOMAIN Chain[x.stage] : i < n => Lets(x, i, x.text)
    PROVE  LET y == [x EXCEPT !.pc = "asking", !.next = n] IN
              Fit(r, y) /\ Frame(y, x) /\ y.pc = "asking"
<1> DEFINE y == [x EXCEPT !.pc = "asking", !.next = n]
<1>1. x \in RunState
    BY DEF Fit
<1>2. /\ Variant(y, x) /\ Frame(y, x) /\ y.pc = "asking" /\ y.next = n /\ y.stage = x.stage /\ y.text = x.text
      /\ y.vouched = x.vouched /\ y.came = x.came /\ y.shown = x.shown /\ y.audit = x.audit
    BY <1>1 DEF Variant, Frame, RunState
<1>3. Fields(y)
    BY <1>1, FieldsTyped DEF Fields, RunState
<1>4. y \in RunState /\ y.attempt <= Attempts[r]
    BY <1>1, <1>2, <1>3, Retyped DEF Frame, Fit
<1>5. Told(y) /\ Vetted(r, y)
    BY <1>2 DEF Told, Vetted, Fit
<1>6. Clean(y)
    <2> HIDE DEF y
    <2> QED BY <1>2 DEF Clean, Lets, Fit, Told
<1> QED BY <1>2, <1>4, <1>5, <1>6 DEF Fit

LEMMA VerdictRewrites ==
    ASSUME NEW g, NEW t, Verdict(g, t) = "REWRITE" PROVE g = "pii"
BY DEF Verdict, Caps, Injection, Urls, Exfil, Pii, Schema, Heuristic

LEMMA ScreenFit ==
    ASSUME NEW r \in Run, Fit(r, run[r]), Screen(r)
    PROVE  \E y : /\ run' = [run EXCEPT ![r] = y] /\ Fit(r, y) /\ Frame(y, run[r])
                  /\ y.pc \in {"asking", "screening"} \/ Landed(r, y.pc)
<1> DEFINE x == run[r]
           f == Flag(x.stage, x.text, x.next)
<1>1. /\ x \in RunState /\ x.attempt <= Attempts[r] /\ x.pc = "screening"
      /\ x.stage \in Stage /\ x.text \in SUBSET Trait /\ x.next \in Nat \ {0}
    BY DEF Fit, Screen, RunState
<1>2. /\ f.verdict \in Verdicts
      /\ f.verdict = "ALLOW" =>
           \A i \in DOMAIN Chain[x.stage] : i >= x.next => Verdict(Chain[x.stage][i], x.text) = "ALLOW"
      /\ f.verdict # "ALLOW" =>
           /\ f.by \in DOMAIN Chain[x.stage] /\ f.by >= x.next
           /\ Verdict(Chain[x.stage][f.by], x.text) = f.verdict
           /\ \A i \in DOMAIN Chain[x.stage] :
                 x.next <= i /\ i < f.by => Verdict(Chain[x.stage][i], x.text) = "ALLOW"
    BY <1>1, FlagFirst
<1>3. DOMAIN Chain[x.stage] \subseteq Nat
    BY <1>1, ChainTyped
<1>4. x.came = x.text /\ \A i \in DOMAIN Chain[x.stage] : i < x.next => Lets(x, i, x.text)
    BY <1>1 DEF Fit, Clean
<1> HIDE DEF f
<1>5. f.verdict # "ALLOW" => \A i \in DOMAIN Chain[x.stage] : i < f.by => Lets(x, i, x.text)
    BY <1>1, <1>2, <1>3, <1>4 DEF Lets
<1>6. CASE f.verdict = "AMBIGUOUS"
    <2>1. f.by \in Nat \ {0}
        BY <1>1, <1>2, <1>6, ChainTyped
    <2> DEFINE y == [x EXCEPT !.pc = "asking", !.next = f.by]
    <2>2. run' = [run EXCEPT ![r] = y]
        BY <1>6 DEF Screen, Becomes, f
    <2>3. Fit(r, y) /\ Frame(y, x) /\ y.pc = "asking"
        BY <1>1, <1>2, <1>5, <1>6, <2>1, AskingFit
    <2> HIDE DEF y
    <2> QED BY <2>2, <2>3
<1>7. CASE f.verdict # "AMBIGUOUS"
    <2>1. PICK y \in Judged(r, f.verdict) : run' = [run EXCEPT ![r] = y]
        BY <1>7 DEF Screen, Becomes, f
    <2>2. Deserved(r, f.verdict)
        <3>1. ASSUME f.verdict = "ALLOW" PROVE Passed(x)
            BY <1>1, <1>2, <1>3, <1>4, <3>1 DEF Passed, Lets
        <3>2. ASSUME f.verdict = "REWRITE" PROVE Redacts(x)
            <4>1. f.by \in DOMAIN Chain[x.stage] /\ Chain[x.stage][f.by] = "pii"
                BY <1>2, <3>2, VerdictRewrites
            <4> QED BY <1>4, <1>5, <3>2, <4>1 DEF Redacts
        <3> QED BY <3>1, <3>2 DEF Deserved
    <2>3. f.verdict \in {"ALLOW", "BLOCK", "REWRITE"}
        BY <1>2, <1>7 DEF Verdicts
    <2>4. Fit(r, y) /\ Frame(y, x) /\ (y.pc = "screening" \/ Landed(r, y.pc))
        BY <1>1, <2>1, <2>2, <2>3, JudgedFit
    <2> QED BY <2>1, <2>4
<1> QED BY <1>6, <1>7

\* A guard whose judge let a text pass is one of those that did.
LEMMA ReplyFit ==
    ASSUME NEW r \in Run, NEW x, Fit(r, x), x.pc = "asking", NEW y,
           y = [x EXCEPT !.pc = "screening", !.next = @ + 1, !.vouched = @ \cup {x.next}]
    PROVE  Fit(r, y) /\ Frame(y, x) /\ y.pc = "screening"
<1>1. x \in RunState /\ x.next \in Nat \ {0}
    BY DEF Fit, RunState
<1>2. /\ Variant(y, x) /\ Frame(y, x) /\ y.pc = "screening" /\ y.next = x.next + 1 /\ y.stage = x.stage
      /\ y.text = x.text /\ y.vouched = x.vouched \cup {x.next} /\ y.came = x.came
      /\ y.shown = x.shown /\ y.audit = x.audit
    BY <1>1 DEF Variant, Frame, RunState
<1>3. y \in RunState /\ y.attempt <= Attempts[r]
    <2>1. Fields(y)
        BY <1>1, FieldsTyped DEF Fields, RunState
    <2> QED BY <1>1, <1>2, <2>1, Retyped DEF Frame, Fit
<1>4. Told(y) /\ Vetted(r, y)
    BY <1>2 DEF Told, Vetted, Fit
<1>5. Clean(y)
    <2>1. /\ Verdict(Chain[x.stage][x.next], x.text) = "AMBIGUOUS" /\ x.came = x.text
          /\ \A i \in DOMAIN Chain[x.stage] : i < x.next => Lets(x, i, x.text)
        BY DEF Fit, Clean
    <2>2. DOMAIN Chain[x.stage] \subseteq Nat
        BY <1>1, ChainTyped DEF RunState
    <2>3. ASSUME NEW i \in DOMAIN Chain[y.stage], i < y.next PROVE Lets(y, i, y.text)
        <3>1. i < x.next \/ i = x.next
            BY <1>1, <1>2, <2>2, <2>3
        <3> QED BY <1>2, <2>1, <2>3, <3>1 DEF Lets
    <2> QED BY <1>2, <2>1, <2>3 DEF Clean, Fit, Told
<1> QED BY <1>2, <1>3, <1>4, <1>5 DEF Fit

\* The counts and debts of a run are nothing to its guards and validators.
LEMMA TalliedFit ==
    ASSUME NEW r \in Run, NEW x, Fit(r, x), NEW n \in Nat, NEW d \in SUBSET Entry, NEW y,
           y \in {[x EXCEPT !.asked = n], [x EXCEPT !.due = d]}
    PROVE  /\ Fit(r, y) /\ y.pc = x.pc /\ y.up = x.up /\ y.task = x.task /\ y.outer = x.outer
           /\ y.token = x.token /\ y.counted = x.counted
           /\ y = [x EXCEPT !.asked = n] => y.due = x.due
           /\ y = [x EXCEPT !.due = d] => y.due = d
<1>1. x \in RunState
    BY DEF Fit
<1>2. y \in RunState
    BY <1>1 DEF RunState
<1>3. /\ y.pc = x.pc /\ y.shown = x.shown /\ y.audit = x.audit /\ y.stage = x.stage
      /\ y.text = x.text /\ y.next = x.next /\ y.vouched = x.vouched /\ y.came = x.came /\ y.said = x.said
      /\ y.called = x.called /\ y.finish = x.finish /\ y.reply = x.reply /\ y.attempt = x.attempt
      /\ y.up = x.up /\ y.task = x.task /\ y.outer = x.outer /\ y.token = x.token
      /\ y.counted = x.counted
    BY <1>1 DEF RunState
<1>4. Told(y) /\ Vetted(r, y)
    BY <1>3 DEF Told, Vetted, Fit
<1>5. Clean(y)
    BY <1>3, KeptSeen DEF Clean, Lets, Fit
<1>6. /\ y = [x EXCEPT !.asked = n] => y.due = x.due
      /\ y = [x EXCEPT !.due = d] => y.due = d
    BY <1>1 DEF RunState
<1> QED BY <1>2, <1>3, <1>4, <1>5, <1>6 DEF Fit

Local == run \in [Run -> RunState] /\ \A q \in Run : Fit(q, run[q])

\* One run moves, the others stay as they are, but for what is owed to one of them.
Moves(r, y) == run' = [run EXCEPT ![r] = y] \/ run' = Owed([run EXCEPT ![r] = y], r)

LEMMA MovesFit ==
    ASSUME Local, NEW r \in Run, NEW y, Fit(r, y), Moves(r, y)
    PROVE  Local'
<1> DEFINE f == [run EXCEPT ![r] = y]
<1>1. /\ f \in [Run -> RunState] /\ \A q \in Run : Fit(q, f[q])
    BY DEF Local, Fit
<1>2. Recorded(r) \in SUBSET Entry
    BY DEF Recorded, Record, Entry, Local, RunState
<1>3. CASE run' = f
    BY <1>1, <1>3 DEF Local
<1>4. CASE run' = Owed(f, r)
    <2> HIDE DEF f
    <2>1. ASSUME NEW q \in Run PROVE Fit(q, run'[q])
        <3> DEFINE d == f[q].due \cup Recorded(r)
        <3>1. d \in SUBSET Entry
            BY <1>1, <1>2 DEF RunState
        <3>2. run'[q] = [f[q] EXCEPT !.due = d] \/ run'[q] = f[q]
            BY <1>4 DEF Owed
        <3> HIDE DEF d
        <3> QED BY <1>1, <3>1, <3>2, TalliedFit
    <2>2. run' = [q \in Run |-> run'[q]]
        BY <1>4 DEF Owed
    <2>3. run' \in [Run -> RunState]
        BY <2>1, <2>2 DEF Fit
    <2> QED BY <2>1, <2>3 DEF Local
<1> QED BY <1>3, <1>4 DEF Moves

Stores ==
    /\ sink \in [Host -> Run \cup {NoRun}]
    /\ buffer \in [Run -> SUBSET Entry] /\ bound \subseteq Entry /\ loose \subseteq Entry

\* Who awaits a run does nothing else.
Awaited == \A c \in Run : run[c].up \in Run => run[run[c].up].pc \in {"escalating", "consulting"}

LEMMA IdleFit == ASSUME NEW r \in Run PROVE Fit(r, Idle) /\ Idle.pc = "idle"
<1>1. Idle \in RunState
    BY DEF Idle, RunState, Stage, Reply
<1>2. Told(Idle) /\ Vetted(r, Idle) /\ Clean(Idle) /\ Idle.pc = "idle" /\ Idle.attempt = 1
    BY DEF Idle, Told, Vetted, Clean
<1>3. 1 <= Attempts[r]
    BY JudgingAssumption
<1> QED BY <1>1, <1>2, <1>3 DEF Fit

LEMMA BeginFit ==
    ASSUME Local, NEW t \in Host, NEW text \in SUBSET Trait, Begin(t, text)
    PROVE  LET y == Meets([Idle EXCEPT !.task = t], "input", text) IN
              /\ run' = [run EXCEPT ![t] = y] /\ Local'
              /\ y.pc = "screening" /\ y.up = NoRun /\ y.task = t /\ y.outer = NoRun
              /\ y.token = NoRun /\ y.due = {} /\ y.counted = {}
<1> DEFINE x == [Idle EXCEPT !.task = t]
           y == Meets(x, "input", text)
<1>1. Idle \in RunState /\ t \in Run
    BY IdleFit, JudgingAssumption DEF Fit
<1>2. x \in RunState /\ x.attempt <= Attempts[t]
    <2>1. x \in RunState
        BY <1>1 DEF RunState
    <2>2. x.attempt = 1
        BY DEF Idle
    <2> QED BY <1>1, <2>1, <2>2, JudgingAssumption
<1>3. Fit(t, y)
    <2> HIDE DEF x
    <2> QED BY <1>1, <1>2, MeetsFit DEF Stage
<1>4. /\ y.pc = "screening" /\ y.up = NoRun /\ y.task = t /\ y.outer = NoRun
      /\ y.token = NoRun /\ y.due = {} /\ y.counted = {}
    BY DEF Meets, Idle
<1>5. run' = [run EXCEPT ![t] = y]
    BY DEF Begin, Becomes
<1>6. Local'
    <2> HIDE DEF y
    <2> QED BY <1>1, <1>3, <1>5, MovesFit DEF Moves
<1> QED BY <1>4, <1>5, <1>6

LEMMA NestFit ==
    ASSUME Local, NEW r \in Run, NEW c \in Sub[r], NEW text \in SUBSET Trait, Nest(r, c, text)
    PROVE  /\ Local' /\ c \in Run /\ run' = [run EXCEPT ![c] = run'[c]]
           /\ run'[c].pc = "screening" /\ run'[c].up = r /\ run'[c].task = run[r].task
           /\ run'[c].outer = Within(r) /\ run'[c].token = NoRun
           /\ run'[c].due = {} /\ run'[c].counted = {}
<1> DEFINE x == [Idle EXCEPT !.up = r, !.task = run[r].task, !.outer = Within(r)]
           y == Meets(x, "input", text)
<1>1. Idle \in RunState /\ c \in Run /\ run \in [Run -> RunState]
    BY IdleFit, JudgingAssumption DEF Fit, Local
<1>2. run[r].task \in Host \cup {NoRun} /\ Within(r) \in Run \cup {NoRun}
    BY <1>1 DEF RunState, Within
<1>3. x \in RunState /\ x.attempt <= Attempts[c]
    <2>1. Variant(x, Idle)
        BY DEF Variant
    <2>3. x.attempt = 1
        BY DEF Idle
    <2>2. Fields(x)
        BY <1>1, <1>2, FieldsTyped DEF Fields, RunState
    <2> QED BY <1>1, <2>1, <2>2, <2>3, Retyped, JudgingAssumption
<1>4. Fit(c, y)
    <2> HIDE DEF x
    <2> QED BY <1>1, <1>3, MeetsFit DEF Stage
<1>5. /\ y.pc = "screening" /\ y.up = r /\ y.task = run[r].task /\ y.outer = Within(r)
      /\ y.token = NoRun /\ y.due = {} /\ y.counted = {}
    BY DEF Meets, Idle
<1>6. run' = [run EXCEPT ![c] = y]
    BY DEF Nest, Becomes
<1>7. Local'
    <2> HIDE DEF y
    <2> QED BY <1>1, <1>4, <1>6, MovesFit DEF Moves
<1>8. run'[c] = y
    BY <1>1, <1>6
<1> QED BY <1>1, <1>5, <1>6, <1>7, <1>8

\* What a run does at an await of its own, with no verdict on a validation in it.
Works(r) ==
    \/ Screen(r) \/ ToolFails(r) \/ \E x \in Reply : GuardReplies(r, x)
    \/ \E x \in Text[r]["tool_call"] : CallTool(r, x)
    \/ \E x \in Text[r]["tool_output"] : ToolReturns(r, x)
    \/ \E x \in Text[r]["output"] : Answer(r, x)

\* It ends up in such a place, or returns unjudged.
Place(r, y) == y.pc \in {"asking", "screening"} \/ Landed(r, y.pc)

\* r moves on, and nothing else does; or it records a call to the judge on the way.
Silently(r, y) == run' = [run EXCEPT ![r] = y] /\ UNCHANGED <<sink, buffer, bound, loose>>
Telling(r, y) == run' = Owed([run EXCEPT ![r] = y], r) /\ Emitted(r) /\ UNCHANGED sink

LEMMA GuardRepliesFit ==
    ASSUME Local, NEW r \in Run, NEW reply \in Reply, GuardReplies(r, reply)
    PROVE  \E y : Fit(r, y) /\ Frame(y, run[r]) /\ Place(r, y) /\ Telling(r, y)
<1> DEFINE tallied(x) == [x EXCEPT !.asked = @ + 1]
<1>1. Fit(r, run[r]) /\ run[r] \in RunState /\ run[r].pc = "asking"
    BY DEF Local, GuardReplies, RunState
<1>2. Emitted(r) /\ UNCHANGED sink
    BY DEF GuardReplies
<1>3. ASSUME NEW x, Fit(r, x), Frame(x, run[r]), Place(r, x),
             run' = Owed([run EXCEPT ![r] = tallied(x)], r)
      PROVE  \E y : Fit(r, y) /\ Frame(y, run[r]) /\ Place(r, y) /\ Telling(r, y)
    <2>1. Fit(r, tallied(x)) /\ Frame(tallied(x), run[r]) /\ Place(r, tallied(x))
        <3>1. {} \in SUBSET Entry /\ x.asked + 1 \in Nat
            BY <1>3 DEF Fit, RunState
        <3>2. Fit(r, tallied(x)) /\ tallied(x).pc = x.pc
            BY <1>1, <1>3, <3>1, TalliedFit
        <3>3. Frame(tallied(x), x)
            BY <1>3 DEF Frame, Fit, RunState
        <3> QED BY <1>3, <3>2, <3>3 DEF Frame, Place
    <2>2. Telling(r, tallied(x))
        BY <1>2, <1>3 DEF Telling
    <2> HIDE DEF tallied
    <2> QED BY <2>1, <2>2
<1>4. CASE GuardPasses(reply)
    <2> DEFINE z == [run[r] EXCEPT !.pc = "screening", !.next = @ + 1, !.vouched = @ \cup {run[r].next}]
    <2>1. Fit(r, z) /\ Frame(z, run[r]) /\ z.pc = "screening"
        BY <1>1, ReplyFit
    <2>3. run' = Owed([run EXCEPT ![r] = tallied(z)], r)
        BY <1>4 DEF GuardReplies
    <2> HIDE DEF z
    <2> QED BY <1>3, <2>1, <2>3 DEF Place
<1>5. CASE ~GuardPasses(reply)
    <2>1. PICK z \in Judged(r, "BLOCK") : run' = Owed([run EXCEPT ![r] = [z EXCEPT !.asked = @ + 1]], r)
        BY <1>5 DEF GuardReplies
    <2>2. Fit(r, z) /\ Frame(z, run[r]) /\ Place(r, z)
        <3>1. Deserved(r, "BLOCK")
            BY DEF Deserved
        <3> QED BY <1>1, <2>1, <3>1, JudgedFit DEF Fit, Place
    <2> QED BY <1>3, <2>1, <2>2
<1> QED BY <1>4, <1>5

LEMMA TalksFit ==
    ASSUME Local, NEW r \in Run,
           \/ ToolFails(r)
           \/ \E x \in Text[r]["tool_call"] : CallTool(r, x)
           \/ \E x \in Text[r]["tool_output"] : ToolReturns(r, x)
           \/ \E x \in Text[r]["output"] : Answer(r, x)
    PROVE  \E y : Fit(r, y) /\ Frame(y, run[r]) /\ Place(r, y) /\ Silently(r, y)
<1>1. Fit(r, run[r]) /\ run[r] \in RunState /\ run[r].attempt <= Attempts[r]
    BY DEF Local, Fit
<1>2. /\ Text[r]["tool_call"] \subseteq SUBSET Trait /\ Text[r]["tool_output"] \subseteq SUBSET Trait
      /\ Text[r]["output"] \subseteq SUBSET Trait
    BY JudgingAssumption DEF Stage
<1>3. ASSUME NEW x \in RunState, Frame(x, run[r]), NEW s \in Stage, NEW t \in SUBSET Trait,
             Silently(r, Meets(x, s, t))
      PROVE  \E y : Fit(r, y) /\ Frame(y, run[r]) /\ Place(r, y) /\ Silently(r, y)
    <2>1. Fit(r, Meets(x, s, t)) /\ Frame(Meets(x, s, t), x)
        BY <1>1, <1>3, MeetsFit, MeetsTyped DEF Frame
    <2>2. Frame(Meets(x, s, t), run[r])
        BY <1>3, <2>1 DEF Frame
    <2>3. Place(r, Meets(x, s, t))
        BY DEF Place, Meets, RunState
    <2> QED BY <1>3, <2>1, <2>2, <2>3
<1>4. Frame(run[r], run[r])
    BY DEF Frame
<1>5. CASE ToolFails(r)
    <2> DEFINE y == [run[r] EXCEPT !.pc = "model", !.shown = "open", !.audit = "none"]
    <2>1. Variant(y, run[r]) /\ Frame(y, run[r]) /\ y.pc = "model" /\ y.shown = "open"
        BY <1>1 DEF Variant, Frame, RunState
    <2>2. Fields(y)
        BY <1>1, FieldsTyped DEF Fields, RunState
    <2>3. y \in RunState /\ y.attempt <= Attempts[r]
        BY <1>1, <2>1, <2>2, Retyped DEF Frame
    <2>4. Told(y) /\ Vetted(r, y) /\ Clean(y)
        BY <2>1 DEF Told, Vetted, Clean
    <2>5. Silently(r, y)
        BY <1>5 DEF ToolFails, Becomes, Silently
    <2>6. Fit(r, y) /\ Place(r, y)
        BY <2>1, <2>3, <2>4 DEF Fit, Place, Landed
    <2> HIDE DEF y
    <2> QED BY <2>1, <2>5, <2>6
<1>6. ASSUME NEW t \in Text[r]["tool_call"], CallTool(r, t)
      PROVE  \E y : Fit(r, y) /\ Frame(y, run[r]) /\ Place(r, y) /\ Silently(r, y)
    <2> DEFINE x == [run[r] EXCEPT !.calls = @ + 1]
    <2>1. x \in RunState /\ Frame(x, run[r])
        BY <1>1 DEF RunState, Frame
    <2>2. Silently(r, Meets(x, "tool_call", t))
        BY <1>6 DEF CallTool, Becomes, Silently
    <2> HIDE DEF x
    <2> QED BY <1>2, <1>3, <2>1, <2>2 DEF Stage
<1>7. ASSUME NEW t \in Text[r]["tool_output"], ToolReturns(r, t)
      PROVE  \E y : Fit(r, y) /\ Frame(y, run[r]) /\ Place(r, y) /\ Silently(r, y)
    <2>1. Silently(r, Meets(run[r], "tool_output", t))
        BY <1>7 DEF ToolReturns, Becomes, Silently
    <2> QED BY <1>1, <1>2, <1>3, <1>4, <2>1 DEF Stage
<1>8. ASSUME NEW t \in Text[r]["output"], Answer(r, t)
      PROVE  \E y : Fit(r, y) /\ Frame(y, run[r]) /\ Place(r, y) /\ Silently(r, y)
    <2>1. Silently(r, Meets(run[r], "output", t))
        BY <1>8 DEF Answer, Becomes, Silently
    <2> QED BY <1>1, <1>2, <1>3, <1>4, <2>1 DEF Stage
<1> QED BY <1>5, <1>6, <1>7, <1>8

\* What r does while nobody judges its attempt.
LEMMA WorksFit ==
    ASSUME Local, NEW r \in Run, Works(r)
    PROVE  \E y : /\ Fit(r, y) /\ Frame(y, run[r]) /\ Place(r, y)
                  /\ Silently(r, y) \/ Telling(r, y)
<1>1. CASE Screen(r)
    <2>1. PICK y : /\ run' = [run EXCEPT ![r] = y] /\ Fit(r, y) /\ Frame(y, run[r])
                   /\ y.pc \in {"asking", "screening"} \/ Landed(r, y.pc)
        BY <1>1, ScreenFit DEF Local
    <2>2. UNCHANGED <<sink, buffer, bound, loose>>
        BY <1>1 DEF Screen
    <2> QED BY <2>1, <2>2 DEF Place, Silently
<1>2. CASE \E x \in Reply : GuardReplies(r, x)
    BY <1>2, GuardRepliesFit
<1> QED BY <1>1, <1>2, TalksFit DEF Works

\* A verdict on an attempt: it is the result, or there is another one.
LEMMA DecidedFit ==
    ASSUME NEW r \in Run, NEW x, Fit(r, x), x.attempt = run[r].attempt,
           NEW v \in {"pass", "fail", "ambiguous"}, NEW b \in SUBSET Entry,
           v = "pass" => Vetted(r, [x EXCEPT !.pc = "returned"]),
           NEW y, y = Decided(r, x, v, b)
    PROVE  /\ Fit(r, y) /\ y.up = x.up /\ y.task = x.task /\ y.outer = x.outer
           /\ \/ y.pc = "returned" /\ y.due = x.due /\ y.counted = x.counted \cup b
              \/ y.pc = "escalating" /\ y.due = {} /\ y.counted = {}
<1> DEFINE w == [x EXCEPT !.counted = @ \cup b, !.token = NoRun]
           passed == [w EXCEPT !.pc = "returned"]
           failed == [w EXCEPT !.pc = "returned", !.finish = "error"]
           more == [w EXCEPT !.pc = "escalating", !.attempt = NextAttempt(r),
                             !.due = {}, !.counted = {}, !.reply = "none"]
<1>1. x \in RunState /\ x.attempt <= Attempts[r] /\ Told(x) /\ Clean(x)
    BY DEF Fit
<1>2. Variant(w, x) /\ Fields(w)
    BY <1>1, FieldsTyped DEF Variant, Fields, RunState
<1>3. w \in RunState
    BY <1>1, <1>2, Retyped
<1>4. /\ w.up = x.up /\ w.task = x.task /\ w.outer = x.outer /\ w.attempt = x.attempt /\ w.pc = x.pc
      /\ w.due = x.due /\ w.counted = x.counted \cup b /\ w.shown = x.shown /\ w.audit = x.audit
      /\ w.stage = x.stage /\ w.text = x.text /\ w.next = x.next /\ w.vouched = x.vouched /\ w.came = x.came
      /\ w.said = x.said /\ w.called = x.called /\ w.finish = x.finish /\ w.reply = x.reply
    BY <1>1 DEF RunState
<1> HIDE DEF w
<1>5. CASE v = "pass"
    <2>1. y = passed
        BY <1>5 DEF Decided, w
    <2>2. passed \in RunState
        BY <1>3 DEF RunState, Over
    <2>3. /\ passed.up = x.up /\ passed.task = x.task /\ passed.outer = x.outer /\ passed.pc = "returned"
          /\ passed.due = x.due /\ passed.counted = x.counted \cup b /\ passed.attempt = x.attempt
          /\ passed.shown = x.shown /\ passed.audit = x.audit
          /\ passed.stage = x.stage /\ passed.text = x.text /\ passed.vouched = x.vouched /\ passed.came = x.came
          /\ passed.said = x.said /\ passed.called = x.called /\ passed.finish = x.finish
          /\ passed.reply = x.reply
        BY <1>3, <1>4 DEF RunState
    <2>4. Vetted(r, passed)
        <3> DEFINE z == [x EXCEPT !.pc = "returned"]
        <3>1. /\ z.pc = "returned" /\ z.said = x.said /\ z.called = x.called /\ z.finish = x.finish
              /\ z.reply = x.reply
            BY <1>1 DEF RunState
        <3>2. Vetted(r, z)
            BY <1>5
        <3> HIDE DEF z, passed
        <3> QED BY <2>3, <3>1, <3>2 DEF Vetted
    <2>5. Told(passed) /\ Clean(passed)
        BY <1>1, <2>3, KeptClean DEF Told
    <2> HIDE DEF passed
    <2> QED BY <1>1, <2>1, <2>2, <2>3, <2>4, <2>5 DEF Fit
<1>6. CASE v # "pass" /\ Exhausted(r, w)
    <2>1. y = failed
        BY <1>6 DEF Decided, w
    <2>2. failed \in RunState
        <3>1. Variant(failed, w)
            BY DEF Variant
        <3>2. Fields(failed)
            BY <1>3, FieldsTyped DEF Fields, RunState, Over
        <3> QED BY <1>3, <3>1, <3>2, Retyped
    <2>3. /\ failed.up = x.up /\ failed.task = x.task /\ failed.outer = x.outer /\ failed.pc = "returned"
          /\ failed.due = x.due /\ failed.counted = x.counted \cup b /\ failed.attempt = x.attempt
          /\ failed.shown = x.shown /\ failed.audit = x.audit /\ failed.finish = "error"
          /\ failed.stage = x.stage /\ failed.text = x.text /\ failed.vouched = x.vouched /\ failed.came = x.came
        BY <1>3, <1>4 DEF RunState
    <2>4. Vetted(r, failed) /\ Told(failed) /\ Clean(failed)
        BY <1>1, <2>3, KeptClean DEF Vetted, Told
    <2> HIDE DEF failed
    <2> QED BY <1>1, <2>1, <2>2, <2>3, <2>4 DEF Fit
<1>7. CASE v # "pass" /\ ~Exhausted(r, w)
    <2>1. y = more
        BY <1>7 DEF Decided, w
    <2>2. run[r].attempt < Attempts[r] /\ NextAttempt(r) = x.attempt + 1 /\ x.attempt \in Nat
          /\ NextAttempt(r) \in Nat \ {0}
        <3>1. x.attempt \in Nat \ {0} /\ Attempts[r] \in Nat
            BY <1>1, JudgingAssumption DEF RunState
        <3>2. ~(w.attempt >= Attempts[r])
            BY <1>7 DEF Exhausted
        <3> QED BY <1>4, <3>1, <3>2 DEF NextAttempt
    <2>3. more \in RunState
        <3>1. Variant(more, w)
            BY DEF Variant
        <3>2. Fields(more)
            BY <1>3, <2>2, FieldsTyped DEF Fields, RunState, Over
        <3> QED BY <1>3, <3>1, <3>2, Retyped
    <2>4. /\ more.up = x.up /\ more.task = x.task /\ more.outer = x.outer /\ more.pc = "escalating"
          /\ more.due = {} /\ more.counted = {} /\ more.attempt = NextAttempt(r)
          /\ more.shown = x.shown /\ more.audit = x.audit
          /\ more.stage = x.stage /\ more.text = x.text /\ more.vouched = x.vouched /\ more.came = x.came
        BY <1>3, <1>4 DEF RunState
    <2>5. Vetted(r, more) /\ Told(more) /\ Clean(more)
        <3> HIDE DEF more
        <3> QED BY <1>1, <2>4, KeptClean DEF Vetted, Told
    <2>6. more.attempt <= Attempts[r]
        BY <2>2, <2>4, JudgingAssumption
    <2> HIDE DEF more
    <2> QED BY <1>1, <2>1, <2>3, <2>4, <2>5, <2>6 DEF Fit
<1> QED BY <1>5, <1>6, <1>7

Enters(r, x, p) ==
    \/ p = "judging" /\ (Verifier[r] = "judge" \/ (Verifier[r] = "fallback" /\ "hedged" \in x.said))
    \/ p = "consulting" /\ Verifier[r] = "agent"

Into(x, p, k) == [x EXCEPT !.pc = p, !.token = k]

LEMMA EnteredFit ==
    ASSUME NEW r \in Run, NEW x, Fit(r, x), NEW k \in Run \cup {NoRun}, NEW p, Enters(r, x, p)
    PROVE  LET y == Into(x, p, k) IN
              /\ Fit(r, y) /\ y.pc = p /\ y.token = k /\ y.up = x.up /\ y.task = x.task
              /\ y.outer = x.outer /\ y.due = x.due /\ y.counted = x.counted
<1> DEFINE y == Into(x, p, k)
<1>1. /\ x \in RunState /\ x.attempt <= Attempts[r] /\ Told(x) /\ Clean(x)
      /\ p \in {"judging", "consulting"}
    BY DEF Fit, Enters
<1>2. /\ y.pc = p /\ y.token = k /\ y.up = x.up /\ y.task = x.task /\ y.outer = x.outer
      /\ y.due = x.due /\ y.counted = x.counted /\ y.shown = x.shown /\ y.audit = x.audit
      /\ y.stage = x.stage /\ y.text = x.text /\ y.vouched = x.vouched /\ y.came = x.came /\ y.said = x.said
      /\ y.attempt = x.attempt
    BY <1>1 DEF RunState, Into
<1>3. y \in RunState
    <2>1. Variant(y, x)
        BY DEF Variant, Into
    <2>2. Fields(y)
        BY <1>1, FieldsTyped DEF Fields, RunState, Into
    <2> QED BY <1>1, <2>1, <2>2, Retyped
<1>4. Vetted(r, y) /\ Told(y) /\ Clean(y)
    <2> HIDE DEF y
    <2>1. Clean(y)
        BY <1>1, <1>2, KeptClean
    <2> QED BY <1>1, <1>2, <2>1 DEF Vetted, Told, Enters
<1> QED BY <1>1, <1>2, <1>3, <1>4 DEF Fit

\* Validate: the scope is entered, or the verdict is there at once.
LEMMA ValidateFit ==
    ASSUME Local, Stores, NEW r \in Run, run[r].task \in Host, Validate(r)
    PROVE  \E y : /\ run' = [run EXCEPT ![r] = y] /\ Fit(r, y)
                  /\ y.up = run[r].up /\ y.task = run[r].task /\ y.outer = run[r].outer
                  /\ \/ /\ EnterScope(r) /\ y.pc \in {"judging", "consulting"}
                        /\ y.token = sink[run[r].task] /\ y.due = run[r].due /\ y.counted = run[r].counted
                     \/ /\ UNCHANGED <<sink, buffer>>
                        /\ \/ y.pc = "returned" /\ y.due = run[r].due /\ y.counted = run[r].counted
                           \/ y.pc = "escalating" /\ y.due = {} /\ y.counted = {}
                  /\ UNCHANGED <<bound, loose>>
<1> DEFINE x == run[r]
           k == sink[Context(run[r].task)]
           into(p) == Into(x, p, k)
<1>1. Fit(r, x) /\ x \in RunState /\ k \in Run \cup {NoRun} /\ k = sink[run[r].task]
    BY DEF Local, Stores, Context
<1>2. Verifier[r] \in {"none", "heuristic", "judge", "fallback", "agent"}
    BY JudgingAssumption
<1>3. CASE Primary(r) = "ask"
    <2>1. run' = [run EXCEPT ![r] = into("judging")] /\ EnterScope(r) /\ UNCHANGED <<bound, loose>>
        BY <1>3 DEF Validate, Becomes, Into
    <2>2. Enters(r, x, "judging")
        BY <1>2, <1>3 DEF Primary, Faithful, Enters
    <2>3. /\ Fit(r, into("judging")) /\ into("judging").pc = "judging" /\ into("judging").token = k
          /\ into("judging").up = x.up /\ into("judging").task = x.task
          /\ into("judging").outer = x.outer /\ into("judging").due = x.due
          /\ into("judging").counted = x.counted
        BY <1>1, <2>2, EnteredFit
    <2> HIDE DEF into
    <2> QED BY <1>1, <2>1, <2>3
<1>4. CASE Primary(r) = "run"
    <2>1. run' = [run EXCEPT ![r] = into("consulting")] /\ EnterScope(r) /\ UNCHANGED <<bound, loose>>
        BY <1>4 DEF Validate, Becomes, Into
    <2>2. Enters(r, x, "consulting")
        BY <1>2, <1>4 DEF Primary, Faithful, Enters
    <2>3. /\ Fit(r, into("consulting")) /\ into("consulting").pc = "consulting" /\ into("consulting").token = k
          /\ into("consulting").up = x.up /\ into("consulting").task = x.task
          /\ into("consulting").outer = x.outer /\ into("consulting").due = x.due
          /\ into("consulting").counted = x.counted
        BY <1>1, <2>2, EnteredFit
    <2> HIDE DEF into
    <2> QED BY <1>1, <2>1, <2>3
<1>5. CASE Primary(r) \notin {"ask", "run"}
    <2> DEFINE y == Decided(r, x, Faithful(x), {})
    <2>1. Primary(r) = Faithful(x) /\ Faithful(x) \in {"pass", "fail", "ambiguous"}
          /\ Verifier[r] \notin {"judge", "agent"}
          /\ (Verifier[r] = "fallback" => Faithful(x) # "ambiguous")
        BY <1>2, <1>5 DEF Primary, Faithful
    <2>2. run' = [run EXCEPT ![r] = y] /\ UNCHANGED <<sink, buffer, bound, loose>>
        BY <1>5, <2>1 DEF Validate, Becomes, Into
    <2>3. Faithful(x) = "pass" => Vetted(r, [x EXCEPT !.pc = "returned"])
        <3> DEFINE z == [x EXCEPT !.pc = "returned"]
        <3>1. z.pc = "returned" /\ z.said = x.said /\ z.called = x.called
            BY <1>1 DEF RunState
        <3>2. Faithful(x) = "pass" => "hedged" \notin x.said /\ ("claims" \in x.said => x.called)
            BY <1>1 DEF Faithful, RunState
        <3> HIDE DEF z
        <3>3. Faithful(x) = "pass" => Vetted(r, z)
            BY <2>1, <3>1, <3>2 DEF Vetted
        <3> QED BY <3>3 DEF z
    <2>4. /\ Fit(r, y) /\ y.up = x.up /\ y.task = x.task /\ y.outer = x.outer
          /\ \/ y.pc = "returned" /\ y.due = x.due /\ y.counted = x.counted
             \/ y.pc = "escalating" /\ y.due = {} /\ y.counted = {}
        <3> HIDE DEF y
        <3>1. PICK e \in SUBSET Entry : e = {}
            OBVIOUS
        <3>2. y = Decided(r, x, Faithful(x), e)
            BY <3>1 DEF y
        <3>3. /\ Fit(r, y) /\ y.up = x.up /\ y.task = x.task /\ y.outer = x.outer
              /\ \/ y.pc = "returned" /\ y.due = x.due /\ y.counted = x.counted \cup e
                 \/ y.pc = "escalating" /\ y.due = {} /\ y.counted = {}
            BY <1>1, <2>1, <2>3, <3>2, DecidedFit
        <3>4. x.counted \cup e = x.counted
            BY <3>1
        <3> QED BY <3>3, <3>4
    <2> HIDE DEF y
    <2> QED BY <2>2, <2>4
<1> QED BY <1>3, <1>4, <1>5

\* A record reaches one buffer, or the sink of the container.
LEMMA EmittedStores ==
    ASSUME Local, Stores, NEW r \in Run, run[r].task \in Host, Emitted(r)
    PROVE  /\ buffer' \in [Run -> SUBSET Entry] /\ bound' \subseteq Entry /\ loose' \subseteq Entry
           /\ Recorded(r) \in SUBSET Entry /\ Receives(r) = sink[run[r].task]
<1>1. Recorded(r) \in SUBSET Entry
    BY DEF Recorded, Record, Entry, Local, RunState
<1>2. Receives(r) = sink[run[r].task] /\ Receives(r) \in Run \cup {NoRun}
    BY DEF Receives, Context, Stores
<1>3. bound' \subseteq Entry /\ loose' \subseteq Entry
    BY <1>1 DEF Emitted, Stores
<1>4. buffer' \in [Run -> SUBSET Entry]
    BY <1>1, <1>2 DEF Emitted, Stores
<1> QED BY <1>1, <1>2, <1>3, <1>4

LEMMA JudgeRepliesFit ==
    ASSUME Local, Stores, NEW r \in Run, run[r].task \in Host, NEW reply \in Reply, JudgeReplies(r, reply)
    PROVE  \E y : /\ run' = [run EXCEPT ![r] = y] /\ Fit(r, y)
                  /\ y.up = run[r].up /\ y.task = run[r].task /\ y.outer = run[r].outer
                  /\ \/ y.pc = "returned" /\ y.due = run[r].due \cup Recorded(r)
                        /\ y.counted = run[r].counted \cup buffer'[r]
                     \/ y.pc = "escalating" /\ y.due = {} /\ y.counted = {}
<1> DEFINE x == [run[r] EXCEPT !.asked = @ + 1, !.reply = reply]
           d == x.due \cup Recorded(r)
           z == [x EXCEPT !.due = d]
           y == Decided(r, z, Parsed(reply), buffer'[r])
<1>1. Fit(r, run[r]) /\ run \in [Run -> RunState] /\ run[r].pc = "judging" /\ Within(r) = r
    BY DEF Local, JudgeReplies, Within, Scoped
<1>2. Recorded(r) \in SUBSET Entry /\ buffer'[r] \in SUBSET Entry
    BY EmittedStores DEF JudgeReplies
<1>3. /\ x.pc = "judging" /\ x.shown = run[r].shown /\ x.audit = run[r].audit /\ x.stage = run[r].stage
      /\ x.text = run[r].text /\ x.vouched = run[r].vouched /\ x.came = run[r].came /\ x.said = run[r].said
      /\ x.called = run[r].called /\ x.finish = run[r].finish /\ x.reply = reply
      /\ x.attempt = run[r].attempt /\ x.up = run[r].up /\ x.task = run[r].task
      /\ x.outer = run[r].outer /\ x.due = run[r].due /\ x.counted = run[r].counted
    BY <1>1 DEF RunState
<1>4. x \in RunState
    <2>1. Variant(x, run[r])
        BY DEF Variant
    <2>2. Fields(x)
        BY <1>1, FieldsTyped DEF Fields, RunState
    <2> QED BY <1>1, <2>1, <2>2, Retyped
<1> HIDE DEF x
<1>5. Fit(r, x)
    <2>1. Told(x) /\ Vetted(r, x) /\ Clean(x) /\ x.attempt <= Attempts[r]
        BY <1>1, <1>3, KeptClean DEF Told, Vetted, Fit
    <2> QED BY <1>4, <2>1 DEF Fit
<1>6. Fit(r, z) /\ z.pc = "judging" /\ z.due = d /\ z.up = x.up /\ z.task = x.task /\ z.outer = x.outer
      /\ z.attempt = x.attempt /\ z.said = x.said /\ z.called = x.called /\ z.finish = x.finish
      /\ z.reply = x.reply /\ z.counted = x.counted
    <2>1. d \in SUBSET Entry
        BY <1>2, <1>4 DEF RunState
    <2>2. Fit(r, z)
        BY <1>5, <2>1, TalliedFit
    <2> QED BY <1>3, <1>4, <2>2 DEF RunState
<1>7. run' = [run EXCEPT ![r] = y]
    <2> DEFINE f == [run EXCEPT ![r] = x]
               paid == Owed(f, r)
    <2>1. run' = [paid EXCEPT ![r] = Decided(r, paid[r], Parsed(reply), buffer'[r])]
        BY DEF JudgeReplies, x
    <2>2. paid = [run EXCEPT ![r] = z]
        BY <1>1 DEF Owed
    <2> HIDE DEF paid, z
    <2>3. paid[r] = z
        BY <1>1, <2>2
    <2> QED BY <1>1, <2>1, <2>2, <2>3
<1>8. Parsed(reply) = "pass" => Vetted(r, [z EXCEPT !.pc = "returned"])
    <2> HIDE DEF z
    <2> DEFINE w == [z EXCEPT !.pc = "returned"]
    <2>1. w.pc = "returned" /\ w.said = z.said /\ w.called = z.called /\ w.finish = z.finish
          /\ w.reply = z.reply
        BY <1>6 DEF Fit, RunState
    <2> HIDE DEF w
    <2>2. Parsed(reply) = "pass" => w.reply = "PASS"
        BY <1>3, <1>6, <2>1 DEF Parsed
    <2>3. Verifier[r] = "judge" \/ (Verifier[r] = "fallback" /\ "hedged" \in w.said)
        BY <1>5, <1>3, <1>6, <2>1 DEF Fit, Vetted
    <2>4. Parsed(reply) = "pass" => Vetted(r, w)
        BY <2>1, <2>2, <2>3 DEF Vetted
    <2> QED BY <2>4 DEF w
<1>9. /\ Fit(r, y) /\ y.up = z.up /\ y.task = z.task /\ y.outer = z.outer
      /\ \/ y.pc = "returned" /\ y.due = z.due /\ y.counted = z.counted \cup buffer'[r]
         \/ y.pc = "escalating" /\ y.due = {} /\ y.counted = {}
    <2>1. Parsed(reply) \in {"pass", "fail", "ambiguous"} /\ z.attempt = run[r].attempt
        BY <1>3, <1>6 DEF Parsed
    <2> HIDE DEF z
    <2> QED BY <1>2, <1>6, <1>8, <2>1, DecidedFit
<1> HIDE DEF y
<1> QED BY <1>3, <1>6, <1>7, <1>9

LEMMA RaiseFit ==
    ASSUME Local, NEW r \in Run, Raise(r)
    PROVE  \E y : /\ run' = [run EXCEPT ![r] = y] /\ Fit(r, y) /\ y.pc = "raised"
                  /\ y.up = run[r].up /\ y.task = run[r].task /\ y.outer = run[r].outer
<1> DEFINE y == [run[r] EXCEPT !.pc = "raised"]
<1>1. Fit(r, run[r]) /\ run[r] \in RunState
    BY DEF Local, Fit
<1>2. y \in RunState
    BY <1>1 DEF RunState, Over
<1>3. /\ y.pc = "raised" /\ y.shown = run[r].shown /\ y.audit = run[r].audit /\ y.stage = run[r].stage
      /\ y.text = run[r].text /\ y.vouched = run[r].vouched /\ y.came = run[r].came /\ y.attempt = run[r].attempt
      /\ y.up = run[r].up /\ y.task = run[r].task /\ y.outer = run[r].outer
    BY <1>1 DEF RunState
<1>4. Told(y) /\ Vetted(r, y) /\ Clean(y) /\ y.attempt <= Attempts[r]
    <2> HIDE DEF y
    <2> QED BY <1>1, <1>3, KeptClean DEF Told, Vetted, Fit
<1>5. run' = [run EXCEPT ![r] = y]
    BY DEF Raise, Becomes
<1> HIDE DEF y
<1> QED BY <1>2, <1>3, <1>4, <1>5 DEF Fit

\* r has taken what c returned or raised, and is now at y.
Collected(r, c, y) ==
    /\ c # r /\ run[c].pc \in Over /\ run[r].pc \in {"escalating", "consulting"}
    /\ run' = [[run EXCEPT ![c] = Idle] EXCEPT ![r] = y] /\ Fit(r, y)
    /\ y.up = run[r].up /\ y.task = run[r].task /\ y.outer = run[r].outer
    /\ \/ y.pc = "raised"
       \/ Scoped(r) /\ y.pc = "returned" /\ y.due = run[r].due
          /\ y.counted = run[r].counted \cup buffer[r]
       \/ y.pc = "escalating" /\ y.due = {} /\ y.counted = {}
       \/ /\ ~Scoped(r) /\ run[c].pc = "returned" /\ y.pc = "attempted"
          /\ y.due = run[c].due /\ y.counted = run[c].counted

LEMMA CollectFit ==
    ASSUME Local, Stores, Awaited, NEW r \in Run, Collect(r)
    PROVE  \E c \in Nested(r) : \E y : Collected(r, c, y)
<1>1. PICK c \in Nested(r) :
        LET back == [run EXCEPT ![c] = Idle]
            verdict == IF run[c].finish = "completed" THEN "pass" ELSE "fail"
        IN  /\ run[c].pc \in Over
            /\ run' = [back EXCEPT ![r] =
                  IF run[c].pc = "raised" THEN [back[r] EXCEPT !.pc = "raised"]
                  ELSE IF Scoped(r) THEN Decided(r, back[r], verdict, buffer[r])
                  ELSE [back[r] EXCEPT !.pc = "attempted", !.finish = run[c].finish,
                                       !.said = run[c].said, !.called = run[c].called,
                                       !.counted = Carried(c), !.due = run[c].due]]
    BY DEF Collect
<1> DEFINE back == [run EXCEPT ![c] = Idle]
           x == run[r]
           verdict == IF run[c].finish = "completed" THEN "pass" ELSE "fail"
<1>2. /\ run[c].pc \in Over /\ c \in Run /\ run[c].up = r /\ x.pc \in {"escalating", "consulting"} /\ c # r
      /\ Fit(r, x) /\ x \in RunState /\ run[c] \in RunState /\ buffer[r] \in SUBSET Entry
    BY <1>1 DEF Nested, Awaited, Local, Stores, Over
<1>3. back[r] = x
    BY <1>2
<1>4. CASE run[c].pc = "raised"
    <2> DEFINE y == [x EXCEPT !.pc = "raised"]
    <2>1. y \in RunState
        BY <1>2 DEF RunState, Over
    <2>2. /\ y.pc = "raised" /\ y.shown = x.shown /\ y.audit = x.audit /\ y.stage = x.stage
          /\ y.text = x.text /\ y.vouched = x.vouched /\ y.came = x.came /\ y.attempt = x.attempt
          /\ y.up = x.up /\ y.task = x.task /\ y.outer = x.outer
        BY <1>2 DEF RunState
    <2>3. Told(y) /\ Vetted(r, y) /\ Clean(y) /\ y.attempt <= Attempts[r]
        <3> HIDE DEF y
        <3> QED BY <1>2, <2>2, KeptClean DEF Told, Vetted, Fit
    <2>4. run' = [back EXCEPT ![r] = y]
        BY <1>1, <1>3, <1>4
    <2> HIDE DEF y
    <2>5. Fit(r, y)
        BY <2>1, <2>3 DEF Fit
    <2> QED BY <1>2, <2>2, <2>4, <2>5 DEF Collected
<1>5. CASE run[c].pc # "raised" /\ Scoped(r)
    <2> DEFINE y == Decided(r, x, verdict, buffer[r])
    <2>1. x.pc = "consulting" /\ Verifier[r] = "agent"
        BY <1>2, <1>5 DEF Scoped, Fit, Vetted
    <2>2. Vetted(r, [x EXCEPT !.pc = "returned"])
        <3> DEFINE z == [x EXCEPT !.pc = "returned"]
        <3>1. z.pc = "returned"
            BY <1>2 DEF RunState
        <3> HIDE DEF z
        <3>2. Vetted(r, z)
            BY <2>1, <3>1 DEF Vetted
        <3> QED BY <3>2 DEF z
    <2>3. /\ Fit(r, y) /\ y.up = x.up /\ y.task = x.task /\ y.outer = x.outer
          /\ \/ y.pc = "returned" /\ y.due = x.due /\ y.counted = x.counted \cup buffer[r]
             \/ y.pc = "escalating" /\ y.due = {} /\ y.counted = {}
        <3>1. verdict \in {"pass", "fail", "ambiguous"}
            OBVIOUS
        <3> HIDE DEF verdict
        <3> QED BY <1>2, <2>2, <3>1, DecidedFit
    <2>4. run' = [back EXCEPT ![r] = y]
        BY <1>1, <1>3, <1>5
    <2> HIDE DEF y
    <2> QED BY <1>2, <1>5, <2>3, <2>4 DEF Collected
<1>6. CASE run[c].pc # "raised" /\ ~Scoped(r)
    <2> DEFINE y == [x EXCEPT !.pc = "attempted", !.finish = run[c].finish,
                              !.said = run[c].said, !.called = run[c].called,
                              !.counted = Carried(c), !.due = run[c].due]
    <2>1. Variant(y, x)
        BY DEF Variant
    <2>2. Fields(y)
        BY <1>2, FieldsTyped DEF Fields, RunState, Carried
    <2>3. /\ y.pc = "attempted" /\ y.shown = x.shown /\ y.audit = x.audit /\ y.stage = x.stage
          /\ y.text = x.text /\ y.vouched = x.vouched /\ y.came = x.came /\ y.attempt = x.attempt
          /\ y.up = x.up /\ y.task = x.task /\ y.outer = x.outer
          /\ y.due = run[c].due /\ y.counted = run[c].counted
        BY <1>2 DEF RunState, Carried
    <2>4. Told(y) /\ Vetted(r, y) /\ Clean(y) /\ y.attempt <= Attempts[r]
        <3> HIDE DEF y
        <3> QED BY <1>2, <2>3, KeptClean DEF Told, Vetted, Fit
    <2>5. y \in RunState
        BY <1>2, <2>1, <2>2, Retyped
    <2>6. run' = [back EXCEPT ![r] = y]
        BY <1>1, <1>3, <1>6
    <2> HIDE DEF y
    <2>7. Fit(r, y)
        BY <2>4, <2>5 DEF Fit
    <2>8. run[c].pc = "returned"
        BY <1>2, <1>6 DEF Over
    <2> QED BY <1>2, <1>6, <2>3, <2>6, <2>7, <2>8 DEF Collected
<1> QED BY <1>4, <1>5, <1>6

Active(r) == run[r].pc # "idle"
Leaf(r) == Active(r) /\ Nested(r) = {}

\* A run that is under way is the host's own, or the only one its parent awaits.
NestInv ==
    /\ \A r \in Run : Active(r) \/ run[r] = Idle
    /\ \A r \in Run : \A t : Active(r) /\ run[r].task = t =>
         /\ t \in Host /\ Active(t)
         /\ run[r].up = NoRun => r = t /\ run[r].outer = NoRun
    /\ \A c, p \in Run : run[c].up = p =>
         /\ run[p].pc \in {"escalating", "consulting"} /\ c \in Sub[p]
         /\ run[p].task = run[c].task /\ run[c].outer = Within(p)
    /\ \A c, d, p \in Run : run[c].up = p /\ run[d].up = p => c = d

\* rank counts how deep a run is in its task: the runs of a task are a chain, the
\* deepest is the one that works, and an attempt is judged above the runs it pays for.
Ranked(rank) ==
    /\ \A c, p \in Run : run[c].up = p => rank[c] = rank[p] + 1
    /\ \A r, s \in Run : Active(r) /\ Active(s) /\ run[r].task = run[s].task =>
         /\ rank[r] = rank[s] => r = s
         /\ Leaf(r) => rank[s] <= rank[r]
    /\ \A r, q \in Run : run[r].outer = q =>
         Scoped(q) /\ run[q].task = run[r].task /\ rank[q] < rank[r]

\* The active sink of a task is the buffer of the innermost attempt that is being judged.
SinkInv ==
    /\ \A r \in Run : Leaf(r) => sink[run[r].task] = Within(r)
    /\ \A t \in Host : ~Active(t) => sink[t] = NoRun
    /\ \A r \in Run : Scoped(r) => run[r].token = run[r].outer

\* What an attempt owes is in its result, or in its buffer while it is judged.
DueInv ==
    /\ \A r \in Run : Scoped(r) => run[r].due = run[r].counted \cup buffer[r]
    /\ \A r \in Run : Scoped(r) \/ run[r].pc = "raised" \/ run[r].due = run[r].counted
    /\ bound = loose

JudgingInv ==
    /\ Local /\ Stores /\ NestInv /\ SinkInv /\ DueInv
    /\ \E rank \in [Run -> Nat] : Ranked(rank)

\* Only r, which awaits no run, moves; nobody's place in the chain changes.
Stays(r) ==
    /\ \A q \in Run : /\ run'[q].up = run[q].up /\ run'[q].task = run[q].task
                       /\ run'[q].outer = run[q].outer
    /\ \A q \in Run \ {r} : run'[q].pc = run[q].pc /\ run'[q].token = run[q].token
    /\ run'[r].pc # "idle"
    /\ \A q \in Run : Active(q) \/ run'[q] = run[q]

LEMMA IdleFields ==
    /\ Idle.pc = "idle" /\ Idle.up = NoRun /\ Idle.outer = NoRun /\ Idle.due = {} /\ Idle.counted = {}
    /\ NoRun \notin Run
BY JudgingAssumption DEF Idle

LEMMA SoleLeaf ==
    ASSUME NEW rank \in [Run -> Nat], Ranked(rank), NEW r \in Run, NEW s \in Run, Leaf(r), Leaf(s),
           run[r].task = run[s].task
    PROVE  r = s
BY DEF Ranked, Leaf

LEMMA LeafMoves ==
    ASSUME NestInv, NEW rank \in [Run -> Nat], Ranked(rank), NEW r \in Run, Leaf(r), Stays(r)
    PROVE  /\ NestInv' /\ Ranked(rank)'
           /\ \A q \in Run : Active(q)' <=> Active(q)
           /\ \A q \in Run : Leaf(q)' <=> Leaf(q)
           /\ \A q \in Run \ {r} : (Scoped(q)' <=> Scoped(q)) /\ Within(q)' = Within(q)
<1>1. \A q \in Run : Active(q)' <=> Active(q)
    BY DEF Stays, Active, Leaf
<1>2. \A q \in Run : Nested(q)' = Nested(q)
    BY DEF Stays, Nested
<1>3. \A q \in Run : Leaf(q)' <=> Leaf(q)
    BY <1>1, <1>2 DEF Leaf
<1>4. \A q \in Run \ {r} : (Scoped(q)' <=> Scoped(q)) /\ Within(q)' = Within(q)
    BY DEF Stays, Scoped, Within
<1>5. \A c, p \in Run : run[c].up = p => p # r
    BY DEF Leaf, Nested
<1>6. NestInv'
    <2>1. \A q \in Run : Active(q)' \/ run'[q] = Idle
        BY <1>1 DEF Stays, NestInv
    <2>2. \A q \in Run : \A t : Active(q)' /\ run'[q].task = t =>
             /\ t \in Host /\ Active(t)'
             /\ run'[q].up = NoRun => q = t /\ run'[q].outer = NoRun
        <3> SUFFICES ASSUME NEW q \in Run, NEW t, Active(q)', run'[q].task = t
                     PROVE  /\ t \in Host /\ Active(t)'
                            /\ run'[q].up = NoRun => q = t /\ run'[q].outer = NoRun
            OBVIOUS
        <3>1. Active(q) /\ run[q].task = t /\ run'[q].up = run[q].up /\ run'[q].outer = run[q].outer
            BY <1>1 DEF Stays
        <3>2. t \in Host /\ Active(t) /\ (run[q].up = NoRun => q = t /\ run[q].outer = NoRun)
            BY <3>1 DEF NestInv
        <3>3. Active(t)'
            BY <1>1, <3>2, JudgingAssumption
        <3> QED BY <3>1, <3>2, <3>3
    <2>3. \A c, p \in Run : run'[c].up = p =>
             /\ run'[p].pc \in {"escalating", "consulting"} /\ c \in Sub[p]
             /\ run'[p].task = run'[c].task /\ run'[c].outer = Within(p)'
        BY <1>4, <1>5 DEF Stays, NestInv
    <2>4. \A c, d, p \in Run : run'[c].up = p /\ run'[d].up = p => c = d
        BY DEF Stays, NestInv
    <2> QED BY <2>1, <2>2, <2>3, <2>4 DEF NestInv
<1>7. Ranked(rank)'
    <2>1. \A c, p \in Run : run'[c].up = p => rank[c] = rank[p] + 1
        BY DEF Stays, Ranked
    <2>2. \A q, s \in Run : Active(q)' /\ Active(s)' /\ run'[q].task = run'[s].task =>
             /\ rank[q] = rank[s] => q = s
             /\ Leaf(q)' => rank[s] <= rank[q]
        BY <1>1, <1>3 DEF Stays, Ranked
    <2>3. ASSUME NEW s \in Run, NEW q \in Run, run'[s].outer = q
          PROVE  Scoped(q)' /\ run'[q].task = run'[s].task /\ rank[q] < rank[s]
        <3>1. q = run[s].outer /\ run'[s].task = run[s].task /\ run'[q].task = run[q].task
            BY <2>3 DEF Stays
        <3>2. Scoped(q) /\ run[q].task = run[s].task /\ rank[q] < rank[s]
            BY <3>1 DEF Ranked
        <3>3. Active(s)
            BY <3>1, IdleFields DEF NestInv
        <3>4. q # r
            BY <3>1, <3>2, <3>3 DEF Ranked, Leaf
        <3> QED BY <1>4, <3>1, <3>2, <3>4
    <2> QED BY <2>1, <2>2, <2>3 DEF Ranked
<1> QED BY <1>1, <1>3, <1>4, <1>6, <1>7

\* Who does something itself awaits nobody, and its task is under way.
LEMMA WorkerIsLeaf ==
    ASSUME NestInv, NEW r \in Run, run[r].pc \notin {"idle", "escalating", "consulting"}
    PROVE  Leaf(r) /\ run[r].task \in Host /\ Active(run[r].task)
BY DEF NestInv, Leaf, Active, Nested

\* The active sink of the task of a leaf follows the leaf; no other task's moves.
LEMMA LeafKeeps ==
    ASSUME NestInv, NEW rank \in [Run -> Nat], Ranked(rank), SinkInv,
           NEW r \in Run, Leaf(r), Stays(r),
           sink'[run[r].task] = Within(r)', \A t \in Host \ {run[r].task} : sink'[t] = sink[t],
           Scoped(r)' => run'[r].token = run[r].outer
    PROVE  NestInv' /\ Ranked(rank)' /\ SinkInv'
<1>1. /\ NestInv' /\ Ranked(rank)'
      /\ \A q \in Run : Active(q)' <=> Active(q)
      /\ \A q \in Run : Leaf(q)' <=> Leaf(q)
      /\ \A q \in Run \ {r} : (Scoped(q)' <=> Scoped(q)) /\ Within(q)' = Within(q)
    BY LeafMoves
<1>2. \A q \in Run : run'[q].task = run[q].task /\ run'[q].outer = run[q].outer
    BY DEF Stays
<1>3. ASSUME NEW q \in Run, Leaf(q)' PROVE sink'[run'[q].task] = Within(q)'
    <2>1. Leaf(q) /\ run[q].task \in Host
        BY <1>1, <1>3 DEF NestInv, Leaf
    <2>2. CASE run[q].task = run[r].task
        <3>1. q = r
            BY <2>1, <2>2, SoleLeaf
        <3> QED BY <1>2, <3>1
    <2>3. CASE run[q].task # run[r].task
        <3>1. q # r /\ sink'[run[q].task] = sink[run[q].task]
            BY <2>1, <2>3
        <3>2. sink[run[q].task] = Within(q)
            BY <2>1 DEF SinkInv
        <3> QED BY <1>1, <1>2, <3>1, <3>2
    <2> QED BY <2>2, <2>3
<1>4. ASSUME NEW t \in Host, ~Active(t)' PROVE sink'[t] = NoRun
    <2>1. ~Active(t)
        BY <1>1, <1>4, JudgingAssumption
    <2>2. t # run[r].task
        BY <2>1 DEF NestInv, Leaf
    <2> QED BY <2>1, <2>2 DEF SinkInv
<1>5. ASSUME NEW q \in Run, Scoped(q)' PROVE run'[q].token = run'[q].outer
    <2>1. CASE q = r
        BY <1>2, <1>5, <2>1
    <2>2. CASE q # r
        BY <1>1, <1>2, <1>5, <2>2 DEF SinkInv, Stays
    <2> QED BY <2>1, <2>2
<1> QED BY <1>1, <1>3, <1>4, <1>5 DEF SinkInv

\* What holds of the costs of one run.
Paid(q) ==
    /\ Scoped(q) => run[q].due = run[q].counted \cup buffer[q]
    /\ Scoped(q) \/ run[q].pc = "raised" \/ run[q].due = run[q].counted

LEMMA PaidIsDue == DueInv <=> bound = loose /\ \A q \in Run : Paid(q)
BY DEF DueInv, Paid

\* A record is owed by the attempt whose buffer it reaches.
LEMMA RecordOwed ==
    ASSUME Local, Stores, NestInv, NEW rank \in [Run -> Nat], Ranked(rank), SinkInv, DueInv,
           NEW r \in Run, Leaf(r), ~Scoped(r), NEW y \in RunState, Telling(r, y),
           y.up = run[r].up, y.task = run[r].task, y.outer = run[r].outer, y.pc # "idle"
    PROVE  /\ bound' = loose' /\ \A q \in Run \ {r} : Paid(q)'
           /\ run'[r] = y /\ Stays(r) /\ sink' = sink
<1>outer. PICK w : w = run[r].outer
    OBVIOUS
<1> DEFINE f == [run EXCEPT ![r] = y]
           d == run[w].due \cup Recorded(r)
           z == [run[w] EXCEPT !.due = d]
<1>1. Within(r) = w /\ Within(r) = Receives(r) /\ run[r].task \in Host
    <2>1. Within(r) = w /\ run[r].task \in Host
        BY <1>outer DEF Within, Leaf, NestInv
    <2> QED BY <2>1 DEF SinkInv, Receives, Context
<1>2. run \in [Run -> RunState] /\ w \in Run \cup {NoRun} /\ sink' = sink
    BY <1>outer DEF Local, RunState, Telling
<1>3. run' = Owed(f, r)
    BY DEF Telling
<1>4. CASE w = NoRun
    <2>1. run' = f /\ buffer' = buffer /\ bound' = bound \cup Recorded(r) /\ loose' = loose \cup Recorded(r)
        BY <1>1, <1>2, <1>3, <1>4, IdleFields DEF Owed, Telling, Emitted
    <2>2. run'[r] = y /\ \A q \in Run \ {r} : run'[q] = run[q]
        BY <1>2, <2>1
    <2>3. Stays(r)
        BY <2>2 DEF Stays, Active, Leaf
    <2>4. \A q \in Run \ {r} : Paid(q)'
        BY <2>1, <2>2 DEF DueInv, Paid, Scoped
    <2> QED BY <1>2, <2>1, <2>2, <2>3, <2>4 DEF DueInv
<1>5. CASE w \in Run
    <2>1. Scoped(w) /\ w # r /\ run[w].pc # "idle"
        BY <1>5, <1>outer DEF Ranked, Scoped
    <2>2. /\ buffer'[w] = buffer[w] \cup Recorded(r) /\ \A q \in Run \ {w} : buffer'[q] = buffer[q]
          /\ bound' = bound /\ loose' = loose
        BY <1>1, <1>5, IdleFields DEF Telling, Emitted, Stores
    <2>3. run'[r] = y /\ run'[w] = z /\ \A q \in Run \ {r, w} : run'[q] = run[q]
        BY <1>1, <1>2, <1>3, <1>5, <2>1 DEF Owed
    <2>4. /\ z.due = d /\ z.pc = run[w].pc /\ z.up = run[w].up /\ z.task = run[w].task
          /\ z.outer = run[w].outer /\ z.token = run[w].token /\ z.counted = run[w].counted
        BY <1>2, <1>5 DEF RunState
    <2> HIDE DEF z
    <2>5. Stays(r)
        BY <2>1, <2>3, <2>4 DEF Stays, Active, Leaf
    <2>6. \A q \in Run \ {r} : Paid(q)'
        <3>1. Paid(w)'
            BY <1>5, <2>1, <2>2, <2>3, <2>4 DEF DueInv, Paid, Scoped
        <3>2. \A q \in Run \ {r, w} : Paid(q)'
            BY <2>2, <2>3 DEF DueInv, Paid, Scoped
        <3> QED BY <3>1, <3>2
    <2> QED BY <1>2, <2>2, <2>3, <2>5, <2>6 DEF DueInv
<1> QED BY <1>2, <1>4, <1>5

LEMMA WorksKeeps == ASSUME JudgingInv, NEW r \in Run, Works(r) PROVE JudgingInv'
<1>1. Local /\ Stores /\ NestInv /\ SinkInv /\ DueInv
    BY DEF JudgingInv
<1>2. PICK rank \in [Run -> Nat] : Ranked(rank)
    BY DEF JudgingInv
<1>3. run[r].pc \in {"screening", "asking", "model", "tool"}
    BY DEF Works, Screen, ToolFails, GuardReplies, CallTool, ToolReturns, Answer
<1>4. Leaf(r) /\ run[r].task \in Host /\ ~Scoped(r) /\ Within(r) = run[r].outer
      /\ run[r].due = run[r].counted
    BY <1>1, <1>3, WorkerIsLeaf DEF Scoped, Within, DueInv
<1>5. PICK y : /\ Fit(r, y) /\ Frame(y, run[r]) /\ Place(r, y)
               /\ Silently(r, y) \/ Telling(r, y)
    BY <1>1, WorksFit
<1>6. y.pc \notin {"idle", "judging", "consulting"} /\ y \in RunState
    BY <1>5 DEF Place, Landed, Fit
<1>7. Local'
    BY <1>1, <1>5, MovesFit DEF Moves, Silently, Telling
<1>8. Stores'
    <2>1. CASE Silently(r, y)
        BY <1>1, <2>1 DEF Silently, Stores
    <2>2. CASE Telling(r, y)
        BY <1>1, <1>4, <2>2, EmittedStores DEF Telling, Stores
    <2> QED BY <1>5, <2>1, <2>2
<1>9. /\ bound' = loose' /\ \A q \in Run \ {r} : Paid(q)'
      /\ run'[r] = y /\ Stays(r) /\ sink' = sink
    <2>1. CASE Silently(r, y)
        <3>1. run'[r] = y /\ \A q \in Run \ {r} : run'[q] = run[q]
            BY <1>1, <2>1 DEF Silently, Local
        <3>2. Stays(r)
            BY <1>4, <1>5, <1>6, <3>1 DEF Frame, Stays, Active, Leaf
        <3>3. \A q \in Run \ {r} : Paid(q)'
            BY <1>1, <2>1, <3>1 DEF Silently, Paid, DueInv, Scoped
        <3> QED BY <1>1, <2>1, <3>1, <3>2, <3>3 DEF Silently, DueInv
    <2>2. CASE Telling(r, y)
        BY <1>1, <1>2, <1>4, <1>5, <1>6, <2>2, RecordOwed DEF Frame
    <2> QED BY <1>5, <2>1, <2>2
<1>10. Paid(r)'
    BY <1>4, <1>5, <1>6, <1>9 DEF Paid, Frame, Scoped
<1>11. ~Scoped(r)' /\ Within(r)' = run[r].outer
    BY <1>5, <1>6, <1>9 DEF Scoped, Within, Frame
<1>12. NestInv' /\ Ranked(rank)' /\ SinkInv'
    <2>1. sink'[run[r].task] = Within(r)' /\ \A t \in Host \ {run[r].task} : sink'[t] = sink[t]
        BY <1>1, <1>4, <1>9, <1>11 DEF SinkInv
    <2> QED BY <1>1, <1>2, <1>4, <1>9, <1>11, <2>1, LeafKeeps
<1>13. DueInv'
    BY <1>9, <1>10 DEF DueInv, Paid
<1> QED BY <1>2, <1>7, <1>8, <1>12, <1>13 DEF JudgingInv

\* r alone moves, to y: what is left to show of a step of a leaf.
LEMMA LeafSteps ==
    ASSUME JudgingInv, NEW r \in Run, Leaf(r), NEW y, Fit(r, y), run' = [run EXCEPT ![r] = y],
           y.up = run[r].up, y.task = run[r].task, y.outer = run[r].outer, y.pc # "idle",
           Stores', UNCHANGED <<bound, loose>>, \A q \in Run \ {r} : buffer'[q] = buffer[q],
           Paid(r)', sink'[run[r].task] = Within(r)',
           \A t \in Host \ {run[r].task} : sink'[t] = sink[t],
           Scoped(r)' => y.token = run[r].outer
    PROVE  JudgingInv'
<1>1. Local /\ Stores /\ NestInv /\ SinkInv /\ DueInv
    BY DEF JudgingInv
<1>2. PICK rank \in [Run -> Nat] : Ranked(rank)
    BY DEF JudgingInv
<1>3. Local'
    BY <1>1, MovesFit DEF Moves
<1>4. run'[r] = y /\ \A q \in Run \ {r} : run'[q] = run[q]
    BY <1>1 DEF Local
<1>5. Stays(r)
    BY <1>4 DEF Stays, Active, Leaf
<1>6. NestInv' /\ Ranked(rank)' /\ SinkInv'
    BY <1>1, <1>2, <1>4, <1>5, LeafKeeps
<1>7. \A q \in Run \ {r} : Paid(q)'
    BY <1>1, <1>4 DEF Paid, DueInv, Scoped
<1>8. DueInv'
    BY <1>1, <1>7 DEF DueInv, Paid
<1> QED BY <1>2, <1>3, <1>6, <1>8 DEF JudgingInv

LEMMA ValidateKeeps == ASSUME JudgingInv, NEW r \in Run, Validate(r) PROVE JudgingInv'
<1>1. Local /\ Stores /\ NestInv /\ SinkInv /\ DueInv
    BY DEF JudgingInv
<1>2. run[r].pc = "attempted"
    BY DEF Validate
<1>3. /\ Leaf(r) /\ run[r].task \in Host /\ run[r].due = run[r].counted
      /\ sink[run[r].task] = run[r].outer
    <2>1. Leaf(r) /\ run[r].task \in Host
        BY <1>1, <1>2, WorkerIsLeaf
    <2>2. run[r].due = run[r].counted
        BY <1>1, <1>2 DEF DueInv, Scoped
    <2> QED BY <1>1, <1>2, <2>1, <2>2 DEF SinkInv, Within, Scoped
<1>4. PICK y : /\ run' = [run EXCEPT ![r] = y] /\ Fit(r, y)
               /\ y.up = run[r].up /\ y.task = run[r].task /\ y.outer = run[r].outer
               /\ \/ /\ EnterScope(r) /\ y.pc \in {"judging", "consulting"}
                     /\ y.token = sink[run[r].task] /\ y.due = run[r].due
                     /\ y.counted = run[r].counted
                  \/ /\ UNCHANGED <<sink, buffer>>
                     /\ \/ y.pc = "returned" /\ y.due = run[r].due /\ y.counted = run[r].counted
                        \/ y.pc = "escalating" /\ y.due = {} /\ y.counted = {}
               /\ UNCHANGED <<bound, loose>>
    BY <1>1, <1>3, ValidateFit
<1>5. run'[r] = y
    BY <1>1, <1>4 DEF Local
<1>6. CASE EnterScope(r) /\ y.pc \in {"judging", "consulting"}
           /\ y.token = sink[run[r].task] /\ y.due = run[r].due /\ y.counted = run[r].counted
    <2>1. /\ sink' = [sink EXCEPT ![run[r].task] = r] /\ buffer' = [buffer EXCEPT ![r] = {}]
        BY <1>6 DEF EnterScope, Context, Fresh
    <2>2. Stores'
        BY <1>1, <1>3, <1>4, <2>1 DEF Stores
    <2>3. Scoped(r)' /\ Within(r)' = r
        BY <1>5, <1>6 DEF Scoped, Within
    <2>4. /\ \A q \in Run \ {r} : buffer'[q] = buffer[q]
          /\ sink'[run[r].task] = r /\ \A t \in Host \ {run[r].task} : sink'[t] = sink[t]
          /\ buffer'[r] = {}
        BY <1>1, <1>3, <2>1 DEF Stores
    <2>5. Paid(r)'
        BY <1>3, <1>5, <1>6, <2>3, <2>4 DEF Paid
    <2> QED BY <1>3, <1>4, <1>6, <2>2, <2>3, <2>4, <2>5, LeafSteps
<1>7. CASE /\ UNCHANGED <<sink, buffer>>
           /\ \/ y.pc = "returned" /\ y.due = run[r].due /\ y.counted = run[r].counted
              \/ y.pc = "escalating" /\ y.due = {} /\ y.counted = {}
    <2>1. Stores'
        BY <1>1, <1>4, <1>7 DEF Stores
    <2>2. ~Scoped(r)' /\ Within(r)' = run[r].outer
        BY <1>4, <1>5, <1>7 DEF Scoped, Within
    <2>3. Paid(r)'
        BY <1>3, <1>5, <1>7, <2>2 DEF Paid
    <2> QED BY <1>3, <1>4, <1>7, <2>1, <2>2, <2>3, LeafSteps
<1> QED BY <1>4, <1>6, <1>7

\* The scope is left: the sink that was active before it is active again.
LEMMA ScopeLeft ==
    ASSUME JudgingInv, NEW r \in Run, Scoped(r), run[r].task \in Host, LeaveScope(r)
    PROVE  /\ sink' \in [Host -> Run \cup {NoRun}] /\ sink'[run[r].task] = run[r].outer
           /\ \A t \in Host \ {run[r].task} : sink'[t] = sink[t]
<1>1. run[r].token = run[r].outer /\ run[r].outer \in Run \cup {NoRun}
    BY DEF JudgingInv, SinkInv, Local, RunState
<1> QED BY <1>1 DEF JudgingInv, Stores, LeaveScope, Context, Left

LEMMA JudgeRepliesKeeps ==
    ASSUME JudgingInv, NEW r \in Run, NEW reply \in Reply, JudgeReplies(r, reply)
    PROVE  JudgingInv'
<1>1. Local /\ Stores /\ NestInv /\ SinkInv /\ DueInv
    BY DEF JudgingInv
<1>2. run[r].pc = "judging" /\ Scoped(r) /\ Emitted(r) /\ LeaveScope(r)
    BY DEF JudgeReplies, Scoped
<1>3. Leaf(r) /\ run[r].task \in Host
    BY <1>1, <1>2, WorkerIsLeaf
<1>4. PICK y : /\ run' = [run EXCEPT ![r] = y] /\ Fit(r, y)
               /\ y.up = run[r].up /\ y.task = run[r].task /\ y.outer = run[r].outer
               /\ \/ y.pc = "returned" /\ y.due = run[r].due \cup Recorded(r)
                        /\ y.counted = run[r].counted \cup buffer'[r]
                  \/ y.pc = "escalating" /\ y.due = {} /\ y.counted = {}
    BY <1>1, <1>3, JudgeRepliesFit
<1>5. run'[r] = y /\ ~Scoped(r)' /\ Within(r)' = run[r].outer
    <2>1. run'[r] = y
        BY <1>1, <1>4 DEF Local
    <2> QED BY <1>4, <2>1 DEF Scoped, Within
<1>6. /\ sink' \in [Host -> Run \cup {NoRun}] /\ sink'[run[r].task] = run[r].outer
      /\ \A t \in Host \ {run[r].task} : sink'[t] = sink[t]
    BY <1>2, <1>3, ScopeLeft
<1>7. /\ Recorded(r) \in SUBSET Entry /\ Within(r) = r /\ Receives(r) = r /\ r # NoRun
    BY <1>1, <1>2, <1>3, EmittedStores, IdleFields DEF Within, SinkInv
<1>8. /\ buffer' = [buffer EXCEPT ![r] = @ \cup Recorded(r)] /\ UNCHANGED <<bound, loose>>
    BY <1>2, <1>7 DEF Emitted
<1>9. Stores' /\ \A q \in Run \ {r} : buffer'[q] = buffer[q]
    BY <1>1, <1>6, <1>7, <1>8 DEF Stores
<1>10. run[r].counted \cup buffer'[r] = run[r].due \cup Recorded(r)
    <2>1. run[r].due = run[r].counted \cup buffer[r]
        BY <1>1, <1>2 DEF DueInv
    <2>2. buffer'[r] = buffer[r] \cup Recorded(r)
        BY <1>1, <1>8 DEF Stores
    <2> QED BY <2>1, <2>2
<1>11. Paid(r)'
    BY <1>4, <1>5, <1>10 DEF Paid
<1> QED BY <1>3, <1>4, <1>5, <1>6, <1>8, <1>9, <1>11, LeafSteps

LEMMA RaiseKeeps == ASSUME JudgingInv, NEW r \in Run, Raise(r) PROVE JudgingInv'
<1>1. Local /\ Stores /\ NestInv /\ SinkInv /\ DueInv
    BY DEF JudgingInv
<1>2. run[r].pc \in {"model", "tool", "asking", "judging"} /\ UNCHANGED <<buffer, bound, loose>>
    BY DEF Raise
<1>3. Leaf(r) /\ run[r].task \in Host
    BY <1>1, <1>2, WorkerIsLeaf
<1>4. PICK y : /\ run' = [run EXCEPT ![r] = y] /\ Fit(r, y) /\ y.pc = "raised"
               /\ y.up = run[r].up /\ y.task = run[r].task /\ y.outer = run[r].outer
    BY <1>1, RaiseFit
<1>5. run'[r] = y /\ ~Scoped(r)' /\ Within(r)' = run[r].outer
    <2>1. run'[r] = y
        BY <1>1, <1>4 DEF Local
    <2> QED BY <1>4, <2>1 DEF Scoped, Within
<1>6. /\ sink' \in [Host -> Run \cup {NoRun}] /\ sink'[run[r].task] = run[r].outer
      /\ \A t \in Host \ {run[r].task} : sink'[t] = sink[t]
    <2>1. CASE Scoped(r)
        BY <1>3, <2>1, ScopeLeft DEF Raise
    <2>2. CASE ~Scoped(r)
        <3>1. sink' = sink
            BY <2>2 DEF Raise
        <3> QED BY <1>1, <1>3, <2>2, <3>1 DEF SinkInv, Within, Stores
    <2> QED BY <2>1, <2>2
<1>7. Paid(r)'
    BY <1>4, <1>5 DEF Paid
<1>8. Stores'
    BY <1>1, <1>2, <1>6 DEF Stores
<1> QED BY <1>2, <1>3, <1>4, <1>5, <1>6, <1>7, <1>8, LeafSteps

\* An idle run is nobody's parent, judges nothing and is in no task.
LEMMA IdleInv ==
    ASSUME NestInv, NEW rank \in [Run -> Nat], Ranked(rank), NEW c \in Run, run[c].pc = "idle"
    PROVE  /\ Nested(c) = {} /\ ~Scoped(c) /\ run[c] = Idle
           /\ \A q \in Run : run[q].up # c /\ run[q].outer # c
BY DEF NestInv, Ranked, Nested, Scoped, Active

LEMMA BeginKeeps ==
    ASSUME JudgingInv, NEW t \in Host, NEW text \in SUBSET Trait, Begin(t, text)
    PROVE  JudgingInv'
<1>1. Local /\ Stores /\ NestInv /\ SinkInv /\ DueInv
    BY DEF JudgingInv
<1>2. PICK rank \in [Run -> Nat] : Ranked(rank)
    BY DEF JudgingInv
<1> DEFINE y == Meets([Idle EXCEPT !.task = t], "input", text)
<1>3. /\ run' = [run EXCEPT ![t] = y] /\ Local'
      /\ y.pc = "screening" /\ y.up = NoRun /\ y.task = t /\ y.outer = NoRun
      /\ y.token = NoRun /\ y.due = {} /\ y.counted = {}
    BY <1>1, BeginFit
<1> HIDE DEF y
<1>4. /\ t \in Run /\ run[t].pc = "idle" /\ UNCHANGED <<sink, buffer, bound, loose>>
    BY JudgingAssumption DEF Begin
<1>5. run'[t] = y /\ \A q \in Run \ {t} : run'[q] = run[q]
    BY <1>1, <1>3, <1>4 DEF Local
<1>6. /\ Nested(t) = {} /\ ~Scoped(t) /\ run[t] = Idle
      /\ \A q \in Run : run[q].up # t /\ run[q].outer # t
    BY <1>1, <1>2, <1>4, IdleInv
<1>7. \A q \in Run : Active(q) => run[q].task # t
    BY <1>1, <1>4 DEF NestInv, Active
<1>8. /\ \A q \in Run \ {t} : (Active(q)' <=> Active(q)) /\ (Scoped(q)' <=> Scoped(q))
                              /\ Within(q)' = Within(q)
      /\ Active(t)' /\ ~Scoped(t)' /\ Within(t)' = NoRun
    BY <1>3, <1>5 DEF Active, Scoped, Within
<1>9. \A q \in Run : Nested(q)' = Nested(q)
    BY <1>3, <1>5, <1>6, IdleFields DEF Nested
<1>10. \A q \in Run \ {t} : Leaf(q)' <=> Leaf(q)
    BY <1>8, <1>9 DEF Leaf
<1>11. NestInv'
    <2>1. \A q \in Run : Active(q)' \/ run'[q] = Idle
        BY <1>1, <1>5, <1>8 DEF NestInv
    <2>2. ASSUME NEW q \in Run, NEW s, Active(q)', run'[q].task = s
          PROVE  /\ s \in Host /\ Active(s)'
                 /\ run'[q].up = NoRun => q = s /\ run'[q].outer = NoRun
        <3>1. CASE q = t
            BY <1>3, <1>5, <1>8, <2>2, <3>1
        <3>2. CASE q # t
            <4>1. Active(q) /\ run[q].task = s /\ run'[q] = run[q]
                BY <1>5, <1>8, <2>2, <3>2
            <4>2. s \in Host /\ Active(s) /\ (run[q].up = NoRun => q = s /\ run[q].outer = NoRun)
                BY <1>1, <4>1 DEF NestInv
            <4>3. Active(s)'
                BY <1>8, <4>2, JudgingAssumption
            <4> QED BY <4>1, <4>2, <4>3
        <3> QED BY <3>1, <3>2
    <2>3. ASSUME NEW c \in Run, NEW p \in Run, run'[c].up = p
          PROVE  /\ run'[p].pc \in {"escalating", "consulting"} /\ c \in Sub[p]
                 /\ run'[p].task = run'[c].task /\ run'[c].outer = Within(p)'
        <3>1. c # t /\ p # t /\ run[c].up = p
            BY <1>3, <1>5, <1>6, <2>3, IdleFields
        <3> QED BY <1>1, <1>5, <1>8, <3>1 DEF NestInv
    <2>4. \A c, d, p \in Run : run'[c].up = p /\ run'[d].up = p => c = d
        BY <1>1, <1>3, <1>5, IdleFields DEF NestInv
    <2> QED BY <2>1, <2>2, <2>3, <2>4 DEF NestInv
<1>12. Ranked(rank)'
    <2>1. \A c, p \in Run : run'[c].up = p => rank[c] = rank[p] + 1
        BY <1>2, <1>3, <1>5, IdleFields DEF Ranked
    <2>2. ASSUME NEW q \in Run, NEW s \in Run, Active(q)', Active(s)', run'[q].task = run'[s].task
          PROVE  (rank[q] = rank[s] => q = s) /\ (Leaf(q)' => rank[s] <= rank[q])
        <3>1. CASE q = t \/ s = t
            <4>1. q = s
                BY <1>3, <1>5, <1>7, <1>8, <2>2, <3>1
            <4> QED BY <4>1
        <3>2. CASE q # t /\ s # t
            BY <1>2, <1>5, <1>8, <1>10, <2>2, <3>2 DEF Ranked
        <3> QED BY <3>1, <3>2
    <2>3. ASSUME NEW s \in Run, NEW q \in Run, run'[s].outer = q
          PROVE  Scoped(q)' /\ run'[q].task = run'[s].task /\ rank[q] < rank[s]
        <3>1. s # t /\ run[s].outer = q /\ q # t
            BY <1>3, <1>5, <1>6, <2>3, IdleFields
        <3> QED BY <1>2, <1>5, <1>8, <3>1 DEF Ranked
    <2> QED BY <2>1, <2>2, <2>3 DEF Ranked
<1>13. SinkInv'
    <2>1. sink[t] = NoRun
        BY <1>1, <1>4 DEF SinkInv, Active
    <2>2. \A q \in Run : Leaf(q)' => sink'[run'[q].task] = Within(q)'
        BY <1>1, <1>3, <1>4, <1>5, <1>8, <1>10, <2>1 DEF SinkInv
    <2>3. \A s \in Host : ~Active(s)' => sink'[s] = NoRun
        BY <1>1, <1>4, <1>8, JudgingAssumption DEF SinkInv
    <2>4. \A q \in Run : Scoped(q)' => run'[q].token = run'[q].outer
        BY <1>1, <1>5, <1>8 DEF SinkInv
    <2> QED BY <2>2, <2>3, <2>4 DEF SinkInv
<1>14. DueInv'
    <2>1. Paid(t)'
        BY <1>3, <1>5, <1>8 DEF Paid
    <2>2. \A q \in Run \ {t} : Paid(q)'
        BY <1>1, <1>4, <1>5, <1>8 DEF Paid, DueInv
    <2> QED BY <1>1, <1>4, <2>1, <2>2 DEF DueInv, Paid
<1>15. Stores'
    BY <1>1, <1>4 DEF Stores
<1> QED BY <1>2, <1>3, <1>11, <1>12, <1>13, <1>14, <1>15 DEF JudgingInv

\* The run that is awaited becomes the deepest of its task.
LEMMA NestKeeps ==
    ASSUME JudgingInv, NEW r \in Run, NEW c \in Sub[r], NEW text \in SUBSET Trait, Nest(r, c, text)
    PROVE  JudgingInv'
<1>1. Local /\ Stores /\ NestInv /\ SinkInv /\ DueInv
    BY DEF JudgingInv
<1>2. PICK rank \in [Run -> Nat] : Ranked(rank)
    BY DEF JudgingInv
<1> DEFINE y == run'[c]
           deeper == [rank EXCEPT ![c] = rank[r] + 1]
<1>3. /\ run' = [run EXCEPT ![c] = y] /\ Local' /\ c \in Run
      /\ y.pc = "screening" /\ y.up = r /\ y.task = run[r].task /\ y.outer = Within(r)
      /\ y.token = NoRun /\ y.due = {} /\ y.counted = {}
    BY <1>1, NestFit
<1> HIDE DEF y
<1>4. /\ run[r].pc \in {"escalating", "consulting"} /\ Nested(r) = {} /\ run[c].pc = "idle"
      /\ UNCHANGED <<sink, buffer, bound, loose>> /\ c # r
    BY DEF Nest
<1>5. run'[c] = y /\ \A q \in Run \ {c} : run'[q] = run[q]
    BY <1>1, <1>3 DEF Local, y
<1>6. /\ Nested(c) = {} /\ ~Scoped(c) /\ run[c] = Idle
      /\ \A q \in Run : run[q].up # c /\ run[q].outer # c
    BY <1>1, <1>2, <1>3, <1>4, IdleInv
<1>7. Leaf(r) /\ Active(run[r].task) /\ run[r].task \in Host
    BY <1>1, <1>4 DEF Leaf, Active, NestInv
<1>8. /\ \A q \in Run \ {c} : (Active(q)' <=> Active(q)) /\ (Scoped(q)' <=> Scoped(q))
                              /\ Within(q)' = Within(q)
      /\ Active(c)' /\ ~Scoped(c)' /\ Within(c)' = Within(r)
    BY <1>3, <1>5 DEF Active, Scoped, Within
<1>9. /\ \A q \in Run \ {r} : Nested(q)' = Nested(q)
      /\ Nested(r)' = {c}
    BY <1>3, <1>4, <1>5, <1>6, IdleFields DEF Nested
<1>10. /\ \A q \in Run \ {c, r} : Leaf(q)' <=> Leaf(q)
       /\ ~Leaf(r)'
    BY <1>8, <1>9 DEF Leaf
<1>11. NestInv'
    <2>1. \A q \in Run : Active(q)' \/ run'[q] = Idle
        BY <1>1, <1>5, <1>8 DEF NestInv
    <2>2. ASSUME NEW q \in Run, NEW s, Active(q)', run'[q].task = s
          PROVE  /\ s \in Host /\ Active(s)'
                 /\ run'[q].up = NoRun => q = s /\ run'[q].outer = NoRun
        <3>1. \A t \in Host : Active(t) => Active(t)'
            BY <1>8, JudgingAssumption
        <3>2. CASE q = c
            BY <1>3, <1>5, <1>7, <2>2, <3>1, <3>2, IdleFields
        <3>3. CASE q # c
            <4>1. Active(q) /\ run[q].task = s /\ run'[q] = run[q]
                BY <1>5, <1>8, <2>2, <3>3
            <4>2. s \in Host /\ Active(s) /\ (run[q].up = NoRun => q = s /\ run[q].outer = NoRun)
                BY <1>1, <4>1 DEF NestInv
            <4> QED BY <3>1, <4>1, <4>2
        <3> QED BY <3>2, <3>3
    <2>3. ASSUME NEW d \in Run, NEW p \in Run, run'[d].up = p
          PROVE  /\ run'[p].pc \in {"escalating", "consulting"} /\ d \in Sub[p]
                 /\ run'[p].task = run'[d].task /\ run'[d].outer = Within(p)'
        <3>1. CASE d = c
            BY <1>3, <1>4, <1>5, <1>8, <2>3, <3>1
        <3>2. CASE d # c
            <4>1. p # c /\ run[d].up = p
                BY <1>5, <1>6, <2>3, <3>2
            <4> QED BY <1>1, <1>5, <1>8, <3>2, <4>1 DEF NestInv
        <3> QED BY <3>1, <3>2
    <2>4. ASSUME NEW d \in Run, NEW e \in Run, NEW p \in Run, run'[d].up = p, run'[e].up = p
          PROVE  d = e
        <3>1. \A q \in Run \ {c} : run'[q].up # r
            BY <1>4, <1>5 DEF Nested
        <3> QED BY <1>1, <1>3, <1>5, <2>4, <3>1 DEF NestInv
    <2> QED BY <2>1, <2>2, <2>3, <2>4 DEF NestInv
<1>12. deeper \in [Run -> Nat] /\ deeper[c] = rank[r] + 1 /\ \A q \in Run \ {c} : deeper[q] = rank[q]
    BY <1>3
<1>13. Ranked(deeper)'
    <2> HIDE DEF deeper
    <2>1. ASSUME NEW d \in Run, NEW p \in Run, run'[d].up = p
          PROVE  deeper[d] = deeper[p] + 1
        <3>1. CASE d = c
            BY <1>3, <1>4, <1>5, <1>12, <2>1, <3>1
        <3>2. CASE d # c
            <4>1. p # c /\ run[d].up = p
                BY <1>5, <1>6, <2>1, <3>2
            <4> QED BY <1>2, <1>12, <3>2, <4>1 DEF Ranked
        <3> QED BY <3>1, <3>2
    <2>2. \A q \in Run \ {c} : Active(q)' /\ run'[q].task = run[r].task =>
             rank[q] <= rank[r] /\ ~Leaf(q)'
        <3> SUFFICES ASSUME NEW q \in Run \ {c}, Active(q)', run'[q].task = run[r].task
                     PROVE  rank[q] <= rank[r] /\ ~Leaf(q)'
            OBVIOUS
        <3>1. Active(q) /\ run[q].task = run[r].task /\ Active(r)
            BY <1>5, <1>7, <1>8 DEF Leaf
        <3>2. rank[q] <= rank[r]
            BY <1>2, <1>7, <3>1 DEF Ranked
        <3>3. ~Leaf(q)'
            <4>1. q # r /\ Leaf(q)' => Leaf(q)
                BY <1>10
            <4> QED BY <1>2, <1>7, <1>10, <3>1, <4>1, SoleLeaf
        <3> QED BY <3>2, <3>3
    <2>3. ASSUME NEW q \in Run, NEW s \in Run, Active(q)', Active(s)', run'[q].task = run'[s].task
          PROVE  (deeper[q] = deeper[s] => q = s) /\ (Leaf(q)' => deeper[s] <= deeper[q])
        <3>1. CASE q = c /\ s = c
            BY <1>12, <3>1
        <3>2. CASE q = c /\ s # c
            <4>1. rank[s] <= rank[r]
                BY <1>3, <1>5, <2>2, <2>3, <3>2
            <4> QED BY <1>12, <3>2, <4>1
        <3>3. CASE q # c /\ s = c
            <4>1. rank[q] <= rank[r] /\ ~Leaf(q)'
                BY <1>3, <1>5, <2>2, <2>3, <3>3
            <4> QED BY <1>12, <3>3, <4>1
        <3>4. CASE q # c /\ s # c
            <4>1. Active(q) /\ Active(s) /\ run[q].task = run[s].task /\ (Leaf(q)' => Leaf(q))
                BY <1>5, <1>8, <1>10, <2>3, <3>4
            <4> QED BY <1>2, <1>12, <3>4, <4>1 DEF Ranked
        <3> QED BY <3>1, <3>2, <3>3, <3>4
    <2>4. ASSUME NEW s \in Run, NEW q \in Run, run'[s].outer = q
          PROVE  Scoped(q)' /\ run'[q].task = run'[s].task /\ deeper[q] < deeper[s]
        <3>1. CASE s = c
            <4>1. q = Within(r)
                BY <1>3, <1>5, <2>4, <3>1
            <4>2. Scoped(q) /\ run[q].task = run[r].task /\ rank[q] <= rank[r]
                BY <1>2, <4>1 DEF Within, Ranked
            <4>3. q # c
                BY <1>6, <4>2
            <4> QED BY <1>3, <1>5, <1>8, <1>12, <3>1, <4>2, <4>3
        <3>2. CASE s # c
            <4>1. run[s].outer = q /\ q # c
                BY <1>5, <1>6, <2>4, <3>2
            <4>2. Scoped(q) /\ run[q].task = run[s].task /\ rank[q] < rank[s]
                BY <1>2, <4>1 DEF Ranked
            <4> QED BY <1>5, <1>8, <1>12, <3>2, <4>1, <4>2
        <3> QED BY <3>1, <3>2
    <2> QED BY <2>1, <2>3, <2>4 DEF Ranked
<1>14. SinkInv'
    <2>1. ASSUME NEW q \in Run, Leaf(q)' PROVE sink'[run'[q].task] = Within(q)'
        <3>1. CASE q = c
            <4>1. sink[run[r].task] = Within(r)
                BY <1>1, <1>7 DEF SinkInv
            <4> QED BY <1>3, <1>4, <1>5, <1>8, <3>1, <4>1
        <3>2. CASE q # c
            BY <1>1, <1>4, <1>5, <1>8, <1>10, <2>1, <3>2 DEF SinkInv
        <3> QED BY <3>1, <3>2
    <2>2. \A s \in Host : ~Active(s)' => sink'[s] = NoRun
        BY <1>1, <1>4, <1>8, JudgingAssumption DEF SinkInv
    <2>3. \A q \in Run : Scoped(q)' => run'[q].token = run'[q].outer
        BY <1>1, <1>5, <1>8 DEF SinkInv
    <2> QED BY <2>1, <2>2, <2>3 DEF SinkInv
<1>15. DueInv'
    <2>1. Paid(c)'
        BY <1>3, <1>5, <1>8 DEF Paid
    <2>2. \A q \in Run \ {c} : Paid(q)'
        BY <1>1, <1>4, <1>5, <1>8 DEF Paid, DueInv
    <2> QED BY <1>1, <1>4, <2>1, <2>2 DEF DueInv, Paid
<1>16. Stores'
    BY <1>1, <1>4 DEF Stores
<1> HIDE DEF deeper
<1> QED BY <1>3, <1>11, <1>12, <1>13, <1>14, <1>15, <1>16 DEF JudgingInv

\* The run that was awaited is gone: who awaited it is the deepest of the task again.
LEMMA CollectKeeps == ASSUME JudgingInv, NEW r \in Run, Collect(r) PROVE JudgingInv'
<1>1. Local /\ Stores /\ NestInv /\ SinkInv /\ DueInv
    BY DEF JudgingInv
<1>2. PICK rank \in [Run -> Nat] : Ranked(rank)
    BY DEF JudgingInv
<1>3. Awaited
    BY <1>1 DEF Awaited, NestInv
<1>taken. PICK c \in Nested(r) : \E y : Collected(r, c, y)
    BY <1>1, <1>3, CollectFit
<1>moved. PICK y : Collected(r, c, y)
    BY <1>taken
<1>4. /\ c # r /\ run[c].pc \in Over /\ run[r].pc \in {"escalating", "consulting"}
      /\ run' = [[run EXCEPT ![c] = Idle] EXCEPT ![r] = y] /\ Fit(r, y)
      /\ y.up = run[r].up /\ y.task = run[r].task /\ y.outer = run[r].outer
      /\ \/ y.pc = "raised"
         \/ Scoped(r) /\ y.pc = "returned" /\ y.due = run[r].due
          /\ y.counted = run[r].counted \cup buffer[r]
         \/ y.pc = "escalating" /\ y.due = {} /\ y.counted = {}
         \/ /\ ~Scoped(r) /\ run[c].pc = "returned" /\ y.pc = "attempted"
            /\ y.due = run[c].due /\ y.counted = run[c].counted
    BY <1>moved DEF Collected
<1>5. /\ c \in Run /\ run[c].up = r /\ UNCHANGED <<buffer, bound, loose>>
      /\ IF Scoped(r) THEN LeaveScope(r) ELSE UNCHANGED sink
    BY <1>4 DEF Nested, Collect
<1>6. run'[r] = y /\ run'[c] = Idle /\ \A q \in Run \ {r, c} : run'[q] = run[q]
    BY <1>1, <1>4, <1>5 DEF Local
<1>7. Local'
    <2>1. Idle \in RunState /\ Fit(c, Idle) /\ y \in RunState
        BY <1>4, <1>5, IdleFit DEF Fit
    <2>2. run' \in [Run -> RunState]
        BY <1>1, <1>4, <2>1 DEF Local
    <2>3. ASSUME NEW q \in Run PROVE Fit(q, run'[q])
        BY <1>1, <1>4, <1>6, <2>1 DEF Local
    <2> QED BY <2>2, <2>3 DEF Local
<1>8. /\ Nested(c) = {} /\ ~Scoped(c) /\ Leaf(c) /\ Active(r) /\ Active(c)
      /\ run[c].task = run[r].task /\ run[r].task \in Host /\ Active(run[r].task)
      /\ run[c].outer = Within(r) /\ c \notin Host
      /\ \A q \in Run : run[q].up # c /\ run[q].outer # c
    <2>1. Nested(c) = {} /\ ~Scoped(c) /\ Active(c) /\ Active(r)
        BY <1>1, <1>4 DEF NestInv, Nested, Scoped, Active, Over
    <2>2. /\ run[c].task = run[r].task /\ run[r].task \in Host /\ Active(run[r].task)
          /\ run[c].outer = Within(r) /\ c \in Sub[r]
        BY <1>1, <1>5, <2>1 DEF NestInv
    <2>3. \A q \in Run : run[q].up # c /\ run[q].outer # c
        BY <1>2, <1>5, <2>1 DEF Nested, Ranked
    <2> QED BY <2>1, <2>2, <2>3, JudgingAssumption DEF Leaf
<1>9. Nested(r) = {c} /\ rank[c] = rank[r] + 1
    BY <1>1, <1>2, <1>5 DEF Nested, NestInv, Ranked
<1>10. y.pc \notin {"idle", "judging", "consulting"}
    BY <1>4
<1>11. /\ \A q \in Run \ {r, c} : (Active(q)' <=> Active(q)) /\ (Scoped(q)' <=> Scoped(q))
                                  /\ Within(q)' = Within(q)
       /\ Active(r)' /\ ~Active(c)' /\ ~Scoped(r)' /\ ~Scoped(c)' /\ Within(r)' = run[r].outer
    <2>1. /\ Active(r)' /\ ~Active(c)' /\ ~Scoped(r)' /\ ~Scoped(c)'
          /\ Within(r)' = run[r].outer
        <3>1. run'[r].pc = y.pc /\ run'[r].outer = run[r].outer /\ run'[c].pc = "idle"
            BY <1>4, <1>6, IdleFields
        <3> QED BY <1>10, <3>1 DEF Active, Scoped, Within
    <2> QED BY <1>6, <2>1 DEF Active, Scoped, Within
<1>12. /\ \A q \in Run \ {r} : Nested(q)' = Nested(q)
       /\ Nested(r)' = {}
    <2>1. /\ \A q \in Run \ {c} : run'[q].up = run[q].up
          /\ run'[c].up = NoRun /\ run[c].up = r /\ NoRun \notin Run
        BY <1>4, <1>5, <1>6, IdleFields
    <2>2. \A q \in Run : run[q].up = r => q = c
        BY <1>9 DEF Nested
    <2> QED BY <2>1, <2>2 DEF Nested
<1>13. \A q \in Run \ {r, c} : Leaf(q)' <=> Leaf(q)
    BY <1>11, <1>12 DEF Leaf
<1>14. NestInv'
    <2>1. \A q \in Run : Active(q)' \/ run'[q] = Idle
        BY <1>1, <1>6, <1>11 DEF NestInv
    <2>2. ASSUME NEW q \in Run, NEW s, Active(q)', run'[q].task = s
          PROVE  /\ s \in Host /\ Active(s)'
                 /\ run'[q].up = NoRun => q = s /\ run'[q].outer = NoRun
        <3>1. /\ Active(q) /\ run[q].task = s /\ run'[q].up = run[q].up
              /\ run'[q].outer = run[q].outer
            BY <1>4, <1>6, <1>8, <1>11, <2>2
        <3>2. s \in Host /\ Active(s) /\ (run[q].up = NoRun => q = s /\ run[q].outer = NoRun)
            BY <1>1, <3>1 DEF NestInv
        <3>3. s \in Run /\ s # c
            BY <1>8, <3>2, JudgingAssumption
        <3>4. Active(s)'
            BY <1>11, <3>2, <3>3
        <3> QED BY <3>1, <3>2, <3>4
    <2>3. ASSUME NEW d \in Run, NEW p \in Run, run'[d].up = p
          PROVE  /\ run'[p].pc \in {"escalating", "consulting"} /\ d \in Sub[p]
                 /\ run'[p].task = run'[d].task /\ run'[d].outer = Within(p)'
        <3>1. d # c /\ run[d].up = p /\ run'[d].task = run[d].task /\ run'[d].outer = run[d].outer
            BY <1>4, <1>6, <2>3, IdleFields
        <3>2. p # c /\ p # r
            BY <1>8, <1>9, <3>1 DEF Nested
        <3> QED BY <1>1, <1>6, <1>11, <3>1, <3>2 DEF NestInv
    <2>4. ASSUME NEW d \in Run, NEW e \in Run, NEW p \in Run, run'[d].up = p, run'[e].up = p
          PROVE  d = e
        <3>1. run[d].up = p /\ run[e].up = p
            BY <1>4, <1>6, <2>4, IdleFields
        <3> QED BY <1>1, <3>1 DEF NestInv
    <2> QED BY <2>1, <2>2, <2>3, <2>4 DEF NestInv
<1>15. Ranked(rank)'
    <2>1. ASSUME NEW d \in Run, NEW p \in Run, run'[d].up = p
          PROVE  rank[d] = rank[p] + 1
        <3>1. run[d].up = p
            BY <1>4, <1>6, <2>1, IdleFields
        <3> QED BY <1>2, <3>1 DEF Ranked
    <2>2. ASSUME NEW q \in Run, NEW s \in Run, Active(q)', Active(s)', run'[q].task = run'[s].task
          PROVE  (rank[q] = rank[s] => q = s) /\ (Leaf(q)' => rank[s] <= rank[q])
        <3>1. /\ q # c /\ s # c /\ Active(q) /\ Active(s) /\ run[q].task = run[s].task
            BY <1>4, <1>6, <1>8, <1>11, <2>2
        <3>2. rank[q] = rank[s] => q = s
            BY <1>2, <3>1 DEF Ranked
        <3>3. CASE q = r
            <4>1. run[s].task = run[c].task
                BY <1>8, <3>1, <3>3
            <4>2. rank[s] <= rank[c] /\ rank[s] # rank[c]
                BY <1>2, <1>5, <1>8, <3>1, <4>1 DEF Ranked
            <4>3. rank[s] \in Nat /\ rank[c] \in Nat /\ rank[r] \in Nat
                BY <1>5
            <4> QED BY <1>9, <3>2, <3>3, <4>2, <4>3
        <3>4. CASE q # r
            <4>1. Leaf(q)' => Leaf(q)
                BY <1>13, <3>1, <3>4
            <4> QED BY <1>2, <3>1, <3>2, <4>1 DEF Ranked
        <3> QED BY <3>3, <3>4
    <2>3. ASSUME NEW s \in Run, NEW q \in Run, run'[s].outer = q
          PROVE  Scoped(q)' /\ run'[q].task = run'[s].task /\ rank[q] < rank[s]
        <3>1. s # c /\ run[s].outer = q /\ run'[s].task = run[s].task
            BY <1>4, <1>6, <2>3, IdleFields
        <3>2. Scoped(q) /\ run[q].task = run[s].task /\ rank[q] < rank[s] /\ q # c
            BY <1>2, <1>8, <3>1 DEF Ranked
        <3>3. q # r
            <4> SUFFICES ASSUME q = r PROVE FALSE
                OBVIOUS
            <4>1. Active(s)
                BY <1>1, <3>1, IdleFields DEF NestInv
            <4>2. run[s].task = run[c].task
                BY <1>8, <3>2
            <4>3. rank[s] <= rank[c] /\ rank[s] # rank[c]
                BY <1>2, <1>5, <1>8, <3>1, <4>1, <4>2 DEF Ranked
            <4>4. rank[s] \in Nat /\ rank[c] \in Nat /\ rank[r] \in Nat
                BY <1>5
            <4> QED BY <1>9, <3>2, <4>3, <4>4
        <3> QED BY <1>6, <1>11, <3>1, <3>2, <3>3
    <2> QED BY <2>1, <2>2, <2>3 DEF Ranked
<1>16. /\ sink' \in [Host -> Run \cup {NoRun}] /\ sink'[run[r].task] = run[r].outer
       /\ \A s \in Host \ {run[r].task} : sink'[s] = sink[s]
    <2>1. CASE Scoped(r)
        BY <1>5, <1>8, <2>1, ScopeLeft
    <2>2. CASE ~Scoped(r)
        <3>1. sink' = sink /\ sink[run[c].task] = Within(c) /\ Within(r) = run[r].outer
              /\ Within(c) = run[c].outer
            BY <1>1, <1>5, <1>8, <2>2 DEF SinkInv, Within
        <3> QED BY <1>1, <1>8, <3>1 DEF Stores
    <2> QED BY <2>1, <2>2
<1>17. SinkInv'
    <2>1. ASSUME NEW q \in Run, Leaf(q)' PROVE sink'[run'[q].task] = Within(q)'
        <3>1. CASE q = r
            BY <1>4, <1>6, <1>11, <1>16, <3>1
        <3>2. CASE q # r
            <4>1. q # c /\ Leaf(q) /\ run'[q].task = run[q].task
                BY <1>6, <1>11, <1>13, <2>1, <3>2 DEF Leaf
            <4>2. run[q].task # run[r].task
                BY <1>2, <1>5, <1>8, <4>1, SoleLeaf
            <4>3. run[q].task \in Host /\ sink[run[q].task] = Within(q)
                BY <1>1, <4>1 DEF SinkInv, NestInv, Leaf
            <4> QED BY <1>11, <1>16, <3>2, <4>1, <4>2, <4>3
        <3> QED BY <3>1, <3>2
    <2>2. ASSUME NEW s \in Host, ~Active(s)' PROVE sink'[s] = NoRun
        <3>1. s \in Run /\ s # c /\ s # r
            BY <1>8, <1>11, <2>2, JudgingAssumption
        <3>2. ~Active(s) /\ s # run[r].task
            BY <1>8, <1>11, <2>2, <3>1
        <3> QED BY <1>1, <1>16, <3>2 DEF SinkInv
    <2>3. \A q \in Run : Scoped(q)' => run'[q].token = run'[q].outer
        BY <1>1, <1>6, <1>11 DEF SinkInv
    <2> QED BY <2>1, <2>2, <2>3 DEF SinkInv
<1>18. DueInv'
    <2>1. Paid(c)'
        BY <1>6, <1>11, IdleFields DEF Paid
    <2>2. Paid(r)'
        <3>1. Scoped(r) => run[r].due = run[r].counted \cup buffer[r]
            BY <1>1 DEF DueInv
        <3>2. run[c].pc = "returned" => run[c].due = run[c].counted
            BY <1>1, <1>5 DEF DueInv, Scoped
        <3> QED BY <1>4, <1>6, <1>11, <3>1, <3>2 DEF Paid
    <2>3. \A q \in Run \ {r, c} : Paid(q)'
        BY <1>1, <1>5, <1>6, <1>11 DEF Paid, DueInv
    <2> QED BY <1>1, <1>5, <2>1, <2>2, <2>3 DEF DueInv, Paid
<1>19. Stores'
    BY <1>1, <1>5, <1>16 DEF Stores
<1> QED BY <1>2, <1>7, <1>14, <1>15, <1>17, <1>18, <1>19 DEF JudgingInv

LEMMA JudgingInitInv == JudgingInit => JudgingInv
<1> SUFFICES ASSUME JudgingInit PROVE JudgingInv
    OBVIOUS
<1>1. \A q \in Run : run[q] = Idle
    BY DEF JudgingInit
<1>2. Local
    <2>1. \A q \in Run : Fit(q, run[q]) /\ Idle \in RunState
        BY <1>1, IdleFit DEF Fit
    <2> QED BY <2>1 DEF Local, JudgingInit
<1>3. Stores
    BY DEF Stores, JudgingInit
<1>4. \A q \in Run : ~Active(q) /\ ~Scoped(q) /\ run[q].up = NoRun /\ run[q].outer = NoRun
    BY <1>1, IdleFields DEF Active, Scoped
<1>5. NestInv
    BY <1>1, <1>4, IdleFields DEF NestInv
<1>6. SinkInv
    BY <1>4 DEF SinkInv, Leaf, JudgingInit
<1>7. DueInv
    BY <1>1, <1>4, IdleFields DEF DueInv, JudgingInit
<1>8. Ranked([q \in Run |-> 0])
    BY <1>4, IdleFields DEF Ranked
<1> QED BY <1>2, <1>3, <1>5, <1>6, <1>7, <1>8 DEF JudgingInv

LEMMA JudgingNextInv == JudgingInv /\ [JudgingNext]_judgingVars => JudgingInv'
<1> SUFFICES ASSUME JudgingInv, [JudgingNext]_judgingVars PROVE JudgingInv'
    OBVIOUS
<1>1. ASSUME NEW s \in Stage, NEW q \in Run PROVE Text[q][s] \subseteq SUBSET Trait
    BY JudgingAssumption
<1>2. ASSUME NEW t \in Host, NEW x \in Text[t]["input"], Begin(t, x) PROVE JudgingInv'
    <2>1. x \in SUBSET Trait
        BY <1>1, <1>2, JudgingAssumption DEF Stage
    <2> QED BY <1>2, <2>1, BeginKeeps
<1>3. ASSUME NEW r \in Run, Does(r) PROVE JudgingInv'
    <2>1. ASSUME NEW c \in Sub[r], NEW x \in Text[c]["input"], Nest(r, c, x) PROVE JudgingInv'
        <3>1. x \in SUBSET Trait
            BY <1>1, <2>1, JudgingAssumption DEF Stage
        <3> QED BY <2>1, <3>1, NestKeeps
    <2> QED BY <1>3, <2>1, WorksKeeps, ValidateKeeps, CollectKeeps, JudgeRepliesKeeps
            DEF Does, Works
<1>4. ASSUME NEW r \in Run, Raise(r) PROVE JudgingInv'
    BY <1>4, RaiseKeeps
<1>5. CASE UNCHANGED judgingVars
    BY <1>5 DEF judgingVars, JudgingInv, Local, Stores, NestInv, SinkInv, DueInv, Ranked,
                Active, Leaf, Nested, Scoped, Within
<1> QED BY <1>2, <1>3, <1>4, <1>5 DEF JudgingNext

LEMMA JudgingInvariance == JudgingSpec => []JudgingInv
BY JudgingInitInv, JudgingNextInv, PTL DEF JudgingSpec

\* The runs, the active sinks and the buffers keep their types, and no cascade makes more
\* attempts than its max_attempts (Agent._run_with_cascade).
THEOREM JudgingTypeCorrect == JudgingSpec => []JudgingTypeOK
<1>1. JudgingInv => JudgingTypeOK
    BY DEF JudgingInv, Local, Stores, Fit, RunState, JudgingTypeOK
<1> QED BY <1>1, JudgingInvariance, PTL

\* The audit log says BLOCK of exactly what was withheld, a verdict that a second screening
\* takes back included (apply_guardrail_verdict and its callers).
THEOREM AuditIsTrue == JudgingSpec => []AuditTellsTruth
<1>1. JudgingInv => AuditTellsTruth
    BY DEF JudgingInv, Local, Fit, Told, AuditTellsTruth
<1> QED BY <1>1, JudgingInvariance, PTL

\* A result without "error" passed its validator as it is (agent/validators.py).
THEOREM ReturnedIsFaithful == JudgingSpec => []OnlyFaithfulReturned
<1>1. JudgingInv => OnlyFaithfulReturned
    BY DEF JudgingInv, Local, Fit, Vetted, OnlyFaithfulReturned
<1> QED BY <1>1, JudgingInvariance, PTL

\* However deep cascades and validators nest, an attempt's result pays for the judges asked
\* while that attempt was judged and for those its own run's result pays for, and for no
\* others (observability/sink.py, agent/telemetry.py).
THEOREM CostsAreCounted == JudgingSpec => []CostsCounted
<1>1. JudgingInv => CostsCounted
    BY DEF JudgingInv, DueInv, CostsCounted, Scoped
<1> QED BY <1>1, JudgingInvariance, PTL

\* However cascades, tools and judges interleave, nothing is handed on that the guards of
\* its stage did not see to, whatever guards an application puts around the default ones
\* (bind_default_guardrails; the chain stops at its first objection).
THEOREM HandedOnStaysClean == JudgingSpec => []HandedOnIsClean
<1>1. JudgingInv => HandedOnIsClean
    BY DEF JudgingInv, Local, Fit, Clean, HandedOnIsClean
<1> QED BY <1>1, JudgingInvariance, PTL
=============================================================================
