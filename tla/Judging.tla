------------------------------- MODULE Judging -------------------------------
(***************************************************************************)
(* What is judged about a run, and who pays for it: the guard chain that   *)
(* screens the texts of a run (guardrails/), the language model asked when *)
(* a guard or a validator is not sure, the cascade's validator             *)
(* (agent/validators.py) and the telemetry scope that puts the cost of     *)
(* judging an attempt into that attempt's result (observability/sink.py).  *)
(* A text is the set of what the guards look for in it.                    *)
(***************************************************************************)
EXTENDS Naturals, Sequences, FiniteSets

CONSTANTS
    Run,          \* runs of agents: tasks of the host, and runs inside them
    Host,         \* those the host starts, each in a task of its own
    Sub,          \* Sub[r]: the runs r's escalation or validator may start
    Verifier,     \* Verifier[r]: cascade.verifier, "none" without a cascade
    Attempts,     \* Attempts[r]: cascade.max_attempts
    Profile, Allowlist,   \* bind_default_guardrails' arguments
    Before, After,        \* the application's own guards around the default ones
    Silent,       \* <<r, "asking">>: r's guards' judge was built on a container with no
                  \* telemetry sink; <<r, "judging">>: its cascade's judge was
    Text,         \* Text[r][s]: the texts r may meet at stage s
    Completes,    \* what a placeholder amid the rest of a text may amount to
    MaxCalls,     \* bound: MaxCalls[r] tool calls of r
    NoRun

Stage == {"input", "tool_call", "tool_output", "output"}
Trait == {"long", "override", "foreign", "image", "personal", "odd", "misfit", "claims", "hedged"}
\* The guards that ship with the library, and a heuristic of the application's.
Guard == {"length", "injection", "urls", "exfil", "pii", "schema", "odd"}
Reply == {"PASS", "FAIL", "malformed"}

ASSUME JudgingAssumption ==
    /\ Host \subseteq Run /\ Sub \in [Run -> SUBSET (Run \ Host)]
    /\ NoRun \notin Run
    /\ Verifier \in [Run -> {"none", "heuristic", "judge", "fallback", "agent"}]
    /\ Attempts \in [Run -> Nat \ {0}]
    /\ Profile \in {"off", "standard", "strict"} /\ Allowlist \in BOOLEAN
    /\ Before \in [Stage -> Seq(Guard)] /\ After \in [Stage -> Seq(Guard)]
    /\ Silent \subseteq Run \X {"asking", "judging"}
    /\ \A r \in Run : Text[r] \in [Stage -> SUBSET SUBSET Trait]
    /\ Completes \subseteq Trait \ {"personal"}
    /\ MaxCalls \in [Run -> Nat]

VARIABLES
    run,      \* run[r]: where r is and what it holds: see Idle
    sink,     \* sink[t]: what _active_sink_var is in the task of host run t
    buffer,   \* buffer[r]: the records in the buffer of r's latest attempt
    bound,    \* the records that reached the sink the container binds
    loose     \* those recorded while no attempt was being judged (history)

judgingVars == <<run, sink, buffer, bound, loose>>

\* up: the run that awaits it; task: whose task it runs in; text, stage, next: what is
\* screened, from which guard on; came: as it came to the chain (history); vouched: the
\* guards whose judge let it pass; shown, audit: what became of it and what the log says;
\* due: the records that the attempt owes (history); counted: those in its result.
Idle == [pc |-> "idle", up |-> NoRun, task |-> NoRun, attempt |-> 1, calls |-> 0, asked |-> 0,
         stage |-> "input", text |-> {}, came |-> {}, next |-> 1, again |-> FALSE, vouched |-> {},
         shown |-> "open", audit |-> "none", said |-> {}, called |-> FALSE,
         finish |-> "completed", reply |-> "none", outer |-> NoRun, token |-> NoRun,
         due |-> {}, counted |-> {}]

Over == {"returned", "raised"}
Entry == [by : Run, no : Nat \ {0}]
RunState ==
    [pc : {"idle", "screening", "asking", "model", "tool", "attempted", "judging", "consulting",
           "escalating"} \cup Over,
     up : Run \cup {NoRun}, task : Host \cup {NoRun}, attempt : Nat \ {0}, calls : Nat,
     asked : Nat, stage : Stage, text : SUBSET Trait, came : SUBSET Trait, next : Nat \ {0},
     again : BOOLEAN, vouched : SUBSET (Nat \ {0}), shown : {"open", "handed", "withheld"},
     audit : {"none", "ALLOW", "BLOCK", "REWRITE"}, said : SUBSET Trait, called : BOOLEAN,
     finish : {"completed", "blocked", "error"}, reply : Reply \cup {"none"},
     outer : Run \cup {NoRun}, token : Run \cup {NoRun},
     due : SUBSET Entry, counted : SUBSET Entry]
Nested(r) == {c \in Run : run[c].up = r}
-----------------------------------------------------------------------------
(* The guards: bind_default_guardrails and DefaultGuardrailChain.          *)

When(c, s) == IF c THEN s ELSE <<>>
Standard == Profile # "off"
Strict == Profile = "strict"
\* Faulty variant: the redaction comes before the scan.
OutputGuardsRedactFirst == When(Strict, <<"pii">>) \o When(Standard, <<"exfil">>)
OutputGuards == When(Standard, <<"exfil">>) \o When(Strict, <<"pii">>)
Defaults(s) ==
    LET urls == When(Strict /\ Allowlist, <<"urls">>) IN
        CASE s = "input" -> When(Standard, <<"length", "injection">>) \o urls
          [] s = "tool_call" -> <<"schema">> \o When(Standard, <<"length">>)
          [] s = "tool_output" -> When(Standard, <<"injection", "length">>) \o urls
          [] OTHER -> OutputGuards
Chain == [s \in Stage |-> Before[s] \o Defaults(s) \o After[s]]

\* The built-in guards.
Caps(text) == IF "long" \in text THEN "BLOCK" ELSE "ALLOW"
Injection(text) == IF "override" \in text THEN "BLOCK" ELSE "ALLOW"
Urls(text) == IF "foreign" \in text THEN "BLOCK" ELSE "ALLOW"
Exfil(text) == IF "image" \in text THEN "BLOCK" ELSE "ALLOW"
Pii(text) == IF "personal" \in text THEN "REWRITE" ELSE "ALLOW"
Schema(text) == IF "misfit" \in text THEN "BLOCK" ELSE "ALLOW"
\* PIIDetector puts a placeholder where personal data stood; with what stands around it
\* that may be what another guard looks for: a picture's link, a host, one letter too many.
Redactions(text) == {(text \ {"personal"}) \cup t : t \in SUBSET Completes}
\* An application's heuristic that is not sure of odd texts; LLMGuardrailJudge wraps it.
Heuristic(text) == IF "odd" \in text THEN "AMBIGUOUS" ELSE "ALLOW"

Verdict(g, text) ==
    CASE g = "length" -> Caps(text) [] g = "injection" -> Injection(text)
      [] g = "urls" -> Urls(text) [] g = "exfil" -> Exfil(text)
      [] g = "pii" -> Pii(text) [] g = "schema" -> Schema(text)
      [] OTHER -> Heuristic(text)

\* The first guard, from the n-th on, that does not allow the text.
Flagging(s, text, n) == {i \in n..Len(Chain[s]) : Verdict(Chain[s][i], text) # "ALLOW"}
Flag(s, text, n) ==
    LET f == Flagging(s, text, n) IN
        IF f = {} THEN [verdict |-> "ALLOW", by |-> 0]
        ELSE LET i == CHOOSE i \in f : \A j \in f : i <= j IN
                [verdict |-> Verdict(Chain[s][i], text), by |-> i]
-----------------------------------------------------------------------------
(* The telemetry scope: a context variable of the task, set and reset      *)
(* around one validate(), to a buffer made for that attempt.               *)

\* Faulty variants: a module global; the scope never left; one buffer for all attempts.
GlobalContext(t) == CHOOSE u \in Host : TRUE
LeftOpen(r) == r
OneBuffer(r) == buffer
Context(t) == t
Left(r) == run[r].token
Fresh(r) == [buffer EXCEPT ![r] = {}]

EnterScope(r) ==
    /\ sink' = [sink EXCEPT ![Context(run[r].task)] = r]
    /\ buffer' = Fresh(r)
LeaveScope(r) == sink' = [sink EXCEPT ![Context(run[r].task)] = Left(r)]

Scoped(r) == run[r].pc \in {"judging", "consulting"}
\* The run whose attempt is being judged while r works, r itself or one above (history).
Within(r) == IF Scoped(r) THEN r ELSE run[r].outer

\* What r's judge records is told to the sink of its container, if there is one; the
\* active sink gets it.
Receives(r) == sink[Context(run[r].task)]
Record(r) == [by |-> r, no |-> run[r].asked + 1]
Recorded(r) == IF <<r, run[r].pc>> \in Silent THEN {} ELSE {Record(r)}
Emitted(r) ==
    /\ IF Receives(r) = NoRun
       THEN bound' = bound \cup Recorded(r) /\ UNCHANGED buffer
       ELSE /\ buffer' = [buffer EXCEPT ![Receives(r)] = @ \cup Recorded(r)]
            /\ UNCHANGED bound
    /\ loose' = IF Within(r) = NoRun THEN loose \cup Recorded(r) ELSE loose

\* f, with r's record owed to the run whose attempt is being judged (history).
Owed(f, r) == [q \in Run |-> IF q = Within(r)
                             THEN [f[q] EXCEPT !.due = @ \cup Recorded(r)] ELSE f[q]]
-----------------------------------------------------------------------------
JudgingInit ==
    /\ run = [r \in Run |-> Idle]
    /\ sink = [t \in Host |-> NoRun]
    /\ buffer = [r \in Run |-> {}]
    /\ bound = {} /\ loose = {}

Becomes(r, x) == run' = [run EXCEPT ![r] = x]
\* x meets a new text at stage s.
Meets(x, s, text) ==
    [x EXCEPT !.pc = "screening", !.stage = s, !.text = text, !.came = text, !.next = 1,
              !.again = FALSE, !.vouched = {}, !.shown = "open", !.audit = "none"]
\* x's text has become another, and is handed on; x's text is withheld.
Rewritten(x, text, pc) ==
    [x EXCEPT !.text = text, !.shown = "handed", !.audit = "REWRITE", !.pc = pc]
Shown(x, a, pc) == [x EXCEPT !.shown = "handed", !.audit = a, !.pc = pc]
Withheld(x, pc) == [x EXCEPT !.shown = "withheld", !.audit = "BLOCK", !.pc = pc]
\* Agent.run without a cascade is over, with one its result is to be judged.
Answered(r) == IF Verifier[r] = "none" THEN "returned" ELSE "attempted"

\* The host calls Agent.run, or takes what it returned or raised.
Begin(t, text) ==
    /\ run[t].pc = "idle"
    /\ Becomes(t, Meets([Idle EXCEPT !.task = t], "input", text))
    /\ UNCHANGED <<sink, buffer, bound, loose>>

\* r awaits a run of c, in its own task.
Nest(r, c, text) ==
    /\ run[r].pc \in {"escalating", "consulting"} /\ Nested(r) = {}
    /\ c \in Sub[r] /\ run[c].pc = "idle"
    /\ Becomes(c, Meets([Idle EXCEPT !.up = r, !.task = run[r].task, !.outer = Within(r)],
                        "input", text))
    /\ UNCHANGED <<sink, buffer, bound, loose>>

\* The model calls a tool, or answers.
CallTool(r, text) ==
    /\ run[r].pc = "model" /\ run[r].calls < MaxCalls[r]
    /\ Becomes(r, Meets([run[r] EXCEPT !.calls = @ + 1], "tool_call", text))
    /\ UNCHANGED <<sink, buffer, bound, loose>>

Answer(r, text) ==
    /\ run[r].pc = "model"
    /\ Becomes(r, Meets(run[r], "output", text))
    /\ UNCHANGED <<sink, buffer, bound, loose>>

\* The tool returns a text, or an error, which is not screened.
ToolReturns(r, text) ==
    /\ run[r].pc = "tool"
    /\ Becomes(r, Meets(run[r], "tool_output", text))
    /\ UNCHANGED <<sink, buffer, bound, loose>>

ToolFails(r) ==
    /\ run[r].pc = "tool"
    /\ Becomes(r, [run[r] EXCEPT !.pc = "model", !.shown = "open", !.audit = "none"])
    /\ UNCHANGED <<sink, buffer, bound, loose>>
-----------------------------------------------------------------------------
(* What a verdict does: apply_guardrail_verdict, and the stages of a tool. *)

InputJudged(r, v) ==
    LET x == run[r] IN
        IF v = "BLOCK" THEN {Withheld([x EXCEPT !.finish = "blocked"], Answered(r))}
        ELSE IF v = "REWRITE" THEN {Rewritten(x, t, "model") : t \in Redactions(x.text)}
        ELSE {Shown(x, v, "model")}

\* A rewrite is read as arguments: it may not be any, or not the tool's.  The step is in
\* the result though the tool never ran.
CallJudged(r, v) ==
    LET x == [run[r] EXCEPT !.called = TRUE] IN
        CASE v = "BLOCK" -> {Withheld(x, "model")}
          [] v = "REWRITE" -> {Withheld(x, "model")} \cup
                {Rewritten(x, t, "tool") : t \in {u \in Redactions(x.text) : "misfit" \notin u}}
          [] OTHER -> {IF "misfit" \in x.text THEN Withheld(x, "model") ELSE Shown(x, v, "tool")}

\* Faulty variants: a rewrite is handed on at once; the second verdict is not logged.
TrustRewrite(x, text) == Rewritten(x, text, "model")
SecondUnlogged(x, v) ==
    IF v = "ALLOW" THEN Shown(x, "REWRITE", "model")
    ELSE [Withheld(x, "model") EXCEPT !.audit = "REWRITE"]
\* A rewritten tool output is screened once more; now only ALLOW lets it through.
Rescreen(x, text) == [Meets(x, "tool_output", text) EXCEPT !.again = TRUE]
Second(x, v) == IF v = "ALLOW" THEN Shown(x, "REWRITE", "model") ELSE Withheld(x, "model")
OutputOfToolJudged(r, v) ==
    LET x == run[r] IN
        CASE x.again -> {Second(x, v)}
          [] ~x.again /\ v = "BLOCK" -> {Withheld(x, "model")}
          [] ~x.again /\ v = "REWRITE" -> {Rescreen(x, t) : t \in Redactions(x.text)}
          [] OTHER -> {Shown(x, v, "model")}

\* A withheld answer is replaced by a notice, which claims nothing.
AnswerJudged(r, v) ==
    LET x == run[r]
        saying(t) == [x EXCEPT !.said = t \cap {"claims", "hedged"}]
    IN  CASE v = "BLOCK" -> {Withheld(saying({}), Answered(r))}
          [] v = "REWRITE" -> {Rewritten(saying(t), t, Answered(r)) : t \in Redactions(x.text)}
          [] OTHER -> {Shown(saying(x.text), v, Answered(r))}

Judged(r, v) ==
    CASE run[r].stage = "input" -> InputJudged(r, v)
      [] run[r].stage = "tool_call" -> CallJudged(r, v)
      [] run[r].stage = "tool_output" -> OutputOfToolJudged(r, v)
      [] OTHER -> AnswerJudged(r, v)

\* The chain up to the first verdict that is not ALLOW, or up to the judge.
Screen(r) ==
    LET f == Flag(run[r].stage, run[r].text, run[r].next) IN
    /\ run[r].pc = "screening"
    /\ IF f.verdict = "AMBIGUOUS" THEN Becomes(r, [run[r] EXCEPT !.pc = "asking", !.next = f.by])
       ELSE \E x \in Judged(r, f.verdict) : Becomes(r, x)
    /\ UNCHANGED <<sink, buffer, bound, loose>>

\* Anything but PASS is a refusal.
GuardPasses(reply) == reply = "PASS"
\* The judge answers a guard: the screening goes on behind it, or the text is blocked.
GuardReplies(r, reply) ==
    LET asked(x) == [x EXCEPT !.asked = @ + 1] IN
    /\ run[r].pc = "asking"
    /\ Emitted(r)
    /\ IF GuardPasses(reply)
       THEN LET x == [run[r] EXCEPT !.pc = "screening", !.next = @ + 1,
                                          !.vouched = @ \cup {run[r].next}] IN
            run' = Owed([run EXCEPT ![r] = asked(x)], r)
       ELSE \E x \in Judged(r, "BLOCK") : run' = Owed([run EXCEPT ![r] = asked(x)], r)
    /\ UNCHANGED sink
-----------------------------------------------------------------------------
(* The cascade: Agent._run_with_cascade and the validators.                *)

\* ToolUseFaithfulness.
Faithful(x) ==
    CASE "hedged" \in x.said -> "ambiguous"
      [] "hedged" \notin x.said /\ "claims" \in x.said /\ ~x.called -> "fail"
      [] OTHER -> "pass"
\* Faulty variant: only an exact FAIL fails.
ParsedLenient(reply) == IF reply = "FAIL" THEN "fail" ELSE "pass"
Parsed(reply) == IF reply = "PASS" THEN "pass" ELSE "fail"

\* What validate() says without awaiting anything; AmbiguousFallback asks the judge
\* only when the heuristic is not sure.
Primary(r) ==
    CASE Verifier[r] = "judge" -> "ask"
      [] Verifier[r] = "agent" -> "run"
      [] Verifier[r] = "fallback" /\ Faithful(run[r]) = "ambiguous" -> "ask"
      [] OTHER -> Faithful(run[r])

\* Faulty variant: the attempts are not counted.
NextUncounted(r) == run[r].attempt
NextAttempt(r) == run[r].attempt + 1
\* Faulty variant: one attempt too many.
ExhaustedLate(r, x) == Sub[r] = {} \/ x.attempt > Attempts[r]
Exhausted(r, x) == Sub[r] = {} \/ x.attempt >= Attempts[r]
\* The records of the buffer are added to the result's; then the verdict.
Decided(r, x, verdict, records) ==
    LET y == [x EXCEPT !.counted = @ \cup records, !.token = NoRun] IN
        CASE verdict = "pass" -> [y EXCEPT !.pc = "returned"]
          [] verdict # "pass" /\ Exhausted(r, y) ->
                [y EXCEPT !.pc = "returned", !.finish = "error"]
          [] OTHER -> [y EXCEPT !.pc = "escalating", !.attempt = NextAttempt(r),
                                !.due = {}, !.counted = {}, !.reply = "none"]

Validate(r) ==
    LET p == Primary(r)
        in(pc) == [run[r] EXCEPT !.pc = pc, !.token = sink[Context(run[r].task)]]
    IN
    /\ run[r].pc = "attempted"
    /\ CASE p = "ask" -> Becomes(r, in("judging")) /\ EnterScope(r)
         [] p = "run" -> Becomes(r, in("consulting")) /\ EnterScope(r)
         [] OTHER -> Becomes(r, Decided(r, run[r], p, {})) /\ UNCHANGED <<sink, buffer>>
    /\ UNCHANGED <<bound, loose>>

\* LLMJudge gets its answer and records what it cost: the scope is left, the buffer merged.
JudgeReplies(r, reply) ==
    LET answered == [run[r] EXCEPT !.asked = @ + 1, !.reply = reply]
        paid == Owed([run EXCEPT ![r] = answered], r)
    IN
    /\ run[r].pc = "judging"
    /\ Emitted(r) /\ LeaveScope(r)
    /\ run' = [paid EXCEPT ![r] = Decided(r, @, Parsed(reply), buffer'[r])]

\* Faulty variant: the result of a run inside a run comes without its own judges.
CarriedNone(c) == {}
Carried(c) == run[c].counted

\* The run that r awaited is over: an application's validator takes any that is not an
\* error for a PASS, an escalation is the next attempt, with what its own result counts,
\* an exception goes up.
Collect(r) ==
    \E c \in Nested(r) :
        /\ run[c].pc \in Over
        /\ LET back == [run EXCEPT ![c] = Idle]
               verdict == IF run[c].finish = "completed" THEN "pass" ELSE "fail"
           IN  run' = [back EXCEPT ![r] =
                  IF run[c].pc = "raised" THEN [@ EXCEPT !.pc = "raised"]
                  ELSE IF Scoped(r) THEN Decided(r, @, verdict, buffer[r])
                  ELSE [@ EXCEPT !.pc = "attempted", !.finish = run[c].finish,
                                 !.said = run[c].said, !.called = run[c].called,
                                 !.counted = Carried(c), !.due = run[c].due]]
        /\ IF Scoped(r) THEN LeaveScope(r) ELSE UNCHANGED sink
        /\ UNCHANGED <<buffer, bound, loose>>

\* A model, a tool, the judge raises, or the task is cancelled there; the buffer of a
\* validate() under way is dropped with what was in it.
Raise(r) ==
    /\ run[r].pc \in {"model", "tool", "asking", "judging"}
    /\ Becomes(r, [run[r] EXCEPT !.pc = "raised"])
    /\ IF Scoped(r) THEN LeaveScope(r) ELSE UNCHANGED sink
    /\ UNCHANGED <<buffer, bound, loose>>

Does(r) ==
    \/ Screen(r) \/ Validate(r) \/ Collect(r) \/ ToolFails(r)
    \/ \E x \in Reply : GuardReplies(r, x) \/ JudgeReplies(r, x)
    \/ \E x \in Text[r]["tool_call"] : CallTool(r, x)
    \/ \E x \in Text[r]["tool_output"] : ToolReturns(r, x)
    \/ \E x \in Text[r]["output"] : Answer(r, x)
    \/ \E c \in Sub[r] : \E x \in Text[c]["input"] : Nest(r, c, x)

JudgingNext ==
    \/ \E t \in Host : \E x \in Text[t]["input"] : Begin(t, x)
    \/ \E r \in Run : Does(r) \/ Raise(r)

JudgingSpec == JudgingInit /\ [][JudgingNext]_judgingVars

\* Models, tools and judges answer, and the loop runs whatever is ready.
FairJudgingSpec == JudgingSpec /\ \A r \in Run : WF_judgingVars(Does(r))
-----------------------------------------------------------------------------
(* Properties.                                                             *)

\* Every variable keeps its type; in particular no cascade makes more attempts than
\* its max_attempts.
JudgingTypeOK ==
    /\ run \in [Run -> RunState]
    /\ \A r \in Run : run[r].attempt \in 1..Attempts[r]
    /\ sink \in [Host -> Run \cup {NoRun}]
    /\ buffer \in [Run -> SUBSET Entry] /\ bound \subseteq Entry /\ loose \subseteq Entry

\* The guard at place i of the chain that x's text meets lets the text t pass, of itself
\* or because the judge it asked said so.
Lets(x, i, t) ==
    LET v == Verdict(Chain[x.stage][i], t) IN v = "ALLOW" \/ (v = "AMBIGUOUS" /\ i \in x.vouched)

\* What x hands on is what the whole chain has seen: a rewritten tool output is screened
\* once more, any other rewrite is not.
SeenWhole(x) == x.audit = "ALLOW" \/ x.stage = "tool_output"

\* The chain saw to what x hands on.  What is handed on as the chain saw it passes every
\* guard of its stage.  What a guard rewrote is free of what that guard removes, and
\* passed the guards before it as it came; the default guards that do not rewrite have
\* all let it pass, unless the application's own guards rewrite first.
SeenTo(x) ==
    LET chain == Chain[x.stage]
        own == Before[x.stage]
    IN
    /\ SeenWhole(x) => \A i \in DOMAIN chain : Lets(x, i, x.text)
    /\ ~SeenWhole(x) =>
         /\ "personal" \notin x.text
         /\ \E i \in DOMAIN chain : /\ chain[i] = "pii"
                                   /\ \A j \in DOMAIN chain : j < i => Lets(x, j, x.came)
    /\ (\A i \in DOMAIN own : own[i] # "pii") =>
         \A i \in DOMAIN chain : i <= Len(own) + Len(Defaults(x.stage)) =>
             chain[i] = "pii" \/ Lets(x, i, x.came)
    /\ x.stage = "tool_call" => "misfit" \notin x.text

\* Nothing reaches the model, a tool or the caller that the guards of its stage did not
\* see to: all of them what is not rewritten or is a tool's output, those up to the one
\* that rewrote it anything else.  What the placeholder of a redaction completes in an
\* input, a call or an answer, and what the guards behind it would say, nobody asks.
HandedOnIsClean == \A r \in Run : run[r].shown = "handed" => SeenTo(run[r])

\* The audit log says BLOCK of exactly what was withheld, verdicts taken back included.
AuditTellsTruth ==
    \A r \in Run : run[r].shown # "open" => (run[r].shown = "withheld" <=> run[r].audit = "BLOCK")

\* A result counts what its attempt owes: the judges asked while it was judged, by guards
\* of a run that its validator awaits included, and, if the attempt was a run of the
\* escalation, whatever that run's own result counts.  No judge of another attempt or of
\* a concurrent run is in it, and none is missing that was built where a sink is bound.
\* What was asked while nothing was judged has gone to the container's own sink.
CostsCounted ==
    /\ \A r \in Run : run[r].pc = "returned" => run[r].counted = run[r].due
    /\ bound = loose

\* A result without "error" passed its validator as it is: what its text claims it
\* called was called, and a hedging answer was passed by the judge in so many words.
OnlyFaithfulReturned ==
    \A r \in Run : run[r].pc = "returned" /\ run[r].finish # "error" =>
        /\ Verifier[r] \in {"heuristic", "fallback"} /\ "hedged" \notin run[r].said =>
              ("claims" \in run[r].said => run[r].called)
        /\ Verifier[r] = "heuristic" => "hedged" \notin run[r].said
        /\ Verifier[r] = "judge" \/ (Verifier[r] = "fallback" /\ "hedged" \in run[r].said) =>
              run[r].reply = "PASS"

\* A cascade ends: every call of the host returns or raises.
RunsEnd == \A t \in Host : run[t].pc # "idle" ~> run[t].pc \in Over
=============================================================================
