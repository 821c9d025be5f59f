---------------------------- MODULE RunProtocol ----------------------------
(***************************************************************************)
(* What the caller of Agent.run, or the consumer of Agent.stream, may rely *)
(* on, whatever goes on inside: which event may follow which, and that     *)
(* what it is told last will not be taken back.                            *)
(***************************************************************************)
VARIABLES
    streaming,  \* stream() or run()
    last,       \* the last kind of event received
    settled,    \* the outcome is fixed: the answer is recorded, or the input refused
    state       \* "open", "returned" or "raised"

vars == <<streaming, last, settled, state>>

Init ==
    /\ streaming \in BOOLEAN
    /\ last = "none" /\ settled = FALSE /\ state = "open"

\* Between two turns: no tool call is announced that has not been reported on.
BetweenTurns == last \in {"none", "token", "finished"}

Event(e) ==
    /\ streaming /\ state = "open"
    /\ last' = e
    /\ UNCHANGED <<streaming, state>>

\* Text, and the announcement of tool calls, come before the outcome is settled.
Text == BetweenTurns /\ ~settled /\ Event("token") /\ UNCHANGED settled
Started == BetweenTurns /\ ~settled /\ Event("started") /\ UNCHANGED settled

\* Every announced turn is reported on before anything else is said.
Finished == last = "started" /\ Event("finished") /\ UNCHANGED settled

\* `done` carries the settled outcome, and only the cascade's verdict follows it.
Done == BetweenTurns /\ ~settled /\ Event("done") /\ settled' = TRUE
Verdict == last = "done" /\ Event("gate") /\ UNCHANGED settled

\* A call of run settles its outcome silently.
Settle == ~streaming /\ state = "open" /\ settled' = TRUE /\ UNCHANGED <<streaming, last, state>>

\* A stream ends by itself only after `done`; a run only with its outcome settled.
Return ==
    /\ state = "open" /\ state' = "returned"
    /\ settled' = TRUE
    /\ streaming => settled /\ last \in {"done", "gate"}
    /\ UNCHANGED <<streaming, last>>

\* An exception may end it at any time, and takes nothing back.
Raise == state = "open" /\ state' = "raised" /\ UNCHANGED <<streaming, last, settled>>

Next == Text \/ Started \/ Finished \/ Done \/ Verdict \/ Settle \/ Return \/ Raise

Spec == Init /\ [][Next]_vars
=============================================================================
