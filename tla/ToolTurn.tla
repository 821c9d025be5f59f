------------------------------ MODULE ToolTurn ------------------------------
(***************************************************************************)
(* What the run loop may rely on when it hands a reply's tool calls to the *)
(* dispatcher: the turn gives an outcome for every call, or fails as a     *)
(* whole; either way nothing of it is still going on afterwards, and what  *)
(* was learnt on the way stays learnt.                                     *)
(***************************************************************************)
CONSTANTS Call, Tag

VARIABLES
    state,     \* "idle", "busy", "failed", "over"
    asked,     \* the calls of the current turn
    open,      \* those being executed
    answered,  \* those with an outcome
    taint      \* what the run has learnt

vars == <<state, asked, open, answered, taint>>

Init == state = "idle" /\ asked = {} /\ open = {} /\ answered = {} /\ taint = {}

Learn == taint' \in SUBSET Tag /\ taint \subseteq taint'

Begin ==
    /\ state = "idle" /\ state' = "busy"
    /\ asked' \in (SUBSET Call) \ {{}}
    /\ open' \in SUBSET asked' /\ answered' = {}
    /\ UNCHANGED taint

\* Calls start, learn, get their outcomes, or fail.  An outcome is final.
Work ==
    /\ state = "busy"
    /\ open' \in SUBSET asked
    /\ answered' \in SUBSET (asked \ open') /\ answered \subseteq answered'
    /\ Learn
    /\ UNCHANGED <<state, asked>>

\* The outcomes of all calls at once, or none.
Finish ==
    /\ state = "busy" /\ state' = "idle"
    /\ open = {} /\ answered = asked
    /\ Learn
    /\ UNCHANGED <<asked, open, answered>>

Fail ==
    /\ state = "busy" /\ state' = "failed"
    /\ open = {}
    /\ UNCHANGED <<asked, open, answered, taint>>

Leave == state = "idle" /\ state' = "over" /\ UNCHANGED <<asked, open, answered, taint>>

Next == Begin \/ Work \/ Finish \/ Fail \/ Leave

Spec == Init /\ [][Next]_vars
=============================================================================
