---------------------------- MODULE SingleFlight ----------------------------
(***************************************************************************)
(* What a tool call may rely on when it asks a credential broker: it is    *)
(* given a token of its user's slot or of the shared one, and after a      *)
(* refusal at most one more, another; whoever renews a token does so       *)
(* alone, and for the others.                                              *)
(***************************************************************************)
EXTENDS Naturals

CONSTANTS
    Call,
    Slot, Shared,   \* where tokens are kept; the one that is everybody's
    Of,             \* Of[c]: the slot of the user call c works for
    Rotating,       \* a refresh token can be exchanged once
    Nobody, NoToken

VARIABLES
    cache,    \* cache[k]: the token in slot k, or NoToken
    issued,   \* tokens issued so far
    spent,    \* refresh tokens a new token has come back for, when Rotating
    flight,   \* the call that is at the token endpoint, or Nobody
    pays,     \* the token whose refresh token it presents there
    first,    \* first[c]: what call c was given, or NoToken
    second    \* second[c]: what it was given after a refusal

vars == <<cache, issued, spent, flight, pays, first, second>>

Reach(c) == {Of[c], Shared}

Init ==
    /\ cache = [k \in Slot |-> NoToken]
    /\ issued = 0 /\ spent = {}
    /\ flight = Nobody /\ pays = NoToken
    /\ first = [c \in Call |-> NoToken] /\ second = [c \in Call |-> NoToken]

\* A user, or the service account, signs in.
Deposit(k) ==
    /\ issued' = issued + 1
    /\ \E rt \in {0, issued'} :
          cache' = [cache EXCEPT ![k] = [id |-> issued', owner |-> k, rt |-> rt]]
    /\ UNCHANGED <<spent, flight, pays, first, second>>

\* Once, and once more with another token.
Given(c, x) ==
    \/ /\ first[c] = NoToken
       /\ first' = [first EXCEPT ![c] = x]
       /\ UNCHANGED second
    \/ /\ first[c] \notin {NoToken, x} /\ second[c] = NoToken
       /\ second' = [second EXCEPT ![c] = x]
       /\ UNCHANGED first

Serve(c) ==
    /\ flight # c
    /\ \E k \in Reach(c) : cache[k] # NoToken /\ Given(c, cache[k])
    /\ UNCHANGED <<cache, issued, spent, flight, pays>>

\* Nobody else is renewing.  A call that was given nothing yet presents a refresh token
\* that is still good; one that was refused presents that of the refused token.
TakeOff(c) ==
    /\ flight = Nobody /\ second[c] = NoToken
    /\ flight' = c
    /\ pays' # NoToken
    /\ IF first[c] = NoToken THEN pays'.rt \notin spent ELSE pays' = first[c]
    /\ UNCHANGED <<cache, issued, spent, first, second>>

\* The new token is its owner's; it is in the slot, for others, when the call has it.
Land(c) ==
    /\ flight = c /\ pays.rt \notin spent
    /\ issued' = issued + 1
    /\ spent' = IF Rotating THEN spent \cup {pays.rt} ELSE spent
    /\ \E k \in Reach(c), rt \in 1..issued' :
          LET new == [id |-> issued', owner |-> pays.owner, rt |-> rt] IN
          /\ k \in {pays.owner, Shared}
          /\ cache' = [cache EXCEPT ![k] = new]
          /\ Given(c, new)
    /\ flight' = Nobody /\ pays' = NoToken

\* A call ends, well or not.  If it was renewing, another may.
End(c) ==
    /\ IF flight = c THEN flight' = Nobody /\ pays' = NoToken ELSE UNCHANGED <<flight, pays>>
    /\ first' = [first EXCEPT ![c] = NoToken] /\ second' = [second EXCEPT ![c] = NoToken]
    /\ UNCHANGED <<cache, issued, spent>>

Next ==
    \/ \E k \in Slot : Deposit(k)
    \/ \E c \in Call : Serve(c) \/ TakeOff(c) \/ Land(c) \/ End(c)

Spec == Init /\ [][Next]_vars
=============================================================================
