-------------------------------- MODULE A2A --------------------------------
(***************************************************************************)
(* A delegation to a remote peer: AgentRef.delegate on the caller's side,  *)
(* the POST /a2a handler of make_a2a_router on the peer's, the network and *)
(* the HTTP client between them.  The calls share one AgentRef, which any  *)
(* number of hosts open and close (async with), whatever the calls are at. *)
(* A call's handler at the peer lives on when its caller has given up.     *)
(***************************************************************************)
EXTENDS RateLimiter

CONSTANTS
    Call,      \* delegate calls
    Host,      \* tasks that open the AgentRef
    Tag,       \* Trust
    Here,      \* the caller's address; the peer has other clients too
    Skew,      \* the peer's clock minus the caller's
    TTL,
    MaxOpen    \* bound: clients opened

ASSUME A2AAssumption ==
    /\ Here \in Client
    /\ Skew \in Int /\ TTL \in Nat /\ MaxOpen \in Nat

VARIABLES
    inside,   \* inside[h]: "out", "in" or "closing" the AgentRef's block
    http,     \* self._http; 0 is a client the application supplied
    owns,     \* self._owns_client
    opened, closed,  \* clients made here, and those whose aclose() was called
    hasty,    \* history: the clients made while a close was awaited
    botched,  \* history: the await of a close failed
    pc,       \* pc[c]: "idle", "minting", "posted" or "over"
    token,    \* token[c]: the time the JWT was issued
    outcome,  \* outcome[c]: what delegate returned or raised
    got,      \* got[c]: the taint it returned
    stage,    \* stage[c]: the peer's handler, then its response
    learnt,   \* learnt[c]: the taint of the peer's run
    started   \* the calls for which the peer ran its agent

refVars == <<inside, http, owns, opened, closed, hasty, botched>>
callVars == <<pc, token, outcome, got>>
peerVars == <<stage, learnt, started>>
vars == <<limiterVars, refVars, callVars, peerVars>>

NoClient == -1
Handling == {"sent", "body", "mapping", "running"}
Answers == {"429", "401", "500", "rpc_error", "unfit", "result"}
Delegation == {"RemoteUnreachable", "RemoteAuthFailed", "RemoteMalformed", "RemoteProtocolError"}

Init ==
    /\ LimiterInit
    /\ inside = [h \in Host |-> "out"]
    /\ http \in {NoClient, 0} /\ owns = FALSE /\ opened = 0 /\ closed = {}
    /\ hasty = {} /\ botched = FALSE
    /\ pc = [c \in Call |-> "idle"]
    /\ token = [c \in Call |-> 0]
    /\ outcome = [c \in Call |-> "none"] /\ got = [c \in Call |-> {}]
    /\ stage = [c \in Call |-> "none"] /\ learnt = [c \in Call |-> {}]
    /\ started = {}
-----------------------------------------------------------------------------
\* Faulty variant: every block makes a client of its own.
MakesAnew == TRUE
Makes == http = NoClient

\* AgentRef.__aenter__: a client is made only if there is none; any other is used, one
\* that a failed close left behind too.
Enter(h) ==
    /\ inside[h] = "out"
    /\ inside' = [inside EXCEPT ![h] = "in"]
    /\ \/ ~Makes /\ UNCHANGED <<http, owns, opened, hasty>>
       \/ /\ Makes /\ opened < MaxOpen
          /\ opened' = opened + 1 /\ http' = opened + 1 /\ owns' = TRUE
          /\ hasty' = IF \E k \in Host : inside[k] = "closing" THEN hasty \cup {opened + 1} ELSE hasty
    /\ UNCHANGED <<limiterVars, closed, botched, callVars, peerVars>>

\* Faulty variant: whatever client there is gets closed.
ClosesAny == http # NoClient
\* aclose: only a client made here is closed.
Closes == owns /\ http # NoClient

\* aclose's assignments.
Drop == http' = NoClient /\ owns' = FALSE

\* A host leaves its block; httpx marks the client closed before it awaits, and a
\* second aclose() of the same client returns at once.
Exit(h) ==
    /\ inside[h] = "in"
    /\ \/ /\ Closes /\ http \notin closed
          /\ inside' = [inside EXCEPT ![h] = "closing"]
          /\ closed' = closed \cup {http}
          /\ UNCHANGED <<http, owns>>
       \/ /\ Closes /\ http \in closed /\ Drop
          /\ inside' = [inside EXCEPT ![h] = "out"]
          /\ UNCHANGED closed
       \/ /\ ~Closes
          /\ inside' = [inside EXCEPT ![h] = "out"]
          /\ UNCHANGED <<http, owns, closed>>
    /\ UNCHANGED <<limiterVars, opened, hasty, botched, callVars, peerVars>>

\* The await of the client's aclose() is over: self._http is dropped, whatever it is by
\* now; or it raised, or was cancelled, and nothing is.
Closed(h) ==
    /\ inside[h] = "closing"
    /\ inside' = [inside EXCEPT ![h] = "out"]
    /\ \/ Drop /\ UNCHANGED botched
       \/ botched' = TRUE /\ UNCHANGED <<http, owns>>
    /\ UNCHANGED <<limiterVars, opened, closed, hasty, callVars, peerVars>>

EndCall(c, how) ==
    /\ pc' = [pc EXCEPT ![c] = "over"]
    /\ outcome' = [outcome EXCEPT ![c] = how]

\* delegate: the block must have been entered, or a client supplied.
Delegate(c) ==
    /\ pc[c] = "idle"
    /\ \/ http = NoClient /\ EndCall(c, "RuntimeError")
       \/ http # NoClient /\ pc' = [pc EXCEPT ![c] = "minting"] /\ UNCHANGED outcome
    /\ UNCHANGED <<limiterVars, refVars, token, got, peerVars>>

\* What the token's times come to: nbf is iat, or the forwarder's backdated one, so that
\* iat decides, and the expiry is reckoned from it.
Token == now

\* self._http is read again after the forwarder: it may be gone, or closed.
Post(c) ==
    /\ pc[c] = "minting"
    /\ token' = [token EXCEPT ![c] = Token]
    /\ \/ /\ http = NoClient \/ http \in closed
          /\ EndCall(c, "crashed")
          /\ UNCHANGED stage
       \/ /\ http # NoClient /\ http \notin closed
          /\ pc' = [pc EXCEPT ![c] = "posted"]
          /\ stage' = [stage EXCEPT ![c] = "sent"]
          /\ UNCHANGED outcome
    /\ UNCHANGED <<limiterVars, refVars, got, learnt, started>>

\* The forwarder raises, or the tool call is cancelled.
Abandon(c) ==
    /\ pc[c] \in {"minting", "posted"}
    /\ EndCall(c, "raised")
    /\ UNCHANGED <<limiterVars, refVars, token, got, peerVars>>
-----------------------------------------------------------------------------
\* jwt.decode: neither issued in the future nor expired.
Fresh(c) ==
    LET clock == now + Skew IN
    token[c] <= clock /\ clock < token[c] + TTL

Respond(c, with) == stage' = [stage EXCEPT ![c] = with]

\* The limiter comes before anything that costs work.
TooMany(c) ==
    /\ stage[c] = "sent"
    /\ Refuse(Here)
    /\ Respond(c, "429")
    /\ UNCHANGED <<refVars, callVars, learnt, started>>

\* Algorithm, issuers, key, token: checked without an await, up to the body's.
Admit(c) ==
    /\ stage[c] = "sent"
    /\ Allow(Here)
    /\ \/ Respond(c, "401") \/ Respond(c, "500")
       \/ Fresh(c) /\ Respond(c, "body")
    /\ UNCHANGED <<refVars, callVars, learnt, started>>

\* The body is too large, or the envelope and the params are as the caller built them.
ReadBody(c) ==
    /\ stage[c] = "body"
    /\ Respond(c, "rpc_error") \/ Respond(c, "mapping")
    /\ UNCHANGED <<limiterVars, refVars, callVars, learnt, started>>

\* mapper.map answers and the run starts; or it raises, uncaught.
StartRun(c) ==
    /\ stage[c] = "mapping"
    /\ \/ /\ Respond(c, "running")
          /\ started' = started \cup {c}
       \/ Respond(c, "500") /\ UNCHANGED started
    /\ UNCHANGED <<limiterVars, refVars, callVars, learnt>>

\* agent.run returns, or raises: every exception is an error of the envelope.  The
\* result may be one the caller cannot read, and may fail to serialize, uncaught.
EndRun(c) ==
    /\ stage[c] = "running"
    /\ \/ Respond(c, "result") /\ \E t \in SUBSET Tag : learnt' = [learnt EXCEPT ![c] = t]
       \/ (Respond(c, "unfit") \/ Respond(c, "rpc_error") \/ Respond(c, "500")) /\ UNCHANGED learnt
    /\ UNCHANGED <<limiterVars, refVars, callVars, started>>

\* Other clients post, and fetch the card, under the same limiter.
OtherRequest(k) ==
    /\ k # Here /\ (Allow(k) \/ Refuse(k))
    /\ UNCHANGED <<refVars, callVars, peerVars>>

\* The peer's process is restarted: its connections break, its memory is gone.
Restart ==
    /\ \E c \in Call : stage[c] \in Handling
    /\ Forget
    /\ stage' = [c \in Call |-> IF stage[c] \in Handling THEN "reset" ELSE stage[c]]
    /\ UNCHANGED <<refVars, callVars, learnt, started>>
-----------------------------------------------------------------------------
\* What delegate makes of a status; a 429 is no JSON-RPC response, and a result may be
\* none, or of neither wire shape.
Means(status) ==
    CASE status = "401" -> "RemoteAuthFailed"
      [] status \in {"500", "reset"} -> "RemoteUnreachable"
      [] status \in {"429", "unfit"} -> "RemoteMalformed"
      [] status = "rpc_error" -> "RemoteProtocolError"
      [] status = "result" -> "result"

\* Faulty variant: the wire result has no taint.
TaintOfNone(c) == {}
TaintOf(c) == learnt[c]

Hear(c) ==
    /\ pc[c] = "posted" /\ stage[c] \in Answers \cup {"reset"}
    /\ EndCall(c, Means(stage[c]))
    /\ got' = [got EXCEPT ![c] = TaintOf(c)]
    /\ UNCHANGED <<limiterVars, refVars, token, peerVars>>

\* No connection, or 30 s without an answer; the peer does not learn of it.
GiveUp(c) ==
    /\ pc[c] = "posted"
    /\ EndCall(c, "RemoteUnreachable")
    /\ UNCHANGED <<limiterVars, refVars, token, got, peerVars>>

Ticks == Tick /\ UNCHANGED <<refVars, callVars, peerVars>>

Next ==
    \/ \E h \in Host : Enter(h) \/ Exit(h) \/ Closed(h)
    \/ \E c \in Call :
          \/ Delegate(c) \/ Post(c) \/ Abandon(c) \/ Hear(c) \/ GiveUp(c)
          \/ TooMany(c) \/ Admit(c) \/ ReadBody(c) \/ StartRun(c) \/ EndRun(c)
    \/ \E k \in Client : OtherRequest(k)
    \/ Restart \/ Ticks

Spec == Init /\ [][Next]_vars
-----------------------------------------------------------------------------
TypeOK ==
    /\ now \in 0..MaxTime /\ served \in 0..MaxServed
    /\ DOMAIN hits \subseteq Client /\ \A k \in DOMAIN hits : hits[k] \subseteq allowed[k]
    /\ inside \in [Host -> {"out", "in", "closing"}]
    /\ http \in NoClient..MaxOpen /\ owns \in BOOLEAN
    /\ opened \in 0..MaxOpen /\ closed \subseteq 1..opened /\ hasty \subseteq 1..opened
    /\ botched \in BOOLEAN
    /\ pc \in [Call -> {"idle", "minting", "posted", "over"}]
    /\ outcome \in [Call -> Delegation \cup {"none", "result", "raised", "RuntimeError", "crashed"}]
    /\ stage \in [Call -> Handling \cup Answers \cup {"none", "reset"}]
    /\ got \in [Call -> SUBSET Tag] /\ learnt \in [Call -> SUBSET Tag]

\* What delegate returns is what the peer's run of this very call ended with, its
\* taint included.  An error that answers the call, RemoteMalformed and
\* RemoteProtocolError too, leaves no handler at work at the peer; only RemoteAuthFailed,
\* and a client missing or closed under the call, say that no run was started.
AnswersAreTrue ==
    \A c \in Call :
        /\ outcome[c] = "result" => c \in started /\ stage[c] = "result" /\ got[c] = learnt[c]
        /\ outcome[c] \in {"RemoteMalformed", "RemoteProtocolError"} => stage[c] \notin Handling
        /\ outcome[c] \in {"RemoteAuthFailed", "RuntimeError", "crashed"}
              => c \notin started /\ stage[c] \notin Handling

\* Blocks of several hosts, calls that outlive them and closes that fail, in any order:
\* the application's client is never closed; when nobody is inside, a client made here
\* is unclosed only if it was made while an earlier close was still awaited, and the
\* AgentRef keeps a client of its own only after a close that failed.
ClientsReturned ==
    /\ 0 \notin closed
    /\ (\A h \in Host : inside[h] = "out") =>
          /\ 1..opened \subseteq closed \cup hasty
          /\ http > 0 => botched
=============================================================================
