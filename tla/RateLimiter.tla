---------------------------- MODULE RateLimiter ----------------------------
(***************************************************************************)
(* _SlidingWindowLimiter of the A2A publisher: at most `MaxHits` requests  *)
(* of one client within `Window`, with a clean-up that forgets clients     *)
(* once there are more than `MaxKeys`.  allow() takes a lock nobody keeps  *)
(* across an await, so it is atomic, and its times never decrease.         *)
(***************************************************************************)
EXTENDS Integers, FiniteSets

CONSTANTS
    Client,    \* peer addresses
    MaxHits, Window, MaxKeys,
    MaxTime,   \* bound: the clock
    MaxServed  \* bound: requests allowed

ASSUME LimiterAssumption == MaxHits \in Nat \ {0} /\ {Window, MaxKeys, MaxTime, MaxServed} \subseteq Nat

VARIABLES
    now,      \* time.monotonic()
    served,   \* how many requests were allowed: numbers them
    hits,     \* self._hits: a function of the clients it remembers
    allowed   \* history: what this process has allowed, per client

limiterVars == <<now, served, hits, allowed>>

Hit == [nr : Nat, at : Nat]

LimiterInit ==
    /\ now = 0 /\ served = 0
    /\ hits = [c \in {} |-> {}]
    /\ allowed = [c \in Client |-> {}]

\* while hits and now - hits[0] > window: popleft().  The oldest come first.
Trimmed(c) ==
    IF c \in DOMAIN hits THEN {x \in hits[c] : now - x.at <= Window} ELSE {}

Remember(c, new) == [k \in DOMAIN hits \cup {c} |-> IF k = c THEN new ELSE hits[k]]

\* Faulty variant: a request as old as the window no longer counts.
ActiveStrictly(new, t) == \E x \in new : t - x.at < Window
\* A client is kept if its latest request is within the window.
Active(new, t) == \E x \in new : t - x.at <= Window

Tidied(table) ==
    IF Cardinality(DOMAIN table) > MaxKeys
    THEN [k \in {k \in DOMAIN table : Active(table[k], now)} |-> table[k]]
    ELSE table

\* allow() answers True.
Allow(c) ==
    LET hit == [nr |-> served + 1, at |-> now] IN
    /\ served < MaxServed
    /\ Cardinality(Trimmed(c)) < MaxHits
    /\ served' = served + 1
    /\ hits' = Tidied(Remember(c, Trimmed(c) \cup {hit}))
    /\ allowed' = [allowed EXCEPT ![c] = @ \cup {hit}]
    /\ UNCHANGED now

\* allow() answers False: the refused request is not counted, nothing is tidied.
Refuse(c) ==
    /\ Cardinality(Trimmed(c)) >= MaxHits
    /\ hits' = Remember(c, Trimmed(c))
    /\ UNCHANGED <<now, served, allowed>>

Tick == now < MaxTime /\ now' = now + 1 /\ UNCHANGED <<served, hits, allowed>>

\* The process ends and starts again: the table is in its memory.
Forget ==
    /\ hits' = [c \in {} |-> {}]
    /\ allowed' = [c \in Client |-> {}]
    /\ UNCHANGED <<now, served>>

LimiterNext == (\E c \in Client : Allow(c) \/ Refuse(c)) \/ Tick \/ Forget

LimiterSpec == LimiterInit /\ [][LimiterNext]_limiterVars
-----------------------------------------------------------------------------
\* No client is ever allowed more than MaxHits requests in any window, although the
\* table is trimmed at each request and tidied when it has grown.
WindowRespected ==
    \A c \in Client : \A x \in allowed[c] :
        Cardinality({y \in allowed[c] : y.nr <= x.nr /\ x.at - y.at <= Window}) <= MaxHits
=============================================================================
