----------------------------- MODULE A2AProofs -----------------------------
(***************************************************************************)
(* Proofs about the A2A peering: the limiter, delegate calls over it, and  *)
(* the discovery of a peer's card and keys, for any number of processes,   *)
(* restarts and secrets and any cache ages.                                *)
(***************************************************************************)
EXTENDS A2A, Discovery, FiniteSetTheorems, TLAPS

LimiterTypes ==
    /\ now \in Nat /\ served \in Nat
    /\ allowed \in [Client -> SUBSET Hit]
    /\ DOMAIN hits \subseteq Client
    /\ hits = [k \in DOMAIN hits |-> hits[k]]
    /\ \A k \in DOMAIN hits : hits[k] \subseteq allowed[k]
    /\ \A k \in Client : IsFiniteSet(allowed[k])

\* What was allowed was allowed earlier, and has an earlier number than what comes.
Past == \A k \in Client : \A x \in allowed[k] : x.at <= now /\ x.nr <= served

\* The table forgets nothing that still counts.
RecentKept ==
    \A k \in Client : \A x \in allowed[k] :
        now - x.at <= Window => k \in DOMAIN hits /\ x \in hits[k]

LimiterInv == LimiterTypes /\ Past /\ RecentKept /\ WindowRespected

Counted(k, x) == {y \in allowed[k] : y.nr <= x.nr /\ x.at - y.at <= Window}
-----------------------------------------------------------------------------
LEMMA LimiterInitInv == LimiterInit => LimiterInv
<1> SUFFICES ASSUME LimiterInit PROVE LimiterInv
    OBVIOUS
<1>1. LimiterTypes
    BY FS_EmptySet DEF LimiterInit, LimiterTypes
<1>2. Past /\ RecentKept /\ WindowRespected
    BY DEF LimiterInit, Past, RecentKept, WindowRespected
<1> QED
    BY <1>1, <1>2 DEF LimiterInv

\* What is left of a client's hits are the requests allowed within the window.
LEMMA TrimmedRecent ==
    ASSUME LimiterInv, NEW c \in Client
    PROVE  Trimmed(c) = {x \in allowed[c] : now - x.at <= Window}
BY DEF LimiterInv, LimiterTypes, RecentKept, Trimmed

\* Tidying drops only clients none of whose requests count any more.
LEMMA TidiedKeeps ==
    ASSUME NEW t, NEW k \in DOMAIN t, NEW x \in t[k], now - x.at <= Window
    PROVE  k \in DOMAIN Tidied(t) /\ Tidied(t)[k] = t[k]
BY DEF Tidied, Active

LEMMA TidiedPart ==
    ASSUME NEW t, t = [k \in DOMAIN t |-> t[k]]
    PROVE  /\ DOMAIN Tidied(t) \subseteq DOMAIN t
           /\ \A k \in DOMAIN Tidied(t) : Tidied(t)[k] = t[k]
           /\ Tidied(t) = [k \in DOMAIN Tidied(t) |-> Tidied(t)[k]]
BY DEF Tidied

LEMMA AllowInv ==
    ASSUME LimiterInv, NEW c \in Client, Allow(c)
    PROVE  LimiterInv'
<1> DEFINE hit == [nr |-> served + 1, at |-> now]
           table == Remember(c, Trimmed(c) \cup {hit})
<1> USE LimiterAssumption
<1>1. /\ served' = served + 1 /\ now' = now
      /\ hits' = Tidied(table)
      /\ allowed' = [allowed EXCEPT ![c] = @ \cup {hit}]
      /\ Cardinality(Trimmed(c)) < MaxHits
    BY DEF Allow
<1>2. hit \in Hit
    BY DEF Hit, LimiterInv, LimiterTypes
<1>3. /\ DOMAIN table = DOMAIN hits \cup {c}
      /\ table = [k \in DOMAIN table |-> table[k]]
      /\ table[c] = Trimmed(c) \cup {hit}
      /\ \A k \in DOMAIN hits : k # c => table[k] = hits[k]
    BY DEF Remember
<1>4. allowed'[c] = allowed[c] \cup {hit} /\ \A k \in Client \ {c} : allowed'[k] = allowed[k]
    BY <1>1 DEF LimiterInv, LimiterTypes
<1> HIDE DEF hit, table
<1>5. LimiterTypes'
  <2>1. now' \in Nat /\ served' \in Nat /\ allowed' \in [Client -> SUBSET Hit]
      BY <1>1, <1>2 DEF LimiterInv, LimiterTypes
  <2>2. DOMAIN hits' \subseteq Client
      BY <1>1, <1>3, TidiedPart DEF LimiterInv, LimiterTypes
  <2>3. hits' = [k \in DOMAIN hits' |-> hits'[k]]
      BY <1>1, <1>3, TidiedPart
  <2>4. \A k \in DOMAIN hits' : hits'[k] \subseteq allowed'[k]
    <3> SUFFICES ASSUME NEW k \in DOMAIN hits' PROVE hits'[k] \subseteq allowed'[k]
        OBVIOUS
    <3>1. k \in DOMAIN table /\ hits'[k] = table[k]
        BY <1>1, <1>3, TidiedPart
    <3>2. CASE k = c
        BY <3>1, <3>2, <1>3, <1>4, TrimmedRecent
    <3>3. CASE k # c
        BY <3>1, <3>3, <1>3, <1>4 DEF LimiterInv, LimiterTypes
    <3> QED
        BY <3>2, <3>3
  <2>5. \A k \in Client : IsFiniteSet(allowed'[k])
      BY <1>4, FS_AddElement DEF LimiterInv, LimiterTypes
  <2> QED
      BY <2>1, <2>2, <2>3, <2>4, <2>5 DEF LimiterTypes
<1>6. Past'
    BY <1>1, <1>2, <1>4 DEF LimiterInv, LimiterTypes, Past, hit, Hit
<1>7. RecentKept'
  <2> SUFFICES ASSUME NEW k \in Client, NEW x \in allowed'[k], now - x.at <= Window
               PROVE  k \in DOMAIN hits' /\ x \in hits'[k]
      BY <1>1 DEF RecentKept
  <2>1. k \in DOMAIN table /\ x \in table[k]
    <3>1. CASE k = c
        BY <3>1, <1>3, <1>4, TrimmedRecent
    <3>2. CASE k # c
        BY <3>2, <1>3, <1>4 DEF LimiterInv, RecentKept
    <3> QED
        BY <3>1, <3>2
  <2> QED
      BY <2>1, <1>1, TidiedKeeps
<1>8. WindowRespected'
  <2> SUFFICES ASSUME NEW k \in Client, NEW x \in allowed'[k]
               PROVE  Cardinality(Counted(k, x)') <= MaxHits
      BY DEF WindowRespected, Counted
  <2>1. CASE k # c
    <3>1. Counted(k, x)' = Counted(k, x) /\ x \in allowed[k]
        BY <2>1, <1>4 DEF Counted
    <3> QED
        BY <3>1 DEF LimiterInv, WindowRespected, Counted
  <2>2. CASE k = c /\ x \in allowed[c]
    <3>1. x.nr \in Nat /\ x.nr <= served /\ hit.nr = served + 1 /\ served \in Nat
        BY <2>2 DEF LimiterInv, LimiterTypes, Past, Hit, hit
    <3>2. Counted(k, x)' = Counted(k, x)
        BY <2>2, <3>1, <1>4 DEF Counted
    <3> QED
        BY <2>2, <3>2 DEF LimiterInv, WindowRespected, Counted
  <2>3. CASE k = c /\ x = hit
    <3>1. \A y \in allowed[c] : y.nr <= hit.nr
        BY DEF LimiterInv, LimiterTypes, Past, Hit, hit
    <3>5. hit.at = now /\ hit.nr \in Nat /\ now - hit.at <= Window
        BY DEF hit, LimiterInv, LimiterTypes
    <3>6. Counted(k, x)' = {y \in allowed[c] \cup {hit} : y.nr <= hit.nr /\ now - y.at <= Window}
        BY <2>3, <3>5, <1>4 DEF Counted
    <3>8. Trimmed(c) = {y \in allowed[c] : now - y.at <= Window}
        BY TrimmedRecent
    <3>2. Counted(k, x)' = Trimmed(c) \cup {hit}
      <4> HIDE DEF Trimmed
      <4>1. ASSUME NEW y PROVE y \in Counted(k, x)' <=> y \in Trimmed(c) \cup {hit}
          BY <3>1, <3>5, <3>6, <3>8
      <4> QED
          BY <4>1, <3>6, Zenon
    <3>7. Trimmed(c) \in SUBSET allowed[c] /\ IsFiniteSet(allowed[c])
        BY <3>8 DEF LimiterInv, LimiterTypes
    <3>3. IsFiniteSet(Trimmed(c))
        BY <3>7, FS_Subset
    <3>4. Cardinality(Trimmed(c)) \in Nat
        BY <3>3, FS_CardinalityType
    <3>9. Cardinality(Trimmed(c) \cup {hit}) \in {Cardinality(Trimmed(c)), Cardinality(Trimmed(c)) + 1}
        BY <3>3, FS_AddElement, Zenon
    <3>10. Cardinality(Trimmed(c) \cup {hit}) <= MaxHits
        BY <3>4, <3>9, <1>1
    <3> QED
        BY <3>2, <3>10, Zenon
  <2> QED
      BY <2>1, <2>2, <2>3, <1>4
<1> QED
    BY <1>5, <1>6, <1>7, <1>8 DEF LimiterInv

LEMMA RefuseInv ==
    ASSUME LimiterInv, NEW c \in Client, Refuse(c)
    PROVE  LimiterInv'
<1>1. /\ hits' = Remember(c, Trimmed(c))
      /\ now' = now /\ served' = served /\ allowed' = allowed
    BY DEF Refuse
<1>2. /\ DOMAIN hits' = DOMAIN hits \cup {c}
      /\ hits' = [k \in DOMAIN hits' |-> hits'[k]]
      /\ hits'[c] = Trimmed(c)
      /\ \A k \in DOMAIN hits : k # c => hits'[k] = hits[k]
    BY <1>1 DEF Remember
<1>3. LimiterTypes'
    BY <1>1, <1>2, TrimmedRecent DEF LimiterInv, LimiterTypes
<1>4. RecentKept'
  <2> SUFFICES ASSUME NEW k \in Client, NEW x \in allowed[k], now - x.at <= Window
               PROVE  k \in DOMAIN hits' /\ x \in hits'[k]
      BY <1>1 DEF RecentKept
  <2>1. CASE k = c
      BY <2>1, <1>2, TrimmedRecent
  <2>2. CASE k # c
      BY <2>2, <1>2 DEF LimiterInv, RecentKept
  <2> QED
      BY <2>1, <2>2
<1>5. Past' /\ WindowRespected'
    BY <1>1 DEF LimiterInv, Past, WindowRespected
<1> QED
    BY <1>3, <1>4, <1>5 DEF LimiterInv

LEMMA TickInv ==
    ASSUME LimiterInv, Tick
    PROVE  LimiterInv'
<1> USE LimiterAssumption
<1>1. now' = now + 1 /\ served' = served /\ hits' = hits /\ allowed' = allowed
    BY DEF Tick
<1>2. \A k \in Client : \A x \in allowed[k] : x.at \in Nat
    BY DEF LimiterInv, LimiterTypes, Hit
<1>3. now \in Nat
    BY DEF LimiterInv, LimiterTypes
<1>4. LimiterTypes' /\ WindowRespected'
    BY <1>1 DEF LimiterInv, LimiterTypes, WindowRespected
<1>5. Past' /\ RecentKept'
    BY <1>1, <1>2, <1>3 DEF LimiterInv, Past, RecentKept
<1> QED
    BY <1>4, <1>5 DEF LimiterInv

LEMMA ForgetInv ==
    ASSUME LimiterInv, Forget
    PROVE  LimiterInv'
<1>1. LimiterTypes'
    BY FS_EmptySet DEF LimiterInv, LimiterTypes, Forget
<1>2. Past' /\ RecentKept' /\ WindowRespected'
    BY DEF Forget, Past, RecentKept, WindowRespected
<1> QED
    BY <1>1, <1>2 DEF LimiterInv

LEMMA LimiterNextInv == LimiterInv /\ [LimiterNext]_limiterVars => LimiterInv'
<1> SUFFICES ASSUME LimiterInv, [LimiterNext]_limiterVars PROVE LimiterInv'
    OBVIOUS
<1>1. CASE UNCHANGED limiterVars
    BY <1>1 DEF limiterVars, LimiterInv, LimiterTypes, Past, RecentKept, WindowRespected
<1> QED
    BY <1>1, AllowInv, RefuseInv, TickInv, ForgetInv DEF LimiterNext

\* The limiter keeps its limit in every window, for any number of clients, any limit
\* and window, and whenever it tidies its table.
THEOREM LimiterKeepsWindow == LimiterSpec => []WindowRespected
<1>1. LimiterInv => WindowRespected
    BY DEF LimiterInv
<1> QED
    BY <1>1, LimiterInitInv, LimiterNextInv, PTL DEF LimiterSpec
-----------------------------------------------------------------------------
\* What the limiter allows, and the trims of its refusals, are all that happens to it.
LEMMA LimiterStep == [Next]_vars => [LimiterNext]_limiterVars
<1> SUFFICES ASSUME [Next]_vars PROVE [LimiterNext]_limiterVars
    OBVIOUS
<1> USE A2AAssumption DEF limiterVars
<1>1. ASSUME NEW h \in Host, Enter(h) \/ Exit(h) \/ Closed(h)
      PROVE  UNCHANGED limiterVars
    BY <1>1 DEF Enter, Exit, Closed
<1>2. ASSUME NEW c \in Call, Delegate(c) \/ Post(c) \/ Abandon(c) \/ Hear(c) \/ GiveUp(c) \/ ReadBody(c) \/ StartRun(c) \/ EndRun(c)
      PROVE  UNCHANGED limiterVars
    BY <1>2 DEF Delegate, Post, Abandon, Hear, GiveUp, ReadBody, StartRun, EndRun
<1>3. ASSUME NEW c \in Call, TooMany(c) \/ Admit(c)
      PROVE  LimiterNext
    BY <1>3 DEF TooMany, Admit, LimiterNext
<1>4. ASSUME NEW k \in Client, OtherRequest(k)
      PROVE  LimiterNext
    BY <1>4 DEF OtherRequest, LimiterNext
<1>5. CASE Restart \/ Ticks
    BY <1>5 DEF Restart, Ticks, LimiterNext
<1>6. CASE UNCHANGED vars
    BY <1>6 DEF vars
<1> QED
    BY <1>1, <1>2, <1>3, <1>4, <1>5, <1>6 DEF Next

\* The peer uses its limiter as LimiterSpec says, restarts included.
THEOREM LimiterInside == Spec => LimiterSpec
BY LimiterStep, PTL DEF Spec, LimiterSpec, Init

\* Whatever calls are made of the peer, and by whom, no client is admitted more often
\* than the limit in any window.
THEOREM WindowKept == Spec => []WindowRespected
BY LimiterInside, LimiterKeepsWindow, PTL
-----------------------------------------------------------------------------
CallTypes ==
    /\ pc \in [Call -> {"idle", "minting", "posted", "over"}]
    /\ outcome \in [Call -> Delegation \cup {"none", "result", "raised", "RuntimeError", "crashed"}]
    /\ stage \in [Call -> Handling \cup Answers \cup {"none", "reset"}]
    /\ got \in [Call -> SUBSET Tag] /\ learnt \in [Call -> SUBSET Tag]
    /\ started \subseteq Call

\* A run is started only for an admitted call; what its caller heard is what its handler
\* ended with, and a handler that has ended does nothing more.
AnswerInv ==
    \A c \in Call :
        /\ c \in started => stage[c] \in {"running", "rpc_error", "unfit", "result", "500", "reset"}
        /\ stage[c] \in {"running", "result"} => c \in started
        /\ pc[c] \in {"idle", "minting"} => stage[c] = "none"
        /\ pc[c] # "over" => outcome[c] = "none"
        /\ outcome[c] = "result" => stage[c] = "result" /\ got[c] = learnt[c]
        /\ outcome[c] = "RemoteAuthFailed" => stage[c] = "401"
        /\ outcome[c] = "RemoteMalformed" => stage[c] \in {"429", "unfit"}
        /\ outcome[c] = "RemoteProtocolError" => stage[c] = "rpc_error"
        /\ outcome[c] \in {"RuntimeError", "crashed"} => stage[c] = "none"

PeerInv == CallTypes /\ AnswerInv

LEMMA PeerInit == Init => PeerInv
BY DEF Init, PeerInv, CallTypes, AnswerInv

LEMMA PeerStep == PeerInv /\ [Next]_vars => PeerInv'
<1> SUFFICES ASSUME PeerInv, [Next]_vars PROVE PeerInv'
    OBVIOUS
<1> USE DEF PeerInv, CallTypes, callVars, peerVars, refVars
<1>1. ASSUME UNCHANGED callVars, UNCHANGED peerVars PROVE PeerInv'
    BY <1>1 DEF AnswerInv
<1>2. ASSUME NEW h \in Host, Enter(h) \/ Exit(h) \/ Closed(h) PROVE PeerInv'
    BY <1>1, <1>2 DEF Enter, Exit, Closed
<1>3. ASSUME NEW c \in Call, Delegate(c) PROVE PeerInv'
    BY <1>3 DEF Delegate, EndCall, AnswerInv
<1>4. ASSUME NEW c \in Call, Post(c) PROVE PeerInv'
    BY <1>4 DEF Post, EndCall, AnswerInv, Handling
<1>5. ASSUME NEW c \in Call, Abandon(c) \/ GiveUp(c) PROVE PeerInv'
    BY <1>5 DEF Abandon, GiveUp, EndCall, AnswerInv, Delegation
<1>6. ASSUME NEW c \in Call, Hear(c) PROVE PeerInv'
    BY <1>6 DEF Hear, EndCall, Means, TaintOf, AnswerInv, Answers, Delegation
<1>7. ASSUME NEW c \in Call, TooMany(c) \/ Admit(c) \/ ReadBody(c) PROVE PeerInv'
    BY <1>7 DEF TooMany, Admit, ReadBody, Respond, AnswerInv, Answers, Handling
<1>8. ASSUME NEW c \in Call, StartRun(c) PROVE PeerInv'
    BY <1>8 DEF StartRun, Respond, AnswerInv, Answers, Handling
<1>9. ASSUME NEW c \in Call, EndRun(c) PROVE PeerInv'
    BY <1>9 DEF EndRun, Respond, AnswerInv, Answers
<1>10. ASSUME Restart PROVE PeerInv'
    BY <1>10 DEF Restart, AnswerInv, Handling
<1>11. ASSUME Ticks \/ UNCHANGED vars \/ \E k \in Client : OtherRequest(k) PROVE PeerInv'
    BY <1>1, <1>11 DEF Ticks, vars, OtherRequest
<1> QED
    BY <1>2, <1>3, <1>4, <1>5, <1>6, <1>7, <1>8, <1>9, <1>10, <1>11 DEF Next

\* What a delegate call returns is what the peer's run of this call ended with; after an
\* error that answers it nothing of it is at work at the peer, and after a refused token
\* or a missing client nothing ever was: though answers are lost, results are unreadable
\* and the peer restarts.
THEOREM AnswersHonest == Spec => []AnswersAreTrue
<1>1. PeerInv => AnswersAreTrue
    BY DEF PeerInv, AnswerInv, AnswersAreTrue, Handling
<1> QED
    BY <1>1, PeerInit, PeerStep, PTL DEF Spec
-----------------------------------------------------------------------------
RefTypes ==
    /\ inside \in [Host -> {"out", "in", "closing"}]
    /\ opened \in 0..MaxOpen /\ http \in NoClient..opened
    /\ closed \subseteq 1..opened /\ hasty \subseteq 1..opened

Flags == owns \in BOOLEAN /\ botched \in BOOLEAN

Awaited == \E h \in Host : inside[h] = "closing"

\* The AgentRef owns what it made.  A client it made is closed, or in use by somebody
\* inside, or was lost: only to a close that was awaited already when it was made.  A
\* closed one is there only while its close is awaited, or because a close failed.
ClientInv ==
    /\ owns <=> http > 0
    /\ 1..opened \subseteq closed \cup hasty \cup {http}
    /\ http > 0 /\ http \notin closed =>
          /\ \E h \in Host : inside[h] = "in"
          /\ Awaited => http \in hasty
    /\ http \in closed => Awaited \/ botched

RefInv == RefTypes /\ Flags /\ ClientInv

LEMMA RefInit == Init => RefInv
<1> SUFFICES ASSUME Init PROVE RefInv
    OBVIOUS
<1> USE A2AAssumption
<1>1. RefTypes
    BY DEF Init, RefTypes, NoClient
<1>2. Flags
    BY DEF Init, Flags
<1>3. ClientInv
    BY DEF Init, ClientInv, NoClient
<1> QED
    BY <1>1, <1>2, <1>3 DEF RefInv

LEMMA RefSame == RefInv /\ UNCHANGED refVars => RefInv'
<1> SUFFICES ASSUME RefInv, UNCHANGED refVars PROVE RefInv'
    OBVIOUS
<1>1. RefTypes' /\ ClientInv'
    BY DEF RefInv, RefTypes, ClientInv, Awaited, refVars
<1>2. Flags'
    BY DEF RefInv, Flags, refVars
<1> QED
    BY <1>1, <1>2 DEF RefInv

LEMMA EnterInv == ASSUME RefInv, NEW h \in Host, Enter(h) PROVE RefInv'
<1> USE A2AAssumption DEF RefInv, RefTypes, NoClient
<1>1. RefTypes'
  <2>1. inside' \in [Host -> {"out", "in", "closing"}] /\ closed' = closed
      BY DEF Enter
  <2>2. CASE Makes
    <3>1. /\ opened < MaxOpen /\ opened' = opened + 1 /\ http' = opened + 1
          /\ hasty' \subseteq hasty \cup {opened + 1}
        BY <2>2 DEF Enter
    <3> QED
        BY <2>1, <3>1
  <2>3. CASE ~Makes
    <3>1. opened' = opened /\ http' = http /\ hasty' = hasty
        BY <2>3 DEF Enter
    <3> QED
        BY <2>1, <3>1
  <2> QED
      BY <2>2, <2>3
<1>2. Flags'
    BY DEF Enter, Makes, Flags
<1>3. inside'[h] = "in" /\ (Awaited' => Awaited) /\ (Awaited => Awaited')
    BY DEF Enter, Awaited
<1>4. CASE http # NoClient
  <2>1. /\ opened' = opened /\ http' = http /\ owns' = owns /\ closed' = closed
        /\ hasty' = hasty /\ botched' = botched
      BY <1>4 DEF Enter, Makes
  <2> QED
      BY <1>1, <1>2, <1>3, <2>1 DEF ClientInv
<1>5. CASE http = NoClient
  <2>1. /\ opened' = opened + 1 /\ http' = opened + 1 /\ owns' = TRUE
        /\ closed' = closed /\ botched' = botched
        /\ hasty' = IF Awaited THEN hasty \cup {opened + 1} ELSE hasty
      BY <1>5 DEF Enter, Makes, Awaited
  <2>2. http' \notin closed'
      BY <2>1
  <2>3. 1..opened' \subseteq closed' \cup hasty' \cup {http'}
      BY <1>5, <2>1 DEF ClientInv
  <2> QED
      BY <1>1, <1>2, <1>3, <2>1, <2>2, <2>3 DEF ClientInv
<1> QED
    BY <1>1, <1>2, <1>4, <1>5

LEMMA ExitInv == ASSUME RefInv, NEW h \in Host, Exit(h) PROVE RefInv'
<1> USE A2AAssumption DEF RefInv, RefTypes, NoClient
<1>1. CASE Closes /\ http \notin closed
  <2>1. /\ inside' = [inside EXCEPT ![h] = "closing"] /\ closed' = closed \cup {http}
        /\ http' = http /\ owns' = owns /\ opened' = opened /\ hasty' = hasty /\ botched' = botched
      BY <1>1 DEF Exit
  <2>2. http > 0
      BY <1>1 DEF Closes, ClientInv
  <2>3. Awaited'
      BY <2>1 DEF Awaited
  <2>4. RefTypes'
      BY <2>1, <2>2
  <2>5. Flags'
      BY <2>1 DEF Flags
  <2>6. ClientInv'
      BY <2>1, <2>2, <2>3 DEF ClientInv
  <2> QED
      BY <2>4, <2>5, <2>6
<1>2. CASE ~(Closes /\ http \notin closed)
  <2>1. /\ inside' = [inside EXCEPT ![h] = "out"] /\ closed' = closed
        /\ opened' = opened /\ hasty' = hasty /\ botched' = botched
        /\ \/ Closes /\ http \in closed /\ http' = NoClient /\ owns' = FALSE
           \/ ~Closes /\ http' = http /\ owns' = owns
      BY <1>2 DEF Exit, Drop
  <2>2. Awaited' <=> Awaited
      BY <2>1 DEF Awaited, Exit
  <2>3. RefTypes'
      BY <2>1
  <2>4. Flags'
      BY <2>1 DEF Flags
  <2>5. ~Closes => ~(http > 0)
      BY DEF Closes, ClientInv
  <2>6. ClientInv'
    <3>1. CASE Closes
        BY <2>1, <2>2, <3>1 DEF ClientInv
    <3>2. CASE ~Closes
        BY <2>1, <2>2, <2>5, <3>2 DEF ClientInv
    <3> QED
        BY <3>1, <3>2
  <2> QED
      BY <2>3, <2>4, <2>6
<1> QED
    BY <1>1, <1>2

LEMMA ClosedInv == ASSUME RefInv, NEW h \in Host, Closed(h) PROVE RefInv'
<1> USE A2AAssumption DEF RefInv, RefTypes, NoClient
<1>1. /\ inside' = [inside EXCEPT ![h] = "out"] /\ inside[h] = "closing"
      /\ closed' = closed /\ opened' = opened /\ hasty' = hasty
      /\ \/ http' = NoClient /\ owns' = FALSE /\ botched' = botched
         \/ http' = http /\ owns' = owns /\ botched' = TRUE
    BY DEF Closed, Drop
<1>2. Awaited /\ (Awaited' => Awaited)
    BY <1>1 DEF Awaited
<1>3. RefTypes'
    BY <1>1
<1>4. Flags'
    BY <1>1 DEF Flags
<1>5. \A k \in Host : inside[k] = "in" => inside'[k] = "in"
    BY <1>1
<1>6. ClientInv'
  <2>1. CASE http' = NoClient /\ owns' = FALSE
    <3>1. 1..opened' \subseteq closed' \cup hasty'
      <4>1. http \in 1..opened => http \in closed \cup hasty
          BY <1>2 DEF ClientInv
      <4> QED
          BY <1>1, <4>1 DEF ClientInv
    <3> QED
        BY <1>1, <2>1, <3>1 DEF ClientInv
  <2>2. CASE http' = http /\ owns' = owns /\ botched' = TRUE
      BY <1>1, <1>2, <1>5, <2>2 DEF ClientInv
  <2> QED
      BY <1>1, <2>1, <2>2
<1> QED
    BY <1>3, <1>4, <1>6

LEMMA RefStep == RefInv /\ [Next]_vars => RefInv'
<1> SUFFICES ASSUME RefInv, [Next]_vars PROVE RefInv'
    OBVIOUS
<1>1. ASSUME NEW c \in Call,
             \/ Delegate(c) \/ Post(c) \/ Abandon(c) \/ Hear(c) \/ GiveUp(c)
             \/ TooMany(c) \/ Admit(c) \/ ReadBody(c) \/ StartRun(c) \/ EndRun(c)
      PROVE  UNCHANGED refVars
    BY <1>1 DEF Delegate, Post, Abandon, Hear, GiveUp, TooMany, Admit, ReadBody, StartRun, EndRun
<1>2. ASSUME Restart \/ Ticks \/ UNCHANGED vars \/ \E k \in Client : OtherRequest(k)
      PROVE  UNCHANGED refVars
    BY <1>2 DEF Restart, Ticks, vars, OtherRequest
<1> QED
    BY <1>1, <1>2, EnterInv, ExitInv, ClosedInv, RefSame DEF Next

\* However many hosts open and close the AgentRef under however many calls: the
\* application's client is never closed, and with nobody inside a client made here is
\* unclosed only if it was made under an awaited close, and kept only if a close failed.
THEOREM ClientsAccounted == Spec => []ClientsReturned
<1>1. RefInv => ClientsReturned
  <2> SUFFICES ASSUME RefInv PROVE ClientsReturned
      OBVIOUS
  <2>1. 0 \notin closed
      BY DEF RefInv, RefTypes
  <2>2. ASSUME \A h \in Host : inside[h] = "out"
        PROVE  1..opened \subseteq closed \cup hasty /\ (http > 0 => botched)
    <3>1. ~Awaited /\ ~\E h \in Host : inside[h] = "in"
        BY <2>2 DEF Awaited
    <3>2. http > 0 => http \in closed
        BY <3>1 DEF RefInv, ClientInv
    <3>3. 1..opened \subseteq closed \cup hasty
        BY <3>2, A2AAssumption DEF RefInv, RefTypes, ClientInv
    <3> QED
        BY <3>1, <3>2, <3>3 DEF RefInv, ClientInv
  <2> QED
      BY <2>1, <2>2 DEF ClientsReturned
<1> QED
    BY <1>1, RefInit, RefStep, PTL DEF Spec

\* Every variable keeps its type; what the limiter's table holds was really allowed.
THEOREM TypeCorrect == Spec => []TypeOK
<1> DEFINE Bounds == now \in 0..MaxTime /\ served \in 0..MaxServed
<1> USE LimiterAssumption, A2AAssumption
<1>1. Init => Bounds
    BY DEF Init, LimiterInit
<1>2. Bounds /\ [LimiterNext]_limiterVars => Bounds'
  <2> SUFFICES ASSUME Bounds, [LimiterNext]_limiterVars PROVE Bounds'
      OBVIOUS
  <2>1. ASSUME NEW c \in Client, Allow(c) PROVE Bounds'
      BY <2>1 DEF Allow
  <2>2. CASE Tick
      BY <2>2 DEF Tick
  <2>3. ASSUME UNCHANGED <<now, served>> PROVE Bounds'
      BY <2>3
  <2> QED
      BY <2>1, <2>2, <2>3 DEF LimiterNext, Refuse, Forget, limiterVars
<1>3. Init => LimiterInv /\ PeerInv /\ RefInv
    BY LimiterInitInv, PeerInit, RefInit DEF Init
<1>4. LimiterInv /\ PeerInv /\ RefInv /\ Bounds => TypeOK
  <2> SUFFICES ASSUME LimiterInv, PeerInv, RefInv, Bounds PROVE TypeOK
      OBVIOUS
  <2>1. http \in NoClient..MaxOpen
      BY DEF RefInv, RefTypes, NoClient
  <2>2. owns \in BOOLEAN /\ botched \in BOOLEAN
      BY DEF RefInv, Flags
  <2> QED
      BY <2>1, <2>2 DEF LimiterInv, LimiterTypes, PeerInv, CallTypes, RefInv, RefTypes, TypeOK
<1> QED
    BY <1>1, <1>2, <1>3, <1>4, RefStep, LimiterStep, LimiterNextInv, PeerStep, PTL DEF Spec
-----------------------------------------------------------------------------
(* Discovery.                                                              *)

Lives == [kid : Kid, key : Kid, conf : Settings, secret : SecretOrOwn]

\* The processes that serve the origin are not gone; keys in the cache will have left it
\* before who served them is gone for longer than they may be cached; the caller asks for
\* the keys of signed cards only, and at its own origin.
DiscoveryInv ==
    /\ DiscoveryTypeOK /\ proc = [p \in Process |-> proc[p]]
    /\ \A w \in Up : gone[proc[w].kid] = 0
    /\ shelf.keysLeft > 0 => \A x \in shelf.keys : gone[x[1]] + shelf.keysLeft <= JwksAge
    /\ phase = "card" => tok.signed /\ tok.jwks # "other"

LEMMA Numbers ==
    /\ 0 \in Nat /\ CardAge \in Nat /\ JwksAge \in Nat /\ MaxTTL \in Nat /\ Forever = MaxTTL + 1
    /\ MaxStarts \in Nat /\ 1 \in Kid /\ 2 \in Kid /\ Kid \subseteq Nat
    /\ NoCard \in Card /\ Empty \in [card : Card, cardLeft : 0..CardAge,
                                     keys : SUBSET (Kid \X Kid), keysLeft : 0..JwksAge]
<1>1. /\ CardAge \in Nat /\ JwksAge \in Nat /\ MaxTTL \in Nat /\ Forever = MaxTTL + 1
      /\ MaxStarts \in Nat \ {0, 1}
    BY DiscoveryAssumption DEF Forever
<1>2. 1 \in Kid /\ 2 \in Kid /\ Kid \subseteq Nat
    BY <1>1 DEF Kid
<1>3. NoCard \in Card
    BY <1>1 DEF NoCard, Card
<1> QED BY <1>1, <1>2, <1>3 DEF Empty

\* A process that runs has a life of its own, set up in one of the ways it may be.
LEMMA ProcessTyped ==
    ASSUME DiscoveryTypeOK, NEW p \in Process, proc[p] # Down
    PROVE  proc[p] \in Lives
BY DiscoveryAssumption DEF DiscoveryTypeOK, Lives

\* What a process that serves the origin says of itself is a card, and its keys are keys.
LEMMA ServedTyped ==
    ASSUME DiscoveryTypeOK, NEW w \in Process, proc[w] # Down, NEW json \in BOOLEAN
    PROVE  CardOf(w, json) \in Card /\ KeysOf(w) \subseteq Kid \X Kid
<1>1. Source(w) \in Process /\ proc[Source(w)] \in Lives /\ proc[w] \in Lives
    BY ProcessTyped DEF Source, Process
<1>2. CardOf(w, json) \in Card
    <2> DEFINE p == proc[Source(w)]
               leads == LeadsTo(w)
    <2>1. /\ p.kid \in 0..MaxStarts /\ p.key \in 0..MaxStarts /\ p.conf \in Settings
          /\ proc[w].conf \in Settings
        BY <1>1, Numbers DEF Lives, Kid
    <2>2. /\ p.conf.https \in BOOLEAN /\ p.conf.ttl \in 0..Forever
          /\ leads \in {"own", "prefixed", "other", "none"}
        <3>1. Settings = [signs : BOOLEAN, file : BOOLEAN, mirror : BOOLEAN, https : BOOLEAN,
                          jwks : {"own", "prefixed", "other", "none"}, ttl : 1..Forever,
                          auth : {"trusted", "no issuers", "RS256"}, ephemeral : BOOLEAN]
            BY DEF Settings
        <3>2. 1..Forever \subseteq 0..Forever
            BY Numbers
        <3>3. leads \in {"other", proc[w].conf.jwks}
            BY DEF LeadsTo
        <3>4. proc[w].conf.jwks \in {"own", "prefixed", "other", "none"}
            BY <2>1, <3>1
        <3> HIDE DEF p, leads
        <3> QED BY <2>1, <3>1, <3>2, <3>3, <3>4
    <2>3. \/ CardOf(w, json) = [kid |-> p.kid, key |-> p.key, signed |-> TRUE, https |-> p.conf.https,
                               jwks |-> leads, ttl |-> p.conf.ttl]
          \/ CardOf(w, json) = [NoCard EXCEPT !.jwks = leads]
        BY DEF CardOf
    <2> HIDE DEF p, leads
    <2>4. [NoCard EXCEPT !.jwks = leads] \in Card
        BY <2>2, Numbers DEF Card
    <2>5. [kid |-> p.kid, key |-> p.key, signed |-> TRUE, https |-> p.conf.https,
           jwks |-> leads, ttl |-> p.conf.ttl] \in Card
        BY <2>1, <2>2 DEF Card
    <2> QED BY <2>3, <2>4, <2>5
<1>3. KeysOf(w) \subseteq Kid \X Kid
    BY <1>1 DEF KeysOf, PublicKid, Lives
<1> QED BY <1>2, <1>3

LEMMA OlderTyped ==
    ASSUME NEW c \in Card
    PROVE  Older(c) \in Card /\ Older(c).signed = c.signed /\ Older(c).jwks = c.jwks
BY Numbers DEF Older, Card, Less

LEMMA DiscoveryInitInv == DiscoveryInit => DiscoveryInv
<1> SUFFICES ASSUME DiscoveryInit PROVE DiscoveryInv
    OBVIOUS
<1>1. PICK c \in Setup[Caller], d \in Setup[Other] :
          proc = [p \in Process |->
                    CASE p = Caller -> [kid |-> 1, key |-> 1, conf |-> c, secret |-> SecretOf(1, c)]
                      [] p = Other -> [kid |-> 2, key |-> 2, conf |-> d, secret |-> SecretOf(2, d)]
                      [] OTHER -> Down]
    BY DEF DiscoveryInit
<1>2. /\ \A p \in Home : proc[p] = Down
      /\ proc[Caller] = [kid |-> 1, key |-> 1, conf |-> c, secret |-> SecretOf(1, c)]
      /\ proc[Other] = [kid |-> 2, key |-> 2, conf |-> d, secret |-> SecretOf(2, d)]
    BY <1>1, DiscoveryAssumption DEF Process
<1>3. SecretOf(1, c) \in SecretOrOwn /\ SecretOf(2, d) \in SecretOrOwn /\ NoSecret \in SecretOrOwn
    BY Numbers DEF SecretOf, SecretOrOwn, DiscoveryInit
<1>4. \A p \in Process :
          proc[p] = Down
          \/ proc[p] \in [kid : Kid, key : Kid, conf : Setup[p], secret : SecretOrOwn]
    BY <1>2, <1>3, Numbers DEF Process
<1>5. DiscoveryTypeOK
    BY <1>3, <1>4, Numbers, DiscoveryAssumption DEF DiscoveryInit, DiscoveryTypeOK, Kid
<1>6. Up = {} /\ shelf.keysLeft = 0 /\ proc = [p \in Process |-> proc[p]]
    BY <1>1, <1>2 DEF Up, DiscoveryInit, Empty
<1> QED BY <1>5, <1>6 DEF DiscoveryInv, DiscoveryInit

\* Older than JwksAge is as old as it gets.
LEMMA Ageing ==
    ASSUME DiscoveryTypeOK, Elapse
    PROVE  /\ gone' \in [Kid -> 0..JwksAge + 1]
           /\ \A k \in Kid : gone'[k] <= gone[k] + 1
           /\ \A w \in Up : proc[w].kid \in Kid => gone'[proc[w].kid] = 0
<1>1. gone' = [k \in Kid |-> IF \E w \in Up : proc[w].kid = k THEN 0
                             ELSE IF gone[k] > JwksAge THEN gone[k] ELSE gone[k] + 1]
    BY DEF Elapse
<1>2. gone \in [Kid -> 0..JwksAge + 1]
    BY DEF DiscoveryTypeOK
<1>3. ASSUME NEW k \in Kid PROVE gone'[k] \in 0..JwksAge + 1 /\ gone'[k] <= gone[k] + 1
    <2>1. gone[k] \in 0..JwksAge + 1 /\ gone'[k] \in {0, gone[k], gone[k] + 1}
          /\ (gone'[k] = gone[k] + 1 => gone[k] <= JwksAge \/ gone'[k] = 0 \/ gone'[k] = gone[k])
        BY <1>1, <1>2, <1>3, Numbers
    <2> QED BY <2>1, Numbers
<1>4. gone' = [k \in Kid |-> gone'[k]]
    BY <1>1
<1>5. gone' \in [Kid -> 0..JwksAge + 1]
    BY <1>3, <1>4
<1>6. \A w \in Up : proc[w].kid \in Kid => gone'[proc[w].kid] = 0
    BY <1>1
<1> QED BY <1>3, <1>5, <1>6

\* The cache gets older.
LEMMA ShelfAges ==
    ASSUME DiscoveryTypeOK, Elapse
    PROVE  /\ shelf' \in [card : Card, cardLeft : 0..CardAge,
                          keys : SUBSET (Kid \X Kid), keysLeft : 0..JwksAge]
           /\ shelf'.keysLeft > 0 => shelf'.keys = shelf.keys /\ shelf'.keysLeft = shelf.keysLeft - 1
                                     /\ shelf.keysLeft > 0
<1> DEFINE c == IF shelf.cardLeft > 1 THEN Older(shelf.card) ELSE NoCard
           k == IF shelf.keysLeft > 1 THEN shelf.keys ELSE {}
<1>1. /\ shelf.card \in Card /\ shelf.cardLeft \in 0..CardAge
      /\ shelf.keys \in SUBSET (Kid \X Kid) /\ shelf.keysLeft \in 0..JwksAge
    BY DEF DiscoveryTypeOK
<1>2. c \in Card /\ Less(shelf.cardLeft) \in 0..CardAge /\ k \in SUBSET (Kid \X Kid)
      /\ Less(shelf.keysLeft) \in 0..JwksAge
    BY <1>1, OlderTyped, Numbers DEF Less
<1>3. shelf' = [card |-> c, cardLeft |-> Less(shelf.cardLeft), keys |-> k, keysLeft |-> Less(shelf.keysLeft)]
    BY DEF Elapse
<1> HIDE DEF c
<1>4. shelf'.keysLeft = Less(shelf.keysLeft) /\ shelf'.keys = k
    BY <1>3
<1>5. shelf'.keysLeft > 0 => shelf'.keys = shelf.keys /\ shelf'.keysLeft = shelf.keysLeft - 1
                             /\ shelf.keysLeft > 0
    BY <1>1, <1>4, Numbers DEF Less
<1> QED BY <1>2, <1>3, <1>5

LEMMA StartInv ==
    ASSUME DiscoveryInv, NEW p \in Process, NEW conf \in Setup[p], Start(p, conf)
    PROVE  DiscoveryInv'
<1> DEFINE k == KeyOf(p, starts', conf)
           life == [kid |-> starts', key |-> k, conf |-> conf, secret |-> SecretOf(starts', conf)]
<1>1. DiscoveryTypeOK /\ proc = [q \in Process |-> proc[q]]
    BY DEF DiscoveryInv
<1>2. starts' \in Kid /\ starts' \in 0..MaxStarts
    BY <1>1, Numbers DEF Start, DiscoveryTypeOK, Kid
<1>3. k \in Kid /\ k \in 0..MaxStarts
    BY <1>1, <1>2, Numbers DEF KeyOf, DiscoveryTypeOK, Kid
<1>4. SecretOf(starts', conf) \in SecretOrOwn
    BY <1>1, <1>2 DEF SecretOf, SecretOrOwn, DiscoveryTypeOK
<1>5. life \in [kid : Kid, key : Kid, conf : Setup[p], secret : SecretOrOwn] /\ life.kid = starts'
    BY <1>2, <1>3, <1>4
<1>6. proc' = [proc EXCEPT ![p] = life]
    BY DEF Start
<1> HIDE DEF life, k
<1>7. proc'[p] = life /\ \A q \in Process \ {p} : proc'[q] = proc[q]
    BY <1>1, <1>6
<1>8. /\ file' \in [Process -> 0..MaxStarts]
    BY <1>1, <1>3 DEF Start, DiscoveryTypeOK, k
<1>9. /\ gone' \in [Kid -> 0..JwksAge + 1]
      /\ p \in Home => gone'[starts'] = 0
      /\ \A q \in Kid : gone'[q] = gone[q] \/ gone'[q] = 0
    BY <1>1, <1>2, Numbers DEF Start, DiscoveryTypeOK
<1>10. UNCHANGED <<env, shelf, phase, verify, tok, jwt>>
    BY DEF Start
<1>11. DiscoveryTypeOK'
    <2>1. \A q \in Process :
             proc'[q] = Down
             \/ proc'[q] \in [kid : Kid, key : Kid, conf : Setup[q], secret : SecretOrOwn]
        BY <1>1, <1>5, <1>7 DEF DiscoveryTypeOK
    <2> QED BY <1>1, <1>2, <1>8, <1>9, <1>10, <2>1 DEF DiscoveryTypeOK
<1>12. proc' = [q \in Process |-> proc'[q]]
    BY <1>1, <1>6
<1>13. ASSUME NEW w \in Up' PROVE gone'[proc'[w].kid] = 0
    <2>1. CASE w = p
        BY <1>5, <1>7, <1>9, <1>13, <2>1 DEF Up
    <2>2. CASE w # p
        <3>1. w \in Up /\ proc'[w] = proc[w] /\ w \in Process
            BY <1>7, <1>13, <2>2 DEF Up, Process
        <3>2. proc[w].kid \in Kid /\ gone[proc[w].kid] = 0
            BY <1>1, <3>1, ProcessTyped DEF Up, Lives, DiscoveryInv
        <3> QED BY <1>9, <3>1, <3>2
    <2> QED BY <2>1, <2>2
<1>14. shelf'.keysLeft > 0 => \A x \in shelf'.keys : gone'[x[1]] + shelf'.keysLeft <= JwksAge
    <2> SUFFICES ASSUME shelf.keysLeft > 0, NEW x \in shelf.keys
                 PROVE  gone'[x[1]] + shelf.keysLeft <= JwksAge
        BY <1>10
    <2>1. x[1] \in Kid /\ shelf.keysLeft \in Nat /\ gone[x[1]] \in Nat
        BY <1>1, Numbers DEF DiscoveryTypeOK
    <2>2. gone[x[1]] + shelf.keysLeft <= JwksAge
        BY DEF DiscoveryInv
    <2>3. gone'[x[1]] = gone[x[1]] \/ gone'[x[1]] = 0
        BY <1>9, <2>1
    <2> QED BY <2>1, <2>2, <2>3, Numbers
<1> QED BY <1>10, <1>11, <1>12, <1>13, <1>14 DEF DiscoveryInv

LEMMA ElapseInv == ASSUME DiscoveryInv, Elapse PROVE DiscoveryInv'
<1>1. DiscoveryTypeOK /\ UNCHANGED <<proc, file, env, starts, phase, verify, jwt>>
    BY DEF DiscoveryInv, Elapse
<1>2. tok' = Older(tok) /\ tok \in Card
    BY <1>1 DEF Elapse, DiscoveryTypeOK
<1>3. tok' \in Card /\ tok'.signed = tok.signed /\ tok'.jwks = tok.jwks
    BY <1>2, OlderTyped
<1>4. DiscoveryTypeOK'
    BY <1>1, <1>3, Ageing, ShelfAges DEF DiscoveryTypeOK
<1>5. \A w \in Up' : gone'[proc'[w].kid] = 0
    <2> SUFFICES ASSUME NEW w \in Up PROVE gone'[proc[w].kid] = 0
        BY <1>1 DEF Up
    <2>1. proc[w].kid \in Kid
        BY <1>1, ProcessTyped DEF Up, Process, Lives
    <2> QED BY <1>1, <2>1, Ageing
<1>6. shelf'.keysLeft > 0 => \A x \in shelf'.keys : gone'[x[1]] + shelf'.keysLeft <= JwksAge
    <2> SUFFICES ASSUME shelf'.keysLeft > 0, NEW x \in shelf'.keys
                 PROVE  gone'[x[1]] + shelf'.keysLeft <= JwksAge
        OBVIOUS
    <2>1. x \in shelf.keys /\ shelf'.keysLeft = shelf.keysLeft - 1 /\ shelf.keysLeft > 0
        BY <1>1, ShelfAges
    <2>2. x[1] \in Kid /\ shelf.keysLeft \in Nat /\ gone[x[1]] \in Nat
        <3>1. shelf.keys \subseteq Kid \X Kid /\ shelf.keysLeft \in 0..JwksAge
              /\ gone \in [Kid -> 0..JwksAge + 1]
            BY <1>1 DEF DiscoveryTypeOK
        <3>2. x[1] \in Kid
            BY <2>1, <3>1
        <3> DEFINE k == x[1]
        <3> HIDE DEF k
        <3>3. gone[k] \in 0..JwksAge + 1
            BY <3>1, <3>2 DEF k
        <3>4. shelf.keysLeft \in Nat /\ gone[k] \in Nat
            BY <3>1, <3>3, Numbers
        <3> QED BY <3>2, <3>4 DEF k
    <2>3. gone[x[1]] + shelf.keysLeft <= JwksAge
        BY <2>1 DEF DiscoveryInv
    <2>4. gone'[x[1]] <= gone[x[1]] + 1 /\ gone'[x[1]] \in Nat
        BY <1>1, <2>2, Ageing
    <2> QED BY <2>1, <2>2, <2>3, <2>4, Numbers
<1> QED BY <1>1, <1>3, <1>4, <1>5, <1>6 DEF DiscoveryInv

LEMMA ShelfChanges ==
    ASSUME NEW C, NEW D, NEW K, NEW N, NEW s \in [card : C, cardLeft : D, keys : K, keysLeft : N],
           NEW c \in C, NEW d \in D, NEW k \in K, NEW n \in N
    PROVE  /\ [s EXCEPT !.card = c, !.cardLeft = d] \in [card : C, cardLeft : D, keys : K, keysLeft : N]
           /\ [s EXCEPT !.keys = k, !.keysLeft = n] \in [card : C, cardLeft : D, keys : K, keysLeft : N]
           /\ [s EXCEPT !.card = c, !.cardLeft = d].keys = s.keys
           /\ [s EXCEPT !.card = c, !.cardLeft = d].keysLeft = s.keysLeft
           /\ [s EXCEPT !.keys = k, !.keysLeft = n].keys = k
           /\ [s EXCEPT !.keys = k, !.keysLeft = n].keysLeft = n
OBVIOUS

\* Another client's visit leaves what a running process serves in the cache.
LEMMA VisitInv ==
    ASSUME DiscoveryInv, NEW w \in Up, KeysVisit(w) \/ \E json \in BOOLEAN : CardVisit(w, json)
    PROVE  DiscoveryInv'
<1>1. DiscoveryTypeOK /\ UNCHANGED <<proc, file, env, starts, gone, phase, verify, tok, jwt>>
    BY DEF DiscoveryInv, CardVisit, KeysVisit
<1>2. w \in Process /\ proc[w] # Down
    BY DEF Up, Process
<1>3. (\A json \in BOOLEAN : CardOf(w, json) \in Card) /\ KeysOf(w) \in SUBSET (Kid \X Kid)
    BY <1>1, <1>2, ServedTyped
<1>4. /\ shelf' \in [card : Card, cardLeft : 0..CardAge,
                     keys : SUBSET (Kid \X Kid), keysLeft : 0..JwksAge]
      /\ \/ shelf'.keys = shelf.keys /\ shelf'.keysLeft = shelf.keysLeft
         \/ shelf'.keys = KeysOf(w) /\ shelf'.keysLeft = JwksAge
    <2>1. shelf \in [card : Card, cardLeft : 0..CardAge,
                     keys : SUBSET (Kid \X Kid), keysLeft : 0..JwksAge]
        BY <1>1 DEF DiscoveryTypeOK
    <2>2. CardAge \in 0..CardAge /\ JwksAge \in 0..JwksAge
        BY Numbers
    <2>3. CASE \E json \in BOOLEAN : CardVisit(w, json)
        <3>1. PICK json \in BOOLEAN : shelf' = [shelf EXCEPT !.card = CardOf(w, json), !.cardLeft = CardAge]
            BY <2>3 DEF CardVisit
        <3>2. CardOf(w, json) \in Card
            BY <1>3
        <3> QED BY <3>2, <1>3, <2>1, <2>2, <3>1, ShelfChanges
    <2>4. CASE KeysVisit(w)
        <3>1. shelf' = [shelf EXCEPT !.keys = KeysOf(w), !.keysLeft = JwksAge]
            BY <2>4 DEF KeysVisit
        <3> QED BY <1>3, <2>1, <2>2, <3>1, ShelfChanges
    <2> QED BY <2>3, <2>4
<1>5. DiscoveryTypeOK'
    BY <1>1, <1>4 DEF DiscoveryTypeOK
<1>6. \A x \in KeysOf(w) : gone[x[1]] = 0
    BY DEF KeysOf, PublicKid, DiscoveryInv
<1>7. shelf'.keysLeft > 0 => \A x \in shelf'.keys : gone'[x[1]] + shelf'.keysLeft <= JwksAge
    BY <1>1, <1>4, <1>6, Numbers DEF DiscoveryInv
<1> QED BY <1>1, <1>5, <1>7 DEF DiscoveryInv, Up

\* What a caller does leaves the processes and the cache alone.
LEMMA CallerInv ==
    ASSUME DiscoveryInv, UNCHANGED <<proc, file, env, starts, gone, shelf>>,
           phase' \in {"idle", "asked", "card", "accepted", "posted", "admitted", "refused", "failed"},
           verify' \in BOOLEAN, tok' \in Card, jwt' \in SecretOrOwn,
           phase' = "posted" <=> jwt' # NoSecret,
           phase' = "card" => tok'.signed /\ tok'.jwks # "other"
    PROVE  DiscoveryInv'
<1>1. DiscoveryTypeOK'
    BY DEF DiscoveryInv, DiscoveryTypeOK
<1> QED BY <1>1 DEF DiscoveryInv, Up

LEMMA CallerSteps ==
    ASSUME DiscoveryInv,
           \/ \E v \in BOOLEAN : Ask(v)
           \/ CardArrives \/ KeysArrive \/ Fail \/ Mint \/ Deliver \/ Again
    PROVE  DiscoveryInv'
<1>1. DiscoveryTypeOK
    BY DEF DiscoveryInv
<1>2. /\ tok \in Card /\ jwt \in SecretOrOwn /\ verify \in BOOLEAN /\ NoCard \in Card
      /\ NoSecret \in SecretOrOwn /\ (phase = "posted" <=> jwt # NoSecret)
    BY <1>1, Numbers DEF DiscoveryTypeOK, SecretOrOwn
<1>3. ASSUME NEW v \in BOOLEAN, Ask(v) PROVE DiscoveryInv'
    BY <1>2, <1>3, CallerInv DEF Ask
<1>4. CASE CardArrives
    <2>1. Served \subseteq Card
        BY <1>1, <1>2, ServedTyped DEF Served, Up, Process, DiscoveryTypeOK
    <2>2. phase = "asked" /\ UNCHANGED <<proc, file, env, starts, gone, shelf, jwt>> /\ verify' = TRUE
        BY <1>4 DEF CardArrives
    <2>3. /\ phase' \in {"accepted", "card", "refused"} /\ tok' \in Card
          /\ phase' = "card" => tok'.signed /\ tok'.jwks # "other"
        BY <1>2, <1>4, <2>1 DEF CardArrives, SameHost
    <2> QED BY <1>2, <2>2, <2>3, CallerInv
<1>5. CASE KeysArrive
    <2>1. phase = "card" /\ UNCHANGED <<proc, file, env, starts, gone, shelf, verify, jwt>>
        BY <1>5 DEF KeysArrive
    <2>2. phase' \in {"accepted", "refused"} /\ tok' \in Card
        BY <1>2, <1>5 DEF KeysArrive
    <2> QED BY <1>2, <2>1, <2>2, CallerInv
<1>6. CASE Fail
    BY <1>2, <1>6, CallerInv DEF Fail
<1>7. CASE Mint
    <2>1. proc[Caller].secret \in SecretOrOwn
        BY <1>1, <1>7, ProcessTyped DEF Mint, Process, Lives
    <2>2. [NoCard EXCEPT !.jwks = tok.jwks] \in Card
        BY <1>2 DEF Card
    <2> QED BY <1>2, <1>7, <2>1, <2>2, CallerInv DEF Mint, Signed
<1>8. CASE Deliver
    <2>1. phase' \in {"admitted", "refused"}
        BY <1>8 DEF Deliver
    <2> QED BY <1>2, <1>8, <2>1, CallerInv DEF Deliver
<1>9. CASE Again
    BY <1>2, <1>9, CallerInv DEF Again
<1> QED BY <1>3, <1>4, <1>5, <1>6, <1>7, <1>8, <1>9

LEMMA DiscoveryNextInv == DiscoveryInv /\ [DiscoveryNext]_discoveryVars => DiscoveryInv'
<1> SUFFICES ASSUME DiscoveryInv, [DiscoveryNext]_discoveryVars PROVE DiscoveryInv'
    OBVIOUS
<1>1. DiscoveryTypeOK
    BY DEF DiscoveryInv
<1>2. ASSUME NEW w \in Up, Stop(w) PROVE DiscoveryInv'
    <2>1. proc' = [proc EXCEPT ![w] = Down] /\ UNCHANGED <<file, env, starts, gone, shelf, phase, verify, tok, jwt>>
        BY <1>2 DEF Stop
    <2>2. \A q \in Process : proc'[q] = proc[q] \/ proc'[q] = Down
        BY <2>1 DEF DiscoveryInv
    <2>3. DiscoveryTypeOK'
        BY <1>1, <2>1, <2>2 DEF DiscoveryTypeOK
    <2>4. \A q \in Up' : q \in Up /\ proc'[q] = proc[q]
        BY <2>2 DEF Up, Process
    <2> QED BY <2>1, <2>3, <2>4 DEF DiscoveryInv
<1>3. CASE Rotate
    <2>1. UNCHANGED <<proc, file, gone, shelf, phase, verify, tok, jwt>>
          /\ env' \in Secret /\ starts' \in 0..MaxStarts
        BY <1>1, <1>3, Numbers DEF Rotate, DiscoveryTypeOK
    <2>2. DiscoveryTypeOK'
        BY <1>1, <2>1 DEF DiscoveryTypeOK
    <2> QED BY <2>1, <2>2 DEF DiscoveryInv, Up
<1>4. CASE UNCHANGED discoveryVars
    BY <1>4 DEF discoveryVars, DiscoveryInv, DiscoveryTypeOK, Up
<1> QED BY <1>2, <1>3, <1>4, StartInv, VisitInv, ElapseInv, CallerSteps DEF DiscoveryNext

LEMMA DiscoveryInvariance == DiscoverySpec => []DiscoveryInv
BY DiscoveryInitInv, DiscoveryNextInv, PTL DEF DiscoverySpec

\* The processes, the cache and the caller keep their types, and nobody posts unsigned
\* (keys.py: jwt_signing_key raises without a secret).
THEOREM DiscoveryTypeCorrect == DiscoverySpec => []DiscoveryTypeOK
BY DiscoveryInvariance, PTL DEF DiscoveryInv

\* However processes restart and caches lie between the two requests of
\* _fetch_and_verify, a card accepted with verification was signed by who served the
\* origin at most a JWKS max-age ago, and has not expired.
THEOREM AcceptedWasVouched == DiscoverySpec => AcceptedIsVouched
<1>1. ASSUME DiscoveryInv, [DiscoveryNext]_discoveryVars, phase = "card", phase' = "accepted"
      PROVE  tok.signed /\ gone[tok.kid] <= JwksAge /\ tok.ttl > 0
    <2>1. KeysArrive
        BY <1>1 DEF DiscoveryNext, discoveryVars, Start, Stop, CardVisit, KeysVisit, Ask, Rotate,
                    Elapse, CardArrives, Fail, Mint, Deliver, Again
    <2>2. PICK keys \in KeysAt : <<tok.kid, tok.key>> \in keys /\ ~Expired(tok)
        BY <1>1, <2>1 DEF KeysArrive
    <2>3. tok.signed /\ tok.jwks # "other" /\ tok \in Card
        BY <1>1 DEF DiscoveryInv, DiscoveryTypeOK
    <2>4. tok.ttl > 0
        BY <2>2, <2>3, Numbers DEF Expired, Card
    <2>5. \/ shelf.keysLeft > 0 /\ keys = shelf.keys
          \/ \E w \in Up : keys = KeysOf(w)
        BY <2>2, <2>3 DEF KeysAt, Card
    <2>6. CASE shelf.keysLeft > 0 /\ keys = shelf.keys
        <3>1. gone[tok.kid] + shelf.keysLeft <= JwksAge
            BY <1>1, <2>2, <2>6 DEF DiscoveryInv
        <3>2. tok.kid \in Kid /\ shelf.keysLeft \in Nat /\ gone[tok.kid] \in Nat
            BY <1>1, <2>2, <2>6, Numbers DEF DiscoveryInv, DiscoveryTypeOK
        <3> QED BY <2>3, <2>4, <3>1, <3>2, Numbers
    <2>7. CASE \E w \in Up : keys = KeysOf(w)
        <3>1. PICK w \in Up : keys = KeysOf(w)
            BY <2>7
        <3>2. gone[tok.kid] = 0
            BY <1>1, <2>2, <3>1 DEF KeysOf, PublicKid, DiscoveryInv
        <3> QED BY <2>3, <2>4, <3>2, Numbers
    <2> QED BY <2>5, <2>6, <2>7
<1>2. DiscoveryInv /\ [DiscoveryNext]_discoveryVars
      => [phase = "card" /\ phase' = "accepted"
          => tok.signed /\ gone[tok.kid] <= JwksAge /\ tok.ttl > 0]_discoveryVars
    BY <1>1
<1> QED BY <1>2, DiscoveryInvariance, PTL DEF DiscoverySpec, AcceptedIsVouched
=============================================================================
