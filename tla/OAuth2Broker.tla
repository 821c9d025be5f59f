---------------------------- MODULE OAuth2Broker ----------------------------
(***************************************************************************)
(* auth/brokers/oauth2.py: one token cache shared by the tool calls of     *)
(* many users, refreshed under one lock with refresh tokens the server may *)
(* accept only once.                                                       *)
(*                                                                         *)
(* A task is one tool call of executors/standard.py: it resolves its       *)
(* user's credential, uses it, and after a 401 asks once for a refresh.    *)
(***************************************************************************)
EXTENDS Naturals, FiniteSets

CONSTANTS
    Principal,   \* users with an id of their own
    Shared,      \* _SHARED_KEY, the service-account slot
    Task,        \* concurrent tool calls
    User,        \* User[t]: the principal task t runs for
    Rotating,    \* the server accepts a refresh token once
    NoCred, NoTask,
    MaxCred      \* bound: credentials ever issued

Slot == Principal \cup {Shared}

ASSUME BrokerAssumption ==
    /\ Shared \notin Principal
    /\ NoTask \notin Task
    /\ User \in [Task -> Principal]
    /\ Rotating \in BOOLEAN
    /\ MaxCred \in Nat

\* A Credentials object: its identity, whose grant it descends from, its refresh
\* token (0: metadata has none).
Cred == [id : 1..MaxCred, owner : Slot, rt : 0..MaxCred]
ASSUME NoCredAssumption == NoCred \notin Cred

VARIABLES
    cache,     \* cache[k]: the credential in slot k, or NoCred
    issued,    \* credentials issued so far
    stale,     \* ids within refresh_buffer_s of their expiry
    redeemed,  \* refresh tokens the server has exchanged
    lost,      \* those whose answer never reached the cache
    lock,      \* _refresh_lock: the task inside, or NoTask
    pc,        \* where task t is: see Pc
    key,       \* key[t]: the slot the call works on
    arg,       \* arg[t]: the credential it saw, or asked to replace
    held       \* held[t]: ctx.credentials

vars == <<cache, issued, stale, redeemed, lost, lock, pc, key, arg, held>>

\* resolve: await_lock, grant; then using; refresh: await_swap, swap; then rerun.
Granting == {"grant", "swap"}
Pc == {"idle", "await_lock", "using", "await_swap", "rerun"} \cup Granting
-----------------------------------------------------------------------------
Expired(c) == c.id \in stale
Fresh(c) == c # NoCred /\ ~Expired(c)

Init ==
    /\ cache = [k \in Slot |-> NoCred]
    /\ issued = 0 /\ stale = {} /\ redeemed = {} /\ lost = {}
    /\ lock = NoTask
    /\ pc = [t \in Task |-> "idle"]
    /\ key = [t \in Task |-> Shared]
    /\ arg = [t \in Task |-> NoCred] /\ held = [t \in Task |-> NoCred]

\* store_initial: a user's or the service account's first grant, or a new one.
StoreInitial(k) ==
    /\ issued < MaxCred
    /\ issued' = issued + 1
    /\ \E rt \in {0, issued'} :
          cache' = [cache EXCEPT ![k] = [id |-> issued', owner |-> k, rt |-> rt]]
    /\ UNCHANGED <<stale, redeemed, lost, lock, pc, key, arg, held>>

\* Time passes: a cached credential gets within the buffer of its expiry (the
\* broker looks at the expiry of no other).
NearExpiry ==
    /\ \E k \in Slot : Fresh(cache[k]) /\ stale' = stale \cup {cache[k].id}
    /\ UNCHANGED <<cache, issued, redeemed, lost, lock, pc, key, arg, held>>

Returns(t, c, to) ==
    /\ held' = [held EXCEPT ![t] = c]
    /\ pc' = [pc EXCEPT ![t] = to]

Enters(t, c, to) ==
    /\ arg' = [arg EXCEPT ![t] = c]
    /\ pc' = [pc EXCEPT ![t] = to]

\* The call and its locals are gone.
Ends(t) ==
    /\ pc' = [pc EXCEPT ![t] = "idle"]
    /\ key' = [key EXCEPT ![t] = Shared]
    /\ arg' = [arg EXCEPT ![t] = NoCred] /\ held' = [held EXCEPT ![t] = NoCred]

\* The slot read, and the slot a refresh of what it held will be written to.
SlotFor(t) == IF cache[User[t]] # NoCred THEN User[t] ELSE Shared

\* Faulty variant: `key` stays the user's after falling back to the shared slot.
KeyForUser(t) == User[t]
KeyFor(t) == SlotFor(t)

\* resolve up to its first await: the user's slot, else the shared one; a fresh
\* token is returned without the lock.  No token at all: MissingCredentialError.
Resolve(t) ==
    /\ pc[t] = "idle"
    /\ LET k == SlotFor(t) IN
          /\ cache[k] # NoCred
          /\ key' = [key EXCEPT ![t] = KeyFor(t)]
          /\ IF Fresh(cache[k])
             THEN Returns(t, cache[k], "using") /\ UNCHANGED arg
             ELSE Enters(t, cache[k], "await_lock") /\ UNCHANGED held
    /\ UNCHANGED <<cache, issued, stale, redeemed, lost, lock>>

\* Faulty variant: the slot is not looked at again under the lock.
CurrentUnchecked(t) == arg[t]
Current(t) == cache[key[t]]

\* resolve with the lock: someone else may have refreshed meanwhile.
ResolveLocked(t) ==
    /\ pc[t] = "await_lock" /\ lock = NoTask
    /\ IF Fresh(Current(t))
       THEN Returns(t, Current(t), "using") /\ UNCHANGED <<arg, lock>>
       ELSE /\ Enters(t, IF Current(t) # NoCred THEN Current(t) ELSE arg[t], "grant")
            /\ lock' = t /\ UNCHANGED held
    /\ UNCHANGED <<cache, issued, stale, redeemed, lost, key>>

\* The slot that holds `creds` itself (v is creds); the shared one when none does.
SlotHolding(c) ==
    IF \E k \in Slot : cache[k] = c THEN CHOOSE k \in Slot : cache[k] = c ELSE Shared

\* The tool's first attempt was refused with a 401: broker.refresh(ctx.credentials).
Unauthorized(t) ==
    /\ pc[t] = "using"
    /\ Enters(t, held[t], "await_swap")
    /\ UNCHANGED <<cache, issued, stale, redeemed, lost, lock, key, held>>

\* Faulty variant: whatever the slot holds is returned, the refused one too.
NewerAny(c, current) == Fresh(current)
Newer(c, current) == Fresh(current) /\ current # c

\* refresh with the lock: a newer cached token, else a grant.
RefreshLocked(t) ==
    /\ pc[t] = "await_swap" /\ lock = NoTask
    /\ LET k == SlotHolding(arg[t]) IN
          /\ key' = [key EXCEPT ![t] = k]
          /\ IF Newer(arg[t], cache[k])
             THEN Returns(t, cache[k], "rerun") /\ UNCHANGED lock
             ELSE /\ pc' = [pc EXCEPT ![t] = "swap"]
                  /\ lock' = t /\ UNCHANGED held
    /\ UNCHANGED <<cache, issued, stale, redeemed, lost, arg>>

Accepted(rt) == rt # 0 /\ (Rotating => rt \notin redeemed)

Granted(t) == [id |-> issued', owner |-> arg[t].owner,
               rt |-> IF Rotating THEN issued' ELSE arg[t].rt]

\* Faulty variant: a failing grant keeps the lock.
LockKept(t) == lock
LockAfterFailure(t) == NoTask

\* The token endpoint answers: the slot is replaced and the lock released.
GrantOk(t) ==
    /\ pc[t] \in Granting /\ Accepted(arg[t].rt) /\ issued < MaxCred
    /\ issued' = issued + 1
    /\ redeemed' = redeemed \cup {arg[t].rt}
    /\ cache' = [cache EXCEPT ![key[t]] = Granted(t)]
    /\ Returns(t, Granted(t), IF pc[t] = "grant" THEN "using" ELSE "rerun")
    /\ lock' = NoTask
    /\ UNCHANGED <<stale, lost, key, arg>>

\* The call fails while it has the lock: no refresh token, a refusal, a network
\* error, a cancellation.  The server may have exchanged the token all the same, as
\* it has when storing the new one in the keychain raises.
GrantFails(t) ==
    /\ pc[t] \in Granting
    /\ \/ UNCHANGED <<redeemed, lost>>
       \/ /\ Accepted(arg[t].rt)
          /\ redeemed' = redeemed \cup {arg[t].rt} /\ lost' = lost \cup {arg[t].rt}
    /\ lock' = LockAfterFailure(t)
    /\ Ends(t)
    /\ UNCHANGED <<cache, issued, stale>>

\* The tool call is over, with a value or an error.
Finish(t) ==
    /\ pc[t] \in {"using", "rerun"}
    /\ Ends(t)
    /\ UNCHANGED <<cache, issued, stale, redeemed, lost, lock>>

\* The call is cancelled while it waits for the lock.
Abandon(t) ==
    /\ pc[t] \in {"await_lock", "await_swap"}
    /\ Ends(t)
    /\ UNCHANGED <<cache, issued, stale, redeemed, lost, lock>>

LockStep(t) == ResolveLocked(t) \/ RefreshLocked(t)
TaskStep(t) == GrantOk(t) \/ GrantFails(t) \/ Finish(t)

Next ==
    \/ \E k \in Slot : StoreInitial(k)
    \/ NearExpiry
    \/ \E t \in Task :
          Resolve(t) \/ Unauthorized(t) \/ Abandon(t) \/ LockStep(t) \/ TaskStep(t)

\* The token endpoint answers or fails, tools end, and asyncio.Lock is granted in
\* arrival order.
Fairness == \A t \in Task : WF_vars(TaskStep(t)) /\ SF_vars(LockStep(t))

Spec == Init /\ [][Next]_vars
FairSpec == Spec /\ Fairness
-----------------------------------------------------------------------------
TypeOK ==
    /\ cache \in [Slot -> Cred \cup {NoCred}]
    /\ issued \in 0..MaxCred /\ stale \subseteq 1..MaxCred
    /\ redeemed \subseteq 0..MaxCred /\ lost \subseteq redeemed
    /\ lock \in Task \cup {NoTask}
    /\ pc \in [Task -> Pc] /\ key \in [Task -> Slot]
    /\ arg \in [Task -> Cred \cup {NoCred}] /\ held \in [Task -> Cred \cup {NoCred}]

\* A user's slot only ever holds tokens descending from that user's own grant, in
\* whatever order the calls of all users interleave.
UserSlotsIsolated == \A p \in Principal : cache[p] # NoCred => cache[p].owner = p

\* The lock is held exactly while its holder waits for the token endpoint: two
\* grants never overlap, and no way out of a grant leaves the lock behind.
LockIsGrant == \A t \in Task : lock = t <=> pc[t] \in Granting

\* resolve never presents a refresh token the server has already exchanged, unless
\* that exchange's answer was lost: concurrent callers of one expired token fire
\* one grant.
ResolveNeverReplays ==
    \A t \in Task : pc[t] = "grant" /\ Rotating => arg[t].rt \notin redeemed \ lost

\* One grant at a time, and none with a token that is spent.
GrantsSerialised == LockIsGrant /\ ResolveNeverReplays

\* After a 401 the retry never runs on the credential that was just refused.
RetryHasAnother == \A t \in Task : pc[t] = "rerun" => held[t] # arg[t]

\* What a call was given, before and after a refusal.
FirstToken(t) ==
    CASE pc[t] = "using" -> held[t]
      [] pc[t] \in {"await_swap", "swap", "rerun"} -> arg[t]
      [] OTHER -> NoCred
SecondToken(t) == IF pc[t] = "rerun" THEN held[t] ELSE NoCred
Paying == IF lock = NoTask THEN NoCred ELSE arg[lock]

\* Seen from the tool calls the broker is SingleFlight: whatever it does with expiry, its
\* lock and the two looks at a slot, a call is given tokens of its user's slot or the
\* shared one only, at most two and no token twice; exchanges come one by one, each
\* with a token that is still good unless that is the refused one.
Flight ==
    INSTANCE SingleFlight WITH
        Call <- Task, Of <- User, Nobody <- NoTask, NoToken <- NoCred,
        spent <- {rt \in redeemed \ lost : Rotating},
        flight <- lock, pays <- Paying,
        first <- [t \in Task |-> FirstToken(t)], second <- [t \in Task |-> SecondToken(t)]
ImplementsSingleFlight == Flight!Spec

\* Every call of a user ends, however the refreshes of the others go.
CallsEnd == \A t \in Task : pc[t] # "idle" ~> pc[t] = "idle"

\* Comment at oauth2.py:230: the refresh lands back in the slot that held `creds`
\* and does not overwrite another's: the service account's slot holds its own.
SharedSlotIsolated == cache[Shared] # NoCred => cache[Shared].owner = Shared
=============================================================================
