------------------------- MODULE OAuth2BrokerProofs -------------------------
(***************************************************************************)
(* Proofs about OAuth2Broker, for every set of users and calls, any number *)
(* of credentials, and servers that rotate refresh tokens or do not.       *)
(*                                                                         *)
(* Inv says what the checked invariants rest on: an id names one           *)
(* credential (KnownInv) that is in one slot at most (SlotInv), and a call *)
(* in a grant works on the only slot its credential can be in (KeyInv).    *)
(* With OwnInv, that a call and the tokens it has seen stay with its own   *)
(* slots, every step is one of SingleFlight.                               *)
(***************************************************************************)
EXTENDS OAuth2Broker, TLAPS

\* The credentials somebody has a reference to.
Known == {c \in Cred : \/ \E k \in Slot : cache[k] = c
                       \/ \E t \in Task : arg[t] = c \/ held[t] = c}

Types ==
    /\ TypeOK
    /\ \A t \in Task : /\ pc[t] \in {"await_lock", "await_swap"} \cup Granting => arg[t] \in Cred
                       /\ pc[t] = "using" => held[t] \in Cred

KnownInv ==
    \A c \in Known : /\ c.id <= issued /\ c.rt <= issued
                     /\ Rotating => c.rt \in {0, c.id}
                     /\ \A d \in Known : c.id = d.id => c = d

SlotInv == \A k, l \in Slot : cache[k] # NoCred /\ cache[k] = cache[l] => k = l

KeyInv ==
    \A t \in Task :
        /\ pc[t] = "await_lock" => cache[key[t]] # NoCred
        /\ pc[t] \in Granting => \A k \in Slot : cache[k] = arg[t] => k = key[t]
        /\ pc[t] \in {"await_lock"} \cup Granting /\ key[t] \in Principal
              => arg[t].owner = key[t]

Spent == redeemed \ lost
RedeemInv ==
    /\ redeemed \subseteq 1..issued
    /\ Rotating => \A k \in Slot : cache[k] # NoCred => cache[k].rt \notin Spent

Inv ==
    /\ Types /\ KnownInv /\ SlotInv /\ KeyInv /\ RedeemInv
    /\ UserSlotsIsolated /\ LockIsGrant /\ ResolveNeverReplays /\ RetryHasAnother

USE DEF Pc, Granting
-----------------------------------------------------------------------------
LEMMA CredShape ==
    ASSUME NEW c \in Cred
    PROVE  c.id \in 1..MaxCred /\ c.owner \in Slot /\ c.rt \in 0..MaxCred /\ c # NoCred
BY NoCredAssumption DEF Cred

LEMMA InitInv == Init => Inv
<1> SUFFICES ASSUME Init PROVE Inv
    OBVIOUS
<1>1. Types
    BY BrokerAssumption DEF Init, Types, TypeOK, Slot
<1>2. Known = {}
    BY NoCredAssumption DEF Init, Known
<1>3. LockIsGrant
    BY BrokerAssumption DEF Init, LockIsGrant
<1>4. KnownInv
    BY <1>2 DEF KnownInv
<1>5. SlotInv /\ KeyInv /\ RedeemInv
    BY DEF Init, SlotInv, KeyInv, RedeemInv
<1>6. UserSlotsIsolated /\ ResolveNeverReplays /\ RetryHasAnother
    BY DEF Init, UserSlotsIsolated, ResolveNeverReplays, RetryHasAnother, Slot
<1> QED
    BY <1>1, <1>3, <1>4, <1>5, <1>6 DEF Inv

\* A step that makes no credential.
LEMMA KnownKept ==
    ASSUME KnownInv, Known' \subseteq Known, issued' = issued PROVE KnownInv'
BY DEF KnownInv

\* A step that makes the credential `new`, with the next id.
LEMMA KnownMade ==
    ASSUME KnownInv, issued \in Nat, issued' = issued + 1,
           NEW new \in Cred, Known' \subseteq Known \cup {new},
           new.id = issued', new.rt <= issued', Rotating => new.rt \in {0, new.id}
    PROVE  KnownInv'
<1>1. \A c \in Known : c.id <= issued /\ c.id \in Nat /\ c.rt \in Nat
    BY CredShape, BrokerAssumption DEF Known, KnownInv
<1>2. ASSUME NEW c \in Known' PROVE /\ c.id <= issued' /\ c.rt <= issued'
                                    /\ Rotating => c.rt \in {0, c.id}
    BY <1>1 DEF KnownInv
<1>3. ASSUME NEW c \in Known', NEW d \in Known', c.id = d.id PROVE c = d
  <2>1. CASE c \in Known /\ d \in Known
      BY <2>1, <1>3 DEF KnownInv
  <2>2. CASE c = new \/ d = new
      BY <2>2, <1>1, <1>3
  <2> QED
      BY <2>1, <2>2
<1> QED
    BY <1>2, <1>3 DEF KnownInv
-----------------------------------------------------------------------------
LEMMA StoreInitialInv == ASSUME Inv, NEW k \in Slot, StoreInitial(k) PROVE Inv'
<1> USE DEF Inv, StoreInitial
<1> PICK rt \in {0, issued'} :
          cache' = [cache EXCEPT ![k] = [id |-> issued', owner |-> k, rt |-> rt]]
    OBVIOUS
<1> DEFINE new == [id |-> issued', owner |-> k, rt |-> rt]
<1>1. issued \in Nat /\ issued' = issued + 1 /\ issued' \in 1..MaxCred
    BY BrokerAssumption DEF Types, TypeOK
<1>2. new \in Cred /\ new # NoCred
    BY <1>1, BrokerAssumption, NoCredAssumption DEF Cred
<1>3. cache' \in [Slot -> Cred \cup {NoCred}] /\ cache'[k] = new
      /\ \A l \in Slot \ {k} : cache'[l] = cache[l]
    BY <1>2 DEF Types, TypeOK
<1>4. Types'
    BY <1>1, <1>3 DEF Types, TypeOK
<1>5. Known' \subseteq Known \cup {new}
    BY <1>3 DEF Known
<1>6. KnownInv'
    BY <1>1, <1>2, <1>5, KnownMade
<1>7. \A c \in Known : c # new
    BY <1>1, CredShape DEF KnownInv, Known
<1>8. \A l \in Slot : cache[l] # NoCred => cache[l] \in Known
    BY DEF Known, Types, TypeOK
<1>9. \A t \in Task : pc[t] \in {"await_lock"} \cup Granting => arg[t] \in Known
    BY DEF Known, Types
<1>10. SlotInv'
    BY <1>3, <1>7, <1>8 DEF SlotInv
<1>11. KeyInv'
    BY <1>2, <1>3, <1>7, <1>9 DEF KeyInv
<1>12. RedeemInv'
    BY <1>1, <1>3 DEF RedeemInv, Spent
<1>13. UserSlotsIsolated' /\ LockIsGrant' /\ ResolveNeverReplays' /\ RetryHasAnother'
    BY <1>3 DEF UserSlotsIsolated, LockIsGrant, ResolveNeverReplays, RetryHasAnother, Slot
<1> QED
    BY <1>4, <1>6, <1>10, <1>11, <1>12, <1>13

LEMMA NearExpiryInv == ASSUME Inv, NearExpiry PROVE Inv'
<1> USE DEF Inv, NearExpiry
<1>1. stale' \subseteq 1..MaxCred
    BY CredShape DEF Types, TypeOK, Fresh
<1>2. Types'
    BY <1>1 DEF Types, TypeOK
<1> QED
    BY <1>2 DEF KnownInv, Known, SlotInv, KeyInv, RedeemInv, Spent, UserSlotsIsolated,
       LockIsGrant, ResolveNeverReplays, RetryHasAnother

\* A call that only goes elsewhere, taking references others have.
LEMMA MoveInv ==
    ASSUME Inv, NEW t \in Task, Types', Known' \subseteq Known,
           UNCHANGED <<cache, issued>>, redeemed' \subseteq 1..issued, Spent' \subseteq Spent,
           \A u \in Task \ {t} : /\ pc'[u] = pc[u] /\ key'[u] = key[u]
                                 /\ arg'[u] = arg[u] /\ held'[u] = held[u],
           pc'[t] \notin {"await_lock"} \cup Granting,
           pc'[t] = "rerun" => held'[t] # arg'[t],
           lock' = IF lock = t THEN NoTask ELSE lock
    PROVE  Inv'
<1> USE DEF Inv
<1>1. KnownInv'
    BY KnownKept
<1>2. SlotInv' /\ RedeemInv' /\ UserSlotsIsolated'
    BY DEF SlotInv, RedeemInv, UserSlotsIsolated
<1>3. KeyInv' /\ RetryHasAnother'
    BY DEF KeyInv, RetryHasAnother
<1>5. ResolveNeverReplays'
    BY DEF ResolveNeverReplays, Spent
<1>4. LockIsGrant'
    BY BrokerAssumption DEF LockIsGrant
<1> QED
    BY <1>1, <1>2, <1>3, <1>4, <1>5

LEMMA ResolveInv == ASSUME Inv, NEW t \in Task, Resolve(t) PROVE Inv'
<1> USE DEF Inv, Resolve, KeyFor, Returns, Enters
<1> DEFINE k == SlotFor(t)
<1>1. k \in Slot /\ cache[k] \in Cred /\ cache[k] \in Known
    BY BrokerAssumption DEF SlotFor, Slot, Types, TypeOK, Known
<1>2. Types'
    BY <1>1 DEF Types, TypeOK
<1>3. Known' \subseteq Known
    BY <1>1 DEF Known, Types, TypeOK
<1>4. lock # t
    BY DEF LockIsGrant
<1>5. CASE Fresh(cache[k])
  <2>1. pc'[t] = "using"
      BY <1>5 DEF Types, TypeOK
  <2>2. \A u \in Task \ {t} : /\ pc'[u] = pc[u] /\ key'[u] = key[u]
                              /\ arg'[u] = arg[u] /\ held'[u] = held[u]
      BY <1>5 DEF Types, TypeOK
  <2> QED
      BY <1>2, <1>3, <1>4, <2>1, <2>2, MoveInv DEF RedeemInv, Spent
<1>6. CASE ~Fresh(cache[k])
  <2>1. /\ pc' = [pc EXCEPT ![t] = "await_lock"]
        /\ key'[t] = k /\ arg'[t] = cache[k]
        /\ \A u \in Task \ {t} : key'[u] = key[u] /\ arg'[u] = arg[u] /\ held'[u] = held[u]
      BY <1>6 DEF Types, TypeOK
  <2>2. KnownInv' /\ SlotInv' /\ RedeemInv' /\ UserSlotsIsolated'
      BY <1>3, KnownKept DEF SlotInv, RedeemInv, Spent, UserSlotsIsolated
  <2>3. k \in Principal => cache[k].owner = k
      BY <1>1, NoCredAssumption DEF UserSlotsIsolated
  <2>4. KeyInv'
      BY <1>1, <2>1, <2>3, NoCredAssumption DEF KeyInv, Types, TypeOK
  <2>5. LockIsGrant' /\ ResolveNeverReplays' /\ RetryHasAnother'
      BY <2>1, <1>6 DEF LockIsGrant, ResolveNeverReplays, RetryHasAnother, Types, TypeOK
  <2> QED
      BY <1>2, <2>2, <2>4, <2>5
<1> QED
    BY <1>5, <1>6

\* A call that takes the lock to refresh what slot k holds, or held.
LEMMA EnterGrantInv ==
    ASSUME Inv, NEW t \in Task, NEW k \in Slot, lock = NoTask, lock' = t,
           Types', Known' \subseteq Known, UNCHANGED <<cache, issued, redeemed, lost, held>>,
           pc'[t] \in Granting, key'[t] = k,
           \A u \in Task \ {t} : pc'[u] = pc[u] /\ key'[u] = key[u] /\ arg'[u] = arg[u],
           \A l \in Slot : cache[l] = arg'[t] => l = k,
           k \in Principal => cache[k] = arg'[t],
           pc'[t] = "grant" => cache[k] = arg'[t]
    PROVE  Inv'
<1> USE DEF Inv
<1>1. KnownInv' /\ SlotInv' /\ RedeemInv' /\ UserSlotsIsolated'
    BY KnownKept DEF SlotInv, RedeemInv, Spent, UserSlotsIsolated
<1>2. arg'[t] # NoCred
    BY NoCredAssumption DEF Types
<1>3. KeyInv'
    BY <1>2 DEF KeyInv, UserSlotsIsolated
<1>4. LockIsGrant'
    BY BrokerAssumption DEF LockIsGrant
<1>5. ResolveNeverReplays' /\ RetryHasAnother'
    BY <1>2 DEF ResolveNeverReplays, RetryHasAnother, RedeemInv, Spent
<1> QED
    BY <1>1, <1>3, <1>4, <1>5

LEMMA ResolveLockedInv == ASSUME Inv, NEW t \in Task, ResolveLocked(t) PROVE Inv'
<1> USE DEF Inv, ResolveLocked, Current, Returns, Enters
<1> DEFINE k == key[t]
<1>1. k \in Slot /\ cache[k] \in Cred /\ cache[k] # NoCred /\ cache[k] \in Known
    BY DEF KeyInv, Types, TypeOK, Known
<1>2. Types'
    BY <1>1 DEF Types, TypeOK
<1>3. Known' \subseteq Known
    BY <1>1 DEF Known, Types, TypeOK
<1>4. \A u \in Task \ {t} : /\ pc'[u] = pc[u] /\ key'[u] = key[u]
                            /\ arg'[u] = arg[u] /\ held'[u] = held[u]
    BY DEF Types, TypeOK
<1>5. CASE Fresh(cache[k])
  <2>1. pc'[t] = "using" /\ lock' = lock /\ lock # t
      BY <1>5, BrokerAssumption DEF Types, TypeOK
  <2> QED
      BY <1>2, <1>3, <1>4, <2>1, MoveInv DEF RedeemInv, Spent
<1>6. CASE ~Fresh(cache[k])
  <2>1. /\ pc'[t] = "grant" /\ lock' = t /\ held' = held
        /\ arg'[t] = cache[k] /\ key'[t] = k
      BY <1>1, <1>6 DEF Types, TypeOK
  <2>2. \A l \in Slot : cache[l] = cache[k] => l = k
      BY <1>1 DEF SlotInv
  <2> QED
      BY <1>1, <1>2, <1>3, <1>4, <2>1, <2>2, EnterGrantInv
<1> QED
    BY <1>5, <1>6

LEMMA UnauthorizedInv == ASSUME Inv, NEW t \in Task, Unauthorized(t) PROVE Inv'
<1> USE DEF Inv, Unauthorized, Enters
<1>1. Types' /\ pc'[t] = "await_swap"
    BY DEF Types, TypeOK
<1>2. Known' \subseteq Known
    BY DEF Known, Types, TypeOK
<1>3. \A u \in Task \ {t} : /\ pc'[u] = pc[u] /\ key'[u] = key[u]
                            /\ arg'[u] = arg[u] /\ held'[u] = held[u]
    BY DEF Types, TypeOK
<1>4. lock # t
    BY DEF LockIsGrant
<1> QED
    BY <1>1, <1>2, <1>3, <1>4, MoveInv DEF RedeemInv, Spent

LEMMA RefreshLockedInv == ASSUME Inv, NEW t \in Task, RefreshLocked(t) PROVE Inv'
<1> USE DEF Inv, RefreshLocked, Newer, Returns
<1> DEFINE k == SlotHolding(arg[t])
<1>1. /\ k \in Slot /\ arg[t] \in Cred
      /\ (\E l \in Slot : cache[l] = arg[t]) => cache[k] = arg[t]
      /\ ~(\E l \in Slot : cache[l] = arg[t]) => k = Shared
    BY DEF SlotHolding, Slot, Types
<1>2. \A u \in Task \ {t} : /\ pc'[u] = pc[u] /\ key'[u] = key[u]
                            /\ arg'[u] = arg[u] /\ held'[u] = held[u]
    BY DEF Types, TypeOK
<1>3. CASE Newer(arg[t], cache[k])
  <2>1. /\ cache[k] \in Cred /\ cache[k] # arg[t]
        /\ held' = [held EXCEPT ![t] = cache[k]] /\ pc' = [pc EXCEPT ![t] = "rerun"]
        /\ lock' = lock /\ lock # t
      BY <1>1, <1>3, BrokerAssumption DEF Fresh, Types, TypeOK
  <2>2. Types'
      BY <1>1, <2>1 DEF Types, TypeOK
  <2>3. Known' \subseteq Known
      BY <1>1, <2>1 DEF Known, Types, TypeOK
  <2>4. pc'[t] = "rerun" /\ held'[t] # arg'[t]
      BY <2>1 DEF Types, TypeOK
  <2> QED
      BY <1>2, <2>1, <2>2, <2>3, <2>4, MoveInv DEF RedeemInv, Spent
<1>4. CASE ~Newer(arg[t], cache[k])
  <2>1. /\ pc' = [pc EXCEPT ![t] = "swap"] /\ lock' = t /\ held' = held
        /\ key' = [key EXCEPT ![t] = k]
      BY <1>4
  <2>2. Types' /\ pc'[t] = "swap" /\ key'[t] = k
      BY <1>1, <2>1 DEF Types, TypeOK
  <2>3. Known' \subseteq Known
      BY <2>1 DEF Known
  <2>4. \A l \in Slot : cache[l] = arg[t] => l = k
      BY <1>1, NoCredAssumption DEF SlotInv
  <2>5. k \in Principal => cache[k] = arg[t]
      BY <1>1, BrokerAssumption
  <2> QED
      BY <1>1, <1>2, <2>1, <2>2, <2>3, <2>4, <2>5, EnterGrantInv
<1> QED
    BY <1>3, <1>4

LEMMA GrantOkInv == ASSUME Inv, NEW t \in Task, GrantOk(t) PROVE Inv'
<1> USE DEF Inv, GrantOk, Returns
<1> DEFINE new == Granted(t)
<1> DEFINE k == key[t]
<1>1. /\ issued \in Nat /\ issued' = issued + 1 /\ issued' \in 1..MaxCred
      /\ k \in Slot /\ arg[t] \in Cred /\ arg[t] \in Known /\ lock = t
    BY BrokerAssumption DEF Types, TypeOK, Known, LockIsGrant
<1>2. arg[t].rt \in 1..issued /\ arg[t].rt \notin (IF Rotating THEN redeemed ELSE {})
    BY <1>1, CredShape DEF KnownInv, Accepted
<1>3. /\ new \in Cred /\ new # NoCred /\ new.id = issued' /\ new.owner = arg[t].owner
      /\ new.rt = IF Rotating THEN issued' ELSE arg[t].rt
  <2>1. arg[t].owner \in Slot /\ arg[t].rt \in 0..MaxCred
      BY <1>1, CredShape
  <2> QED
      BY <1>1, <2>1, BrokerAssumption, NoCredAssumption DEF Granted, Cred
<1>4. /\ cache' \in [Slot -> Cred \cup {NoCred}] /\ cache'[k] = new
      /\ \A l \in Slot \ {k} : cache'[l] = cache[l]
    BY <1>1, <1>3 DEF Types, TypeOK
<1>5. /\ held'[t] = new /\ pc'[t] \in {"using", "rerun"} /\ arg' = arg /\ key' = key
      /\ \A u \in Task \ {t} : held'[u] = held[u] /\ pc'[u] = pc[u]
    BY DEF Types, TypeOK
<1>6. Types'
  <2>1. redeemed' = redeemed \cup {arg[t].rt} /\ lost' = lost
      OBVIOUS
  <2>5. arg[t].rt \in 0..MaxCred
      BY <1>1, CredShape
  <2>2. redeemed' \subseteq 0..MaxCred /\ lost' \subseteq redeemed'
      BY <2>1, <2>5 DEF Types, TypeOK
  <2>3. held' \in [Task -> Cred \cup {NoCred}] /\ pc' \in [Task -> Pc]
      BY <1>3 DEF Types, TypeOK
  <2>4. TypeOK'
      BY <1>1, <1>4, <2>2, <2>3 DEF Types, TypeOK
  <2> QED
      BY <1>3, <1>5, <2>4 DEF Types
<1>7. Known' \subseteq Known \cup {new}
    BY <1>4, <1>5 DEF Known
<1>8. KnownInv'
  <2>1. new.rt <= issued' /\ (Rotating => new.rt \in {0, new.id})
      BY <1>1, <1>2, <1>3
  <2> QED
      BY <1>1, <1>3, <1>7, <2>1, KnownMade
<1>9. \A c \in Known : c # new
    BY <1>1, <1>3, CredShape DEF KnownInv, Known
<1>10. \A l \in Slot : cache[l] # NoCred => cache[l] \in Known
    BY DEF Known, Types, TypeOK
<1>11. \A u \in Task : pc[u] \in {"await_lock"} \cup Granting => arg[u] \in Known
    BY DEF Known, Types
<1>12. SlotInv'
    BY <1>4, <1>9, <1>10 DEF SlotInv
<1>13. KeyInv'
    BY <1>3, <1>4, <1>5, <1>9, <1>11 DEF KeyInv
<1>14. RedeemInv'
  <2>1. redeemed' = redeemed \cup {arg[t].rt} /\ lost' = lost
      OBVIOUS
  <2>2. redeemed' \subseteq 1..issued'
    <3>1. redeemed \subseteq 1..issued
        BY DEF RedeemInv
    <3>2. 1..issued \subseteq 1..issued'
        BY <1>1
    <3>3. arg[t].rt \in 1..issued
        BY <1>2
    <3> HIDE DEF GrantOk, Inv
    <3> QED
        BY <2>1, <3>1, <3>2, <3>3
  <2>3. ASSUME Rotating PROVE new.rt \notin Spent'
      BY <1>1, <1>2, <1>3, <2>1, <2>3 DEF RedeemInv, Spent
  <2>4. ASSUME Rotating, NEW l \in Slot \ {k}, cache[l] # NoCred
        PROVE  cache[l].rt \notin Spent'
    <3>1. cache[l].rt \notin Spent
        BY <2>4 DEF RedeemInv
    <3>2. cache[l] # arg[t]
        BY <1>1 DEF KeyInv
    <3>3. cache[l].id # arg[t].id
        BY <1>1, <1>10, <2>4, <3>2 DEF KnownInv
    <3>4. cache[l].rt # arg[t].rt
      <4>1. arg[t].rt = arg[t].id /\ cache[l].rt \in {0, cache[l].id}
          BY <1>1, <1>2, <1>10, <2>4 DEF KnownInv
      <4> QED
          BY <1>2, <3>3, <4>1
    <3> QED
        BY <2>1, <3>1, <3>4 DEF Spent
  <2> QED
      BY <1>4, <2>2, <2>3, <2>4 DEF RedeemInv
<1>15. UserSlotsIsolated'
    BY <1>1, <1>3, <1>4 DEF UserSlotsIsolated, KeyInv, Slot
<1>16. LockIsGrant'
    BY <1>1, <1>5, BrokerAssumption DEF LockIsGrant
<1>17. ResolveNeverReplays'
    BY <1>1, <1>5 DEF ResolveNeverReplays, LockIsGrant
<1>18. RetryHasAnother'
    BY <1>1, <1>5, <1>9 DEF RetryHasAnother
<1> QED
    BY <1>6, <1>8, <1>12, <1>13, <1>14, <1>15, <1>16, <1>17, <1>18

\* Leaving with nothing.
LEMMA EndsInv ==
    ASSUME Inv, NEW t \in Task, Ends(t), UNCHANGED <<cache, issued, stale>>,
           redeemed' \subseteq 1..issued, lost' \subseteq redeemed', Spent' \subseteq Spent,
           lock' = IF lock = t THEN NoTask ELSE lock
    PROVE  Inv'
<1> USE DEF Inv, Ends
<1>1. pc'[t] = "idle"
    BY DEF Types, TypeOK
<1>2. Types'
    BY BrokerAssumption DEF Types, TypeOK, Slot
<1>3. Known' \subseteq Known
    BY NoCredAssumption DEF Known, Types, TypeOK
<1>4. \A u \in Task \ {t} : /\ pc'[u] = pc[u] /\ key'[u] = key[u]
                            /\ arg'[u] = arg[u] /\ held'[u] = held[u]
    BY DEF Types, TypeOK
<1> QED
    BY <1>1, <1>2, <1>3, <1>4, MoveInv

LEMMA GrantFailsInv == ASSUME Inv, NEW t \in Task, GrantFails(t) PROVE Inv'
<1> USE DEF Inv, GrantFails
<1>1. lock = t /\ lock' = NoTask
    BY DEF LockIsGrant, LockAfterFailure
<1>2. arg[t] \in Known /\ arg[t].rt \in Nat /\ arg[t].rt <= issued /\ issued \in Nat
    BY CredShape, BrokerAssumption DEF Known, KnownInv, Types, TypeOK
<1>3. redeemed \subseteq 1..issued /\ lost \subseteq redeemed
    BY DEF RedeemInv, Types, TypeOK
<1>4. CASE UNCHANGED <<redeemed, lost>>
    BY <1>1, <1>3, <1>4, EndsInv DEF Spent
<1>5. CASE /\ Accepted(arg[t].rt)
           /\ redeemed' = redeemed \cup {arg[t].rt} /\ lost' = lost \cup {arg[t].rt}
  <2>1. arg[t].rt \in 1..issued
      BY <1>2, <1>5 DEF Accepted
  <2>2. redeemed' \subseteq 1..issued /\ lost' \subseteq redeemed' /\ Spent' \subseteq Spent
      BY <1>3, <1>5, <2>1 DEF Spent
  <2> QED
      BY <1>1, <2>2, EndsInv
<1> QED
    BY <1>4, <1>5

LEMMA LeaveInv == ASSUME Inv, NEW t \in Task, Finish(t) \/ Abandon(t) PROVE Inv'
<1> USE DEF Inv, Finish, Abandon
<1>1. lock # t
    BY DEF LockIsGrant
<1> QED
    BY <1>1, EndsInv DEF RedeemInv, Spent, Types, TypeOK
-----------------------------------------------------------------------------
LEMMA NextInv == Inv /\ [Next]_vars => Inv'
<1> SUFFICES ASSUME Inv, [Next]_vars PROVE Inv'
    OBVIOUS
<1>1. ASSUME NEW k \in Slot, StoreInitial(k) PROVE Inv'
    BY <1>1, StoreInitialInv
<1>2. CASE NearExpiry
    BY <1>2, NearExpiryInv
<1>3. ASSUME NEW t \in Task,
             Resolve(t) \/ Unauthorized(t) \/ Abandon(t) \/ LockStep(t) \/ TaskStep(t)
      PROVE  Inv'
    BY <1>3, ResolveInv, UnauthorizedInv, LeaveInv, ResolveLockedInv, RefreshLockedInv,
       GrantOkInv, GrantFailsInv DEF LockStep, TaskStep
<1>4. CASE UNCHANGED vars
    BY <1>4 DEF vars, Inv, Types, TypeOK, KnownInv, Known, SlotInv, KeyInv, RedeemInv, Spent,
       UserSlotsIsolated, LockIsGrant, ResolveNeverReplays, RetryHasAnother
<1> QED
    BY <1>1, <1>2, <1>3, <1>4 DEF Next

\* Inv holds in every reachable state of the broker.
THEOREM Invariance == Spec => []Inv
BY InitInv, NextInv, PTL DEF Spec

\* Every variable keeps its type: what is cached, asked for and returned are
\* credentials the server issued.
THEOREM TypeCorrect == Spec => []TypeOK
<1>1. Inv => TypeOK
    BY DEF Inv, Types
<1> QED
    BY <1>1, Invariance, PTL

\* No interleaving of resolves and refreshes puts a token that descends from one
\* user's grant, or the service account's, into another user's slot.
THEOREM SlotsIsolated == Spec => []UserSlotsIsolated
<1>1. Inv => UserSlotsIsolated
    BY DEF Inv
<1> QED
    BY <1>1, Invariance, PTL

\* One grant at a time, and every way out of it, a failure too, frees the lock.
THEOREM OneGrant == Spec => []LockIsGrant
<1>1. Inv => LockIsGrant
    BY DEF Inv
<1> QED
    BY <1>1, Invariance, PTL

\* The double-checked lock of resolve never presents an exchanged refresh token.
THEOREM NoReplay == Spec => []ResolveNeverReplays
<1>1. Inv => ResolveNeverReplays
    BY DEF Inv
<1> QED
    BY <1>1, Invariance, PTL

\* The retry after a 401 runs on another credential than the refused one.
THEOREM RetryDiffers == Spec => []RetryHasAnother
<1>1. Inv => RetryHasAnother
    BY DEF Inv
<1> QED
    BY <1>1, Invariance, PTL

\* Grants come one after another and none is made with an exchanged refresh token by resolve.
THEOREM GrantsInOrder == Spec => []GrantsSerialised
<1>1. LockIsGrant /\ ResolveNeverReplays => GrantsSerialised
    BY DEF GrantsSerialised
<1> QED
    BY <1>1, OneGrant, NoReplay, PTL

-----------------------------------------------------------------------------
(* OAuth2Broker implements SingleFlight.                                   *)

\* A call works on its user's slot or the shared one, and what it has seen is cached in
\* no other: a token never moves from slot to slot.
OwnInv ==
    /\ \A t \in Task : key[t] \in {User[t], Shared}
    /\ \A t \in Task, k \in Slot :
          cache[k] # NoCred /\ cache[k] \in {arg[t], held[t]} => k \in {User[t], Shared}

\* A step after which a call has seen nothing new, or what a slot of its own holds.
LEMMA OwnMove ==
    ASSUME Inv, OwnInv, NEW t \in Task, UNCHANGED cache,
           \A u \in Task \ {t} : key'[u] = key[u] /\ arg'[u] = arg[u] /\ held'[u] = held[u],
           key'[t] \in {User[t], Shared},
           \A c \in {arg'[t], held'[t]} :
               c \in {arg[t], held[t], NoCred} \/ \E k \in {User[t], Shared} : c = cache[k]
    PROVE  OwnInv'
<1>1. User[t] \in Slot /\ Shared \in Slot
    BY BrokerAssumption DEF Slot
<1>2. ASSUME NEW k \in Slot, cache[k] # NoCred, cache[k] \in {arg'[t], held'[t]}
      PROVE  k \in {User[t], Shared}
  <2>1. CASE cache[k] \in {arg[t], held[t]}
      BY <1>2, <2>1 DEF OwnInv
  <2>2. CASE \E l \in {User[t], Shared} : cache[k] = cache[l]
      BY <1>1, <1>2, <2>2 DEF Inv, SlotInv
  <2> QED
      BY <1>2, <2>1, <2>2
<1> QED
    BY <1>2 DEF OwnInv

\* A step that puts a new credential into a slot, and gives it to no call but one whose
\* slot that is.
LEMMA OwnMade ==
    ASSUME Inv, OwnInv, NEW l \in Slot, NEW new \in Cred, new \notin Known,
           cache' = [cache EXCEPT ![l] = new], UNCHANGED <<key, arg>>,
           \A u \in Task : held'[u] = held[u] \/ (held'[u] = new /\ l \in {User[u], Shared})
    PROVE  OwnInv'
<1>1. \A u \in Task : arg[u] # new /\ held[u] # new
    BY DEF Known
<1>2. \A k \in Slot : cache'[k] = IF k = l THEN new ELSE cache[k]
    BY DEF Inv, Types, TypeOK
<1>3. \A k \in Slot : cache[k] # new
    BY DEF Known
<1> QED
    BY <1>1, <1>2, <1>3 DEF OwnInv

\* The id of a new credential is new.
LEMMA NewUnknown ==
    ASSUME Inv, NEW new \in Cred, new.id = issued + 1 PROVE new \notin Known
<1>1. issued \in Nat
    BY BrokerAssumption DEF Inv, Types, TypeOK
<1> QED
    BY <1>1 DEF Inv, KnownInv

LEMMA OwnInit == Init => OwnInv
BY DEF Init, OwnInv

LEMMA StoredCred ==
    ASSUME Inv, NEW k \in Slot, StoreInitial(k)
    PROVE  \E new \in Cred : new.id = issued + 1 /\ cache' = [cache EXCEPT ![k] = new]
<1>1. issued \in Nat /\ issued' = issued + 1 /\ issued' \in 1..MaxCred
    BY BrokerAssumption DEF Inv, Types, TypeOK, StoreInitial
<1> PICK rt \in {0, issued'} :
          cache' = [cache EXCEPT ![k] = [id |-> issued', owner |-> k, rt |-> rt]]
    BY DEF StoreInitial
<1> DEFINE new == [id |-> issued', owner |-> k, rt |-> rt]
<1>2. new \in Cred /\ new.id = issued + 1
    BY <1>1, BrokerAssumption DEF Cred
<1> QED
    BY <1>2

LEMMA GrantedCred ==
    ASSUME Inv, NEW t \in Task, GrantOk(t)
    PROVE  /\ Granted(t) \in Cred /\ Granted(t).id = issued + 1
           /\ Granted(t).owner = arg[t].owner /\ Granted(t).rt \in 1..issued'
           /\ issued' = issued + 1 /\ arg[t] \in Cred /\ arg[t] # NoCred
           /\ key[t] \in Slot /\ lock = t
<1>1. /\ issued \in Nat /\ issued' = issued + 1 /\ issued' \in 1..MaxCred
      /\ arg[t] \in Cred /\ arg[t] \in Known /\ lock = t /\ key[t] \in Slot
    BY BrokerAssumption DEF Inv, Types, TypeOK, Known, GrantOk, LockIsGrant
<1>2. arg[t].owner \in Slot /\ arg[t].rt \in 1..issued /\ arg[t] # NoCred
    BY <1>1, CredShape DEF Inv, KnownInv, GrantOk, Accepted
<1>3. arg[t].rt \in 1..issued' /\ issued' \in 1..issued' /\ arg[t].rt \in 0..MaxCred
    BY <1>1, <1>2, BrokerAssumption
<1> QED
    BY <1>1, <1>2, <1>3 DEF Granted, Cred

LEMMA OwnStep == Inv /\ OwnInv /\ [Next]_vars => OwnInv'
<1> SUFFICES ASSUME Inv, OwnInv, [Next]_vars PROVE OwnInv'
    OBVIOUS
<1>0. /\ \A t \in Task : User[t] \in Slot /\ key[t] \in {User[t], Shared}
      /\ key \in [Task -> Slot] /\ Shared \in Slot
      /\ arg \in [Task -> Cred \cup {NoCred}] /\ held \in [Task -> Cred \cup {NoCred}]
    BY BrokerAssumption DEF Inv, Types, TypeOK, Slot, OwnInv
<1>1. ASSUME NEW k \in Slot, StoreInitial(k) PROVE OwnInv'
  <2>1. PICK new \in Cred : new.id = issued + 1 /\ cache' = [cache EXCEPT ![k] = new]
      BY <1>1, StoredCred
  <2> QED
      BY <1>1, <2>1, NewUnknown, OwnMade DEF StoreInitial
<1>2. CASE NearExpiry \/ UNCHANGED vars
    BY <1>2 DEF NearExpiry, vars, OwnInv
<1>3. ASSUME NEW t \in Task, Resolve(t) PROVE OwnInv'
  <2>1. SlotFor(t) \in {User[t], Shared} /\ KeyFor(t) = SlotFor(t)
      BY DEF SlotFor, KeyFor
  <2> QED
      BY <1>0, <1>3, <2>1, OwnMove DEF Resolve, Returns, Enters
<1>4. ASSUME NEW t \in Task, ResolveLocked(t) PROVE OwnInv'
    BY <1>0, <1>4, OwnMove DEF ResolveLocked, Returns, Enters, Current
<1>5. ASSUME NEW t \in Task, Unauthorized(t) PROVE OwnInv'
    BY <1>0, <1>5, OwnMove DEF Unauthorized, Enters
<1>6. ASSUME NEW t \in Task, RefreshLocked(t) PROVE OwnInv'
  <2>1. SlotHolding(arg[t]) \in {User[t], Shared}
    <3>1. arg[t] # NoCred
        BY <1>6, CredShape DEF RefreshLocked, Inv, Types
    <3> QED
        BY <3>1 DEF SlotHolding, OwnInv
  <2> QED
      BY <1>0, <1>6, <2>1, OwnMove DEF RefreshLocked, Returns
<1>7. ASSUME NEW t \in Task, GrantOk(t) PROVE OwnInv'
  <2>1. Granted(t) \in Cred /\ Granted(t) \notin Known /\ key[t] \in Slot
      BY <1>7, GrantedCred, NewUnknown
  <2>2. \A u \in Task : held'[u] = IF u = t THEN Granted(t) ELSE held[u]
      BY <1>0, <1>7 DEF GrantOk, Returns
  <2>3. cache' = [cache EXCEPT ![key[t]] = Granted(t)] /\ UNCHANGED <<key, arg>>
      BY <1>7 DEF GrantOk
  <2> QED
      BY <1>0, <2>1, <2>2, <2>3, OwnMade
<1>8. ASSUME NEW t \in Task, GrantFails(t) \/ Finish(t) \/ Abandon(t) PROVE OwnInv'
    BY <1>0, <1>8, OwnMove DEF GrantFails, Finish, Abandon, Ends
<1> QED
    BY <1>1, <1>2, <1>3, <1>4, <1>5, <1>6, <1>7, <1>8 DEF Next, LockStep, TaskStep

First == [t \in Task |-> FirstToken(t)]
Second == [t \in Task |-> SecondToken(t)]
Good == {rt \in redeemed \ lost : Rotating}

\* Only what call t was given changes.
LEMMA OnlyGiven ==
    ASSUME NEW t \in Task, NEW x, NEW y, FirstToken(t)' = x, SecondToken(t)' = y,
           \A u \in Task \ {t} : /\ pc'[u] = pc[u] /\ arg'[u] = arg[u] /\ held'[u] = held[u]
    PROVE  First' = [First EXCEPT ![t] = x] /\ Second' = [Second EXCEPT ![t] = y]
<1>1. \A u \in Task : FirstToken(u)' = IF u = t THEN x ELSE FirstToken(u)
    BY DEF FirstToken
<1>2. \A u \in Task : SecondToken(u)' = IF u = t THEN y ELSE SecondToken(u)
    BY DEF SecondToken
<1> QED
    BY <1>1, <1>2 DEF First, Second

\* What the abstract variables are while call t takes a step.
LEMMA Seen ==
    ASSUME Inv, OwnInv, NEW t \in Task
    PROVE  /\ t # NoTask /\ User[t] \in Slot /\ key[t] \in Flight!Reach(t)
           /\ First[t] = FirstToken(t) /\ Second[t] = SecondToken(t)
           /\ lock = t <=> pc[t] \in Granting
           /\ lock = t => Paying = arg[t]
           /\ \A k \in Flight!Reach(t) : k \in Slot
BY BrokerAssumption DEF Inv, OwnInv, LockIsGrant, First, Second, Paying, Slot, Flight!Reach

\* Another call than the lock's holder moves.
LEMMA PayingKept ==
    ASSUME NEW t \in Task, lock # t, lock' = lock, lock \in Task \cup {NoTask},
           \A u \in Task \ {t} : arg'[u] = arg[u]
    PROVE  Paying' = Paying
BY DEF Paying

\* A call is served from a slot.
LEMMA ServeRefined ==
    ASSUME Inv, OwnInv, NEW t \in Task, NEW k \in Flight!Reach(t), cache[k] # NoCred,
           UNCHANGED <<cache, issued, redeemed, lost, lock>>, pc[t] \notin Granting,
           \A u \in Task \ {t} : /\ pc'[u] = pc[u] /\ arg'[u] = arg[u] /\ held'[u] = held[u],
           \/ /\ FirstToken(t) = NoCred /\ SecondToken(t)' = SecondToken(t)
              /\ FirstToken(t)' = cache[k]
           \/ /\ FirstToken(t) \notin {NoCred, cache[k]} /\ SecondToken(t) = NoCred
              /\ FirstToken(t)' = FirstToken(t) /\ SecondToken(t)' = cache[k]
    PROVE  Flight!Serve(t)
<1>1. lock # t /\ First[t] = FirstToken(t) /\ Second[t] = SecondToken(t)
    BY Seen
<1>2. Paying' = Paying
    BY <1>1, PayingKept DEF Inv, Types, TypeOK
<1>3. Good' = Good
    BY DEF Good
<1>4. /\ First' = [First EXCEPT ![t] = FirstToken(t)']
      /\ Second' = [Second EXCEPT ![t] = SecondToken(t)']
    BY OnlyGiven
<1>5. First = [First EXCEPT ![t] = First[t]] /\ Second = [Second EXCEPT ![t] = Second[t]]
    BY DEF First, Second
<1>6. \/ /\ First[t] = NoCred /\ First' = [First EXCEPT ![t] = cache[k]] /\ Second' = Second
      \/ /\ First[t] \notin {NoCred, cache[k]} /\ Second[t] = NoCred
         /\ Second' = [Second EXCEPT ![t] = cache[k]] /\ First' = First
    BY <1>1, <1>4, <1>5
<1>7. Flight!Given(t, cache[k])
    BY <1>6 DEF Flight!Given, First, Second
<1> QED
    BY <1>1, <1>2, <1>3, <1>7 DEF Flight!Serve, Good

\* Only expiry, or where a call waits, changes.
LEMMA StutterRefined ==
    ASSUME Inv, OwnInv, NEW t \in Task, UNCHANGED <<cache, issued, redeemed, lost, lock>>,
           pc[t] \notin Granting,
           \A u \in Task \ {t} : /\ pc'[u] = pc[u] /\ arg'[u] = arg[u] /\ held'[u] = held[u],
           FirstToken(t)' = FirstToken(t), SecondToken(t)' = SecondToken(t)
    PROVE  UNCHANGED Flight!vars
<1>1. lock # t /\ First[t] = FirstToken(t) /\ Second[t] = SecondToken(t)
    BY Seen
<1>2. Paying' = Paying
    BY <1>1, PayingKept DEF Inv, Types, TypeOK
<1>3. Good' = Good
    BY DEF Good
<1>4. First' = First /\ Second' = Second
  <2>1. /\ First' = [First EXCEPT ![t] = FirstToken(t)]
        /\ Second' = [Second EXCEPT ![t] = SecondToken(t)]
      BY OnlyGiven
  <2> QED
      BY <1>1, <2>1 DEF First, Second
<1> QED
    BY <1>2, <1>3, <1>4 DEF Flight!vars, First, Second, Good

\* A call gets the lock to renew what it was given, or what it found expired.
LEMMA TakeOffRefined ==
    ASSUME Inv, OwnInv, Inv', NEW t \in Task, lock = NoTask, lock' = t,
           UNCHANGED <<cache, issued, redeemed, lost>>,
           \A u \in Task \ {t} : /\ pc'[u] = pc[u] /\ arg'[u] = arg[u] /\ held'[u] = held[u],
           \/ pc[t] = "await_lock" /\ pc'[t] = "grant"
           \/ pc[t] = "await_swap" /\ pc'[t] = "swap" /\ arg'[t] = arg[t]
    PROVE  Flight!TakeOff(t)
<1>1. t # NoTask /\ First[t] = FirstToken(t) /\ Second[t] = SecondToken(t)
    BY Seen
<1>2. arg'[t] \in Cred /\ arg'[t] # NoCred
    BY CredShape DEF Inv, Types
<1>3. Paying' = arg'[t]
    BY <1>1 DEF Paying
<1>4. FirstToken(t)' = FirstToken(t) /\ SecondToken(t)' = NoCred /\ SecondToken(t) = NoCred
    BY DEF FirstToken, SecondToken
<1>5. First' = First /\ Second' = Second
  <2>1. /\ First' = [First EXCEPT ![t] = FirstToken(t)]
        /\ Second' = [Second EXCEPT ![t] = SecondToken(t)]
      BY <1>4, OnlyGiven
  <2> QED
      BY <1>1, <2>1 DEF First, Second
<1>6. IF First[t] = NoCred THEN Paying'.rt \notin Good ELSE Paying' = First[t]
  <2>1. CASE pc[t] = "await_lock"
    <3>1. First[t] = NoCred
        BY <1>1, <2>1 DEF FirstToken
    <3>2. pc'[t] = "grant" /\ (Rotating => arg'[t].rt \notin redeemed \ lost)
        BY <2>1 DEF Inv, ResolveNeverReplays
    <3> QED
        BY <1>3, <3>1, <3>2 DEF Good
  <2>2. CASE pc[t] = "await_swap"
    <3>1. First[t] = arg[t] /\ arg'[t] = arg[t]
        BY <1>1, <2>2 DEF FirstToken
    <3> QED
        BY <1>2, <1>3, <3>1
  <2> QED
      BY <2>1, <2>2
<1>7. Good' = Good
    BY DEF Good
<1> QED
    BY <1>1, <1>2, <1>3, <1>4, <1>5, <1>6, <1>7 DEF Flight!TakeOff, First, Second, Good

\* A call ends.
LEMMA EndRefined ==
    ASSUME Inv, OwnInv, NEW t \in Task, Ends(t), UNCHANGED <<cache, issued>>, Good' = Good,
           lock' = IF lock = t THEN NoTask ELSE lock
    PROVE  Flight!End(t)
<1>1. t # NoTask /\ lock \in Task \cup {NoTask}
    BY Seen DEF Inv, Types, TypeOK
<1>2. /\ pc'[t] = "idle"
      /\ \A u \in Task \ {t} : /\ pc'[u] = pc[u] /\ arg'[u] = arg[u] /\ held'[u] = held[u]
    BY DEF Ends, Inv, Types, TypeOK
<1>3. First' = [First EXCEPT ![t] = NoCred] /\ Second' = [Second EXCEPT ![t] = NoCred]
  <2>1. FirstToken(t)' = NoCred /\ SecondToken(t)' = NoCred
      BY <1>2 DEF FirstToken, SecondToken
  <2> QED
      BY <1>2, <2>1, OnlyGiven
<1>4. IF lock = t THEN lock' = NoTask /\ Paying' = NoCred ELSE UNCHANGED <<lock, Paying>>
  <2>1. CASE lock = t
      BY <2>1 DEF Paying
  <2>2. CASE lock # t
      BY <1>1, <1>2, <2>2, PayingKept
  <2> QED
      BY <2>1, <2>2
<1> QED
    BY <1>3, <1>4 DEF Flight!End, First, Second, Good

\* The token endpoint answers: the token is its owner's and in a slot of the call's.
LEMMA LandRefined ==
    ASSUME Inv, OwnInv, NEW t \in Task, GrantOk(t) PROVE Flight!Land(t)
<1> DEFINE new == Granted(t)
<1> DEFINE k == key[t]
<1>1. /\ new \in Cred /\ new.id = issued + 1 /\ new.owner = arg[t].owner /\ new.rt \in 1..issued'
      /\ issued' = issued + 1 /\ arg[t] \in Cred /\ arg[t] # NoCred /\ lock = t
    BY GrantedCred
<1>2. /\ t # NoTask /\ k \in Flight!Reach(t) /\ k \in Slot /\ Paying = arg[t]
      /\ First[t] = FirstToken(t) /\ Second[t] = SecondToken(t)
    BY <1>1, Seen DEF Inv, Types, TypeOK
<1>3. new = [id |-> issued', owner |-> Paying.owner, rt |-> new.rt]
    BY <1>1, <1>2 DEF Granted
<1>4. k \in {Paying.owner, Shared}
    BY <1>2 DEF Inv, KeyInv, Slot, GrantOk
<1>5. cache' = [cache EXCEPT ![k] = new] /\ lock' = NoTask /\ arg' = arg
    BY DEF GrantOk
<1>6. Paying' = NoCred
    BY <1>5 DEF Paying
<1>7. Paying.rt \notin Good /\ Good' = IF Rotating THEN Good \cup {Paying.rt} ELSE Good
  <2>1. redeemed' = redeemed \cup {arg[t].rt} /\ lost' = lost /\ lost \subseteq redeemed
      BY DEF GrantOk, Inv, Types, TypeOK
  <2>2. Rotating => arg[t].rt \notin redeemed
      BY DEF GrantOk, Accepted
  <2> QED
      BY <1>2, <2>1, <2>2 DEF Good
<1>8. /\ held'[t] = new /\ pc'[t] = (IF pc[t] = "grant" THEN "using" ELSE "rerun")
      /\ \A u \in Task \ {t} : /\ pc'[u] = pc[u] /\ arg'[u] = arg[u] /\ held'[u] = held[u]
    BY <1>5 DEF GrantOk, Returns, Inv, Types, TypeOK
<1>9. /\ First' = [First EXCEPT ![t] = FirstToken(t)']
      /\ Second' = [Second EXCEPT ![t] = SecondToken(t)']
    BY <1>8, OnlyGiven
<1>10. First = [First EXCEPT ![t] = First[t]] /\ Second = [Second EXCEPT ![t] = Second[t]]
    BY DEF First, Second
<1>11. \/ /\ First[t] = NoCred /\ First' = [First EXCEPT ![t] = new] /\ Second' = Second
       \/ /\ First[t] \notin {NoCred, new} /\ Second[t] = NoCred
          /\ Second' = [Second EXCEPT ![t] = new] /\ First' = First
  <2>1. CASE pc[t] = "grant"
    <3>1. FirstToken(t) = NoCred /\ FirstToken(t)' = new /\ SecondToken(t)' = SecondToken(t)
        BY <1>8, <2>1 DEF FirstToken, SecondToken
    <3> QED
        BY <1>2, <1>9, <1>10, <3>1
  <2>2. CASE pc[t] = "swap"
    <3>1. /\ FirstToken(t) = arg[t] /\ FirstToken(t)' = arg[t]
          /\ SecondToken(t) = NoCred /\ SecondToken(t)' = new
        BY <1>5, <1>8, <2>2 DEF FirstToken, SecondToken
    <3>2. arg[t] # new
        BY <1>1, NewUnknown DEF Known
    <3> QED
        BY <1>1, <1>2, <1>9, <1>10, <3>1, <3>2
  <2> QED
      BY <2>1, <2>2 DEF GrantOk
<1>12. Flight!Given(t, new)
    BY <1>11 DEF Flight!Given, First, Second
<1> HIDE DEF new, k
<1> QED
    BY <1>1, <1>2, <1>3, <1>4, <1>5, <1>6, <1>7, <1>12 DEF Flight!Land, Good

LEMMA TaskRefined ==
    ASSUME Inv, OwnInv, Inv', NEW t \in Task,
           Resolve(t) \/ Unauthorized(t) \/ Abandon(t) \/ LockStep(t) \/ TaskStep(t)
    PROVE  [Flight!Next]_(Flight!vars)
<1>0. /\ Flight!Serve(t) \/ Flight!TakeOff(t) \/ Flight!Land(t) \/ Flight!End(t) => Flight!Next
      /\ pc \in [Task -> Pc] /\ arg \in [Task -> Cred \cup {NoCred}]
      /\ held \in [Task -> Cred \cup {NoCred}]
      /\ t # NoTask /\ key[t] \in Flight!Reach(t) /\ (lock = t <=> pc[t] \in Granting)
    BY Seen DEF Flight!Next, Inv, Types, TypeOK
<1>1. CASE Resolve(t)
  <2>1. SlotFor(t) \in Flight!Reach(t) /\ pc[t] = "idle" /\ cache[SlotFor(t)] # NoCred
      BY <1>1 DEF SlotFor, Flight!Reach, Resolve
  <2>2. CASE Fresh(cache[SlotFor(t)])
    <3>1. held'[t] = cache[SlotFor(t)] /\ pc'[t] = "using" /\ arg' = arg
        BY <1>0, <1>1, <2>2 DEF Resolve, Returns
    <3>2. \A u \in Task \ {t} : /\ pc'[u] = pc[u] /\ arg'[u] = arg[u] /\ held'[u] = held[u]
        BY <1>0, <1>1, <2>2 DEF Resolve, Returns
    <3>3. /\ FirstToken(t) = NoCred /\ SecondToken(t)' = SecondToken(t)
          /\ FirstToken(t)' = cache[SlotFor(t)]
        BY <2>1, <3>1 DEF FirstToken, SecondToken
    <3> QED
        BY <1>0, <1>1, <2>1, <3>2, <3>3, ServeRefined DEF Resolve
  <2>3. CASE ~Fresh(cache[SlotFor(t)])
    <3>1. pc'[t] = "await_lock" /\ held' = held
        BY <1>0, <1>1, <2>3 DEF Resolve, Enters
    <3>2. \A u \in Task \ {t} : /\ pc'[u] = pc[u] /\ arg'[u] = arg[u] /\ held'[u] = held[u]
        BY <1>0, <1>1, <2>3 DEF Resolve, Enters
    <3>3. FirstToken(t)' = FirstToken(t) /\ SecondToken(t)' = SecondToken(t)
        BY <2>1, <3>1 DEF FirstToken, SecondToken
    <3> QED
        BY <1>1, <2>1, <3>2, <3>3, StutterRefined DEF Resolve
  <2> QED
      BY <2>2, <2>3
<1>2. CASE Unauthorized(t)
  <2>1. pc[t] = "using" /\ pc'[t] = "await_swap" /\ arg'[t] = held[t] /\ held' = held
      BY <1>0, <1>2 DEF Unauthorized, Enters
  <2>2. \A u \in Task \ {t} : /\ pc'[u] = pc[u] /\ arg'[u] = arg[u] /\ held'[u] = held[u]
      BY <1>0, <1>2 DEF Unauthorized, Enters
  <2>3. FirstToken(t)' = FirstToken(t) /\ SecondToken(t)' = SecondToken(t)
      BY <2>1 DEF FirstToken, SecondToken
  <2> QED
      BY <1>2, <2>1, <2>2, <2>3, StutterRefined DEF Unauthorized
<1>3. CASE Abandon(t) \/ Finish(t) \/ GrantFails(t)
  <2>1. lock' = (IF lock = t THEN NoTask ELSE lock) /\ Ends(t) /\ UNCHANGED <<cache, issued>>
      BY <1>0, <1>3 DEF Abandon, Finish, GrantFails, LockAfterFailure
  <2>2. Good' = Good
      BY <1>3 DEF Abandon, Finish, GrantFails, Good, Accepted
  <2> QED
      BY <1>0, <2>1, <2>2, EndRefined
<1>4. CASE ResolveLocked(t)
  <2>1. pc[t] = "await_lock" /\ Current(t) = cache[key[t]]
      BY <1>4 DEF ResolveLocked, Current
  <2>2. CASE Fresh(Current(t))
    <3>1. held'[t] = cache[key[t]] /\ pc'[t] = "using" /\ arg' = arg /\ cache[key[t]] # NoCred
        BY <1>0, <1>4, <2>1, <2>2 DEF ResolveLocked, Returns, Fresh
    <3>2. \A u \in Task \ {t} : /\ pc'[u] = pc[u] /\ arg'[u] = arg[u] /\ held'[u] = held[u]
        BY <1>0, <1>4, <2>2 DEF ResolveLocked, Returns
    <3>3. /\ FirstToken(t) = NoCred /\ SecondToken(t)' = SecondToken(t)
          /\ FirstToken(t)' = cache[key[t]]
        BY <2>1, <3>1 DEF FirstToken, SecondToken
    <3>4. UNCHANGED <<cache, issued, redeemed, lost, lock>>
        BY <1>4, <2>2 DEF ResolveLocked
    <3> QED
        BY <1>0, <2>1, <3>1, <3>2, <3>3, <3>4, ServeRefined
  <2>3. CASE ~Fresh(Current(t))
    <3>1. pc'[t] = "grant" /\ lock = NoTask /\ lock' = t
        BY <1>0, <1>4, <2>3 DEF ResolveLocked, Enters
    <3>2. \A u \in Task \ {t} : /\ pc'[u] = pc[u] /\ arg'[u] = arg[u] /\ held'[u] = held[u]
        BY <1>0, <1>4, <2>3 DEF ResolveLocked, Enters
    <3>3. UNCHANGED <<cache, issued, redeemed, lost>>
        BY <1>4 DEF ResolveLocked
    <3> QED
        BY <1>0, <2>1, <3>1, <3>2, <3>3, TakeOffRefined
  <2> QED
      BY <2>2, <2>3
<1>5. CASE RefreshLocked(t)
  <2> DEFINE k == SlotHolding(arg[t])
  <2>1. pc[t] = "await_swap" /\ arg[t] \in Cred /\ arg[t] # NoCred /\ arg' = arg
      BY <1>5, CredShape DEF RefreshLocked, Inv, Types
  <2>2. k \in Flight!Reach(t)
      BY <2>1 DEF SlotHolding, OwnInv, Flight!Reach
  <2>3. CASE Newer(arg[t], cache[k])
    <3>1. held'[t] = cache[k] /\ pc'[t] = "rerun" /\ cache[k] # NoCred /\ cache[k] # arg[t]
        BY <1>0, <1>5, <2>3 DEF RefreshLocked, Returns, Newer, Fresh
    <3>2. \A u \in Task \ {t} : /\ pc'[u] = pc[u] /\ arg'[u] = arg[u] /\ held'[u] = held[u]
        BY <1>0, <1>5, <2>1, <2>3 DEF RefreshLocked, Returns
    <3>3. /\ FirstToken(t) \notin {NoCred, cache[k]} /\ SecondToken(t) = NoCred
          /\ FirstToken(t)' = FirstToken(t) /\ SecondToken(t)' = cache[k]
        BY <2>1, <3>1 DEF FirstToken, SecondToken
    <3>4. UNCHANGED <<cache, issued, redeemed, lost, lock>>
        BY <1>5, <2>3 DEF RefreshLocked
    <3> HIDE DEF k
    <3> QED
        BY <1>0, <2>1, <2>2, <3>1, <3>2, <3>3, <3>4, ServeRefined
  <2>4. CASE ~Newer(arg[t], cache[k])
    <3>1. pc'[t] = "swap" /\ lock = NoTask /\ lock' = t /\ held' = held
        BY <1>0, <1>5, <2>4 DEF RefreshLocked
    <3>2. \A u \in Task \ {t} : /\ pc'[u] = pc[u] /\ arg'[u] = arg[u] /\ held'[u] = held[u]
        BY <1>0, <1>5, <2>1, <2>4, <3>1 DEF RefreshLocked
    <3>3. UNCHANGED <<cache, issued, redeemed, lost>>
        BY <1>5 DEF RefreshLocked
    <3> QED
        BY <1>0, <2>1, <3>1, <3>2, <3>3, TakeOffRefined
  <2> QED
      BY <2>3, <2>4
<1>6. CASE GrantOk(t)
    BY <1>0, <1>6, LandRefined
<1> QED
    BY <1>1, <1>2, <1>3, <1>4, <1>5, <1>6 DEF LockStep, TaskStep

\* Every step of the broker is a step of SingleFlight or a stutter, for any users, calls
\* and number of credentials: exchanges come one by one, a call is given at most two
\* tokens, never one twice, and only from its user's slot or the shared one.
THEOREM FlightImplemented == Spec => ImplementsSingleFlight
<1>1. Init => Flight!Init
    BY DEF Init, Flight!Init, FirstToken, SecondToken, Paying
<1>2. Inv /\ Inv' /\ OwnInv /\ [Next]_vars => [Flight!Next]_(Flight!vars)
  <2> SUFFICES ASSUME Inv, Inv', OwnInv, [Next]_vars PROVE [Flight!Next]_(Flight!vars)
    OBVIOUS
  <2>1. ASSUME NEW k \in Slot, StoreInitial(k) PROVE Flight!Next
    <3>1. Flight!Deposit(k)
        BY <2>1 DEF StoreInitial, Flight!Deposit, FirstToken, SecondToken, Paying
    <3> QED
        BY <3>1 DEF Flight!Next
  <2>2. ASSUME NearExpiry \/ UNCHANGED vars PROVE UNCHANGED Flight!vars
      BY <2>2 DEF NearExpiry, vars, Flight!vars, FirstToken, SecondToken, Paying
  <2> QED
      BY <2>1, <2>2, TaskRefined DEF Next
<1> QED
    BY <1>1, <1>2, OwnInit, OwnStep, Invariance, InitInv, NextInv,
       PTL DEF Spec, ImplementsSingleFlight, Flight!Spec
=============================================================================
