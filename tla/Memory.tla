------------------------------- MODULE Memory -------------------------------
(***************************************************************************)
(* memory/backends/sqlite.py: the Tier 1 memory store.  Calls are          *)
(* coroutines of one event loop; what touches the file runs in a thread    *)
(* (asyncio.to_thread) with a connection of its own.  A cancelled call     *)
(* leaves at once, the thread it started goes on.  The process may die and *)
(* come back at any point.                                                 *)
(***************************************************************************)
EXTENDS Naturals, FiniteSets

CONSTANTS
    Call,      \* calls of the store, each made once
    Id,        \* memory ids
    User,
    Owner,     \* Owner[i]: the user_id of the items stored under i
    Active,    \* Active[c]: is_active of the item call c passes
    Nobody

ASSUME MemoryAssumption ==
    /\ IsFiniteSet(Call)
    /\ Nobody \notin Call
    /\ Owner \in [Id -> User]
    /\ Active \in [Call -> BOOLEAN]

VARIABLES
    rows,      \* rows[i]: the call whose item is stored under i, or Nobody
    writing,   \* the thread inside an uncommitted transaction (SQLite's write lock)
    lock,      \* _lock: the call inside, or Nobody
    pc,        \* where call c is: see Pc
    op, id,    \* what it does, to which id
    thread,    \* thread[c]: the one c started: see Stage
    answer,    \* answer[c]: the items it read, by the call that wrote them
    ticket,    \* ticket[c]: its place in the order of asking for the lock, 0: never asked
    stamp,     \* stamp[c]: its place in the order of commits, 0: none (history)
    since      \* since[c]: commits before it began (history)

vars == <<rows, writing, lock, pc, op, id, thread, answer, ticket, stamp, since>>

Writes == {"add", "update", "delete"}
Reads == {"get", "list", "search"}
\* Awaits: a thread (checking, writing, reading), the lock (queued), the
\* embedding model (embedding: in add; vector: in search).
Live == {"checking", "queued", "embedding", "writing", "vector", "reading"}
Over == {"answered", "refused", "failed", "cancelled", "lost"}
Pc == {"idle"} \cup Live \cup Over
\* A thread waits in the executor's queue, runs, has executed its statement, is done.
Stage == {"none", "submitted", "running", "executed", "done", "error"}

Count == Cardinality({c \in Call : stamp[c] > 0})
Asked == Cardinality({c \in Call : ticket[c] > 0})

\* A call is in one stage; lock and transaction have at most one owner.
TypeOK ==
    /\ rows \in [Id -> Call \cup {Nobody}]
    /\ writing \in Call \cup {Nobody} /\ lock \in Call \cup {Nobody}
    /\ pc \in [Call -> Pc]
    /\ op \in [Call -> Writes \cup Reads] /\ id \in [Call -> Id]
    /\ thread \in [Call -> Stage]
    /\ answer \in [Call -> SUBSET Call]
    /\ ticket \in [Call -> Nat] /\ stamp \in [Call -> Nat] /\ since \in [Call -> Nat]
-----------------------------------------------------------------------------
Init ==
    /\ rows = [i \in Id |-> Nobody]
    /\ writing = Nobody /\ lock = Nobody
    /\ pc = [c \in Call |-> "idle"]
    /\ op = [c \in Call |-> "get"] /\ id \in {[c \in Call |-> i] : i \in Id}
    /\ thread = [c \in Call |-> "none"]
    /\ answer = [c \in Call |-> {}]
    /\ ticket = [c \in Call |-> 0] /\ stamp = [c \in Call |-> 0] /\ since = [c \in Call |-> 0]

Goes(c, to) == pc' = [pc EXCEPT ![c] = to]
Submits(c) == thread' = [thread EXCEPT ![c] = "submitted"]
\* asyncio.Lock serves in the order of asking.
Queues(c) == Goes(c, "queued") /\ ticket' = [ticket EXCEPT ![c] = Asked + 1]

\* A call up to its first await.
Begin(c, o, i) ==
    /\ pc[c] = "idle"
    /\ op' = [op EXCEPT ![c] = o] /\ id' = [id EXCEPT ![c] = i]
    /\ since' = [since EXCEPT ![c] = Count]
    /\ \/ o \in {"add", "delete"} /\ Queues(c) /\ UNCHANGED thread
       \/ o = "update" /\ Goes(c, "checking") /\ Submits(c) /\ UNCHANGED ticket
       \/ o \in {"get", "list"} /\ Goes(c, "reading") /\ Submits(c) /\ UNCHANGED ticket
       \/ o = "search" /\ Goes(c, "vector") /\ UNCHANGED <<thread, ticket>>
    /\ UNCHANGED <<rows, writing, lock, answer, stamp>>

First(c) == \A d \in Call : pc[d] = "queued" => ticket[c] <= ticket[d]

\* add goes on to the embedding, delete to its thread.
Acquire(c) ==
    /\ pc[c] = "queued" /\ lock = Nobody /\ First(c)
    /\ lock' = c
    /\ IF op[c] = "delete" THEN Goes(c, "writing") /\ Submits(c)
                           ELSE Goes(c, "embedding") /\ UNCHANGED thread
    /\ UNCHANGED <<rows, writing, op, id, answer, ticket, stamp, since>>

\* Faulty variant: the write is dedented out of `async with self._lock`.
DedentedWrite(c) == Nobody
LockForWrite(c) == lock

\* embed_single answers.
Embedded(c) ==
    /\ \/ pc[c] = "embedding" /\ Goes(c, "writing") /\ lock' = LockForWrite(c)
       \/ pc[c] = "vector" /\ Goes(c, "reading") /\ UNCHANGED lock
    /\ Submits(c)
    /\ UNCHANGED <<rows, writing, op, id, answer, ticket, stamp, since>>

\* The end of a call that is inside `async with` gives the lock back, however it ends.
\* Faulty variant: acquire() and release() without try/finally.
LockKept(c) == lock
Unlocked(c) == IF lock = c THEN Nobody ELSE lock

EmbeddingFails(c) ==
    /\ pc[c] \in {"embedding", "vector"}
    /\ Goes(c, "failed") /\ lock' = Unlocked(c)
    /\ UNCHANGED <<rows, writing, op, id, thread, answer, ticket, stamp, since>>

\* The call is cancelled: a thread the executor has not started is withdrawn, one
\* that runs goes on without its caller.
Cancel(c) ==
    /\ pc[c] \in Live
    /\ Goes(c, "cancelled") /\ lock' = Unlocked(c)
    /\ thread' = IF thread[c] = "submitted" THEN [thread EXCEPT ![c] = "none"] ELSE thread
    /\ UNCHANGED <<rows, writing, op, id, answer, ticket, stamp, since>>
-----------------------------------------------------------------------------
(* The threads.                                                            *)

ThreadStarts(c) ==
    /\ thread[c] = "submitted"
    /\ thread' = [thread EXCEPT ![c] = "running"]
    /\ UNCHANGED <<rows, writing, lock, pc, op, id, answer, ticket, stamp, since>>

\* What INSERT OR REPLACE, or DELETE, leaves under the id.
\* Faulty variant: INSERT OR IGNORE.
StoredIfAbsent(c) == IF op[c] = "delete" THEN Nobody
                     ELSE IF rows[id[c]] # Nobody THEN rows[id[c]] ELSE c
Stored(c) == IF op[c] = "delete" THEN Nobody ELSE c

\* A thread that writes: a call past update's check, or one cancelled there.
Writer(c) == op[c] \in Writes /\ pc[c] # "checking" /\ ticket[c] > 0

\* execute(): opens the transaction, when no other connection has one open.
Execute(c) ==
    /\ thread[c] = "running" /\ Writer(c) /\ writing = Nobody
    /\ writing' = c
    /\ thread' = [thread EXCEPT ![c] = "executed"]
    /\ UNCHANGED <<rows, lock, pc, op, id, answer, ticket, stamp, since>>

\* It waits busy_timeout for the other, then raises `database is locked`.
Busy(c) ==
    /\ thread[c] = "running" /\ Writer(c) /\ writing # Nobody
    /\ thread' = [thread EXCEPT ![c] = "error"]
    /\ UNCHANGED <<rows, writing, lock, pc, op, id, answer, ticket, stamp, since>>

Commit(c) ==
    /\ thread[c] = "executed"
    /\ rows' = [rows EXCEPT ![id[c]] = Stored(c)]
    /\ stamp' = [stamp EXCEPT ![c] = Count + 1]
    /\ writing' = Nobody
    /\ thread' = [thread EXCEPT ![c] = "done"]
    /\ UNCHANGED <<lock, pc, op, id, answer, ticket, since>>

\* commit() raises; close() rolls back.
CommitFails(c) ==
    /\ thread[c] = "executed"
    /\ writing' = Nobody
    /\ thread' = [thread EXCEPT ![c] = "error"]
    /\ UNCHANGED <<rows, lock, pc, op, id, answer, ticket, stamp, since>>

\* What a reading connection sees: the committed rows (journal_mode = WAL).
\* Faulty variant: one connection shared by all threads, which sees what it wrote itself.
SharedView == IF writing = Nobody THEN rows
              ELSE [rows EXCEPT ![id[writing]] = Stored(writing)]
View == rows

ById(c) == {id[c]}
ByUser(c, all) ==
    {i \in Id : Owner[i] = Owner[id[c]] /\ View[i] # Nobody /\ (all \/ Active[View[i]])}

\* The rows a query looks at.  count, keyword_search and search never ask for the
\* inactive ones; which of the rest match, how they are ordered and cut is data.
Selected(c, all) ==
    CASE op[c] \in {"get", "update"} -> ById(c)
      [] op[c] = "list" -> ByUser(c, all)
      [] op[c] = "search" -> ByUser(c, FALSE)

\* SELECT, of a reader or of update's check.
Select(c) ==
    /\ thread[c] = "running" /\ ~Writer(c)
    /\ \E all \in BOOLEAN :
          answer' = [answer EXCEPT ![c] = {View[i] : i \in Selected(c, all)} \ {Nobody}]
    /\ thread' = [thread EXCEPT ![c] = "done"]
    /\ UNCHANGED <<rows, writing, lock, pc, op, id, ticket, stamp, since>>
-----------------------------------------------------------------------------
\* Faulty variant: update writes whatever its check found.
FoundAlways(c) == TRUE
Found(c) == answer[c] # {}

\* update's check is back: False, or the item is added.
Checked(c) ==
    /\ pc[c] = "checking" /\ thread[c] = "done"
    /\ IF Found(c) THEN Queues(c) /\ answer' = [answer EXCEPT ![c] = {}]
                   ELSE Goes(c, "refused") /\ UNCHANGED <<ticket, answer>>
    /\ thread' = [thread EXCEPT ![c] = "none"]
    /\ UNCHANGED <<rows, writing, lock, op, id, stamp, since>>

\* The thread is done, or raised: so does the call, and it leaves the lock.
Resume(c) ==
    /\ pc[c] \in {"writing", "reading"} /\ thread[c] \in {"done", "error"}
    /\ Goes(c, IF thread[c] = "done" THEN "answered" ELSE "failed")
    /\ thread' = [thread EXCEPT ![c] = "none"] /\ lock' = Unlocked(c)
    /\ UNCHANGED <<rows, writing, op, id, answer, ticket, stamp, since>>

\* The process dies.  The next one finds the committed rows (_init_schema creates
\* what does not exist), and nothing of its calls, threads and locks.
Crash ==
    /\ \E c \in Call : pc[c] \in Live \/ thread[c] # "none"
    /\ pc' = [c \in Call |-> IF pc[c] \in Live THEN "lost" ELSE pc[c]]
    /\ thread' = [c \in Call |-> "none"]
    /\ lock' = Nobody /\ writing' = Nobody
    /\ UNCHANGED <<rows, op, id, answer, ticket, stamp, since>>

Step(c) ==
    \/ Acquire(c) \/ Embedded(c) \/ EmbeddingFails(c)
    \/ ThreadStarts(c) \/ Execute(c) \/ Busy(c) \/ Commit(c) \/ CommitFails(c)
    \/ Select(c) \/ Checked(c) \/ Resume(c)

Begins(c) == \E o \in Writes \cup Reads, i \in Id : Begin(c, o, i)

Next == Crash \/ \E c \in Call : Begins(c) \/ Cancel(c) \/ Step(c)

Spec == Init /\ [][Next]_vars
FairSpec == Spec /\ \A c \in Call : WF_vars(Step(c))
-----------------------------------------------------------------------------
(* Properties.                                                             *)

\* Writes take effect in the order in which their calls asked for the lock, whatever
\* the embedding model and the threads take, unless the earlier one was given up
\* (its thread may then land at any time) or failed.
WritesInOrder ==
    \A c, d \in Call :
        0 < ticket[c] /\ ticket[c] < ticket[d] /\ stamp[d] > 0
        => \/ 0 < stamp[c] /\ stamp[c] < stamp[d]
           \/ stamp[c] = 0 /\ pc[c] \in Over
           \/ pc[c] = "cancelled"

\* An add, update or delete that was answered is in the file, through crashes as
\* well, until a later commit to the same id replaces it.
AnsweredKept ==
    \A c \in Call :
        pc[c] = "answered" /\ op[c] \in Writes
        => /\ stamp[c] > 0
           /\ \/ rows[id[c]] = IF op[c] = "delete" THEN Nobody ELSE c
              \/ \E d \in Call : id[d] = id[c] /\ stamp[d] > stamp[c]

\* update only replaces: when it writes, an item was added before it, and after any
\* delete that was over when update began.  (A delete during update may be undone.)
Supplies(d, c) ==
    op[d] \in {"add", "update"} /\ id[d] = id[c] /\ 0 < stamp[d] /\ stamp[d] < stamp[c]

UpdateCreatesNothing ==
    \A c \in Call :
        op[c] = "update" /\ stamp[c] > 0
        => /\ \E d \in Call : Supplies(d, c)
           /\ \A e \in Call :
                 op[e] = "delete" /\ id[e] = id[c] /\ 0 < stamp[e] /\ stamp[e] <= since[c]
                 => \E d \in Call : Supplies(d, c) /\ stamp[e] < stamp[d]

\* Nothing is read that was not committed: no reader sees the item of a transaction
\* that is later rolled back.
ReadsCommitted == \A c \in Call : \A w \in answer[c] : stamp[w] > 0

\* What a caller is told of the file is so, and stays so through crashes.
AnswersDurable == AnsweredKept /\ ReadsCommitted

\* Every call ends, though others are cancelled, fail, or leave threads behind.  (A
\* call is made once, so from some point on none is under way.)
CallsEnd == <>[](\A c \in Call : pc[c] \notin Live)
=============================================================================
