---------------------------- MODULE MemoryProofs ----------------------------
(***************************************************************************)
(* Proofs about the SQLite store: for any number of calls, ids and crashes.*)
(***************************************************************************)
EXTENDS Memory, FiniteSetTheorems, TLAPS

\* Where a call may be with what it does, and who is inside the lock.
CallInv ==
    \A c \in Call :
        /\ pc[c] \in {"idle", "checking"} => ticket[c] = 0
        /\ pc[c] = "idle" => answer[c] = {}
        /\ pc[c] = "checking" => op[c] = "update"
        /\ pc[c] \in {"vector", "reading"} => op[c] \in Reads
        /\ pc[c] \in {"queued", "embedding", "writing"} => ticket[c] > 0
        /\ op[c] \in {"add", "delete"} /\ pc[c] # "idle" => ticket[c] > 0
        /\ ticket[c] > 0 => op[c] \in Writes /\ pc[c] \in {"queued", "embedding", "writing"} \cup Over
        /\ pc[c] \in {"embedding", "writing"} => lock = c

\* A thread commits once, for a call that waits for it or was cancelled.
ThreadInv ==
    \A c \in Call :
        /\ thread[c] # "none" => pc[c] \in {"checking", "writing", "reading", "cancelled"}
        /\ thread[c] = "executed" => ticket[c] > 0
        /\ pc[c] = "writing" /\ thread[c] = "done" => stamp[c] > 0
        /\ stamp[c] > 0 => /\ ticket[c] > 0 /\ thread[c] \in {"none", "done"}
                           /\ pc[c] \in {"writing"} \cup Over
        /\ pc[c] = "answered" /\ op[c] \in Writes => stamp[c] > 0

\* Commits are numbered in their order, and so are the requests for the lock.
NumberInv ==
    /\ \A c \in Call : stamp[c] <= Count /\ since[c] <= Count /\ ticket[c] <= Asked
    /\ \A c, d \in Call : stamp[c] = stamp[d] /\ stamp[c] > 0 => c = d

\* A row is what the last commit to its id left there.
RowInv ==
    /\ \A c \in Call : stamp[c] > 0 =>
          \/ rows[id[c]] = Stored(c)
          \/ \E d \in Call : id[d] = id[c] /\ stamp[d] > stamp[c]
    /\ \A i \in Id : rows[i] # Nobody =>
          /\ op[rows[i]] \in {"add", "update"} /\ id[rows[i]] = i /\ stamp[rows[i]] > 0
          /\ \A e \in Call : id[e] = i => stamp[e] <= stamp[rows[i]]

\* d put an item under c's id, after every delete that was over when c began.
Vouches(d, c) ==
    /\ op[d] \in {"add", "update"} /\ id[d] = id[c] /\ 0 < stamp[d]
    /\ \A e \in Call : op[e] = "delete" /\ id[e] = id[c] /\ 0 < stamp[e] /\ stamp[e] <= since[c]
                       => stamp[e] < stamp[d]

\* An update that goes on to write has found an item that some call put there.
UpdateInv ==
    /\ \A c \in Call :
          op[c] = "update" /\ (ticket[c] > 0 \/ (pc[c] = "checking" /\ answer[c] # {}))
          => \E d \in Call : Vouches(d, c)
    /\ UpdateCreatesNothing

\* Who has been inside the lock came after every earlier request had ended.
OrderInv ==
    /\ \A c, d \in Call :
          /\ 0 < ticket[c] /\ ticket[c] < ticket[d]
          /\ pc[d] \in {"embedding", "writing"} \/ thread[d] # "none" \/ stamp[d] > 0
          => pc[c] \in Over
    /\ WritesInOrder

Inv ==
    /\ TypeOK /\ CallInv /\ ThreadInv /\ NumberInv /\ RowInv
    /\ ReadsCommitted /\ UpdateInv /\ OrderInv
-----------------------------------------------------------------------------
LEMMA CountTyped == Count \in Nat /\ Asked \in Nat
BY MemoryAssumption, FS_Subset, FS_CardinalityType DEF Count, Asked

\* One more of the calls has a number.
LEMMA CountStep ==
    /\ \A c \in Call : stamp' = [stamp EXCEPT ![c] = Count + 1] /\ stamp \in [Call -> Nat] /\ stamp[c] = 0
          => Count' = Count + 1
    /\ \A c \in Call : ticket' = [ticket EXCEPT ![c] = Asked + 1] /\ ticket \in [Call -> Nat] /\ ticket[c] = 0
          => Asked' = Asked + 1
<1>1. ASSUME NEW c \in Call, stamp' = [stamp EXCEPT ![c] = Count + 1],
             stamp \in [Call -> Nat], stamp[c] = 0
      PROVE  Count' = Count + 1
  <2> DEFINE S == {d \in Call : stamp[d] > 0}
  <2>1. IsFiniteSet(S) /\ c \notin S
      BY <1>1, MemoryAssumption, FS_Subset
  <2>2. {d \in Call : stamp'[d] > 0} = S \cup {c}
      BY <1>1, CountTyped
  <2> HIDE DEF S
  <2>3. Cardinality(S \cup {c}) = Cardinality(S) + 1
      BY <2>1, FS_AddElement
  <2> QED
      BY <2>2, <2>3 DEF Count, S
<1>2. ASSUME NEW c \in Call, ticket' = [ticket EXCEPT ![c] = Asked + 1],
             ticket \in [Call -> Nat], ticket[c] = 0
      PROVE  Asked' = Asked + 1
  <2> DEFINE S == {d \in Call : ticket[d] > 0}
  <2>1. IsFiniteSet(S) /\ c \notin S
      BY <1>2, MemoryAssumption, FS_Subset
  <2>2. {d \in Call : ticket'[d] > 0} = S \cup {c}
      BY <1>2, CountTyped
  <2> HIDE DEF S
  <2>3. Cardinality(S \cup {c}) = Cardinality(S) + 1
      BY <2>1, FS_AddElement
  <2> QED
      BY <2>2, <2>3 DEF Asked, S
<1> QED
    BY <1>1, <1>2

LEMMA InitInv == Init => Inv
<1> SUFFICES ASSUME Init PROVE Inv
    OBVIOUS
<1>1. TypeOK
    BY MemoryAssumption DEF Init, TypeOK, Pc, Live, Over, Stage, Reads, Writes
<1>2. CallInv /\ ThreadInv
    BY DEF Init, CallInv, ThreadInv, Writes, Reads
<1>3. NumberInv
    BY CountTyped DEF Init, NumberInv
<1>4. RowInv /\ ReadsCommitted
    BY DEF Init, RowInv, ReadsCommitted
<1>5. UpdateInv /\ OrderInv
    BY DEF Init, UpdateInv, OrderInv, UpdateCreatesNothing, WritesInOrder
<1> QED
    BY <1>1, <1>2, <1>3, <1>4, <1>5 DEF Inv

-----------------------------------------------------------------------------
(* Steps that neither read nor write the file, nor ask for the lock.       *)

Quiet == UNCHANGED <<rows, op, id, answer, ticket, stamp, since>>

\* They leave alone what is said of the file and of the order of the commits.
LEMMA QuietKeeps ==
    ASSUME Inv, Quiet,
           \A c \in Call : pc'[c] = "checking" => pc[c] = "checking",
           \A c \in Call : pc[c] \in Over => pc'[c] = pc[c]
    PROVE  NumberInv' /\ RowInv' /\ ReadsCommitted' /\ UpdateInv' /\ WritesInOrder'
<1>1. Count' = Count /\ Asked' = Asked
    BY DEF Quiet, Count, Asked
<1>2. NumberInv'
    BY <1>1 DEF Inv, NumberInv, Quiet
<1>3. RowInv'
    BY DEF Inv, RowInv, Stored, Quiet
<1>4. ReadsCommitted'
    BY DEF Inv, ReadsCommitted, Quiet
<1>5. UpdateInv'
  <2>1. \A d, c \in Call : Vouches(d, c) => Vouches(d, c)'
      BY DEF Vouches, Quiet
  <2>2. UpdateCreatesNothing'
      BY DEF Inv, UpdateInv, UpdateCreatesNothing, Supplies, Quiet
  <2> QED
      BY <2>1, <2>2 DEF Inv, UpdateInv, Quiet
<1>6. WritesInOrder'
    BY DEF Inv, OrderInv, WritesInOrder, Quiet
<1> QED
    BY <1>2, <1>3, <1>4, <1>5, <1>6

\* Unless they let a call into the lock, they leave the order of the requests alone.
LEMMA QuietOrder ==
    ASSUME Inv, Quiet, WritesInOrder',
           \A c \in Call : pc[c] \in Over => pc'[c] = pc[c],
           \A d \in Call :
              pc'[d] \in {"embedding", "writing"} \/ thread'[d] # "none"
              => \/ ticket[d] = 0
                 \/ pc[d] \in {"embedding", "writing"} \/ thread[d] # "none"
    PROVE  OrderInv'
<1>1. ticket \in [Call -> Nat]
    BY DEF Inv, TypeOK
<1> QED
    BY <1>1 DEF Inv, OrderInv, Quiet

LEMMA AcquireInv == ASSUME Inv, NEW c \in Call, Acquire(c) PROVE Inv'
<1>1. Quiet
    BY DEF Acquire, Quiet
<1>2. TypeOK'
  <2>1. CASE op[c] = "delete"
      BY <2>1 DEF Inv, TypeOK, Acquire, Goes, Submits, Pc, Live, Stage
  <2>2. CASE op[c] # "delete"
      BY <2>2 DEF Inv, TypeOK, Acquire, Goes, Pc, Live
  <2> QED
      BY <2>1, <2>2
<1>3. CallInv'
    BY MemoryAssumption DEF Inv, TypeOK, CallInv, Acquire, Goes, Over
<1>4. ThreadInv'
    BY DEF Inv, TypeOK, CallInv, ThreadInv, Acquire, Goes, Submits, Over, Writes, Reads
<1>5. NumberInv' /\ RowInv' /\ ReadsCommitted' /\ UpdateInv' /\ WritesInOrder'
    BY <1>1, QuietKeeps DEF Inv, TypeOK, Acquire, Goes, Over
<1>6. OrderInv'
  <2>1. ASSUME NEW e \in Call, 0 < ticket[e], ticket[e] < ticket[c]
        PROVE  pc[e] \in Over
      BY <2>1, MemoryAssumption DEF Inv, TypeOK, CallInv, Acquire, First
  <2>2. \A e \in Call : pc[e] \in Over => pc'[e] = pc[e]
      BY DEF Inv, TypeOK, Acquire, Goes, Over
  <2>3. \A d \in Call : d # c => pc'[d] = pc[d] /\ thread'[d] = thread[d]
      BY DEF Inv, TypeOK, Acquire, Goes, Submits
  <2> QED
      BY <1>1, <1>5, <2>1, <2>2, <2>3 DEF Inv, OrderInv, Quiet
<1> QED
    BY <1>2, <1>3, <1>4, <1>5, <1>6 DEF Inv

LEMMA EmbeddedInv == ASSUME Inv, NEW c \in Call, Embedded(c) PROVE Inv'
<1>1. Quiet
    BY DEF Embedded, Quiet
<1>2. TypeOK'
    BY DEF Inv, TypeOK, Embedded, LockForWrite, Goes, Submits, Pc, Live, Stage
<1>3. CallInv'
    BY DEF Inv, TypeOK, CallInv, Embedded, LockForWrite, Goes, Over, Writes, Reads
<1>4. ThreadInv'
    BY DEF Inv, TypeOK, CallInv, ThreadInv, Embedded, Goes, Submits, Over
<1>5. NumberInv' /\ RowInv' /\ ReadsCommitted' /\ UpdateInv' /\ WritesInOrder'
    BY <1>1, QuietKeeps DEF Inv, TypeOK, Embedded, Goes, Over
<1>6. OrderInv'
  <2>1. pc[c] = "vector" => ticket[c] = 0
      BY DEF Inv, TypeOK, CallInv, Writes, Reads
  <2>2. \A e \in Call : pc[e] \in Over => pc'[e] = pc[e]
      BY DEF Inv, TypeOK, Embedded, Goes, Over
  <2>3. \A d \in Call : d # c => pc'[d] = pc[d] /\ thread'[d] = thread[d]
      BY DEF Inv, TypeOK, Embedded, Goes, Submits
  <2> QED
      BY <1>1, <1>5, <2>1, <2>2, <2>3, QuietOrder DEF Embedded
<1> QED
    BY <1>2, <1>3, <1>4, <1>5, <1>6 DEF Inv

LEMMA EmbeddingFailsInv == ASSUME Inv, NEW c \in Call, EmbeddingFails(c) PROVE Inv'
<1>1. Quiet
    BY DEF EmbeddingFails, Quiet
<1>2. TypeOK'
    BY DEF Inv, TypeOK, EmbeddingFails, Unlocked, Goes, Pc, Over
<1>3. CallInv' /\ ThreadInv'
    BY DEF Inv, TypeOK, CallInv, ThreadInv, EmbeddingFails, Unlocked, Goes, Over
<1>4. \A e \in Call : pc'[e] = pc[e] \/ (pc'[e] = "failed" /\ pc[e] \notin Over)
    BY DEF Inv, TypeOK, EmbeddingFails, Goes, Over
<1>5. NumberInv' /\ RowInv' /\ ReadsCommitted' /\ UpdateInv' /\ WritesInOrder'
    BY <1>1, <1>4, QuietKeeps DEF Over
<1>6. OrderInv'
    BY <1>1, <1>4, <1>5, QuietOrder DEF EmbeddingFails
<1> QED
    BY <1>2, <1>3, <1>5, <1>6 DEF Inv

LEMMA CancelInv == ASSUME Inv, NEW c \in Call, Cancel(c) PROVE Inv'
<1>1. Quiet
    BY DEF Cancel, Quiet
<1>2. TypeOK'
    BY DEF Inv, TypeOK, Cancel, Unlocked, Goes, Pc, Over, Stage
<1>3. CallInv' /\ ThreadInv'
    BY DEF Inv, TypeOK, CallInv, ThreadInv, Cancel, Unlocked, Goes, Over, Live
<1>4. \A e \in Call : pc'[e] = pc[e] \/ (pc'[e] = "cancelled" /\ pc[e] \notin Over)
    BY DEF Inv, TypeOK, Cancel, Goes, Over, Live
<1>5. NumberInv' /\ RowInv' /\ ReadsCommitted' /\ UpdateInv' /\ WritesInOrder'
    BY <1>1, <1>4, QuietKeeps DEF Over
<1>6. \A e \in Call : thread'[e] = thread[e] \/ thread'[e] = "none"
    BY DEF Inv, TypeOK, Cancel
<1>7. OrderInv'
    BY <1>1, <1>4, <1>5, <1>6, QuietOrder
<1> QED
    BY <1>2, <1>3, <1>5, <1>7 DEF Inv

\* A thread that starts, opens its transaction, or fails.
LEMMA ThreadMovesInv ==
    ASSUME Inv, NEW c \in Call, ThreadStarts(c) \/ Execute(c) \/ Busy(c) \/ CommitFails(c)
    PROVE  Inv'
<1>1. Quiet /\ pc' = pc /\ lock' = lock
    BY DEF ThreadStarts, Execute, Busy, CommitFails, Quiet
<1>2. TypeOK'
    BY DEF Inv, TypeOK, ThreadStarts, Execute, Busy, CommitFails, Stage
<1>3. \E to \in {"running", "executed", "error"} :
         /\ thread' = [thread EXCEPT ![c] = to]
         /\ to = "executed" => Writer(c)
    BY DEF ThreadStarts, Execute, Busy, CommitFails
<1>4. thread[c] \in {"submitted", "running", "executed"}
    BY DEF ThreadStarts, Execute, Busy, CommitFails
<1>5. CallInv'
    BY <1>1 DEF Inv, CallInv, Quiet
<1>6. ThreadInv'
    BY <1>1, <1>3, <1>4 DEF Inv, TypeOK, ThreadInv, Writer, Quiet
<1>7. NumberInv' /\ RowInv' /\ ReadsCommitted' /\ UpdateInv' /\ WritesInOrder'
    BY <1>1, QuietKeeps
<1>8. OrderInv'
    BY <1>1, <1>3, <1>4, <1>7, QuietOrder DEF Inv, TypeOK
<1> QED
    BY <1>2, <1>5, <1>6, <1>7, <1>8 DEF Inv

LEMMA ResumeInv == ASSUME Inv, NEW c \in Call, Resume(c) PROVE Inv'
<1>1. Quiet
    BY DEF Resume, Quiet
<1>2. TypeOK'
    BY DEF Inv, TypeOK, Resume, Unlocked, Goes, Pc, Over, Stage
<1>3. CallInv'
    BY DEF Inv, TypeOK, CallInv, Resume, Unlocked, Goes, Over
<1>4. ThreadInv'
    BY DEF Inv, TypeOK, CallInv, ThreadInv, Resume, Goes, Over, Writes, Reads
<1>5. \A e \in Call : pc'[e] = pc[e] \/ (pc'[e] \in {"answered", "failed"} /\ pc[e] \notin Over)
    BY DEF Inv, TypeOK, Resume, Goes, Over
<1>6. \A e \in Call : thread'[e] = thread[e] \/ thread'[e] = "none"
    BY DEF Inv, TypeOK, Resume
<1>7. NumberInv' /\ RowInv' /\ ReadsCommitted' /\ UpdateInv' /\ WritesInOrder'
    BY <1>1, <1>5, QuietKeeps DEF Over
<1>8. OrderInv'
    BY <1>1, <1>5, <1>6, <1>7, QuietOrder
<1> QED
    BY <1>2, <1>3, <1>4, <1>7, <1>8 DEF Inv

LEMMA CrashInv == ASSUME Inv, Crash PROVE Inv'
<1>1. Quiet
    BY DEF Crash, Quiet
<1>2. TypeOK'
    BY DEF Inv, TypeOK, Crash, Pc, Over, Stage
<1>3. CallInv' /\ ThreadInv'
    BY DEF Inv, TypeOK, CallInv, ThreadInv, Crash, Live, Over
<1>4. \A e \in Call : pc'[e] = pc[e] \/ (pc'[e] = "lost" /\ pc[e] \notin Over)
    BY DEF Inv, TypeOK, Crash, Live, Over
<1>5. NumberInv' /\ RowInv' /\ ReadsCommitted' /\ UpdateInv' /\ WritesInOrder'
    BY <1>1, <1>4, QuietKeeps DEF Over
<1>6. OrderInv'
    BY <1>1, <1>4, <1>5, QuietOrder DEF Crash
<1> QED
    BY <1>2, <1>3, <1>5, <1>6 DEF Inv
-----------------------------------------------------------------------------
(* Steps that ask for the lock, read, or write.                            *)

LEMMA BeginInv == ASSUME Inv, NEW c \in Call, NEW o \in Writes \cup Reads, NEW i \in Id, Begin(c, o, i)
                  PROVE Inv'
<1>1. /\ pc[c] = "idle" /\ ticket[c] = 0 /\ stamp[c] = 0 /\ thread[c] = "none" /\ answer[c] = {}
      /\ \A d \in Call : stamp[d] > 0 => d # c
    BY DEF Begin, Inv, TypeOK, CallInv, ThreadInv, Over
<1>2. /\ UNCHANGED <<rows, writing, lock, answer, stamp>> /\ Count' = Count
      /\ op' = [op EXCEPT ![c] = o] /\ id' = [id EXCEPT ![c] = i] /\ since' = [since EXCEPT ![c] = Count]
    BY DEF Begin, Count
<1>3. TypeOK'
  <2>1. \/ pc' = [pc EXCEPT ![c] = "queued"] /\ ticket' = [ticket EXCEPT ![c] = Asked + 1] /\ thread' = thread
        \/ pc' = [pc EXCEPT ![c] = "checking"] /\ ticket' = ticket /\ thread' = [thread EXCEPT ![c] = "submitted"]
        \/ pc' = [pc EXCEPT ![c] = "reading"] /\ ticket' = ticket /\ thread' = [thread EXCEPT ![c] = "submitted"]
        \/ pc' = [pc EXCEPT ![c] = "vector"] /\ ticket' = ticket /\ thread' = thread
      BY DEF Begin, Queues, Goes, Submits
  <2> QED
      BY <1>2, <2>1, CountTyped DEF Inv, TypeOK, Pc, Live, Stage
<1>4. \A d \in Call : d # c => /\ pc'[d] = pc[d] /\ thread'[d] = thread[d] /\ ticket'[d] = ticket[d]
                               /\ op'[d] = op[d] /\ id'[d] = id[d] /\ since'[d] = since[d]
    BY DEF Begin, Queues, Goes, Submits, Inv, TypeOK
<1>5. op'[c] = o /\ id'[c] = i /\ since'[c] = Count
    BY <1>2 DEF Inv, TypeOK
<1>6. \/ o \in {"add", "delete"} /\ pc'[c] = "queued" /\ thread'[c] = "none" /\ ticket'[c] = Asked + 1 /\ Asked' = Asked + 1
      \/ o = "update" /\ pc'[c] = "checking" /\ thread'[c] = "submitted" /\ ticket'[c] = 0 /\ Asked' = Asked
      \/ o \in {"get", "list"} /\ pc'[c] = "reading" /\ thread'[c] = "submitted" /\ ticket'[c] = 0 /\ Asked' = Asked
      \/ o = "search" /\ pc'[c] = "vector" /\ thread'[c] = "none" /\ ticket'[c] = 0 /\ Asked' = Asked
  <2>1. CASE o \in {"add", "delete"} /\ Queues(c) /\ UNCHANGED thread
      BY <1>1, <2>1, CountStep, CountTyped DEF Queues, Goes, Inv, TypeOK
  <2>2. ASSUME UNCHANGED ticket PROVE Asked' = Asked
      BY <2>2 DEF Asked
  <2> QED
      BY <1>1, <2>1, <2>2 DEF Begin, Goes, Submits, Inv, TypeOK
<1>7. CallInv'
  <2>1. ASSUME NEW d \in Call, d # c
        PROVE  /\ pc'[d] \in {"idle", "checking"} => ticket'[d] = 0
               /\ pc'[d] = "idle" => answer'[d] = {}
               /\ pc'[d] = "checking" => op'[d] = "update"
               /\ pc'[d] \in {"vector", "reading"} => op'[d] \in Reads
               /\ pc'[d] \in {"queued", "embedding", "writing"} => ticket'[d] > 0
               /\ op'[d] \in {"add", "delete"} /\ pc'[d] # "idle" => ticket'[d] > 0
               /\ ticket'[d] > 0 => op'[d] \in Writes /\ pc'[d] \in {"queued", "embedding", "writing"} \cup Over
               /\ pc'[d] \in {"embedding", "writing"} => lock' = d
      BY <1>2, <1>4, <2>1 DEF Inv, CallInv
  <2> QED
      BY <1>1, <1>2, <1>5, <1>6, <2>1, CountTyped DEF CallInv, Writes, Reads
<1>8. ThreadInv'
    BY <1>1, <1>2, <1>4, <1>6 DEF Inv, ThreadInv
<1>9. NumberInv'
    BY <1>1, <1>2, <1>4, <1>5, <1>6, CountTyped DEF Inv, TypeOK, NumberInv
<1>10. RowInv'
  <2>1. \A d \in Call : d # c => Stored(d)' = Stored(d)
      BY <1>4 DEF Stored
  <2>2. \A j \in Id : rows[j] # Nobody => rows[j] \in Call /\ stamp[rows[j]] > 0 /\ rows[j] # c
      BY <1>1 DEF Inv, TypeOK, RowInv
  <2> QED
      BY <1>1, <1>2, <1>4, <2>1, <2>2 DEF Inv, TypeOK, RowInv
<1>11. ReadsCommitted'
    BY <1>2 DEF Inv, ReadsCommitted
<1>12. UpdateInv'
  <2>1. \A d, e \in Call : e # c /\ Vouches(d, e) => Vouches(d, e)'
      BY <1>1, <1>2, <1>4 DEF Vouches, Inv, TypeOK
  <2>2. op'[c] = "update" => ticket'[c] = 0 /\ answer'[c] = {}
      BY <1>1, <1>2, <1>5, <1>6
  <2>3. UpdateCreatesNothing'
      BY <1>1, <1>2, <1>4 DEF Inv, TypeOK, UpdateInv, UpdateCreatesNothing, Supplies
  <2>4. \A e \in Call : e # c /\ op'[e] = "update" /\ (ticket'[e] > 0 \/ (pc'[e] = "checking" /\ answer'[e] # {}))
                        => \E d \in Call : Vouches(d, e)'
      BY <1>2, <1>4, <2>1 DEF Inv, UpdateInv
  <2>5. \A e \in Call : op'[e] = "update" /\ (ticket'[e] > 0 \/ (pc'[e] = "checking" /\ answer'[e] # {}))
                        => \E d \in Call : Vouches(d, e)'
      BY <2>2, <2>4
  <2> QED
      BY <2>3, <2>5 DEF UpdateInv
<1>13. OrderInv'
    BY <1>1, <1>2, <1>4, <1>6, CountTyped DEF Inv, TypeOK, NumberInv, OrderInv, WritesInOrder, Over
<1> QED
    BY <1>3, <1>7, <1>8, <1>9, <1>10, <1>11, <1>12, <1>13 DEF Inv

LEMMA SelectInv == ASSUME Inv, NEW c \in Call, Select(c) PROVE Inv'
<1>1. /\ thread[c] = "running" /\ ~Writer(c) /\ pc' = pc
      /\ thread' = [thread EXCEPT ![c] = "done"]
      /\ UNCHANGED <<rows, writing, lock, pc, op, id, ticket, stamp, since>>
    BY DEF Select
<1>2. op[c] \in Reads \cup {"update"}
    BY <1>1 DEF Inv, TypeOK, CallInv, ThreadInv, Writer, Writes, Reads
<1>3. PICK all \in BOOLEAN : answer' = [answer EXCEPT ![c] = {View[i] : i \in Selected(c, all)} \ {Nobody}]
    BY DEF Select
<1>4. Selected(c, all) \subseteq Id
    BY <1>2 DEF Selected, ById, ByUser, Inv, TypeOK, Reads
<1>5. \A w \in answer'[c] : w \in Call /\ stamp[w] > 0
    BY <1>3, <1>4 DEF Inv, TypeOK, RowInv, View
<1>6. \A d \in Call : d # c => answer'[d] = answer[d] /\ thread'[d] = thread[d]
    BY <1>1, <1>3 DEF Inv, TypeOK
<1>7. answer' \in [Call -> SUBSET Call]
    BY <1>3, <1>5 DEF Inv, TypeOK
<1>8. TypeOK'
    BY <1>1, <1>7 DEF Inv, TypeOK, Stage
<1>9. CallInv'
    BY <1>1, <1>6 DEF Inv, CallInv, ThreadInv
<1>10. ThreadInv'
    BY <1>1 DEF Inv, TypeOK, CallInv, ThreadInv, Writer, Over
<1>11. NumberInv'
  <2>1. Count' = Count /\ Asked' = Asked
      BY <1>1 DEF Count, Asked
  <2> QED
      BY <1>1, <2>1 DEF Inv, NumberInv
<1>12. RowInv'
    BY <1>1 DEF Inv, RowInv, Stored
<1>13. ReadsCommitted'
    BY <1>1, <1>5, <1>6 DEF Inv, ReadsCommitted
<1>14. UpdateInv'
  <2>1. \A d, e \in Call : Vouches(d, e) => Vouches(d, e)'
      BY <1>1 DEF Vouches
  <2>2. UpdateCreatesNothing'
      BY <1>1 DEF Inv, UpdateInv, UpdateCreatesNothing, Supplies
  <2>3. ASSUME op[c] = "update", answer'[c] # {} PROVE \E d \in Call : Vouches(d, c)
    <3>1. rows[id[c]] # Nobody
        BY <1>3, <2>3 DEF Inv, TypeOK, Selected, ById, View
    <3>2. Vouches(rows[id[c]], c) /\ rows[id[c]] \in Call
      <4> DEFINE w == rows[id[c]]
      <4>1. w \in Call /\ id[c] \in Id
          BY <3>1 DEF Inv, TypeOK
      <4>2. op[w] \in {"add", "update"} /\ id[w] = id[c] /\ stamp[w] > 0
            /\ \A e \in Call : id[e] = id[c] => stamp[e] <= stamp[w]
          BY <3>1, <4>1 DEF Inv, RowInv
      <4>3. \A e \in Call : op[e] = "delete" => e # w
          BY <4>2
      <4>4. stamp \in [Call -> Nat]
          BY DEF Inv, TypeOK
      <4>5. \A e \in Call : stamp[e] = stamp[w] /\ stamp[e] > 0 => e = w
          BY <4>1 DEF Inv, NumberInv
      <4> HIDE DEF w
      <4>6. Vouches(w, c)
          BY <4>1, <4>2, <4>3, <4>4, <4>5 DEF Vouches
      <4> QED
          BY <4>1, <4>6 DEF w
    <3> QED
        BY <3>2
  <2>4. \A e \in Call : op'[e] = "update" /\ (ticket'[e] > 0 \/ (pc'[e] = "checking" /\ answer'[e] # {}))
                        => \E d \in Call : Vouches(d, e)
      BY <1>1, <1>6, <2>3 DEF Inv, UpdateInv
  <2> QED
      BY <2>1, <2>2, <2>4 DEF UpdateInv
<1>15. OrderInv'
    BY <1>1, <1>6 DEF Inv, OrderInv, WritesInOrder
<1> QED
    BY <1>8, <1>9, <1>10, <1>11, <1>12, <1>13, <1>14, <1>15 DEF Inv

LEMMA CheckedInv == ASSUME Inv, NEW c \in Call, Checked(c) PROVE Inv'
<1>1. /\ pc[c] = "checking" /\ thread[c] = "done" /\ op[c] = "update" /\ ticket[c] = 0 /\ stamp[c] = 0
      /\ thread' = [thread EXCEPT ![c] = "none"]
      /\ UNCHANGED <<rows, writing, lock, op, id, stamp, since>> /\ Count' = Count
    BY DEF Checked, Inv, TypeOK, CallInv, ThreadInv, Over, Count
<1>2. \/ /\ answer[c] # {} /\ pc' = [pc EXCEPT ![c] = "queued"]
         /\ ticket' = [ticket EXCEPT ![c] = Asked + 1] /\ Asked' = Asked + 1
         /\ answer' = [answer EXCEPT ![c] = {}]
      \/ /\ pc' = [pc EXCEPT ![c] = "refused"]
         /\ ticket' = ticket /\ answer' = answer /\ Asked' = Asked
  <2>1. CASE Found(c) /\ Queues(c)
      BY <1>1, <2>1, CountStep DEF Checked, Found, Queues, Goes, Inv, TypeOK
  <2>2. CASE ~Found(c)
      BY <2>2 DEF Checked, Goes, Asked
  <2> QED
      BY <2>1, <2>2 DEF Checked
<1>3. TypeOK'
    BY <1>1, <1>2, CountTyped DEF Inv, TypeOK, Pc, Live, Over, Stage
<1>4. /\ \A d \in Call : d # c => /\ pc'[d] = pc[d] /\ thread'[d] = thread[d] /\ ticket'[d] = ticket[d]
                                  /\ answer'[d] = answer[d]
      /\ thread'[c] = "none"
      /\ \/ answer[c] # {} /\ pc'[c] = "queued" /\ ticket'[c] = Asked + 1 /\ Asked' = Asked + 1 /\ answer'[c] = {}
         \/ pc'[c] = "refused" /\ ticket'[c] = 0 /\ Asked' = Asked /\ answer'[c] = answer[c]
    BY <1>1, <1>2 DEF Inv, TypeOK
<1>5. CallInv'
    BY <1>1, <1>4, CountTyped DEF Inv, CallInv, Writes, Reads, Over
<1>6. ThreadInv'
    BY <1>1, <1>4 DEF Inv, ThreadInv, Over
<1>7. NumberInv'
    BY <1>1, <1>4, CountTyped DEF Inv, TypeOK, NumberInv
<1>8. RowInv'
    BY <1>1 DEF Inv, RowInv, Stored
<1>9. ReadsCommitted'
    BY <1>1, <1>4 DEF Inv, ReadsCommitted
<1>10. UpdateInv'
  <2>1. \A d, e \in Call : Vouches(d, e) => Vouches(d, e)'
      BY <1>1 DEF Vouches
  <2>2. UpdateCreatesNothing'
      BY <1>1 DEF Inv, UpdateInv, UpdateCreatesNothing, Supplies
  <2>3. \A e \in Call : op'[e] = "update" /\ (ticket'[e] > 0 \/ (pc'[e] = "checking" /\ answer'[e] # {}))
                        => \E d \in Call : Vouches(d, e)
      BY <1>1, <1>4 DEF Inv, UpdateInv
  <2> QED
      BY <2>1, <2>2, <2>3 DEF UpdateInv
<1>11. OrderInv'
    BY <1>1, <1>4, CountTyped DEF Inv, TypeOK, NumberInv, OrderInv, WritesInOrder, Over
<1> QED
    BY <1>3, <1>5, <1>6, <1>7, <1>8, <1>9, <1>10, <1>11 DEF Inv

LEMMA CommitInv == ASSUME Inv, NEW c \in Call, Commit(c) PROVE Inv'
<1>1. /\ thread[c] = "executed" /\ ticket[c] > 0 /\ stamp[c] = 0
      /\ pc[c] \in {"writing", "cancelled"} /\ op[c] \in Writes /\ id[c] \in Id
    BY DEF Commit, Inv, TypeOK, CallInv, ThreadInv, Over
<1>2. /\ rows' = [rows EXCEPT ![id[c]] = Stored(c)] /\ writing' = Nobody
      /\ stamp' = [stamp EXCEPT ![c] = Count + 1] /\ thread' = [thread EXCEPT ![c] = "done"]
      /\ UNCHANGED <<lock, pc, op, id, answer, ticket, since>> /\ Asked' = Asked
    BY DEF Commit, Asked
<1>3. Count' = Count + 1 /\ Count \in Nat
    BY <1>1, <1>2, CountStep, CountTyped DEF Inv, TypeOK
<1>4. /\ stamp'[c] = Count + 1 /\ thread'[c] = "done"
      /\ \A d \in Call : d # c => stamp'[d] = stamp[d] /\ thread'[d] = thread[d]
    BY <1>2 DEF Inv, TypeOK
<1>5. \A d \in Call : stamp[d] \in Nat /\ stamp[d] <= Count /\ since[d] \in Nat /\ since[d] <= Count
    BY DEF Inv, TypeOK, NumberInv
<1>6. TypeOK'
    BY <1>2, <1>3 DEF Inv, TypeOK, Stored, Stage
<1>7. CallInv'
    BY <1>2 DEF Inv, CallInv
<1>8. ThreadInv'
    BY <1>1, <1>2, <1>3, <1>4 DEF Inv, ThreadInv, Over
<1>9. NumberInv'
  <2>1. \A d \in Call : stamp'[d] <= Count' /\ since'[d] <= Count' /\ ticket'[d] <= Asked'
      BY <1>2, <1>3, <1>4, <1>5 DEF Inv, NumberInv
  <2>2. \A d, e \in Call : stamp'[d] = stamp'[e] /\ stamp'[d] > 0 => d = e
      BY <1>3, <1>4, <1>5 DEF Inv, NumberInv
  <2> QED
      BY <2>1, <2>2 DEF NumberInv
<1>10. RowInv'
  <2>1. \A d \in Call : Stored(d)' = Stored(d)
      BY <1>2 DEF Stored
  <2>2. rows'[id[c]] = Stored(c) /\ \A i \in Id : i # id[c] => rows'[i] = rows[i]
      BY <1>1, <1>2 DEF Inv, TypeOK
  <2>3. \A d \in Call : stamp'[d] > 0 => \/ rows'[id'[d]] = Stored(d)'
                                         \/ \E e \in Call : id'[e] = id'[d] /\ stamp'[e] > stamp'[d]
    <3> SUFFICES ASSUME NEW d \in Call, stamp'[d] > 0
                 PROVE  \/ rows'[id[d]] = Stored(d)
                        \/ \E e \in Call : id[e] = id[d] /\ stamp'[e] > stamp'[d]
        BY <1>2, <2>1
    <3>1. CASE d = c
        BY <2>2, <3>1
    <3>2. CASE d # c /\ id[d] = id[c]
        BY <1>3, <1>4, <1>5, <3>2
    <3>3. CASE d # c /\ id[d] # id[c]
      <4>1. id[d] \in Id /\ rows'[id[d]] = rows[id[d]]
          BY <2>2, <3>3 DEF Inv, TypeOK
      <4>2. \/ rows[id[d]] = Stored(d)
            \/ \E e \in Call : id[e] = id[d] /\ stamp[e] > stamp[d]
          BY <1>4, <3>3 DEF Inv, RowInv
      <4> QED
          BY <1>4, <3>3, <4>1, <4>2
    <3> QED
        BY <3>1, <3>2, <3>3
  <2>4. \A i \in Id : rows'[i] # Nobody =>
          /\ op'[rows'[i]] \in {"add", "update"} /\ id'[rows'[i]] = i /\ stamp'[rows'[i]] > 0
          /\ \A e \in Call : id'[e] = i => stamp'[e] <= stamp'[rows'[i]]
    <3> SUFFICES ASSUME NEW i \in Id, rows'[i] # Nobody
                 PROVE  /\ op[rows'[i]] \in {"add", "update"} /\ id[rows'[i]] = i /\ stamp'[rows'[i]] > 0
                        /\ \A e \in Call : id[e] = i => stamp'[e] <= stamp'[rows'[i]]
        BY <1>2
    <3>1. CASE i = id[c]
      <4>1. rows'[i] = c /\ op[c] \in {"add", "update"}
          BY <1>1, <2>2, <3>1 DEF Stored, Writes
      <4>2. \A e \in Call : stamp'[e] <= Count + 1
          BY <1>3, <1>4, <1>5
      <4> QED
          BY <1>3, <1>4, <3>1, <4>1, <4>2
    <3>2. CASE i # id[c]
      <4>1. /\ rows'[i] = rows[i] /\ rows[i] \in Call
            /\ op[rows[i]] \in {"add", "update"} /\ id[rows[i]] = i /\ stamp[rows[i]] > 0
            /\ \A e \in Call : id[e] = i => stamp[e] <= stamp[rows[i]]
          BY <2>2, <3>2 DEF Inv, TypeOK, RowInv
      <4> QED
          BY <1>4, <3>2, <4>1
    <3> QED
        BY <3>1, <3>2
  <2> QED
      BY <2>3, <2>4 DEF RowInv
<1>11. ReadsCommitted'
    BY <1>2, <1>3, <1>4 DEF Inv, TypeOK, ReadsCommitted
<1>12. UpdateInv'
  <2>1. \A d, e \in Call : Vouches(d, e) => Vouches(d, e)'
      BY <1>1, <1>2, <1>3, <1>4, <1>5 DEF Vouches
  <2>2. op[c] = "update" => \E d \in Call : Vouches(d, c)
      BY <1>1 DEF Inv, UpdateInv
  <2>3. \A e \in Call : op'[e] = "update" /\ (ticket'[e] > 0 \/ (pc'[e] = "checking" /\ answer'[e] # {}))
                        => \E d \in Call : Vouches(d, e)'
      BY <1>2, <2>1 DEF Inv, UpdateInv
  <2>4. ASSUME NEW u \in Call, op[u] = "update", stamp'[u] > 0
        PROVE  /\ \E d \in Call : Supplies(d, u)'
               /\ \A e \in Call :
                     op[e] = "delete" /\ id[e] = id[u] /\ 0 < stamp'[e] /\ stamp'[e] <= since[u]
                     => \E d \in Call : Supplies(d, u)' /\ stamp'[e] < stamp'[d]
    <3>1. CASE u = c
      <4>1. PICK d \in Call : Vouches(d, c)
          BY <2>2, <2>4, <3>1
      <4>2. Supplies(d, c)'
          BY <1>1, <1>2, <1>3, <1>4, <1>5, <4>1 DEF Vouches, Supplies
      <4>3. Vouches(d, c)'
          BY <2>1, <4>1
      <4> QED
          BY <1>2, <3>1, <4>2, <4>3 DEF Vouches
    <3>2. CASE u # c
      <4>1. stamp[u] > 0
          BY <1>4, <2>4, <3>2
      <4>2. \A d \in Call : Supplies(d, u) => Supplies(d, u)' /\ stamp'[d] = stamp[d]
          BY <1>1, <1>2, <1>4, <3>2 DEF Supplies
      <4>3. \A e \in Call : stamp'[e] <= since[u] => stamp'[e] = stamp[e]
          BY <1>3, <1>4, <1>5
      <4> QED
          BY <2>4, <4>1, <4>2, <4>3 DEF Inv, UpdateInv, UpdateCreatesNothing
    <3> QED
        BY <3>1, <3>2
  <2>5. UpdateCreatesNothing'
      BY <1>2, <2>4 DEF UpdateCreatesNothing
  <2> QED
      BY <2>3, <2>5 DEF UpdateInv
<1>13. OrderInv'
  <2>1. \A d, e \in Call :
          /\ 0 < ticket'[d] /\ ticket'[d] < ticket'[e]
          /\ pc'[e] \in {"embedding", "writing"} \/ thread'[e] # "none" \/ stamp'[e] > 0
          => pc'[d] \in Over
      BY <1>1, <1>2, <1>4 DEF Inv, OrderInv
  <2>2. ASSUME NEW d \in Call, NEW e \in Call, 0 < ticket[d], ticket[d] < ticket[e], stamp'[e] > 0
        PROVE  \/ 0 < stamp'[d] /\ stamp'[d] < stamp'[e]
               \/ stamp'[d] = 0 /\ pc[d] \in Over
               \/ pc[d] = "cancelled"
    <3>1. pc[d] \in Over
        BY <1>2, <2>1, <2>2
    <3>2. CASE d = c
        BY <1>1, <3>1, <3>2 DEF Over
    <3>3. CASE d # c /\ e = c
        BY <1>3, <1>4, <1>5, <3>1, <3>3
    <3>4. CASE d # c /\ e # c
        BY <1>4, <2>2, <3>4 DEF Inv, OrderInv, WritesInOrder
    <3> QED
        BY <3>2, <3>3, <3>4
  <2>3. WritesInOrder'
      BY <1>2, <2>2 DEF WritesInOrder
  <2> QED
      BY <2>1, <2>3 DEF OrderInv
<1> QED
    BY <1>6, <1>7, <1>8, <1>9, <1>10, <1>11, <1>12, <1>13 DEF Inv

-----------------------------------------------------------------------------
LEMMA NextInv == Inv /\ [Next]_vars => Inv'
<1> SUFFICES ASSUME Inv, [Next]_vars PROVE Inv'
    OBVIOUS
<1>1. CASE UNCHANGED vars
  <2>1. Quiet /\ UNCHANGED <<writing, lock, pc, thread>>
      BY <1>1 DEF vars, Quiet
  <2>2. TypeOK' /\ CallInv' /\ ThreadInv'
      BY <2>1 DEF Inv, TypeOK, CallInv, ThreadInv, Quiet
  <2>3. NumberInv' /\ RowInv' /\ ReadsCommitted' /\ UpdateInv' /\ WritesInOrder'
      BY <2>1, QuietKeeps
  <2>4. OrderInv'
      BY <2>1, <2>3, QuietOrder
  <2> QED
      BY <2>2, <2>3, <2>4 DEF Inv
<1>2. CASE Crash
    BY <1>2, CrashInv
<1>3. ASSUME NEW c \in Call, Begins(c) \/ Cancel(c) \/ Step(c) PROVE Inv'
  <2>1. CASE Begins(c)
      BY <2>1, BeginInv DEF Begins
  <2>2. CASE Cancel(c)
      BY <2>2, CancelInv
  <2>3. CASE Acquire(c) \/ Embedded(c) \/ EmbeddingFails(c)
      BY <2>3, AcquireInv, EmbeddedInv, EmbeddingFailsInv
  <2>4. CASE ThreadStarts(c) \/ Execute(c) \/ Busy(c) \/ CommitFails(c)
      BY <2>4, ThreadMovesInv
  <2>5. CASE Commit(c) \/ Select(c) \/ Checked(c) \/ Resume(c)
      BY <2>5, CommitInv, SelectInv, CheckedInv, ResumeInv
  <2> QED
      BY <1>3, <2>1, <2>2, <2>3, <2>4, <2>5 DEF Step
<1> QED
    BY <1>1, <1>2, <1>3 DEF Next

LEMMA Invariance == Spec => []Inv
<1> QED
    BY InitInv, NextInv, PTL DEF Spec
-----------------------------------------------------------------------------
\* Every variable stays in its type: a thread is in one stage, the lock and the
\* transaction have at most one owner.
THEOREM TypeCorrect == Spec => []TypeOK
<1>1. Inv => TypeOK
    BY DEF Inv
<1> QED
    BY <1>1, Invariance, PTL

\* What _lock gives the store: writes land in the order in which they were asked for,
\* unless the earlier one was given up or failed, however many there are.
THEOREM OrderKept == Spec => []WritesInOrder
<1>1. Inv => WritesInOrder
    BY DEF Inv, OrderInv
<1> QED
    BY <1>1, Invariance, PTL

\* What add, update or delete answered is in the file until a later commit to its id,
\* and a read sees committed rows only, whenever the process dies.
THEOREM AnswersKept == Spec => []AnswersDurable
<1>1. Inv => AnswersDurable
  <2> SUFFICES ASSUME Inv PROVE AnswersDurable
      OBVIOUS
  <2>1. AnsweredKept
      BY DEF Inv, ThreadInv, RowInv, AnsweredKept, Stored, TypeOK
  <2> QED
      BY <2>1 DEF Inv, AnswersDurable
<1> QED
    BY <1>1, Invariance, PTL

\* SqliteMemoryStore.update never brings an item into being, and never undoes a delete
\* that was over when it began.
THEOREM UpdatesReplace == Spec => []UpdateCreatesNothing
<1>1. Inv => UpdateCreatesNothing
    BY DEF Inv, UpdateInv
<1> QED
    BY <1>1, Invariance, PTL
=============================================================================
