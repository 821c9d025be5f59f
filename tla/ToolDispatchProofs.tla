------------------------- MODULE ToolDispatchProofs -------------------------
(***************************************************************************)
(* Proofs about ToolDispatch, for every set of slots, tools and            *)
(* capabilities and any number of permits and turns.                       *)
(*                                                                         *)
(* The invariants TLC checks are not inductive by themselves.  Inv adds    *)
(* what they rest on: which tasks can exist in which phase (WaveInv), what *)
(* a call that entered its tool has been through (CallInv), and that a     *)
(* waiting call's copy of the taint already holds everything the first     *)
(* wave produced (TaintInv).                                               *)
(***************************************************************************)
EXTENDS ToolDispatch, FiniteSetTheorems, TLAPS

Types ==
    /\ phase \in Phase /\ turn \in 0..MaxTurns
    /\ tool \in [Slot -> Tool \cup {NoTool}]
    /\ pc \in [Slot -> Pc]
    /\ snap \in [Slot -> SUBSET Trust] /\ sub \in [Slot -> SUBSET Trust]
    /\ taint \subseteq Trust /\ entry \subseteq Trust
    /\ audit \subseteq Slot /\ ran \subseteq Slot
    /\ free \in Nat /\ elsewhere \in Nat

Holders == {s \in Slot : pc[s] \in Holding}

PermitInv == free + elsewhere + Cardinality(Holders) = Permits

WaveInv ==
    /\ \A s \in Slot : tool[s] = NoTool => pc[s] = "absent"
    /\ phase = "first" => \A s \in ExfilWave : pc[s] = "absent"
    /\ phase = "exfil" => \A r \in FirstWave : pc[r] \in Outcome
    /\ phase \in {"llm", "raised", "ended"} => \A s \in Slot : pc[s] \notin Live
    /\ WaveBarrier

InExecutor(s) == pc[s] \in Holding \cup {"queued"}

CallInv ==
    /\ \A s \in Slot : InExecutor(s) => tool[s] \in Registered
    /\ \A s \in ran : /\ tool[s] \in Registered
                      /\ pc[s] \notin {"absent", "new", "queued", "authz", "creds"}
    /\ AuditComplete

\* The call's copy of the taint holds all that reached the run before its wave.
Informed(s) ==
    /\ entry \subseteq snap[s]
    /\ s \in ExfilWave =>
          \A r \in FirstWave : Produced(r) => TrustForOutput(tool[r]) \in snap[s]

TaintInv ==
    /\ entry \subseteq taint
    /\ TaintAccounted
    /\ \A s \in Slot : InExecutor(s) => Informed(s)
    /\ \A s \in Slot : pc[s] = "creds" => TaintGate(tool[s], snap[s])
    /\ NoSendAfterFetch

Inv == Types /\ PermitInv /\ WaveInv /\ CallInv /\ TaintInv

USE DEF Phase, Pc, Live, Holding, Outcome, Fatal
-----------------------------------------------------------------------------
LEMMA TrustForOutputType ==
    ASSUME NEW t \in Tool PROVE TrustForOutput(t) \in Trust
BY ToolAssumption DEF TrustForOutput, Trust

LEMMA InitInv == Init => Inv
<1> SUFFICES ASSUME Init PROVE Inv
    OBVIOUS
<1>1. Types
    BY BoundAssumption DEF Init, Types
<1>2. PermitInv
  <2>1. Holders = {}
    BY DEF Init, Holders
  <2> QED
    BY <2>1, FS_EmptySet, BoundAssumption DEF Init, PermitInv
<1>3. Declared = {}
    BY DEF Init, Declared
<1>4. WaveInv
    BY <1>3 DEF Init, WaveInv, WaveBarrier, ExfilWave, FirstWave
<1>5. CallInv
    BY DEF Init, CallInv, InExecutor, AuditComplete
<1>6. TaintInv
    BY <1>3 DEF Init, TaintInv, TaintAccounted, InExecutor, NoSendAfterFetch, SubTaint
<1> QED
    BY <1>1, <1>2, <1>4, <1>5, <1>6 DEF Inv
-----------------------------------------------------------------------------
(* Permits.                                                                *)
LEMMA HoldersFinite == IsFiniteSet(Holders) /\ Cardinality(Holders) \in Nat
BY BoundAssumption, FS_Subset, FS_CardinalityType DEF Holders

\* One task's move takes a permit, gives one back, or neither.
LEMMA HoldersStep ==
    ASSUME NEW s \in Slot, NEW to, Types, pc' = [pc EXCEPT ![s] = to]
    PROVE  /\ pc[s] \notin Holding /\ to \in Holding
                => Cardinality(Holders') = Cardinality(Holders) + 1
           /\ pc[s] \in Holding /\ to \notin Holding
                => Cardinality(Holders') = Cardinality(Holders) - 1
           /\ (pc[s] \in Holding <=> to \in Holding) => Holders' = Holders
<1>1. CASE pc[s] \notin Holding /\ to \in Holding
  <2>1. Holders' = Holders \cup {s} /\ s \notin Holders
      BY <1>1 DEF Holders, Types
  <2> QED
      BY <1>1, <2>1, HoldersFinite, FS_AddElement
<1>2. CASE pc[s] \in Holding /\ to \notin Holding
  <2>1. Holders' = Holders \ {s} /\ s \in Holders
      BY <1>2 DEF Holders, Types
  <2> QED
      BY <1>2, <2>1, HoldersFinite, FS_RemoveElement
<1>3. CASE pc[s] \in Holding <=> to \in Holding
    BY <1>3 DEF Holders, Types
<1> QED
    BY <1>1, <1>2, <1>3
-----------------------------------------------------------------------------
(* The parent's steps.                                                     *)
LEMMA BeginTurnInv == Inv /\ BeginTurn => Inv'
<1> SUFFICES ASSUME Inv, BeginTurn PROVE Inv'
    OBVIOUS
<1> PICK D \in (SUBSET Slot) \ {{}} : \E f \in [D -> Tool] : Declare(f)
    BY DEF BeginTurn
<1> PICK f \in [D -> Tool] : Declare(f)
    OBVIOUS
<1> USE DEF Inv
<1>1. Types'
    BY BoundAssumption DEF Types, BeginTurn, Declare
<1>2. PermitInv'
  <2>1. Holders = {} /\ Holders' = {}
    BY DEF Holders, WaveInv, BeginTurn, Declare
  <2> QED
    BY <2>1 DEF PermitInv, BeginTurn
<1>3. WaveInv'
    BY ToolAssumption DEF WaveInv, WaveBarrier, FirstWave, ExfilWave, Declared, Opening, Declare
<1>4. CallInv'
    BY DEF CallInv, InExecutor, AuditComplete, BeginTurn, Declare
<1>5. TaintInv'
    BY DEF TaintInv, TaintAccounted, InExecutor, NoSendAfterFetch, BeginTurn, Declare, Declared, Produced
<1> QED
    BY <1>1, <1>2, <1>3, <1>4, <1>5

LEMMA OpenExfilWaveInv == Inv /\ OpenExfilWave => Inv'
<1> SUFFICES ASSUME Inv, OpenExfilWave PROVE Inv'
    OBVIOUS
<1> USE DEF Inv, OpenExfilWave, calls, run
<1>1. Types'
    BY DEF Types
<1>2. <<FirstWave, ExfilWave, Declared>>' = <<FirstWave, ExfilWave, Declared>>
    BY DEF FirstWave, ExfilWave, Declared
<1>3. \A s \in Slot : pc'[s] # pc[s] => s \in ExfilWave /\ pc[s] = "absent" /\ pc'[s] = "new"
    BY DEF WaveInv, Types
<1>4. PermitInv'
  <2>1. Holders' = Holders
    BY <1>3 DEF Holders
  <2> QED
    BY <2>1 DEF PermitInv
<1>5. WaveInv'
    BY <1>2, <1>3 DEF WaveInv, WaveBarrier, FirstWaveDone, Returned, FirstWave, ExfilWave, Declared, Types
<1>6. CallInv'
    BY <1>3 DEF CallInv, InExecutor, AuditComplete, Types
<1>7. TaintInv'
    BY <1>2, <1>3 DEF TaintInv, TaintAccounted, InExecutor, NoSendAfterFetch, Produced, Informed, Types, WaveInv, FirstWave, ExfilWave, Declared
<1> QED
    BY <1>1, <1>4, <1>5, <1>6, <1>7

\* The parent moves between phases and leaves the calls alone.
LEMMA PhaseStep ==
    ASSUME Inv, UNCHANGED <<pc, tool, snap, sub, audit, ran, turn, entry, free, elsewhere>>,
           phase' \in {"llm", "draining", "raised", "ended"},
           taint \subseteq taint', taint' \subseteq Trust,
           phase' \in {"llm", "raised", "ended"} => \A s \in Slot : pc[s] \notin Live,
           phase' = "llm" => SubTaint \subseteq taint'
    PROVE  Inv'
<1> USE DEF Inv
<1>1. /\ Declared' = Declared /\ ExfilWave' = ExfilWave /\ FirstWave' = FirstWave
      /\ SubTaint' = SubTaint /\ Holders' = Holders
    BY DEF Declared, ExfilWave, FirstWave, SubTaint, Holders
<1>2. Types'
    BY DEF Types
<1>3. PermitInv'
    BY <1>1 DEF PermitInv
<1>4. WaveInv'
    BY <1>1 DEF WaveInv, WaveBarrier
<1>5. CallInv'
    BY DEF CallInv, InExecutor, AuditComplete
<1>6. TaintInv'
    BY <1>1 DEF TaintInv, TaintAccounted, InExecutor, Informed, NoSendAfterFetch, Produced
<1> QED
    BY <1>2, <1>3, <1>4, <1>5, <1>6

LEMMA WavesDoneQuiet == Inv /\ WavesDone => \A s \in Slot : pc[s] \notin Live
BY DEF Inv, WaveInv, WavesDone, Returned, FirstWave, ExfilWave, Declared

LEMMA ParentInv ==
    Inv /\ (Accumulate \/ RecordFails \/ GatherRaises \/ CancelRun \/ Raise \/ Stop) => Inv'
<1> SUFFICES ASSUME Inv PROVE (Accumulate \/ RecordFails \/ GatherRaises \/ CancelRun
                                 \/ Raise \/ Stop) => Inv'
    OBVIOUS
<1> USE PhaseStep, WavesDoneQuiet DEF calls, run
<1>1. ASSUME Accumulate PROVE Inv'
  <2>1. SubTaint \subseteq Trust
    BY DEF Inv, Types, SubTaint, Declared
  <2> QED
    BY <1>1, <2>1 DEF Accumulate, Inv, Types
<1>2. ASSUME RecordFails PROVE Inv'
    BY <1>2 DEF RecordFails, Inv, Types
<1>3. ASSUME GatherRaises \/ CancelRun PROVE Inv'
    BY <1>3 DEF GatherRaises, CancelRun, Inv, Types
<1>4. ASSUME Raise PROVE Inv'
    BY <1>4 DEF Raise, Drained, Inv, Types
<1>5. ASSUME Stop PROVE Inv'
    BY <1>5 DEF Stop, Inv, Types, WaveInv
<1> QED
    BY <1>1, <1>2, <1>3, <1>4, <1>5
-----------------------------------------------------------------------------
(* A task's steps.  Moved(s, to) is what all of them share.                *)
Moved(s, to) ==
    /\ phase \in {"first", "exfil", "draining"}
    /\ pc[s] \in Live /\ to \in Pc \ {"absent", "new"}
    /\ pc' = [pc EXCEPT ![s] = to]
    /\ UNCHANGED <<phase, tool, turn, entry, elsewhere>>

LEMMA WavesKept ==
    ASSUME NEW s, NEW to, Moved(s, to)
    PROVE  Declared' = Declared /\ ExfilWave' = ExfilWave /\ FirstWave' = FirstWave
BY DEF Moved, Declared, ExfilWave, FirstWave

\* A live task moves: the waves stay where the phase allows them.
LEMMA WaveStep ==
    ASSUME Inv, NEW s \in Slot, NEW to, Moved(s, to) PROVE WaveInv'
<1> USE DEF Inv, Types, Moved
<1>1. s \in Declared
    BY DEF WaveInv, Declared
<1>2. phase = "first" => s \in FirstWave
    BY <1>1 DEF WaveInv, FirstWave
<1>3. phase = "exfil" => s \in ExfilWave
    BY <1>1 DEF WaveInv, FirstWave
<1>4. WaveBarrier'
    BY WavesKept DEF WaveInv, WaveBarrier, ExfilWave, FirstWave, Declared
<1>5. (phase = "first" => \A r \in ExfilWave : pc[r] = "absent")'
    BY <1>2, WavesKept DEF WaveInv, FirstWave, ExfilWave, Declared
<1>6. (phase = "exfil" => \A r \in FirstWave : pc[r] \in Outcome)'
    BY <1>3, WavesKept DEF WaveInv, FirstWave, ExfilWave, Declared
<1>7. (\A r \in Slot : tool[r] = NoTool => pc[r] = "absent")'
    BY <1>1 DEF WaveInv, Declared
<1> QED
    BY <1>4, <1>5, <1>6, <1>7 DEF WaveInv

\* The audit trail: a call enters its tool only as a registered one, and its
\* decision is in the log when it leaves.
LEMMA CallInvStep ==
    ASSUME Inv, NEW s \in Slot, NEW to, Moved(s, to),
           to \in Holding \cup {"queued"} => tool[s] \in Registered,
           ran' \in {ran, ran \cup {s}},
           s \in ran' => /\ tool[s] \in Registered
                         /\ to \notin {"absent", "new", "queued", "authz", "creds"},
           audit \subseteq audit',
           s \in ran' /\ to \notin Holding => s \in audit'
    PROVE  CallInv'
BY DEF Inv, Types, Moved, CallInv, InExecutor, AuditComplete

\* Provenance: the call's copy is taken from the run's taint, the tool's tag is
\* merged as the call leaves, and the gate has passed on the copy.
LEMMA TaintStep ==
    ASSUME Inv, NEW s \in Slot, NEW to, Moved(s, to),
           taint \subseteq taint', taint' \subseteq Trust,
           sub' \in [Slot -> SUBSET Trust],
           \/ snap' = snap /\ (to \in Holding \cup {"queued"} => InExecutor(s))
           \/ snap' = [snap EXCEPT ![s] = taint] /\ to = "queued" /\ pc[s] = "new",
           to \in {"output", "ok", "withheld"} /\ ~Produced(s)
                => TrustForOutput(tool[s]) \in taint',
           to = "creds" => TaintGate(tool[s], snap[s]),
           \/ ran' = ran
           \/ /\ ran' = ran \cup {s} /\ InExecutor(s) /\ to = "running"
              /\ TaintGate(tool[s], snap[s])
    PROVE  TaintInv'
<1> USE DEF Inv, Types, Moved
<1>1. Declared' = Declared /\ ExfilWave' = ExfilWave /\ FirstWave' = FirstWave
    BY WavesKept
<1>2. s \in Declared
    BY DEF WaveInv, Declared
<1>3. \A r \in Declared : Produced(r)' => TrustForOutput(tool[r]) \in taint'
    BY DEF Produced, TaintInv, TaintAccounted, Declared
\* A first-wave call produces nothing new once a second-wave call exists.
<1>4. \A e \in ExfilWave, r \in FirstWave :
          pc'[e] # "absent" /\ Produced(r)' => Produced(r) /\ TrustForOutput(tool[r]) \in taint
  <2> TAKE e \in ExfilWave, r \in FirstWave
  <2> HAVE pc'[e] # "absent" /\ Produced(r)'
  <2>1. pc[e] # "absent"
    BY DEF ExfilWave, Declared
  <2>2. pc[r] \in Outcome
    BY <2>1 DEF WaveInv, WaveBarrier
  <2>3. r # s
    BY <2>2
  <2> QED
    BY <2>3 DEF Produced, TaintInv, TaintAccounted, FirstWave, ExfilWave, Declared
<1>5. \A e \in Slot : InExecutor(e)' => Informed(e)'
  <2> TAKE e \in Slot
  <2> HAVE InExecutor(e)'
  <2>1. CASE snap' = snap /\ (to \in Holding \cup {"queued"} => InExecutor(s))
    <3>1. InExecutor(e)
      BY <2>1 DEF InExecutor
    <3> QED
      BY <1>1, <1>4, <2>1, <3>1 DEF Informed, InExecutor, TaintInv
  <2>2. CASE snap' = [snap EXCEPT ![s] = taint] /\ to = "queued" /\ pc[s] = "new"
    <3>1. CASE e = s
      BY <1>1, <1>4, <2>2, <3>1 DEF Informed, InExecutor, TaintInv
    <3>2. CASE e # s
      BY <1>1, <1>4, <2>2, <3>2 DEF Informed, InExecutor, TaintInv
    <3> QED
      BY <3>1, <3>2
  <2> QED
    BY <2>1, <2>2 DEF InExecutor
<1>6. (\A e \in Slot : pc[e] = "creds" => TaintGate(tool[e], snap[e]))'
    BY DEF TaintInv, TaintGate
<1>7. NoSendAfterFetch'
  <2> SUFFICES ASSUME NEW e \in ran', "EXFILTRATION" \in Caps[tool[e]]
               PROVE  /\ "UNTRUSTED" \notin entry
                      /\ \A r \in FirstWave : Produced(r)' =>
                            TrustForOutput(tool[r]) # "UNTRUSTED"
    BY <1>1 DEF NoSendAfterFetch
  <2>1. e \in Slot /\ tool[e] \in Registered /\ pc[e] # "absent"
    BY DEF CallInv, InExecutor
  <2>2. e \in ExfilWave
    BY <2>1, ToolAssumption DEF ExfilWave, Declared, IsExfiltration
  <2>3. \A r \in FirstWave : Produced(r)' => Produced(r)
    BY <1>4, <2>1, <2>2
  <2>4. CASE e \in ran
    BY <2>3, <2>4 DEF TaintInv, NoSendAfterFetch
  <2>5. CASE e \notin ran
    <3>1. e = s /\ InExecutor(s) /\ TaintGate(tool[s], snap[s])
      BY <2>5
    <3> QED
      BY <2>2, <2>3, <3>1 DEF TaintInv, Informed, TaintGate
  <2> QED
    BY <2>4, <2>5
<1>8. (entry \subseteq taint)' /\ TaintAccounted'
    BY <1>1, <1>3 DEF TaintInv, TaintAccounted, Produced
<1> QED
    BY <1>5, <1>6, <1>7, <1>8 DEF TaintInv
-----------------------------------------------------------------------------
(* One lemma per group of task actions.                                    *)

\* The task moves without touching a permit, the taint or the log.
LEMMA QuietStep ==
    ASSUME Inv, NEW s \in Slot, NEW to, Moved(s, to),
           UNCHANGED <<snap, sub, audit, ran, taint, free>>,
           pc[s] \in Holding <=> to \in Holding,
           to \in Holding \cup {"queued"} => InExecutor(s),
           s \in ran => to \notin {"absent", "new", "queued", "authz", "creds"},
           to \in {"output", "ok", "withheld"} => Produced(s),
           to # "creds"
    PROVE  Inv'
<1> USE DEF Inv
<1>1. Types'
    BY DEF Types, Moved
<1>2. PermitInv'
    BY HoldersStep DEF PermitInv, Moved
<1>3. WaveInv'
    BY WaveStep
<1>4. CallInv'
  <2>1. s \in ran => tool[s] \in Registered
    BY DEF CallInv
  <2>2. InExecutor(s) => tool[s] \in Registered
    BY DEF CallInv
  <2>3. s \in ran /\ to \notin Holding => s \in audit
    BY DEF CallInv, AuditComplete
  <2> QED
    BY <2>1, <2>2, <2>3, CallInvStep
<1>5. TaintInv'
    BY TaintStep DEF Types
<1> QED
    BY <1>1, <1>2, <1>3, <1>4, <1>5

LEMMA QuietActions ==
    ASSUME Inv, NEW s \in Slot,
           \/ Refuse(s) \/ AskRefresh(s) \/ ScreenOutput(s)
           \/ Moves(s, "refresh", "rerun") /\ Dispatching
                 /\ UNCHANGED <<phase, calls, run, taint, free, elsewhere>>
           \/ /\ phase = "draining" /\ pc[s] \in {"new", "output"}
              /\ pc' = [pc EXCEPT ![s] = "cancelled"]
              /\ UNCHANGED <<phase, calls, run, taint, free, elsewhere>>
    PROVE  Inv'
<1> USE DEF Dispatching, InTurn, Moves, calls, run
<1>0. s \in ran => pc[s] \notin {"new", "queued", "authz", "creds"}
    BY DEF Inv, CallInv
<1>1. CASE Refuse(s)
  <2> PICK to \in {"refused", "raised"} : Moves(s, "new", to)
    BY <1>1 DEF Refuse
  <2>1. Moved(s, to)
    BY <1>1 DEF Refuse, Moved
  <2> QED
    BY <1>0, <1>1, <2>1, QuietStep DEF Refuse
<1>2. CASE AskRefresh(s)
  <2>1. Moved(s, "refresh")
    BY <1>2 DEF AskRefresh, Moved
  <2> QED
    BY <1>2, <2>1, QuietStep DEF AskRefresh, InExecutor
<1>3. CASE ScreenOutput(s)
  <2> PICK to \in {"ok", "withheld", "raised"} : Moves(s, "output", to)
    BY <1>3 DEF ScreenOutput
  <2>1. Moved(s, to)
    BY <1>3 DEF ScreenOutput, Moved
  <2> QED
    BY <1>3, <2>1, QuietStep DEF ScreenOutput, Produced
<1>4. CASE Moves(s, "refresh", "rerun") /\ Dispatching
              /\ UNCHANGED <<phase, calls, run, taint, free, elsewhere>>
  <2>1. Moved(s, "rerun")
    BY <1>4 DEF Moved
  <2> QED
    BY <1>4, <2>1, QuietStep DEF InExecutor
<1>5. CASE /\ phase = "draining" /\ pc[s] \in {"new", "output"}
           /\ pc' = [pc EXCEPT ![s] = "cancelled"]
           /\ UNCHANGED <<phase, calls, run, taint, free, elsewhere>>
  <2>1. Moved(s, "cancelled")
    BY <1>5 DEF Moved
  <2> QED
    BY <1>5, <2>1, QuietStep
<1> QED
    BY <1>1, <1>2, <1>3, <1>4, <1>5

LEMMA AdmitInv ==
    ASSUME Inv, NEW s \in Slot, Admit(s) PROVE Inv'
<1> USE DEF Inv, Admit, Dispatching, Moves, Snapshot, run
<1>1. Moved(s, "queued")
    BY DEF Moved
<1>2. s \notin ran
    BY DEF CallInv
<1>3. Types'
    BY DEF Types
<1>4. PermitInv'
    BY <1>1, HoldersStep DEF PermitInv, Moved
<1>5. WaveInv'
    BY <1>1, WaveStep
<1>6. CallInv'
    BY <1>1, <1>2, CallInvStep
<1>7. TaintInv'
    BY <1>1, <1>2, TaintStep DEF Types
<1> QED
    BY <1>3, <1>4, <1>5, <1>6, <1>7

LEMMA AcquireInv ==
    ASSUME Inv, NEW s \in Slot, Acquire(s) PROVE Inv'
<1> USE DEF Inv, Acquire, Dispatching, Moves, calls, run
<1>1. Moved(s, "authz")
    BY DEF Moved
<1>2. s \notin ran /\ InExecutor(s) /\ tool[s] \in Registered
    BY DEF CallInv, InExecutor
<1>3. Types'
    BY DEF Types
<1>4. PermitInv'
  <2>1. Cardinality(Holders') = Cardinality(Holders) + 1
    BY <1>1, HoldersStep DEF Moved
  <2> QED
    BY <2>1, HoldersFinite DEF PermitInv, Types
<1>5. WaveInv'
    BY <1>1, WaveStep
<1>6. CallInv'
    BY <1>1, <1>2, CallInvStep
<1>7. TaintInv'
    BY <1>1, <1>2, TaintStep DEF Types
<1> QED
    BY <1>3, <1>4, <1>5, <1>6, <1>7

\* Past the gates: towards the credential or into the tool.
LEMMA EnterInv ==
    ASSUME Inv, NEW s \in Slot, NEW to \in {"creds", "running"},
           Moved(s, to), pc[s] \in {"authz", "creds"}, TaintGate(tool[s], snap[s]),
           IF to = "running" THEN ran' = ran \cup {s} ELSE ran' = ran,
           UNCHANGED <<snap, sub, audit, taint, free>>
    PROVE  Inv'
<1> USE DEF Inv
<1>1. s \notin ran /\ InExecutor(s) /\ tool[s] \in Registered
    BY DEF CallInv, InExecutor
<1>2. Types'
    BY DEF Types, Moved
<1>3. PermitInv'
    BY HoldersStep DEF PermitInv, Moved
<1>4. WaveInv'
    BY WaveStep
<1>5. CallInv'
    BY <1>1, CallInvStep
<1>6. TaintInv'
    BY <1>1, TaintStep DEF Types
<1> QED
    BY <1>2, <1>3, <1>4, <1>5, <1>6

\* However a call leaves the executor: the permit is back, its copy of the taint
\* and its tag are merged, and its decision is in the log.
LEMMA LeaveInv ==
    ASSUME Inv, NEW s \in Slot,
           NEW to \in {"output", "error", "raised", "cancelled"},
           NEW gained \in SUBSET Trust, NEW decided \in BOOLEAN,
           phase \in {"first", "exfil", "draining"},
           Leave(s, to, gained, decided), UNCHANGED ran,
           sub' \in [Slot -> SUBSET Trust],
           s \in ran => decided,
           to = "output" => TrustForOutput(tool[s]) \in gained
    PROVE  Inv'
<1> USE DEF Inv, Leave, Merged, Audited, Released, run
<1>1. Moved(s, to)
    BY DEF Moved
<1>2. tool[s] \in Registered
    BY DEF CallInv, InExecutor
<1>3. Types'
  <2>1. taint \subseteq taint' /\ taint' \subseteq Trust
    BY DEF Types
  <2>2. audit' \subseteq Slot /\ free' \in Nat
    BY DEF Types
  <2>3. phase' \in Phase /\ turn' \in 0..MaxTurns /\ tool' \in [Slot -> Tool \cup {NoTool}]
    BY DEF Types
  <2>4. pc' \in [Slot -> Pc] /\ snap' \in [Slot -> SUBSET Trust]
    BY DEF Types
  <2>5. entry' \subseteq Trust /\ ran' \subseteq Slot /\ elsewhere' \in Nat
    BY DEF Types
  <2> QED
    BY <2>1, <2>2, <2>3, <2>4, <2>5 DEF Types
<1>4. PermitInv'
  <2>1. Cardinality(Holders') = Cardinality(Holders) - 1
    BY <1>1, HoldersStep DEF Moved
  <2> QED
    BY <2>1, HoldersFinite DEF PermitInv, Types
<1>5. WaveInv'
    BY <1>1, WaveStep
<1>6. CallInv'
  <2>1. s \in ran => to \notin {"absent", "new", "queued", "authz", "creds"} /\ s \in audit'
    BY DEF CallInv
  <2> QED
    BY <1>1, <1>2, <2>1, CallInvStep
<1>7. TaintInv'
  <2>1. taint \subseteq taint' /\ taint' \subseteq Trust
    BY DEF Types
  <2>2. to \in {"output", "ok", "withheld"} => TrustForOutput(tool[s]) \in taint'
    OBVIOUS
  <2> QED
    BY <1>1, <2>1, <2>2, TaintStep
<1> QED
    BY <1>3, <1>4, <1>5, <1>6, <1>7

LEMMA AuthorizeInv ==
    ASSUME Inv, NEW s \in Slot, Authorize(s) PROVE Inv'
<1> USE DEF Authorize, Dispatching
<1>0. s \notin ran /\ sub \in [Slot -> SUBSET Trust]
    BY DEF Inv, CallInv, Types
<1>1. ASSUME TaintGate(tool[s], snap[s]), tool[s] \in NeedsAuth, Moves(s, "authz", "creds"),
             UNCHANGED <<ran, phase, tool, snap, sub, audit, run, taint, free, elsewhere>>
      PROVE  Inv'
  <2>1. Moved(s, "creds")
    BY <1>1 DEF Moved, Moves, run
  <2> QED
    BY <1>1, <2>1, EnterInv
<1>2. ASSUME TaintGate(tool[s], snap[s]), Moves(s, "authz", "running"), ran' = ran \cup {s},
             UNCHANGED <<phase, tool, snap, sub, audit, run, taint, free, elsewhere>>
      PROVE  Inv'
  <2>1. Moved(s, "running")
    BY <1>2 DEF Moved, Moves, run
  <2> QED
    BY <1>2, <2>1, EnterInv
<1>3. ASSUME Leave(s, "raised", {}, TRUE) \/ Leave(s, "error", {}, FALSE), UNCHANGED <<sub, ran>>
      PROVE  Inv'
    BY <1>0, <1>3, LeaveInv
<1> QED
    BY <1>1, <1>2, <1>3

LEMMA ResolveCredentialInv ==
    ASSUME Inv, NEW s \in Slot, ResolveCredential(s) PROVE Inv'
<1> USE DEF ResolveCredential, Dispatching
<1>1. ASSUME Moves(s, "creds", "running"), ran' = ran \cup {s},
             UNCHANGED <<phase, tool, snap, sub, audit, run, taint, free, elsewhere>>
      PROVE  Inv'
  <2>1. Moved(s, "running") /\ TaintGate(tool[s], snap[s])
    BY <1>1 DEF Moved, Moves, run, Inv, TaintInv
  <2> QED
    BY <1>1, <2>1, EnterInv
<1>2. ASSUME Leave(s, "error", {}, TRUE), UNCHANGED <<sub, ran>>
      PROVE  Inv'
  <2>1. sub \in [Slot -> SUBSET Trust]
    BY DEF Inv, Types
  <2> QED
    BY <1>2, <2>1, LeaveInv
<1> QED
    BY <1>1, <1>2

LEMMA ToolEndsInv ==
    ASSUME Inv, NEW s \in Slot, ToolReturns(s) \/ ToolRaises(s) PROVE Inv'
<1>0. sub \in [Slot -> SUBSET Trust]
    BY DEF Inv, Types
<1>1. CASE ToolReturns(s)
  <2>1. sub' \in [Slot -> SUBSET Trust]
    BY <1>0, <1>1, ToolAssumption DEF ToolReturns
  <2>2. {TrustForOutput(tool[s])} \subseteq Trust
    <3>1. tool[s] \in Tool
      BY <1>1, ToolAssumption DEF ToolReturns, Invoking, Inv, CallInv, InExecutor
    <3> QED
      BY <3>1, TrustForOutputType
  <2> QED
    BY <1>1, <2>1, <2>2, LeaveInv DEF ToolReturns, InTurn, Dispatching
<1>2. CASE ToolRaises(s)
    BY <1>0, <1>2, LeaveInv DEF ToolRaises, InTurn, Dispatching
<1> QED
    BY <1>1, <1>2

LEMMA RefreshInv ==
    ASSUME Inv, NEW s \in Slot, Refresh(s) PROVE Inv'
<1>1. sub \in [Slot -> SUBSET Trust]
    BY DEF Inv, Types
<1>2. CASE pc[s] = "refresh" /\ Leave(s, "error", {}, TRUE) /\ UNCHANGED <<sub, ran>>
    BY <1>1, <1>2, LeaveInv DEF Refresh, Dispatching
<1>3. CASE /\ Moves(s, "refresh", "rerun")
           /\ UNCHANGED <<phase, calls, run, taint, free, elsewhere>>
    BY <1>3, QuietActions DEF Refresh
<1> QED
    BY <1>2, <1>3 DEF Refresh

LEMMA CancelledInv ==
    ASSUME Inv, NEW s \in Slot, Cancelled(s) PROVE Inv'
<1> USE DEF Cancelled
<1>1. CASE /\ pc[s] \in {"new", "output"}
           /\ pc' = [pc EXCEPT ![s] = "cancelled"]
           /\ UNCHANGED <<phase, calls, run, taint, free, elsewhere>>
    BY <1>1, QuietActions
<1>2. CASE /\ pc[s] = "queued"
           /\ pc' = [pc EXCEPT ![s] = "cancelled"]
           /\ taint' = Merged(s, {})
           /\ UNCHANGED <<phase, calls, run, free, elsewhere>>
  <2> USE <1>2 DEF Inv, Merged, calls, run
  <2>1. Moved(s, "cancelled") /\ s \notin ran
    BY DEF Moved, CallInv
  <2>2. Types' /\ taint \subseteq taint' /\ taint' \subseteq Trust
    BY DEF Types
  <2>3. PermitInv'
    BY <2>1, HoldersStep DEF PermitInv, Moved
  <2>4. WaveInv'
    BY <2>1, WaveStep
  <2>5. CallInv'
    BY <2>1, CallInvStep
  <2>6. TaintInv'
    BY <2>1, <2>2, TaintStep DEF Types
  <2> QED
    BY <2>2, <2>3, <2>4, <2>5, <2>6
<1>3. CASE Leave(s, "cancelled", {}, pc[s] # "authz") /\ UNCHANGED <<sub, ran>>
  <2>1. sub \in [Slot -> SUBSET Trust] /\ (s \in ran => pc[s] # "authz")
    BY DEF Inv, Types, CallInv
  <2> QED
    BY <1>3, <2>1, LeaveInv
<1> QED
    BY <1>1, <1>2, <1>3

LEMMA OthersInv == Inv /\ (OthersTake \/ OthersGive) => Inv'
<1> SUFFICES ASSUME Inv, OthersTake \/ OthersGive PROVE Inv'
    OBVIOUS
<1> USE DEF Inv, OthersTake, OthersGive, calls, run
<1>1. /\ Declared' = Declared /\ ExfilWave' = ExfilWave /\ FirstWave' = FirstWave
      /\ SubTaint' = SubTaint /\ Holders' = Holders
    BY DEF Declared, ExfilWave, FirstWave, SubTaint, Holders
<1>2. Types' /\ PermitInv'
    BY <1>1, HoldersFinite DEF Types, PermitInv
<1>3. WaveInv' /\ CallInv'
    BY <1>1 DEF WaveInv, WaveBarrier, CallInv, InExecutor, AuditComplete
<1>4. TaintInv'
    BY <1>1 DEF TaintInv, TaintAccounted, InExecutor, Informed, NoSendAfterFetch, Produced
<1> QED
    BY <1>2, <1>3, <1>4

LEMMA NextInv == Inv /\ [Next]_vars => Inv'
<1> SUFFICES ASSUME Inv, [Next]_vars PROVE Inv'
    OBVIOUS
<1>1. CASE BeginTurn
    BY <1>1, BeginTurnInv
<1>2. CASE ParentStep \/ CancelRun \/ Stop
    BY <1>2, ParentInv, OpenExfilWaveInv DEF ParentStep
<1>3. ASSUME NEW s \in Slot, Acquire(s) \/ CallStep(s) PROVE Inv'
    BY <1>3, QuietActions, AdmitInv, AcquireInv, AuthorizeInv, ResolveCredentialInv,
       ToolEndsInv, RefreshInv, CancelledInv DEF CallStep
<1>4. CASE OthersTake \/ OthersGive
    BY <1>4, OthersInv
<1>5. CASE UNCHANGED vars
  <2> USE <1>5 DEF vars, Inv
  <2>1. /\ Declared' = Declared /\ ExfilWave' = ExfilWave /\ FirstWave' = FirstWave
        /\ SubTaint' = SubTaint /\ Holders' = Holders
    BY DEF Declared, ExfilWave, FirstWave, SubTaint, Holders
  <2>2. Types' /\ PermitInv'
    BY <2>1 DEF Types, PermitInv
  <2>3. WaveInv' /\ CallInv'
    BY <2>1 DEF WaveInv, WaveBarrier, CallInv, InExecutor, AuditComplete
  <2>4. TaintInv'
    BY <2>1 DEF TaintInv, TaintAccounted, InExecutor, Informed, NoSendAfterFetch, Produced
  <2> QED
    BY <2>2, <2>3, <2>4
<1> QED
    BY <1>1, <1>2, <1>3, <1>4, <1>5 DEF Next

\* Inv holds in every reachable state of a run.
THEOREM Invariance == Spec => []Inv
BY InitInv, NextInv, PTL DEF Spec
-----------------------------------------------------------------------------
\* Every variable keeps its type; in particular the semaphore's counter never
\* leaves 0..VOUSSOIR_MAX_CONCURRENT_TOOLS, whatever path a call ends on.
THEOREM TypeCorrect == Spec => []TypeOK
<1>1. Inv => TypeOK
    BY HoldersFinite, BoundAssumption DEF Inv, Types, PermitInv, TypeOK
<1> QED
    BY <1>1, Invariance, PTL

\* A sending tool is entered only if neither the earlier turns nor the first wave
\* of its own turn brought untrusted content (the two-wave dispatch).
THEOREM SendGated == Spec => []NoSendAfterFetch
<1>1. Inv => NoSendAfterFetch
    BY DEF Inv, TaintInv
<1> QED
    BY <1>1, Invariance, PTL

\* No task of the sending wave exists before every first-wave call has an outcome.
THEOREM BarrierHolds == Spec => []WaveBarrier
<1>1. Inv => WaveBarrier
    BY DEF Inv, WaveInv
<1> QED
    BY <1>1, Invariance, PTL

\* The taint keeps the tag of every returned value, on success, denial and
\* cancellation alike, and the sub-agents' tags once the turn is accumulated.
THEOREM TaintKept == Spec => []TaintAccounted
<1>1. Inv => TaintAccounted
    BY DEF Inv, TaintInv
<1> QED
    BY <1>1, Invariance, PTL

\* Every call that entered its tool is in the audit log once it is over.
THEOREM AuditKept == Spec => []AuditComplete
<1>1. Inv => AuditComplete
    BY DEF Inv, CallInv
<1> QED
    BY <1>1, Invariance, PTL

\* A finished or failed turn leaves no task running and no permit taken.
THEOREM NothingLeaks == Spec => []NoTaskOutlivesTurn
<1>1. Inv => NoTaskOutlivesTurn
  <2> SUFFICES ASSUME Inv, phase \in {"llm", "raised", "ended"}
               PROVE  (\A s \in Slot : pc[s] \notin Live) /\ free + elsewhere = Permits
    BY DEF NoTaskOutlivesTurn
  <2>1. \A s \in Slot : pc[s] \notin Live
    BY DEF Inv, WaveInv
  <2>2. Holders = {}
    BY <2>1 DEF Holders
  <2> QED
    BY <2>1, <2>2, FS_EmptySet DEF Inv, PermitInv, Types
<1> QED
    BY <1>1, Invariance, PTL

\* No step of a run takes a trust tag out of its taint.
THEOREM TaintMonotone == Spec => TaintGrows
<1>1. [Next]_vars => [taint \subseteq taint']_vars
    BY DEF Next, vars, BeginTurn, ParentStep, OpenExfilWave, Accumulate, RecordFails,
       GatherRaises, Raise, CancelRun, Stop, Acquire, CallStep, Refuse, Admit, Authorize,
       ResolveCredential, ToolReturns, ToolRaises, AskRefresh, Refresh, ScreenOutput,
       Cancelled, OthersTake, OthersGive, Leave, Merged, Moves
<1> QED
    BY <1>1, PTL DEF Spec, TaintGrows
-----------------------------------------------------------------------------
(* ToolDispatch implements ToolTurn.                                       *)
Busy(ph) == ph \in {"first", "exfil", "draining"}
Executing == {s \in Slot : pc[s] \in Live}
Answered == {s \in Slot : pc[s] \in Outcome}

\* Only declared calls have tasks or outcomes.
LEMMA OnlyDeclared == Inv => Executing \subseteq Declared /\ Answered \subseteq Declared
BY DEF Inv, WaveInv, Executing, Answered, Declared

\* A step inside a turn that keeps the calls and their outcomes is the turn's work.
LEMMA WorkStep ==
    ASSUME Inv, Inv', Busy(phase), Busy(phase'), tool' = tool, taint \subseteq taint',
           \A s \in Slot : pc[s] \in Outcome => pc'[s] = pc[s]
    PROVE  Turn!Work
<1>1. Executing' \subseteq Declared' /\ Answered' \subseteq Declared'
    BY OnlyDeclared DEF Executing, Answered, Declared, Inv, WaveInv
<1>2. Declared' = Declared /\ Answered \subseteq Answered' /\ Answered' \cap Executing' = {}
    BY DEF Declared, Answered, Executing
<1>3. taint' \in SUBSET Trust
    BY DEF Inv, Types
<1> QED
    BY <1>1, <1>2, <1>3 DEF Turn!Work, Turn!Learn, Executing, Answered, Busy

LEMMA BeginRefined == Inv /\ Inv' /\ BeginTurn => Turn!Begin
<1> SUFFICES ASSUME Inv, Inv', BeginTurn PROVE Turn!Begin
    OBVIOUS
<1> PICK D \in (SUBSET Slot) \ {{}} : \E f \in [D -> Tool] : Declare(f)
    BY DEF BeginTurn
<1> PICK f \in [D -> Tool] : Declare(f)
    OBVIOUS
<1>1. phase = "llm" /\ phase' \in {"first", "exfil"} /\ taint' = taint
    BY DEF BeginTurn, Declare
<1>2. Declared' = D
    BY ToolAssumption DEF Declared, Declare
<1>3. Executing' \subseteq Declared' /\ Answered' = {}
    BY OnlyDeclared DEF Executing, Answered, Declare, Declared, Inv, WaveInv
<1> QED
    BY <1>1, <1>2, <1>3 DEF Turn!Begin, Executing, Answered

\* The turn is over when both waves have returned: every call has its outcome.
LEMMA WavesDoneAll == Inv /\ WavesDone => Executing = {} /\ Answered = Declared /\ Busy(phase)
<1> SUFFICES ASSUME Inv, WavesDone PROVE Executing = {} /\ Answered = Declared /\ Busy(phase)
    OBVIOUS
<1>1. Executing = {}
    BY WavesDoneQuiet DEF Executing
<1>2. \A s \in Declared : pc[s] \in Outcome
    BY DEF Inv, WaveInv, WavesDone, Returned, FirstWave, ExfilWave
<1>3. Busy(phase)
    BY DEF WavesDone, Busy
<1> QED
    BY <1>1, <1>2, <1>3, OnlyDeclared DEF Answered, Declared

LEMMA ParentRefined == Inv /\ Inv' /\ (ParentStep \/ CancelRun \/ Stop) => Turn!Next
<1> SUFFICES ASSUME Inv, Inv', ParentStep \/ CancelRun \/ Stop PROVE Turn!Next
    OBVIOUS
<1> USE DEF calls, run
<1>1. CASE OpenExfilWave
  <2>1. \A s \in Slot : pc[s] \in Outcome => pc'[s] = pc[s]
      BY <1>1 DEF OpenExfilWave, Inv, WaveInv
  <2> QED
      BY <1>1, <2>1, WorkStep DEF OpenExfilWave, Busy, Turn!Next
<1>2. CASE Accumulate
  <2>1. Turn!Finish
    <3>1. taint' \in SUBSET Trust
        BY DEF Inv, Types
    <3> QED
        BY <1>2, <3>1, WavesDoneAll DEF Accumulate, Turn!Finish, Turn!Learn, Executing, Answered, Busy, Declared
  <2> QED
      BY <2>1 DEF Turn!Next
<1>3. CASE RecordFails
  <2>1. Turn!Fail
      BY <1>3, WavesDoneAll DEF RecordFails, Turn!Fail, Executing, Busy, Declared
  <2> QED
      BY <2>1 DEF Turn!Next
<1>4. CASE Raise
  <2>1. Turn!Fail
      BY <1>4 DEF Raise, Drained, Turn!Fail, Declared
  <2> QED
      BY <2>1 DEF Turn!Next
<1>5. CASE GatherRaises \/ CancelRun
    BY <1>5, WorkStep DEF GatherRaises, CancelRun, Busy, Turn!Next
<1>6. CASE Stop
  <2>1. Turn!Leave
      BY <1>6 DEF Stop, Turn!Leave, Declared
  <2> QED
      BY <2>1 DEF Turn!Next
<1> QED
    BY <1>1, <1>2, <1>3, <1>4, <1>5, <1>6 DEF ParentStep

\* What a task does happens inside its turn and leaves other calls' outcomes alone.
LEMMA CallRefined ==
    ASSUME Inv, Inv', NEW s \in Slot, Acquire(s) \/ CallStep(s)
    PROVE  Turn!Next
<1>1. Busy(phase) /\ phase' = phase /\ tool' = tool /\ taint \subseteq taint'
    BY DEF Acquire, CallStep, Refuse, Admit, Authorize, ResolveCredential, ToolReturns,
       ToolRaises, AskRefresh, Refresh, ScreenOutput, Cancelled, Leave, Merged, Busy,
       Dispatching, InTurn, calls
<1>2. pc[s] \in Live /\ \E to \in Pc : pc' = [pc EXCEPT ![s] = to]
    BY DEF Acquire, CallStep, Refuse, Admit, Authorize, ResolveCredential, ToolReturns,
       ToolRaises, AskRefresh, Refresh, ScreenOutput, Cancelled, Leave, Moves, Invoking
<1>3. \A r \in Slot : pc[r] \in Outcome => pc'[r] = pc[r]
    BY <1>2 DEF Inv, Types
<1> QED
    BY <1>1, <1>3, WorkStep DEF Busy, Turn!Next

\* The dispatcher is what the run loop may rely on: every step of its tasks is a step
\* of an abstract turn, which gives all outcomes or fails as a whole and leaves
\* nothing behind.
THEOREM TurnImplemented == Spec => ImplementsTurn
<1>1. Init => Turn!Init
    BY DEF Init, Turn!Init, Declared
<1>2. Inv /\ Inv' /\ [Next]_vars => [Turn!Next]_(Turn!vars)
  <2> SUFFICES ASSUME Inv, Inv', [Next]_vars PROVE [Turn!Next]_(Turn!vars)
    OBVIOUS
  <2>1. CASE BeginTurn
      BY <2>1, BeginRefined DEF Turn!Next
  <2>2. CASE ParentStep \/ CancelRun \/ Stop
      BY <2>2, ParentRefined
  <2>3. CASE \E s \in Slot : Acquire(s) \/ CallStep(s)
      BY <2>3, CallRefined
  <2>4. CASE OthersTake \/ OthersGive \/ UNCHANGED vars
      BY <2>4 DEF OthersTake, OthersGive, vars, calls, run, Turn!vars, Declared
  <2> QED
      BY <2>1, <2>2, <2>3, <2>4 DEF Next
<1> QED
    BY <1>1, <1>2, Invariance, PTL DEF Spec, ImplementsTurn, Turn!Spec

\* Nothing is sent before the rest of its turn has ended, nor after untrusted content came in.
THEOREM SendsKeptBack == Spec => []SendsHeldBack
<1>1. NoSendAfterFetch /\ WaveBarrier => SendsHeldBack
    BY DEF SendsHeldBack
<1> QED
    BY <1>1, SendGated, BarrierHolds, PTL

\* However a turn and its calls end: taint and authorizations are on record, no task is
\* left and no permit held.
THEOREM NothingIsLost == Spec => []NothingLost
<1>1. TaintAccounted /\ AuditComplete /\ NoTaskOutlivesTurn => NothingLost
    BY DEF NothingLost
<1> QED
    BY <1>1, TaintKept, AuditKept, NothingLeaks, PTL
=============================================================================
