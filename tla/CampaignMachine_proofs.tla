----------------------- MODULE CampaignMachine_proofs -----------------------
(***************************************************************************)
(* What holds of the orchestrator for every compensation plan, however     *)
(* often a sink or the executor fails and the process dies.                *)
(***************************************************************************)
EXTENDS CampaignMachine, FiniteSetTheorems, TLAPS

USE DEF None

LEMMA EdgeTypes == /\ \A p, q : <<p, q>> \in Edges => p \in Phases /\ q \in Phases
                   /\ "paused" \in Phases /\ "cancelled" \in Phases /\ "discover" \in Phases
                   /\ "rolled_back" \in Phases
BY DEF Edges, Phases

LEMMA Appended ==
  ASSUME NEW S, NEW s \in Seq(S), NEW e \in S
  PROVE  /\ Append(s, e) \in Seq(S)
         /\ Len(s) \in Nat /\ Len(Append(s, e)) = Len(s) + 1
         /\ \A i \in 1..Len(s) : Append(s, e)[i] = s[i]
         /\ Append(s, e)[Len(s) + 1] = e
OBVIOUS

LEMMA Grown ==
  ASSUME NEW S, NEW s \in Seq(S), NEW e \in S
  PROVE  Elems(Append(s, e)) = Elems(s) \cup {e}
<1>1. /\ Append(s, e) \in Seq(S)
      /\ Len(s) \in Nat /\ Len(Append(s, e)) = Len(s) + 1
      /\ \A i \in 1..Len(s) : Append(s, e)[i] = s[i]
      /\ Append(s, e)[Len(s) + 1] = e
  BY Appended
<1>2. DOMAIN s = 1..Len(s) /\ DOMAIN Append(s, e) = 1..(Len(s) + 1)
  BY <1>1
<1>3. ASSUME NEW x \in Elems(Append(s, e)) PROVE x \in Elems(s) \cup {e}
  BY <1>1, <1>2, <1>3 DEF Elems
<1>4. ASSUME NEW x \in Elems(s) PROVE x \in Elems(Append(s, e))
  <2>1. PICK i \in 1..Len(s) : x = s[i]
    BY <1>2, <1>4 DEF Elems
  <2>2. i \in 1..(Len(s) + 1) /\ Append(s, e)[i] = x
    BY <1>1, <2>1
  <2> QED
    BY <1>2, <2>2 DEF Elems
<1>5. e \in Elems(Append(s, e))
  <2>1. Len(s) + 1 \in 1..(Len(s) + 1)
    BY <1>1
  <2> QED
    BY <1>1, <1>2, <2>1 DEF Elems
<1> QED
  BY <1>3, <1>4, <1>5

LEMMA Taken ==
  ASSUME NEW S, NEW s \in Seq(S), s # <<>>
  PROVE  /\ Head(s) \in S /\ Tail(s) \in Seq(S)
         /\ Elems(s) = {Head(s)} \cup Elems(Tail(s))
<1>1. /\ Len(s) \in Nat /\ Len(s) >= 1 /\ DOMAIN s = 1..Len(s) /\ Head(s) = s[1]
      /\ Tail(s) \in Seq(S) /\ Len(Tail(s)) = Len(s) - 1
      /\ DOMAIN Tail(s) = 1..(Len(s) - 1)
      /\ \A i \in 1..(Len(s) - 1) : Tail(s)[i] = s[i + 1]
  OBVIOUS
<1>2. Head(s) \in S /\ Head(s) \in Elems(s)
  <2>1. 1 \in 1..Len(s)
    BY <1>1
  <2> QED
    BY <1>1, <2>1 DEF Elems
<1>3. ASSUME NEW x \in Elems(Tail(s)) PROVE x \in Elems(s)
  <2>1. PICK i \in 1..(Len(s) - 1) : x = s[i + 1]
    BY <1>1, <1>3 DEF Elems
  <2>2. i + 1 \in 1..Len(s)
    BY <1>1
  <2> QED
    BY <1>1, <2>1, <2>2 DEF Elems
<1>4. ASSUME NEW x \in Elems(s), x # Head(s) PROVE x \in Elems(Tail(s))
  <2>1. PICK i \in 1..Len(s) : x = s[i]
    BY <1>1, <1>4 DEF Elems
  <2>2. i # 1
    BY <1>1, <1>4, <2>1
  <2>3. i - 1 \in 1..(Len(s) - 1) /\ (i - 1) + 1 = i
    BY <1>1, <2>2
  <2>4. Tail(s)[i - 1] = x
    BY <1>1, <2>1, <2>3
  <2> QED
    BY <1>1, <2>3, <2>4 DEF Elems
<1> QED
  BY <1>1, <1>2, <1>3, <1>4

-----------------------------------------------------------------------------
(* The type invariant, in the groups of variables the actions leave alone. *)

TypeCampaign == phase \in Phases /\ resumeTarget \in Phases \cup {None} /\ log \in Seq(Hops)
TypeWalk == /\ walk \in {"none", "executing", "recording"}
            /\ records \in Seq(Required) /\ performed \in Seq(Required) /\ evidence \in Seq(Required)
TypeFaults == crashes \in Nat /\ sinkFailures \in Nat /\ executorFailures \in Nat

LEMMA SnapshotTypes ==
  /\ TypeCampaign => Snapshot \in Snapshots
  /\ \A s \in Snapshots : /\ s.phase \in Phases /\ s.target \in Phases \cup {None}
                          /\ s.log \in Seq(Hops)
<1>1. TypeCampaign => Snapshot \in Snapshots
  BY DEF TypeCampaign, Snapshot, Snapshots
<1>2. \A s \in Snapshots : s.phase \in Phases /\ s.target \in Phases \cup {None} /\ s.log \in Seq(Hops)
  BY DEF Snapshots
<1> QED
  BY <1>1, <1>2

LEMMA HopTypes ==
  ASSUME NEW l \in Seq(Hops), NEW p \in Phases, NEW q \in Phases
  PROVE  HopTo(l, p, q) \in Hops /\ Append(l, HopTo(l, p, q)) \in Seq(Hops)
<1>1. Len(l) \in Nat
  OBVIOUS
<1>2. HopTo(l, p, q) \in Hops
  BY <1>1 DEF HopTo, Hops
<1> QED
  BY <1>2, Appended

LEMMA RecordTypes ==
  ASSUME TypeCampaign, TypeFaults, NEW q \in Phases,
         Record(q) \/ RecordFails
  PROVE  phase' \in Phases /\ log' \in Seq(Hops) /\ sinkFailures' \in Nat
<1>1. CASE Record(q)
  BY <1>1, HopTypes DEF Record, TypeCampaign, TypeFaults
<1>2. CASE RecordFails
  BY <1>2 DEF RecordFails, TypeCampaign, TypeFaults
<1> QED
  BY <1>1, <1>2

LEMMA TypeInit == Init => TypeOK
<1>1. Init => TypeCampaign /\ saved \subseteq Snapshots
  <2>1. Init => log \in Seq(Hops)
    BY DEF Init
  <2>2. Init => phase \in Phases /\ resumeTarget \in Phases \cup {None} /\ saved \subseteq Snapshots
    BY EdgeTypes DEF Init
  <2> QED
    BY <2>1, <2>2 DEF TypeCampaign
<1>2. Init => TypeWalk
  BY DEF Init, TypeWalk
<1>3. Init => TypeFaults /\ running \in BOOLEAN
  BY DEF Init, TypeFaults
<1> QED
  BY <1>1, <1>2, <1>3 DEF TypeOK, TypeCampaign, TypeWalk, TypeFaults

LEMMA TypeNext == TypeOK /\ [Next]_vars => TypeOK'
<1> SUFFICES ASSUME TypeOK, [Next]_vars PROVE TypeOK'
  OBVIOUS
<1>0. running \in BOOLEAN /\ TypeCampaign /\ saved \subseteq Snapshots /\ TypeWalk /\ TypeFaults
  BY DEF TypeOK, TypeCampaign, TypeWalk, TypeFaults
<1>1. CASE Transition
  <2>1. PICK to \in Phases : Record(to)
    BY <1>1 DEF Transition
  <2>2. TypeCampaign' /\ TypeFaults'
    BY <1>0, <1>1, <2>1, RecordTypes DEF Transition, TypeCampaign, TypeFaults
  <2>3. TypeWalk' /\ running' \in BOOLEAN /\ (saved \subseteq Snapshots)'
    BY <1>0, <1>1 DEF Transition, walkVars, TypeWalk
  <2> QED
    BY <2>2, <2>3 DEF TypeOK, TypeCampaign, TypeWalk, TypeFaults
<1>2. CASE BeginRollback
  <2>1. TypeWalk'
    BY <1>0, <1>2 DEF BeginRollback, TypeWalk
  <2>2. running' \in BOOLEAN /\ (saved \subseteq Snapshots)' /\ TypeCampaign' /\ TypeFaults'
    BY <1>0, <1>2 DEF BeginRollback, campaignVars, faultVars, TypeCampaign, TypeFaults
  <2> QED
    BY <2>1, <2>2 DEF TypeOK, TypeCampaign, TypeWalk, TypeFaults
<1>3. CASE ExecuteNext
  <2>1. PICK i \in Required : performed' = Append(performed, i) /\ records' = Append(records, i)
    BY <1>3 DEF ExecuteNext, Due, Remaining
  <2>2. TypeWalk'
    BY <1>0, <1>3, <2>1, Appended DEF ExecuteNext, TypeWalk
  <2>3. running' \in BOOLEAN /\ (saved \subseteq Snapshots)' /\ TypeCampaign' /\ TypeFaults'
    BY <1>0, <1>3 DEF ExecuteNext, campaignVars, faultVars, TypeCampaign, TypeFaults
  <2> QED
    BY <2>2, <2>3 DEF TypeOK, TypeCampaign, TypeWalk, TypeFaults
<1>4. CASE WalkComplete
  <2>1. TypeWalk'
    BY <1>0, <1>4 DEF WalkComplete, TypeWalk
  <2>2. running' \in BOOLEAN /\ (saved \subseteq Snapshots)' /\ TypeCampaign' /\ TypeFaults'
    BY <1>0, <1>4 DEF WalkComplete, campaignVars, faultVars, TypeCampaign, TypeFaults
  <2> QED
    BY <2>1, <2>2 DEF TypeOK, TypeCampaign, TypeWalk, TypeFaults
<1>5. CASE RecordEvidence
  <2>1. Head(records) \in Required /\ Tail(records) \in Seq(Required)
    BY <1>0, <1>5, Taken DEF RecordEvidence, TypeWalk
  <2>2. Append(evidence, Head(records)) \in Seq(Required)
    BY <1>0, <2>1, Appended DEF TypeWalk
  <2>3. TypeWalk'
    BY <1>0, <1>5, <2>1, <2>2 DEF RecordEvidence, RecordsLeft, TypeWalk
  <2>4. running' \in BOOLEAN /\ (saved \subseteq Snapshots)' /\ TypeCampaign' /\ TypeFaults'
    BY <1>0, <1>5 DEF RecordEvidence, campaignVars, faultVars, TypeCampaign, TypeFaults
  <2> QED
    BY <2>3, <2>4 DEF TypeOK, TypeCampaign, TypeWalk, TypeFaults
<1>6. CASE FinishRollback
  <2>1. TypeCampaign' /\ TypeFaults'
    BY <1>0, <1>6, RecordTypes, EdgeTypes DEF FinishRollback, TypeCampaign, TypeFaults
  <2>2. TypeWalk' /\ running' \in BOOLEAN /\ (saved \subseteq Snapshots)'
    BY <1>0, <1>6 DEF FinishRollback, TypeWalk
  <2> QED
    BY <2>1, <2>2 DEF TypeOK, TypeCampaign, TypeWalk, TypeFaults
<1>7. CASE Pause
  <2>1. TypeCampaign' /\ TypeFaults'
    BY <1>0, <1>7, RecordTypes, EdgeTypes DEF Pause, PauseTarget, TypeCampaign, TypeFaults
  <2>2. TypeWalk' /\ running' \in BOOLEAN /\ (saved \subseteq Snapshots)'
    BY <1>0, <1>7 DEF Pause, walkVars, TypeWalk
  <2> QED
    BY <2>1, <2>2 DEF TypeOK, TypeCampaign, TypeWalk, TypeFaults
<1>8. CASE Resume
  <2>1. resumeTarget \in Phases
    BY <1>0, <1>8 DEF Resume, TypeCampaign
  <2>2. TypeCampaign' /\ TypeFaults'
    BY <1>0, <1>8, <2>1, RecordTypes DEF Resume, TypeCampaign, TypeFaults
  <2>3. TypeWalk' /\ running' \in BOOLEAN /\ (saved \subseteq Snapshots)'
    BY <1>0, <1>8 DEF Resume, walkVars, TypeWalk
  <2> QED
    BY <2>2, <2>3 DEF TypeOK, TypeCampaign, TypeWalk, TypeFaults
<1>9. CASE Cancel
  <2>1. TypeCampaign' /\ TypeFaults'
    BY <1>0, <1>9, RecordTypes, EdgeTypes DEF Cancel, TypeCampaign, TypeFaults
  <2>2. TypeWalk' /\ running' \in BOOLEAN /\ (saved \subseteq Snapshots)'
    BY <1>0, <1>9 DEF Cancel, walkVars, TypeWalk
  <2> QED
    BY <2>1, <2>2 DEF TypeOK, TypeCampaign, TypeWalk, TypeFaults
<1>10. CASE Checkpoint
  <2>1. (saved \subseteq Snapshots)'
    BY <1>0, <1>10, SnapshotTypes DEF Checkpoint
  <2>2. running' \in BOOLEAN /\ TypeCampaign' /\ TypeWalk' /\ TypeFaults'
    BY <1>0, <1>10 DEF Checkpoint, campaignVars, walkVars, faultVars, TypeCampaign, TypeWalk, TypeFaults
  <2> QED
    BY <2>1, <2>2 DEF TypeOK, TypeCampaign, TypeWalk, TypeFaults
<1>11. CASE Reconstruct
  <2>1. PICK s \in saved : phase' = s.phase /\ resumeTarget' = s.target /\ log' = SinkAfter(s)
    BY <1>11 DEF Reconstruct, RestoredTarget
  <2>2. s \in Snapshots
    BY <1>0
  <2>3. SinkAfter(s) \in Seq(Hops)
    <3>1. s.log \in Seq(Hops) /\ log \in Seq(Hops)
      BY <1>0, <2>2, SnapshotTypes DEF TypeCampaign
    <3> DEFINE l == s.log
    <3>2. l \in Seq(Hops)
      BY <3>1
    <3> HIDE DEF l
    <3>3. log \o l \in Seq(Hops) /\ <<>> \o l \in Seq(Hops)
      BY <3>1, <3>2
    <3> QED
      BY <3>3 DEF SinkAfter, l
  <2>4. TypeCampaign'
    BY <2>1, <2>2, <2>3, SnapshotTypes DEF TypeCampaign
  <2>5. running' \in BOOLEAN /\ (saved \subseteq Snapshots)' /\ TypeWalk' /\ TypeFaults'
    BY <1>0, <1>11 DEF Reconstruct, walkVars, faultVars, TypeWalk, TypeFaults
  <2> QED
    BY <2>4, <2>5 DEF TypeOK, TypeCampaign, TypeWalk, TypeFaults
<1>12. CASE ExecutorFails \/ EvidenceFails \/ Crash
  <2>1. /\ UNCHANGED <<phase, resumeTarget, log, saved, performed, evidence>>
        /\ walk' = "none" /\ records' = <<>> /\ running' \in BOOLEAN
    BY <1>0, <1>12 DEF ExecutorFails, EvidenceFails, Crash, campaignVars
  <2>2. TypeFaults'
    BY <1>0, <1>12 DEF ExecutorFails, EvidenceFails, Crash, TypeFaults
  <2>3. TypeCampaign' /\ TypeWalk' /\ (saved \subseteq Snapshots)'
    BY <1>0, <2>1 DEF TypeCampaign, TypeWalk
  <2> QED
    BY <2>1, <2>2, <2>3 DEF TypeOK, TypeCampaign, TypeWalk, TypeFaults
<1>13. CASE UNCHANGED vars
  BY <1>13 DEF vars, campaignVars, walkVars, faultVars, TypeOK
<1> QED
  BY <1>1, <1>2, <1>3, <1>4, <1>5, <1>6, <1>7, <1>8, <1>9, <1>10, <1>11, <1>12, <1>13
     DEF Next, Rollback, Control, Faults

(* Every variable of the orchestrator has its type. *)
THEOREM TypeCorrect == Spec => []TypeOK
BY TypeInit, TypeNext, PTL DEF Spec

-----------------------------------------------------------------------------
(* The history.  A resume target may have been lost or left over by a sink *)
(* that raised, so all that is kept of it is what resume() needs: on a     *)
(* paused campaign it is absent or it is the history's.                    *)

Sound(p, t, l) == /\ IsHistory(l) /\ p = PhaseAfter(l, Len(l))
                  /\ p = "paused" => t \in {None, TargetAfter(l, Len(l))}

(* a rollback's walk is on its way along a legal edge *)
WalkLegal == walk # "none" => running /\ <<phase, "rolled_back">> \in Edges

HistoryInv ==
  /\ TypeOK /\ WalkLegal
  /\ Sound(phase, resumeTarget, log)
  /\ \A s \in saved : Sound(s.phase, s.target, s.log)

(* what may follow a sound history *)
MayFollow(p, t, q) ==
  \/ <<p, q>> \in Edges
  \/ q = "paused" /\ CanPause(p)
  \/ q = "cancelled" /\ CanCancel(p)
  \/ p = "paused" /\ q = t /\ t # None

LEMMA HopExtends ==
  ASSUME NEW l \in Seq(Hops), NEW p \in Phases, NEW t, NEW q \in Phases, Sound(p, t, l), MayFollow(p, t, q)
  PROVE  /\ IsHistory(Append(l, HopTo(l, p, q)))
         /\ PhaseAfter(Append(l, HopTo(l, p, q)), Len(Append(l, HopTo(l, p, q)))) = q
         /\ TargetAfter(Append(l, HopTo(l, p, q)), Len(Append(l, HopTo(l, p, q))))
               = IF q = "paused" THEN p ELSE None
<1> DEFINE h == HopTo(l, p, q)
           k == Append(l, h)
<1>1. h.seq = Len(l) /\ h.from = p /\ h.to = q /\ h \in Hops
  BY HopTypes DEF HopTo
<1> HIDE DEF h
<1>2. /\ Len(l) \in Nat /\ Len(k) = Len(l) + 1 /\ k[Len(l) + 1] = h
      /\ \A i \in 1..Len(l) : k[i] = l[i]
  BY <1>1, Appended
<1> HIDE DEF k
<1>3. \A n \in 0..Len(l) : PhaseAfter(k, n) = PhaseAfter(l, n) /\ TargetAfter(k, n) = TargetAfter(l, n)
  BY <1>2 DEF PhaseAfter, TargetAfter
<1>4. PhaseAfter(k, Len(k)) = q
  BY <1>1, <1>2 DEF PhaseAfter
<1>5. TargetAfter(k, Len(k)) = IF q = "paused" THEN p ELSE None
  BY <1>1, <1>2, <1>4 DEF TargetAfter
<1>6. ASSUME NEW n \in 1..Len(l) PROVE LegalHop(k, n)
  <2>1. LegalHop(l, n) /\ n - 1 \in 0..Len(l)
    BY <1>2 DEF Sound, IsHistory
  <2> QED
    BY <1>2, <1>3, <2>1 DEF LegalHop
<1>7. LegalHop(k, Len(l) + 1)
  <2>1. (Len(l) + 1) - 1 = Len(l)
    BY <1>2
  <2>2. PhaseAfter(k, Len(l)) = p /\ TargetAfter(k, Len(l)) = TargetAfter(l, Len(l))
    BY <1>2, <1>3 DEF Sound
  <2>3. p = "paused" /\ q = t /\ t # None => q = TargetAfter(k, Len(l))
    BY <2>2 DEF Sound
  <2> QED
    BY <1>1, <1>2, <2>1, <2>2, <2>3 DEF LegalHop, MayFollow
<1>8. \A n \in 1..Len(k) : LegalHop(k, n)
  BY <1>2, <1>6, <1>7
<1> QED
  BY <1>4, <1>5, <1>8 DEF IsHistory, h, k

(* A step that records a hop, or fails to, leaves a sound campaign if what *)
(* it leaves as resume target is absent or right.                          *)
LEMMA RecordSound ==
  ASSUME HistoryInv, NEW q \in Phases, MayFollow(phase, resumeTarget, q),
         Record(q) \/ RecordFails,
         q = "paused" => resumeTarget' \in {None, phase},
         phase = "paused" => resumeTarget' \in {None, resumeTarget}
  PROVE  Sound(phase, resumeTarget, log)'
<1>1. phase \in Phases /\ log \in Seq(Hops) /\ Sound(phase, resumeTarget, log)
  BY DEF HistoryInv, TypeOK
<1>2. CASE Record(q)
  <2>1. log' = Append(log, HopTo(log, phase, q)) /\ phase' = q
    BY <1>2 DEF Record
  <2>2. /\ IsHistory(log') /\ PhaseAfter(log', Len(log')) = q
        /\ TargetAfter(log', Len(log')) = IF q = "paused" THEN phase ELSE None
    BY <1>1, <2>1, HopExtends
  <2>3. q = "paused" => resumeTarget' \in {None, TargetAfter(log', Len(log'))}
    BY <2>2
  <2> QED
    BY <2>1, <2>2, <2>3 DEF Sound
<1>3. CASE RecordFails
  BY <1>1, <1>3 DEF RecordFails, Sound
<1> QED
  BY <1>2, <1>3

LEMMA HistoryInit == Init => HistoryInv
<1> SUFFICES ASSUME Init PROVE HistoryInv
  OBVIOUS
<1>1. IsHistory(log) /\ phase = PhaseAfter(log, Len(log)) /\ phase # "paused"
  BY DEF Init, IsHistory, PhaseAfter
<1> QED
  BY <1>1, TypeInit DEF Init, HistoryInv, Sound, WalkLegal

LEMMA WalkNext == WalkLegal /\ [Next]_vars => WalkLegal'
<1> SUFFICES ASSUME WalkLegal, [Next]_vars PROVE WalkLegal'
  OBVIOUS
<1>1. CASE BeginRollback
  BY <1>1 DEF BeginRollback, Idle, campaignVars, WalkLegal
<1>2. CASE UNCHANGED <<phase, walk, running>>
  BY <1>2 DEF WalkLegal
<1>3. CASE Transition \/ Pause \/ Resume \/ Cancel
  BY <1>3 DEF Transition, Pause, Resume, Cancel, Idle, walkVars, WalkLegal
<1>4. CASE FinishRollback \/ ExecutorFails \/ EvidenceFails \/ Crash
  BY <1>4 DEF FinishRollback, ExecutorFails, EvidenceFails, Crash, WalkLegal
<1>5. CASE WalkComplete
  BY <1>5 DEF WalkComplete, campaignVars, WalkLegal
<1>6. CASE Reconstruct
  BY <1>6 DEF Reconstruct, walkVars, WalkLegal
<1>7. CASE ExecuteNext \/ RecordEvidence \/ Checkpoint \/ UNCHANGED vars
  BY <1>2, <1>7 DEF ExecuteNext, RecordEvidence, Checkpoint, vars, campaignVars, walkVars
<1> QED
  BY <1>1, <1>3, <1>4, <1>5, <1>6, <1>7 DEF Next, Rollback, Control, Faults

(* reconstruct() into a fresh sink leaves the checkpoint's history in it *)
LEMMA FreshSink ==
  ASSUME ~SinkKeeps, NEW s \in Snapshots
  PROVE  SinkAfter(s) = s.log
<1> DEFINE l == s.log
<1>1. l \in Seq(Hops)
  BY SnapshotTypes
<1> HIDE DEF l
<1>2. <<>> \o l = l
  BY <1>1
<1> QED
  BY <1>2 DEF SinkAfter, l

LEMMA HistoryNext ==
  ASSUME ~SinkKeeps
  PROVE  HistoryInv /\ [Next]_vars => HistoryInv'
<1> SUFFICES ASSUME HistoryInv, [Next]_vars
             PROVE  Sound(phase, resumeTarget, log)' /\ \A s \in saved' : Sound(s.phase, s.target, s.log)
  BY TypeNext, WalkNext DEF HistoryInv
<1> DEFINE Saved == \A s \in saved' : Sound(s.phase, s.target, s.log)
<1>1. phase \in Phases /\ resumeTarget \in Phases \cup {None} /\ Sound(phase, resumeTarget, log)
  BY DEF HistoryInv, TypeOK
<1>2. UNCHANGED saved => Saved
  BY DEF HistoryInv
<1> HIDE DEF Saved
<1>3. CASE Transition
  <2>1. PICK to \in Phases : <<phase, to>> \in Edges /\ Record(to)
    BY <1>3 DEF Transition
  <2>2. to # "paused" /\ resumeTarget' = resumeTarget /\ phase # "paused"
    BY <1>3, <2>1 DEF Transition, Edges
  <2>3. Sound(phase, resumeTarget, log)'
    BY <2>1, <2>2, RecordSound DEF MayFollow
  <2> QED
    BY <1>2, <1>3, <2>3 DEF Transition, Saved
<1>4. CASE FinishRollback /\ <<phase, "rolled_back">> \in Edges
  <2>1. Sound(phase, resumeTarget, log)'
    BY <1>4, EdgeTypes, RecordSound DEF FinishRollback, MayFollow, Edges
  <2> QED
    BY <1>2, <1>4, <2>1 DEF FinishRollback, Saved
<1>5. CASE Pause
  <2>1. Sound(phase, resumeTarget, log)'
    BY <1>5, EdgeTypes, RecordSound DEF Pause, PauseTarget, MayFollow, CanPause
  <2> QED
    BY <1>2, <1>5, <2>1 DEF Pause, Saved
<1>6. CASE Resume
  <2>1. resumeTarget \in Phases /\ MayFollow(phase, resumeTarget, resumeTarget)
    BY <1>1, <1>6 DEF Resume, MayFollow
  <2>2. Sound(phase, resumeTarget, log)'
    BY <1>6, <2>1, RecordSound DEF Resume
  <2> QED
    BY <1>2, <1>6, <2>2 DEF Resume, Saved
<1>7. CASE Cancel
  <2>1. Sound(phase, resumeTarget, log)'
    BY <1>7, EdgeTypes, RecordSound DEF Cancel, MayFollow
  <2> QED
    BY <1>2, <1>7, <2>1 DEF Cancel, Saved
<1>8. CASE Checkpoint
  <2>1. Sound(phase, resumeTarget, log)'
    BY <1>1, <1>8 DEF Checkpoint, campaignVars
  <2>2. Snapshot.phase = phase /\ Snapshot.target = resumeTarget /\ Snapshot.log = log
    BY DEF Snapshot
  <2>3. Saved
    BY <1>1, <1>8, <2>2 DEF Checkpoint, HistoryInv, Saved
  <2> QED
    BY <2>1, <2>3 DEF Saved
<1>9. CASE Reconstruct
  <2>1. PICK s \in saved : phase' = s.phase /\ resumeTarget' = s.target /\ log' = SinkAfter(s)
    BY <1>9 DEF Reconstruct, RestoredTarget
  <2>2. Sound(s.phase, s.target, s.log) /\ s.log \in Seq(Hops)
    BY SnapshotTypes DEF HistoryInv, TypeOK
  <2>3. SinkAfter(s) = s.log
    BY <2>2, FreshSink DEF HistoryInv, TypeOK
  <2>4. Sound(phase, resumeTarget, log)'
    BY <2>1, <2>2, <2>3
  <2> QED
    BY <1>2, <1>9, <2>4 DEF Reconstruct, Saved
<1>10. CASE UNCHANGED <<campaignVars, saved>>
  BY <1>1, <1>2, <1>10 DEF campaignVars, Saved
<1>11. CASE BeginRollback \/ ExecuteNext \/ WalkComplete \/ RecordEvidence
  BY <1>10, <1>11 DEF BeginRollback, ExecuteNext, WalkComplete, RecordEvidence
<1>12. CASE ExecutorFails \/ EvidenceFails \/ Crash \/ UNCHANGED vars
  BY <1>10, <1>12 DEF ExecutorFails, EvidenceFails, Crash, vars
<1>13. FinishRollback => <<phase, "rolled_back">> \in Edges
  BY DEF FinishRollback, HistoryInv, WalkLegal
<1> QED
  BY <1>3, <1>4, <1>5, <1>6, <1>7, <1>8, <1>9, <1>11, <1>12, <1>13
     DEF Next, Rollback, Control, Faults

(* The orchestrator's phase is derivable from its history, and the history *)
(* is gapless and legal, whatever fails and however often the process dies *)
(* and is reconstructed into a fresh sink.                                 *)
THEOREM HistoryCorrect == ASSUME ~SinkKeeps PROVE Spec => []HistoryGivesPhase
<1>1. HistoryInv => HistoryGivesPhase
  BY DEF HistoryInv, Sound, HistoryGivesPhase
<1>2. HistoryInv /\ [Next]_vars => HistoryInv'
  BY HistoryNext
<1> QED
  BY <1>1, <1>2, HistoryInit, PTL DEF Spec

-----------------------------------------------------------------------------
(* The resume target.  Until a sink has raised, what pause() wrote before  *)
(* it recorded is what the history came to say, in the orchestrator and in *)
(* every checkpoint it took.                                               *)

TargetRight(t, l) == t = TargetAfter(l, Len(l))

NeverPaused == resumeTarget # "paused" /\ \A s \in saved : s.target # "paused"

TargetInv ==
  /\ HistoryInv
  /\ NeverPaused
  /\ sinkFailures = 0 => /\ TargetRight(resumeTarget, log)
                         /\ \A s \in saved : TargetRight(s.target, s.log)

LEMMA TargetInit == Init => TargetInv
BY HistoryInit DEF Init, TargetInv, NeverPaused, TargetRight, TargetAfter

(* a hop that the sink takes leaves the target its history gives *)
LEMMA RecordTarget ==
  ASSUME HistoryInv, NEW q \in Phases, MayFollow(phase, resumeTarget, q), Record(q),
         resumeTarget' = IF q = "paused" THEN phase ELSE None
  PROVE  TargetRight(resumeTarget, log)'
<1>1. phase \in Phases /\ log \in Seq(Hops) /\ Sound(phase, resumeTarget, log)
  BY DEF HistoryInv, TypeOK
<1>2. log' = Append(log, HopTo(log, phase, q))
  BY DEF Record
<1>3. TargetAfter(log', Len(log')) = IF q = "paused" THEN phase ELSE None
  BY <1>1, <1>2, HopExtends
<1> QED
  BY <1>3 DEF TargetRight

(* a sink that raises is counted *)
LEMMA FailureCounted == TypeOK /\ RecordFails => sinkFailures' # 0
BY DEF RecordFails, TypeOK

LEMMA NeverPausedNext == NeverPaused /\ [Next]_vars => NeverPaused'
<1> SUFFICES ASSUME NeverPaused, [Next]_vars PROVE NeverPaused'
  OBVIOUS
<1>1. CASE UNCHANGED saved /\ resumeTarget' \in {resumeTarget, None}
  BY <1>1 DEF NeverPaused
<1>2. CASE Transition \/ FinishRollback \/ Resume \/ Cancel
  BY <1>1, <1>2 DEF Transition, FinishRollback, Resume, Cancel
<1>3. CASE BeginRollback \/ ExecuteNext \/ WalkComplete \/ RecordEvidence \/ Faults \/ UNCHANGED vars
  BY <1>1, <1>3 DEF BeginRollback, ExecuteNext, WalkComplete, RecordEvidence, Faults,
                    ExecutorFails, EvidenceFails, Crash, vars, campaignVars
<1>4. CASE Pause
  BY <1>4 DEF Pause, PauseTarget, CanPause, NeverPaused
<1>5. CASE Checkpoint
  <2>1. Snapshot.target = resumeTarget
    BY DEF Snapshot
  <2> QED
    BY <1>5, <2>1 DEF Checkpoint, campaignVars, NeverPaused
<1>6. CASE Reconstruct
  BY <1>6 DEF Reconstruct, RestoredTarget, NeverPaused
<1> QED
  BY <1>2, <1>3, <1>4, <1>5, <1>6 DEF Next, Rollback, Control

LEMMA TargetNext ==
  ASSUME ~SinkKeeps
  PROVE  TargetInv /\ [Next]_vars => TargetInv'
<1> SUFFICES ASSUME TargetInv, [Next]_vars, sinkFailures' = 0
             PROVE  TargetRight(resumeTarget, log)' /\ \A s \in saved' : TargetRight(s.target, s.log)
  BY HistoryNext, NeverPausedNext DEF TargetInv
<1> DEFINE Saved == \A s \in saved' : TargetRight(s.target, s.log)
<1>1. HistoryInv /\ TypeOK /\ phase \in Phases /\ resumeTarget \in Phases \cup {None}
  BY DEF TargetInv, HistoryInv, TypeOK
<1>2. sinkFailures = 0 =>
        /\ TargetRight(resumeTarget, log)
        /\ \A s \in saved : TargetRight(s.target, s.log)
        /\ phase # "paused" => resumeTarget = None
  BY DEF TargetInv, HistoryInv, Sound, TargetRight, TargetAfter
<1>3. sinkFailures = 0 /\ UNCHANGED saved => Saved
  BY <1>2
<1> HIDE DEF Saved
<1>4. ~RecordFails
  BY <1>1, FailureCounted
<1>5. CASE Transition
  <2>1. PICK to \in Phases : <<phase, to>> \in Edges /\ Record(to)
    BY <1>5 DEF Transition
  <2>2. to # "paused" /\ resumeTarget' = resumeTarget /\ phase # "paused" /\ sinkFailures = 0
    BY <1>5, <2>1 DEF Transition, Edges, Record
  <2>3. TargetRight(resumeTarget, log)'
    BY <1>1, <1>2, <2>1, <2>2, RecordTarget DEF MayFollow
  <2> QED
    BY <1>3, <1>5, <2>2, <2>3 DEF Transition, Saved
<1>6. CASE FinishRollback
  <2>1. Record("rolled_back") /\ <<phase, "rolled_back">> \in Edges
    BY <1>1, <1>4, <1>6 DEF FinishRollback, HistoryInv, WalkLegal
  <2>2. resumeTarget' = resumeTarget /\ phase # "paused" /\ sinkFailures = 0
    BY <1>6, <2>1 DEF FinishRollback, Edges, Record
  <2>3. TargetRight(resumeTarget, log)'
    BY <1>1, <1>2, <2>1, <2>2, EdgeTypes, RecordTarget DEF MayFollow
  <2> QED
    BY <1>3, <1>6, <2>2, <2>3 DEF FinishRollback, Saved
<1>7. CASE Pause
  <2>1. Record("paused") /\ CanPause(phase) /\ resumeTarget' = phase /\ sinkFailures = 0
    BY <1>4, <1>7 DEF Pause, PauseTarget, Record
  <2>2. TargetRight(resumeTarget, log)'
    BY <1>1, <2>1, EdgeTypes, RecordTarget DEF MayFollow
  <2> QED
    BY <1>3, <1>7, <2>1, <2>2 DEF Pause, Saved
<1>8. CASE Resume
  <2>1. /\ Record(resumeTarget) /\ resumeTarget' = None /\ sinkFailures = 0
        /\ resumeTarget \in Phases /\ MayFollow(phase, resumeTarget, resumeTarget)
    BY <1>1, <1>4, <1>8 DEF Resume, Record, MayFollow
  <2>2. resumeTarget # "paused"
    BY DEF TargetInv, NeverPaused
  <2>3. TargetRight(resumeTarget, log)'
    BY <1>1, <2>1, <2>2, RecordTarget
  <2> QED
    BY <1>3, <1>8, <2>1, <2>3 DEF Resume, Saved
<1>9. CASE Cancel
  <2>1. Record("cancelled") /\ CanCancel(phase) /\ resumeTarget' = None /\ sinkFailures = 0
    BY <1>4, <1>9 DEF Cancel, Record
  <2>2. TargetRight(resumeTarget, log)'
    BY <1>1, <2>1, EdgeTypes, RecordTarget DEF MayFollow
  <2> QED
    BY <1>3, <1>9, <2>1, <2>2 DEF Cancel, Saved
<1>10. CASE Checkpoint
  <2>1. UNCHANGED <<resumeTarget, log, sinkFailures>> /\ saved' = saved \cup {Snapshot}
    BY <1>10 DEF Checkpoint, campaignVars, faultVars
  <2>2. Snapshot.target = resumeTarget /\ Snapshot.log = log
    BY DEF Snapshot
  <2> QED
    BY <1>2, <2>1, <2>2 DEF TargetRight
<1>11. CASE Reconstruct
  <2>1. PICK s \in saved : resumeTarget' = s.target /\ log' = SinkAfter(s)
    BY <1>11 DEF Reconstruct, RestoredTarget
  <2>2. UNCHANGED <<saved, sinkFailures>>
    BY <1>11 DEF Reconstruct, faultVars
  <2>3. s \in Snapshots
    BY <1>1 DEF TypeOK
  <2>4. SinkAfter(s) = s.log
    BY <2>3, FreshSink
  <2> QED
    BY <1>2, <2>1, <2>2, <2>4 DEF TargetRight
<1>12. CASE BeginRollback \/ ExecuteNext \/ WalkComplete \/ RecordEvidence \/ UNCHANGED vars
  <2>1. UNCHANGED <<resumeTarget, log, saved, sinkFailures>>
    BY <1>12 DEF BeginRollback, ExecuteNext, WalkComplete, RecordEvidence, vars, campaignVars, faultVars
  <2> QED
    BY <1>2, <2>1 DEF TargetRight
<1>13. CASE ExecutorFails \/ EvidenceFails \/ Crash
  <2>1. UNCHANGED <<resumeTarget, log, saved>> /\ (sinkFailures' = sinkFailures \/ EvidenceFails)
    BY <1>13 DEF ExecutorFails, EvidenceFails, Crash, campaignVars
  <2>2. EvidenceFails => sinkFailures' # 0
    BY <1>1 DEF EvidenceFails, TypeOK
  <2> QED
    BY <1>2, <2>1, <2>2 DEF TargetRight
<1> QED
  BY <1>5, <1>6, <1>7, <1>8, <1>9, <1>10, <1>11, <1>12, <1>13 DEF Next, Rollback, Control, Faults

(* As long as the sink has taken every hop, the history gives the phase a  *)
(* paused campaign returns to, through every pause, checkpoint, death and  *)
(* reconstruction.                                                         *)
THEOREM TargetCorrect == ASSUME ~SinkKeeps PROVE Spec => []HistoryGivesTarget
<1>1. TargetInv => HistoryGivesTarget
  BY DEF TargetInv, TargetRight, HistoryGivesTarget
<1>2. TargetInv /\ [Next]_vars => TargetInv'
  BY TargetNext
<1> QED
  BY <1>1, <1>2, TargetInit, PTL DEF Spec

-----------------------------------------------------------------------------
(* The abstract lifecycle.  A step of the orchestrator is a step of it, or *)
(* happens inside a rollback's walk, where the lifecycle sees nothing.     *)

LEMMA LifecycleInit == Init => Lifecycle!Init
BY DEF Init, Lifecycle!Init, Lifecycle!None

LEMMA SameGraph ==
  /\ Lifecycle!Edges = Edges /\ Lifecycle!Phases = Phases /\ Lifecycle!None = None
  /\ \A p : (Lifecycle!CanPause(p) <=> CanPause(p)) /\ (Lifecycle!CanCancel(p) <=> CanCancel(p))
  /\ \A l, p, q : Lifecycle!HopTo(l, p, q) = HopTo(l, p, q)
  /\ Lifecycle!Snapshot = Snapshot
BY DEF Edges, Phases, Lifecycle!Edges, Lifecycle!Phases, Lifecycle!None, CanPause, CanCancel, Terminal,
       Lifecycle!CanPause, Lifecycle!CanCancel, Lifecycle!Terminal, HopTo, Lifecycle!HopTo,
       Snapshot, Lifecycle!Snapshot

(* what the sink takes, or refuses, is what the abstract history does *)
LEMMA RecordTries ==
  ASSUME NEW q, UNCHANGED saved
  PROVE  /\ Record(q) => Lifecycle!Move(q)
         /\ Record(q) \/ RecordFails => Lifecycle!Try(q)
BY SameGraph DEF Record, RecordFails, Lifecycle!Move, Lifecycle!Try

LEMMA LifecycleStep ==
  ASSUME ~SinkKeeps
  PROVE  HistoryInv /\ [Next]_vars => [Lifecycle!Next]_(Lifecycle!vars)
<1> SUFFICES ASSUME HistoryInv, [Next]_vars PROVE Lifecycle!Next \/ UNCHANGED Lifecycle!vars
  OBVIOUS
<1>1. CASE UNCHANGED <<campaignVars, saved>>
  BY <1>1 DEF campaignVars, Lifecycle!vars
<1>2. CASE Transition
  <2>1. PICK to \in Phases : <<phase, to>> \in Edges /\ Record(to) /\ UNCHANGED <<saved, resumeTarget>>
    BY <1>2 DEF Transition
  <2>2. Lifecycle!Advance
    BY <2>1, RecordTries, SameGraph DEF Lifecycle!Advance
  <2> QED
    BY <2>2 DEF Lifecycle!Next
<1>3. CASE FinishRollback
  <2>1. <<phase, "rolled_back">> \in Edges /\ UNCHANGED <<saved, resumeTarget>>
    BY <1>3 DEF FinishRollback, HistoryInv, WalkLegal
  <2>2. CASE Record("rolled_back")
    BY <2>1, <2>2, EdgeTypes, RecordTries, SameGraph DEF Lifecycle!Advance, Lifecycle!Next
  <2>3. CASE RecordFails
    BY <2>1, <2>3 DEF RecordFails, Lifecycle!vars
  <2> QED
    BY <1>3, <2>2, <2>3 DEF FinishRollback
<1>4. CASE Pause
  BY <1>4, RecordTries, SameGraph DEF Pause, PauseTarget, Lifecycle!Pause, Lifecycle!Next
<1>5. CASE Resume
  BY <1>5, RecordTries, SameGraph DEF Resume, Lifecycle!Resume, Lifecycle!Next
<1>6. CASE Cancel
  BY <1>6, RecordTries, SameGraph DEF Cancel, Lifecycle!Cancel, Lifecycle!Next
<1>7. CASE Checkpoint
  BY <1>7, SameGraph DEF Checkpoint, campaignVars, Lifecycle!Save, Lifecycle!Next
<1>8. CASE Reconstruct
  <2>1. PICK s \in saved : phase' = s.phase /\ resumeTarget' = s.target /\ log' = SinkAfter(s)
    BY <1>8 DEF Reconstruct, RestoredTarget
  <2>2. SinkAfter(s) = s.log
    BY FreshSink DEF HistoryInv, TypeOK
  <2>3. Lifecycle!Restore
    BY <1>8, <2>1, <2>2 DEF Reconstruct, Lifecycle!Restore
  <2> QED
    BY <2>3 DEF Lifecycle!Next
<1>9. CASE BeginRollback \/ ExecuteNext \/ WalkComplete \/ RecordEvidence \/ Faults \/ UNCHANGED vars
  BY <1>1, <1>9 DEF BeginRollback, ExecuteNext, WalkComplete, RecordEvidence, Faults,
                    ExecutorFails, EvidenceFails, Crash, vars
<1> QED
  BY <1>2, <1>3, <1>4, <1>5, <1>6, <1>7, <1>8, <1>9 DEF Next, Rollback, Control

(* The orchestrator implements the campaign lifecycle, for every plan and  *)
(* however often a sink, the executor or the process fails, as long as it  *)
(* is reconstructed into a fresh sink.                                     *)
THEOREM LifecycleRefined == ASSUME ~SinkKeeps PROVE Spec => ImplementsLifecycle
<1>1. HistoryInv /\ [Next]_vars => HistoryInv'
  BY HistoryNext
<1>2. HistoryInv /\ [Next]_vars => [Lifecycle!Next]_(Lifecycle!vars)
  BY LifecycleStep
<1> QED
  BY <1>1, <1>2, HistoryInit, LifecycleInit, PTL DEF Spec, ImplementsLifecycle, Lifecycle!Spec

-----------------------------------------------------------------------------
(* The compensation gate.  Evidence only grows, so a checkpoint taken past *)
(* the gate stays covered, whichever process restores it.                  *)

Covered == Required \subseteq Elems(evidence)

GateInv ==
  /\ TypeOK /\ WalkLegal
  /\ PastGateCovered
  /\ \A s \in saved : {s.phase, s.target} \cap PastGate # {} => Covered
  /\ walk = "recording" => Required \subseteq Elems(evidence) \cup Elems(records)

LEMMA GateInit == Init => GateInv
<1> SUFFICES ASSUME Init PROVE GateInv
  OBVIOUS
<1>1. PastGateCovered
  BY DEF Init, PastGateCovered, PastGate
<1>2. WalkLegal /\ saved = {} /\ walk # "recording"
  BY DEF Init, WalkLegal
<1> QED
  BY <1>1, <1>2, TypeInit DEF GateInv

LEMMA GateNext == GateInv /\ [Next]_vars => GateInv'
<1> SUFFICES ASSUME GateInv, [Next]_vars
             PROVE  /\ PastGateCovered'
                    /\ \A s \in saved' : {s.phase, s.target} \cap PastGate # {} => Covered'
                    /\ walk' = "recording" => Required \subseteq Elems(evidence') \cup Elems(records')
  BY TypeNext, WalkNext DEF GateInv
<1> DEFINE Saved == \A s \in saved' : {s.phase, s.target} \cap PastGate # {} => Covered'
           Walked == walk' = "recording" => Required \subseteq Elems(evidence') \cup Elems(records')
<1>1. {phase, resumeTarget} \cap PastGate # {} => Covered
  BY DEF GateInv, PastGateCovered, Covered
<1>2. UNCHANGED saved /\ (Covered => Covered') => Saved
  BY DEF GateInv
<1>3. UNCHANGED evidence => (Covered <=> Covered')
  BY DEF Covered
<1>4. (Covered' \/ {phase', resumeTarget'} \cap PastGate = {}) => PastGateCovered'
  BY DEF PastGateCovered, Covered
<1>5. {None, "paused", "cancelled"} \cap PastGate = {}
  BY DEF PastGate
<1> HIDE DEF Saved, Walked
<1>6. CASE Transition
  <2>1. PICK to \in Phases : <<phase, to>> \in Edges /\ phase' = to
                            /\ (phase = "approve" /\ to = "canary" => Covered) /\ to # "rolled_back"
    BY <1>6 DEF Transition, Record, PromotionAllowed, Covered
  <2>2. to \in PastGate => Covered
    BY <1>1, <2>1 DEF Edges, PastGate
  <2>3. UNCHANGED <<evidence, saved, resumeTarget>> /\ walk' = "none"
    BY <1>6 DEF Transition, Idle, walkVars
  <2>4. PastGateCovered'
    BY <1>1, <1>3, <1>4, <2>1, <2>2, <2>3
  <2> QED
    BY <1>2, <1>3, <2>3, <2>4 DEF Saved
<1>7. CASE BeginRollback
  <2>1. UNCHANGED <<evidence, saved, phase, resumeTarget>> /\ walk' = "executing"
    BY <1>7 DEF BeginRollback, campaignVars
  <2> QED
    BY <1>1, <1>2, <1>3, <1>4, <2>1 DEF Saved
<1>8. CASE ExecuteNext
  <2>1. UNCHANGED <<evidence, saved, phase, resumeTarget>> /\ walk' = "executing"
    BY <1>8 DEF ExecuteNext, campaignVars
  <2> QED
    BY <1>1, <1>2, <1>3, <1>4, <2>1 DEF Saved
<1>9. CASE WalkComplete
  <2>1. UNCHANGED <<evidence, saved, phase, resumeTarget, records>> /\ Required \subseteq Elems(records)
    BY <1>9 DEF WalkComplete, campaignVars, Remaining
  <2> QED
    BY <1>1, <1>2, <1>3, <1>4, <2>1 DEF Saved
<1>10. CASE RecordEvidence
  <2>1. /\ UNCHANGED <<saved, phase, resumeTarget, walk>> /\ walk = "recording" /\ records # <<>>
        /\ evidence' = Append(evidence, Head(records)) /\ records' = Tail(records)
    BY <1>10 DEF RecordEvidence, RecordsLeft, campaignVars
  <2>2. records \in Seq(Required) /\ evidence \in Seq(Required)
    BY DEF GateInv, TypeOK
  <2>3. Head(records) \in Required /\ Elems(records) = {Head(records)} \cup Elems(records')
    BY <2>1, <2>2, Taken
  <2>4. Elems(evidence') = Elems(evidence) \cup {Head(records)}
    BY <2>1, <2>2, <2>3, Grown
  <2>5. Covered => Covered'
    BY <2>4 DEF Covered
  <2>6. Required \subseteq Elems(evidence') \cup Elems(records')
    BY <2>1, <2>3, <2>4 DEF GateInv
  <2> QED
    BY <1>1, <1>2, <1>4, <2>1, <2>5, <2>6 DEF Saved
<1>11. CASE FinishRollback
  <2>1. UNCHANGED <<evidence, saved, resumeTarget>> /\ walk' = "none" /\ walk = "recording" /\ records = <<>>
    BY <1>11 DEF FinishRollback
  <2>2. Elems(<<>>) = {}
    BY DEF Elems
  <2>3. Covered
    BY <2>1, <2>2 DEF GateInv, Covered
  <2> QED
    BY <1>2, <1>3, <1>4, <2>1, <2>3 DEF Saved
<1>12. CASE Pause
  <2>1. /\ UNCHANGED <<evidence, saved>> /\ walk' = "none" /\ resumeTarget' = phase
        /\ phase' = "paused" \/ phase' = phase
    BY <1>12 DEF Pause, PauseTarget, Idle, walkVars, Record, RecordFails
  <2> QED
    BY <1>1, <1>2, <1>3, <1>4, <1>5, <2>1 DEF Saved
<1>13. CASE Resume
  <2>1. /\ UNCHANGED <<evidence, saved>> /\ walk' = "none" /\ resumeTarget' = None
        /\ phase' = resumeTarget \/ phase' = phase
    BY <1>13 DEF Resume, Idle, walkVars, Record, RecordFails
  <2> QED
    BY <1>1, <1>2, <1>3, <1>4, <1>5, <2>1 DEF Saved
<1>14. CASE Cancel
  <2>1. /\ UNCHANGED <<evidence, saved>> /\ walk' = "none" /\ resumeTarget' = None
        /\ phase' = "cancelled" \/ phase' = phase
    BY <1>14 DEF Cancel, Idle, walkVars, Record, RecordFails
  <2> QED
    BY <1>1, <1>2, <1>3, <1>4, <1>5, <2>1 DEF Saved
<1>15. CASE Checkpoint
  <2>1. /\ UNCHANGED <<evidence, phase, resumeTarget>> /\ walk' = "none"
        /\ saved' = saved \cup {Snapshot}
    BY <1>15 DEF Checkpoint, Idle, walkVars, campaignVars
  <2>2. Snapshot.phase = phase /\ Snapshot.target = resumeTarget
    BY DEF Snapshot
  <2>3. Saved
    BY <1>1, <1>3, <2>1, <2>2 DEF GateInv, Saved
  <2> QED
    BY <1>1, <1>3, <1>4, <2>1, <2>3 DEF Saved
<1>16. CASE Reconstruct
  <2>1. PICK s \in saved : phase' = s.phase /\ resumeTarget' = s.target
    BY <1>16 DEF Reconstruct, RestoredTarget
  <2>2. UNCHANGED <<evidence, saved, walk, records>> /\ walk = "none"
    BY <1>16 DEF Reconstruct, walkVars, GateInv, WalkLegal
  <2>3. {s.phase, s.target} \cap PastGate # {} => Covered
    BY DEF GateInv
  <2>4. PastGateCovered'
    BY <1>3, <1>4, <2>1, <2>2, <2>3
  <2> QED
    BY <1>2, <1>3, <2>2, <2>4 DEF Saved
<1>17. CASE ExecutorFails \/ EvidenceFails \/ Crash
  <2>1. UNCHANGED <<evidence, saved, phase, resumeTarget>> /\ walk' = "none"
    BY <1>17 DEF ExecutorFails, EvidenceFails, Crash, campaignVars
  <2> QED
    BY <1>1, <1>2, <1>3, <1>4, <2>1 DEF Saved
<1>18. CASE UNCHANGED vars
  <2>1. UNCHANGED <<evidence, saved, phase, resumeTarget, walk, records>>
    BY <1>18 DEF vars, campaignVars, walkVars
  <2> QED
    BY <1>1, <1>2, <1>3, <1>4, <2>1 DEF Saved, GateInv
<1> QED
  BY <1>6, <1>7, <1>8, <1>9, <1>10, <1>11, <1>12, <1>13, <1>14, <1>15, <1>16, <1>17, <1>18
     DEF Next, Rollback, Control, Faults

(* A campaign past the compensation gate has the evidence the gate wants,  *)
(* for every plan: no failure, death or reconstruction gets it there       *)
(* without.                                                                *)
THEOREM GateCorrect == Spec => []PastGateCovered
<1>1. GateInv => PastGateCovered
  BY DEF GateInv
<1> QED
  BY <1>1, GateInit, GateNext, PTL DEF Spec

-----------------------------------------------------------------------------
(* The walks of the plan.  What the walk in progress has recorded, it has  *)
(* performed, so an action that is the first still due comes after all the *)
(* plan puts before it; and a record that reaches the sink leaves the walk.*)

LEMMA TimesFinite ==
  ASSUME NEW S, NEW s \in Seq(S), NEW i
  PROVE  IsFiniteSet({n \in DOMAIN s : s[n] = i}) /\ Times(s, i) \in Nat
<1>1. Len(s) \in Nat /\ DOMAIN s = 1..Len(s)
  OBVIOUS
<1>2. IsFiniteSet(1..Len(s))
  BY <1>1, FS_Interval
<1>3. IsFiniteSet({n \in DOMAIN s : s[n] = i})
  BY <1>1, <1>2, FS_Subset
<1> QED
  BY <1>3, FS_CardinalityType DEF Times

LEMMA TimesGrown ==
  ASSUME NEW S, NEW s \in Seq(S), NEW e \in S, NEW i
  PROVE  Times(Append(s, e), i) = Times(s, i) + (IF e = i THEN 1 ELSE 0)
<1> DEFINE N == {n \in DOMAIN s : s[n] = i}
           M == {n \in DOMAIN Append(s, e) : Append(s, e)[n] = i}
<1>1. /\ Len(s) \in Nat /\ DOMAIN s = 1..Len(s) /\ DOMAIN Append(s, e) = 1..(Len(s) + 1)
      /\ \A n \in 1..Len(s) : Append(s, e)[n] = s[n]
      /\ Append(s, e)[Len(s) + 1] = e
  BY Appended
<1>2. \A n \in 1..(Len(s) + 1) : n \in 1..Len(s) \/ n = Len(s) + 1
  BY <1>1
<1>3. Len(s) + 1 \in 1..(Len(s) + 1) /\ Len(s) + 1 \notin 1..Len(s) /\ 1..Len(s) \subseteq 1..(Len(s) + 1)
  BY <1>1
<1>4. M = IF e = i THEN N \cup {Len(s) + 1} ELSE N
  BY <1>1, <1>2, <1>3
<1>5. IsFiniteSet(N) /\ Cardinality(N) \in Nat /\ Len(s) + 1 \notin N
  BY <1>1, <1>3, TimesFinite DEF Times
<1>6. Cardinality(N \cup {Len(s) + 1}) = Cardinality(N) + 1
  BY <1>5, FS_AddElement
<1>7. Times(s, i) = Cardinality(N) /\ Times(Append(s, e), i) = Cardinality(M)
  BY DEF Times
<1> HIDE DEF N, M
<1> QED
  BY <1>4, <1>5, <1>6, <1>7

LEMMA TimesTaken ==
  ASSUME NEW S, NEW s \in Seq(S), s # <<>>, NEW i
  PROVE  Times(s, i) = Times(Tail(s), i) + (IF Head(s) = i THEN 1 ELSE 0)
<1> DEFINE N == {n \in DOMAIN s : s[n] = i}
           T == {n \in DOMAIN Tail(s) : Tail(s)[n] = i}
           f == [n \in T |-> n + 1]
<1>1. /\ Len(s) \in Nat /\ Len(s) >= 1 /\ DOMAIN s = 1..Len(s) /\ Head(s) = s[1]
      /\ Tail(s) \in Seq(S) /\ DOMAIN Tail(s) = 1..(Len(s) - 1)
      /\ \A n \in 1..(Len(s) - 1) : Tail(s)[n] = s[n + 1]
  OBVIOUS
<1>2. \A n \in T : n \in Nat /\ n + 1 \in N \ {1}
  BY <1>1
<1>3. \A n \in N \ {1} : n - 1 \in T /\ (n - 1) + 1 = n
  BY <1>1
<1>4. 1 \in N <=> Head(s) = i
  BY <1>1
<1>5. IsFiniteSet(N) /\ Cardinality(N) \in Nat /\ IsFiniteSet(T) /\ Cardinality(T) \in Nat
  BY <1>1, TimesFinite DEF Times
<1>6. Times(s, i) = Cardinality(N) /\ Times(Tail(s), i) = Cardinality(T)
  BY DEF Times
<1> HIDE DEF N, T
<1>7. f \in Bijection(T, N \ {1})
  <2>1. f \in [T -> N \ {1}] /\ \A n \in T : f[n] = n + 1
    BY <1>2
  <2>2. IsInjective(f)
    BY <1>2, <2>1 DEF IsInjective
  <2>3. \A k \in N \ {1} : \E n \in T : f[n] = k
    BY <1>3, <2>1
  <2> HIDE DEF f
  <2> QED
    BY <2>1, <2>2, <2>3 DEF Bijection, Injection, Surjection
<1>8. Cardinality(N \ {1}) = Cardinality(T)
  BY <1>5, <1>7, FS_Bijection DEF ExistsBijection
<1>9. Cardinality(N \ {1}) = IF 1 \in N THEN Cardinality(N) - 1 ELSE Cardinality(N)
  BY <1>5, FS_RemoveElement
<1> QED
  BY <1>4, <1>5, <1>6, <1>8, <1>9

LEMMA TimesOfNone == \A i : Times(<<>>, i) = 0
<1>1. \A i : {n \in DOMAIN <<>> : <<>>[n] = i} = {}
  OBVIOUS
<1> QED
  BY <1>1, FS_EmptySet DEF Times

WalkInv == TypeOK /\ DeclaredOrder /\ EvidenceIsEarned /\ Elems(records) \subseteq Elems(performed)

LEMMA WalkInit == Init => WalkInv
<1> SUFFICES ASSUME Init PROVE WalkInv
  OBVIOUS
<1>1. performed = <<>> /\ records = <<>> /\ evidence = <<>> /\ DOMAIN performed = {}
  BY DEF Init
<1>2. DeclaredOrder /\ Elems(records) \subseteq Elems(performed)
  BY <1>1 DEF DeclaredOrder, Elems
<1>3. EvidenceIsEarned
  BY <1>1, TimesOfNone DEF EvidenceIsEarned
<1> QED
  BY <1>2, <1>3, TypeInit DEF WalkInv

(* a walk that is dropped, or that begins, claims nothing *)
LEMMA WalkDropped ==
  ASSUME WalkInv, records' = <<>>, UNCHANGED <<performed, evidence>>
  PROVE  DeclaredOrder' /\ EvidenceIsEarned' /\ Elems(records') \subseteq Elems(performed')
<1>1. DeclaredOrder' /\ Elems(records') \subseteq Elems(performed')
  BY DEF WalkInv, DeclaredOrder, Elems
<1>2. ASSUME NEW i \in Required PROVE Times(evidence', i) + Times(records', i) <= Times(performed', i)
  <2>1. Times(evidence, i) + Times(records, i) <= Times(performed, i)
    BY DEF WalkInv, EvidenceIsEarned
  <2>2. Times(evidence, i) \in Nat /\ Times(records, i) \in Nat /\ Times(performed, i) \in Nat
    BY TimesFinite DEF WalkInv, TypeOK
  <2> QED
    BY <2>1, <2>2, TimesOfNone
<1> QED
  BY <1>1, <1>2 DEF EvidenceIsEarned

LEMMA WalksNext == WalkInv /\ [Next]_vars => WalkInv'
<1> SUFFICES ASSUME WalkInv, [Next]_vars
             PROVE  DeclaredOrder' /\ EvidenceIsEarned' /\ Elems(records') \subseteq Elems(performed')
  BY TypeNext DEF WalkInv
<1>1. /\ records \in Seq(Required) /\ performed \in Seq(Required) /\ evidence \in Seq(Required)
      /\ Len(performed) \in Nat /\ DOMAIN performed = 1..Len(performed)
  BY DEF WalkInv, TypeOK
<1>2. CASE UNCHANGED <<records, performed, evidence>>
  BY <1>2 DEF WalkInv, DeclaredOrder, EvidenceIsEarned
<1>3. CASE BeginRollback \/ FinishRollback \/ ExecutorFails \/ EvidenceFails \/ Crash
  BY <1>3, WalkDropped DEF BeginRollback, FinishRollback, ExecutorFails, EvidenceFails, Crash
<1>4. CASE ExecuteNext
  <2>1. PICK i \in 1..PlanLen : /\ Due(i) /\ UNCHANGED evidence
                                /\ performed' = Append(performed, i) /\ records' = Append(records, i)
    BY <1>4 DEF ExecuteNext
  <2>2. i \in Required
    BY <2>1 DEF Due, Remaining
  <2>3. /\ DOMAIN performed' = 1..(Len(performed) + 1)
        /\ \A n \in 1..Len(performed) : performed'[n] = performed[n]
        /\ performed'[Len(performed) + 1] = i
    BY <1>1, <2>1, <2>2, Appended
  <2>4. ASSUME NEW n \in DOMAIN performed', NEW j \in Required, j < performed'[n]
        PROVE  \E m \in 1..n : performed'[m] = j
    <3>1. CASE n \in 1..Len(performed)
      <4>1. PICK m \in 1..n : performed[m] = j
        BY <1>1, <2>3, <2>4, <3>1 DEF WalkInv, DeclaredOrder
      <4>2. m \in 1..Len(performed)
        BY <1>1, <3>1
      <4> QED
        BY <2>3, <4>1, <4>2
    <3>2. CASE n = Len(performed) + 1
      <4>1. j < i
        BY <2>3, <2>4, <3>2
      <4>2. i \in Int /\ j \in Int
        BY DEF Required
      <4>3. j \in Elems(records)
        BY <2>1, <4>1, <4>2 DEF Due, Remaining
      <4>4. PICK m \in 1..Len(performed) : performed[m] = j
        BY <1>1, <4>3 DEF WalkInv, Elems
      <4>5. m \in 1..n
        BY <1>1, <3>2
      <4> QED
        BY <2>3, <4>4, <4>5
    <3> QED
      BY <1>1, <2>3, <3>1, <3>2
  <2>5. DeclaredOrder'
    BY <2>4 DEF DeclaredOrder, Required
  <2>6. Elems(records') = Elems(records) \cup {i} /\ Elems(performed') = Elems(performed) \cup {i}
    BY <1>1, <2>1, <2>2, Grown
  <2>7. ASSUME NEW a \in Required PROVE Times(evidence', a) + Times(records', a) <= Times(performed', a)
    <3>1. Times(evidence, a) + Times(records, a) <= Times(performed, a)
      BY DEF WalkInv, EvidenceIsEarned
    <3>2. Times(evidence, a) \in Nat /\ Times(records, a) \in Nat /\ Times(performed, a) \in Nat
      BY <1>1, TimesFinite
    <3>3. /\ Times(records', a) = Times(records, a) + (IF i = a THEN 1 ELSE 0)
          /\ Times(performed', a) = Times(performed, a) + (IF i = a THEN 1 ELSE 0)
      BY <1>1, <2>1, <2>2, TimesGrown
    <3>4. Times(evidence', a) = Times(evidence, a)
      BY <2>1
    <3> QED
      BY <3>1, <3>2, <3>3, <3>4
  <2>8. EvidenceIsEarned'
    BY <2>7 DEF EvidenceIsEarned, Required
  <2> QED
    BY <2>5, <2>6, <2>8 DEF WalkInv
<1>5. CASE RecordEvidence
  <2>1. /\ records # <<>> /\ UNCHANGED performed
        /\ evidence' = Append(evidence, Head(records)) /\ records' = Tail(records)
    BY <1>5 DEF RecordEvidence, RecordsLeft
  <2>2. Head(records) \in Required /\ Elems(records') \subseteq Elems(records)
    BY <1>1, <2>1, Taken
  <2>3. ASSUME NEW a \in Required PROVE Times(evidence', a) + Times(records', a) <= Times(performed', a)
    <3>1. Times(evidence, a) + Times(records, a) <= Times(performed, a)
      BY DEF WalkInv, EvidenceIsEarned
    <3>2. Times(evidence, a) \in Nat /\ Times(records', a) \in Nat /\ Times(performed, a) \in Nat
      BY <1>1, <2>1, Taken, TimesFinite
    <3>3. Times(evidence', a) = Times(evidence, a) + (IF Head(records) = a THEN 1 ELSE 0)
      BY <1>1, <2>1, <2>2, TimesGrown
    <3>4. Times(records, a) = Times(records', a) + (IF Head(records) = a THEN 1 ELSE 0)
      BY <1>1, <2>1, TimesTaken
    <3>5. Times(performed', a) = Times(performed, a)
      BY <2>1
    <3> QED
      BY <3>1, <3>2, <3>3, <3>4, <3>5
  <2>4. EvidenceIsEarned'
    BY <2>3 DEF EvidenceIsEarned, Required
  <2> QED
    BY <2>1, <2>2, <2>4 DEF WalkInv, DeclaredOrder
<1>6. CASE Transition \/ Control \/ WalkComplete \/ Checkpoint \/ Reconstruct \/ UNCHANGED vars
  BY <1>2, <1>6 DEF Transition, Control, Pause, Resume, Cancel, WalkComplete, Checkpoint, Reconstruct,
                    vars, walkVars
<1> QED
  BY <1>3, <1>4, <1>5, <1>6 DEF Next, Rollback, Faults

(* For every plan the compensations are executed in the order it declares, *)
(* and the evidence never claims more executions than there were, through  *)
(* aborted walks, deaths and retries.                                      *)
THEOREM WalksCorrect == Spec => []WalksAreTrue
<1>1. WalkInv => WalksAreTrue
  BY DEF WalkInv, WalksAreTrue
<1> QED
  BY <1>1, WalkInit, WalksNext, PTL DEF Spec

=============================================================================
