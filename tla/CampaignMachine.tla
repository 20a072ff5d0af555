-------------------------- MODULE CampaignMachine --------------------------
(***************************************************************************)
(* CampaignOrchestrator (campaign/machine.py) with the signed compensation *)
(* plan's gate (campaign/compensation.py): transitions, pause, resume and  *)
(* cancel, the rollback edge that first executes the plan's compensations, *)
(* checkpoints, the death of the process and reconstruction from any       *)
(* checkpoint.  The orchestrator is one thread; the executor, the evidence *)
(* sink and the transition sink may raise, and the process may die between *)
(* any two of their calls.  The evidence sink and the checkpoint store     *)
(* outlive the process.  The execution gate of PROPOSE -> DEV_EVALUATE may *)
(* refuse at any time, which is a step not taken.                          *)
(***************************************************************************)
EXTENDS CampaignPhases, FiniteSets

CONSTANTS
  PlanLen,     (* number of actions of the compensation plan                *)
  Cas,         (* the actions of mode cas: they need no execution           *)
  SinkKeeps,   (* reconstruct() is given the sink the dead process wrote to *)
  MaxLog, MaxSaved, MaxCrashes, MaxSinkFailures, MaxExecutorFailures  (* bounds of the model *)

ASSUME MachineAssumption ==
  /\ PlanLen \in Nat /\ Cas \subseteq 1..PlanLen
  /\ SinkKeeps \in BOOLEAN
  /\ {MaxLog, MaxSaved, MaxCrashes, MaxSinkFailures, MaxExecutorFailures} \subseteq Nat

VARIABLES
  running,      (* there is a process with an orchestrator *)
  phase,        (* _phase *)
  resumeTarget, (* _resume_target *)
  log,          (* _sink: the transition history *)
  saved,        (* the checkpoint store: content-addressed, so a set of snapshots *)
  walk,         (* the rollback gate's code point: none, executing, recording *)
  records,      (* the execution records the walk has made so far: a local list *)
  performed,    (* actions the executor carried out, in order *)
  evidence,     (* the execution sink: the action_index of each record, in order *)
  crashes, sinkFailures, executorFailures  (* how often each bounded fault has happened *)

campaignVars == <<phase, resumeTarget, log>>
walkVars     == <<walk, records, performed, evidence>>
faultVars    == <<crashes, sinkFailures, executorFailures>>
vars == <<running, campaignVars, saved, walkVars, faultVars>>

Elems(s) == {s[i] : i \in DOMAIN s}
Required == (1..PlanLen) \ Cas
Snapshot == [phase |-> phase, target |-> resumeTarget, log |-> log]
Idle == running /\ walk = "none"

-----------------------------------------------------------------------------
Init ==
  /\ running = TRUE
  /\ phase = "discover" /\ resumeTarget = None /\ log = <<>>
  /\ saved = {}
  /\ walk = "none" /\ records = <<>> /\ performed = <<>> /\ evidence = <<>>
  /\ crashes = 0 /\ sinkFailures = 0 /\ executorFailures = 0

(* _record: the sink takes the hop, then the phase moves *)
Record(to) ==
  /\ Len(log) < MaxLog
  /\ log' = Append(log, HopTo(log, phase, to))
  /\ phase' = to
  /\ UNCHANGED sinkFailures

(* ... or the sink raises, and neither happens *)
RecordFails ==
  /\ sinkFailures < MaxSinkFailures
  /\ sinkFailures' = sinkFailures + 1
  /\ UNCHANGED <<log, phase>>

-----------------------------------------------------------------------------
(* approve_canary: assert_promotion_allowed over the recorded evidence *)
PromotionAllowedByCount == Len(evidence) >= Cardinality(Required)
PromotionAllowed == Required \subseteq Elems(evidence)

(* transition() along any edge but a rollback; the gate comes before the record *)
Transition ==
  /\ Idle
  /\ \E to \in Phases \ {"rolled_back"} :
       /\ <<phase, to>> \in Edges
       /\ phase = "approve" /\ to = "canary" => PromotionAllowed
       /\ Record(to)
  /\ UNCHANGED <<running, resumeTarget, saved, walkVars, crashes, executorFailures>>

(* transition(ROLLED_BACK): the edge is legal, the gate starts its walk *)
BeginRollback ==
  /\ Idle /\ <<phase, "rolled_back">> \in Edges
  /\ walk' = "executing" /\ records' = <<>>
  /\ UNCHANGED <<running, campaignVars, saved, performed, evidence, faultVars>>

Remaining == Required \ Elems(records)

(* the next action of the walk: CAS actions are skipped, the order is the plan's *)
DueAnyOrder(i) == i \in Remaining
DueWithCas(i)  == i \notin Elems(records) /\ \A j \in Remaining : i <= j
Due(i) == i \in Remaining /\ \A j \in Remaining : i <= j

ExecuteNext ==
  /\ running /\ walk = "executing"
  /\ \E i \in 1..PlanLen :
       /\ Due(i)
       /\ performed' = Append(performed, i)
       /\ records' = Append(records, i)
  /\ UNCHANGED <<running, campaignVars, saved, walk, evidence, faultVars>>

(* the walk's records are a local list: an executor that raises leaves none *)
ExecutorFails ==
  /\ running /\ walk = "executing" /\ Remaining # {}
  /\ executorFailures < MaxExecutorFailures
  /\ executorFailures' = executorFailures + 1
  /\ walk' = "none" /\ records' = <<>>
  /\ UNCHANGED <<running, campaignVars, saved, performed, evidence, crashes, sinkFailures>>

WalkComplete ==
  /\ running /\ walk = "executing" /\ Remaining = {}
  /\ walk' = "recording"
  /\ UNCHANGED <<running, campaignVars, saved, records, performed, evidence, faultVars>>

RecordsLeftAfterPop == SubSeq(records, 1, Len(records) - 1)
RecordsLeft == Tail(records)

(* CheckpointedCompensationGate appends the records one by one ... *)
RecordEvidence ==
  /\ running /\ walk = "recording" /\ records # <<>>
  /\ evidence' = Append(evidence, Head(records))
  /\ records' = RecordsLeft
  /\ UNCHANGED <<running, campaignVars, saved, walk, performed, faultVars>>

(* ... and a sink that raises aborts the transition *)
EvidenceFails ==
  /\ running /\ walk = "recording" /\ records # <<>>
  /\ sinkFailures < MaxSinkFailures
  /\ sinkFailures' = sinkFailures + 1
  /\ walk' = "none" /\ records' = <<>>
  /\ UNCHANGED <<running, campaignVars, saved, performed, evidence, crashes, executorFailures>>

(* the gate has returned: the rollback edge is recorded *)
FinishRollback ==
  /\ running /\ walk = "recording" /\ records = <<>>
  /\ Record("rolled_back") \/ RecordFails
  /\ walk' = "none" /\ records' = <<>>
  /\ UNCHANGED <<running, resumeTarget, saved, performed, evidence, crashes, executorFailures>>

-----------------------------------------------------------------------------
(* pause() and resume() write the resume target before they record *)

PauseTargetLost == None
PauseTarget == phase

Pause ==
  /\ Idle /\ CanPause(phase)
  /\ resumeTarget' = PauseTarget
  /\ Record("paused") \/ RecordFails
  /\ UNCHANGED <<running, saved, walkVars, crashes, executorFailures>>

Resume ==
  /\ Idle /\ phase = "paused" /\ resumeTarget # None
  /\ resumeTarget' = None
  /\ Record(resumeTarget) \/ RecordFails
  /\ UNCHANGED <<running, saved, walkVars, crashes, executorFailures>>

Cancel ==
  /\ Idle /\ CanCancel(phase)
  /\ resumeTarget' = None
  /\ Record("cancelled") \/ RecordFails
  /\ UNCHANGED <<running, saved, walkVars, crashes, executorFailures>>

-----------------------------------------------------------------------------
Checkpoint ==
  /\ Idle /\ Cardinality(saved) < MaxSaved
  /\ saved' = saved \cup {Snapshot}
  /\ UNCHANGED <<running, campaignVars, walkVars, faultVars>>

(* the process dies, also in the middle of a rollback's walk *)
Crash ==
  /\ running /\ crashes < MaxCrashes
  /\ crashes' = crashes + 1
  /\ running' = FALSE /\ walk' = "none" /\ records' = <<>>
  /\ UNCHANGED <<campaignVars, saved, performed, evidence, sinkFailures, executorFailures>>

(* reconstruct() replays the snapshot's history into its sink: a fresh one *)
(* unless the caller passes another                                        *)
SinkAfterEmpty(s) == <<>>
SinkAfter(s) == (IF SinkKeeps THEN log ELSE <<>>) \o s.log

RestoredTargetLost(s) == None
RestoredTarget(s) == s.target

Reconstruct ==
  /\ ~running
  /\ running' = TRUE
  /\ \E s \in saved : /\ phase' = s.phase
                      /\ resumeTarget' = RestoredTarget(s)
                      /\ log' = SinkAfter(s)
  /\ UNCHANGED <<saved, walkVars, faultVars>>

-----------------------------------------------------------------------------
Rollback == BeginRollback \/ ExecuteNext \/ WalkComplete \/ RecordEvidence \/ FinishRollback
Control  == Pause \/ Resume \/ Cancel
Faults   == ExecutorFails \/ EvidenceFails \/ Crash

Next == Transition \/ Rollback \/ Control \/ Checkpoint \/ Reconstruct \/ Faults

Spec == Init /\ [][Next]_vars

-----------------------------------------------------------------------------
Snapshots == [phase : Phases, target : Phases \cup {None}, log : Seq(Hops)]

(* Every variable has its type. *)
TypeOK ==
  /\ running \in BOOLEAN
  /\ phase \in Phases /\ resumeTarget \in Phases \cup {None} /\ log \in Seq(Hops)
  /\ saved \subseteq Snapshots
  /\ walk \in {"none", "executing", "recording"}
  /\ records \in Seq(Required) /\ performed \in Seq(Required) /\ evidence \in Seq(Required)
  /\ crashes \in Nat /\ sinkFailures \in Nat /\ executorFailures \in Nat

(* "The log is the campaign's history; the current phase is derivable from *)
(* it" (machine.py:13-14): the orchestrator's history is gapless and every *)
(* hop of it legal, and replaying it gives the phase, through refusals,    *)
(* failed appends, aborted rollbacks, checkpoints and reconstruction.      *)
HistoryGivesPhase == IsHistory(log) /\ phase = PhaseAfter(log, Len(log))

(* As long as the sink has taken every hop, the same history gives the     *)
(* phase a paused campaign returns to.                                     *)
HistoryGivesTarget == sinkFailures = 0 => resumeTarget = TargetAfter(log, Len(log))

(* The phases only reached through the compensation gate, and where the    *)
(* campaign was when it was paused there.                                  *)
PastGate == {"canary", "promoted", "rolled_back", "learn"}

(* A campaign that is past the gate, or was past it when it paused, has an *)
(* execution record for every action that requires one, whichever way it   *)
(* got there: promotion, rollback, a retry, or a reconstruction that kept  *)
(* the evidence of an earlier life.                                        *)
PastGateCovered ==
  {phase, resumeTarget} \cap PastGate # {} => Required \subseteq Elems(evidence)

(* "executes the declared compensations in declared order"                 *)
(* (machine.py:42-43): whenever one is executed, those declared before it  *)
(* have been, through aborted walks, crashes and retries.                  *)
DeclaredOrder ==
  \A n \in DOMAIN performed : \A j \in Required :
    j < performed[n] => \E m \in 1..n : performed[m] = j

(* "Execution is evidence, not a flag": the evidence never claims more     *)
(* executions of an action than there were.                                *)
Times(s, i) == Cardinality({n \in DOMAIN s : s[n] = i})
EvidenceIsEarned == \A i \in Required : Times(evidence, i) + Times(records, i) <= Times(performed, i)

(* What a plan did, in the order it was declared, is what it says it did,  *)
(* through aborted walks, crashes and retries (machine.py:42-43).          *)
WalksAreTrue == DeclaredOrder /\ EvidenceIsEarned

(* With a fresh sink the orchestrator implements the campaign lifecycle:   *)
(* what happens inside a rollback's walk is invisible.                     *)
Lifecycle == INSTANCE CampaignLifecycle WITH target <- resumeTarget
ImplementsLifecycle == Lifecycle!Spec

=============================================================================
