----------------------------- MODULE CampaignApi -----------------------------
(***************************************************************************)
(* POST /campaigns/{id}/transition (api/service.py, transition_campaign):  *)
(* concurrent requests move one campaign whose state is a row of the       *)
(* campaigns table and whose history is a table of transitions.            *)
(*                                                                         *)
(* A request reads the row, reads the history in a second session, lets an *)
(* orchestrator built from both decide, and commits the new transition and *)
(* the columns it changed in one transaction.  Transactions run at READ    *)
(* COMMITTED and take no lock on the row when they read it; the only       *)
(* constraint is that a sequence number is used once per campaign.         *)
(***************************************************************************)
EXTENDS CampaignPhases, FiniteSets

CONSTANTS
  Requests,   (* the requests that may be in progress at once *)
  MaxLog      (* bound of the model: length of the history    *)

ASSUME ApiAssumption == MaxLog \in Nat

VARIABLES
  phase, resumeTarget,  (* campaigns.phase and .resume_target of the row *)
  log,                  (* campaign_transitions, in the order of their commits *)
  step,                 (* per request: idle, read (has the row), counted (has the history) *)
  seen                  (* per request: the phase, target and number of transitions it read *)

vars == <<phase, resumeTarget, log, step, seen>>

Views == [phase : Phases, target : Phases \cup {None}, count : Nat]
NothingSeen == [phase |-> "discover", target |-> None, count |-> 0]

(* create_campaign *)
Init ==
  /\ phase = "discover" /\ resumeTarget = None /\ log = <<>>
  /\ step = [r \in Requests |-> "idle"]
  /\ seen = [r \in Requests |-> NothingSeen]

-----------------------------------------------------------------------------
(* _require_campaign *)
ReadRow(r) ==
  /\ step[r] = "idle"
  /\ step' = [step EXCEPT ![r] = "read"]
  /\ seen' = [seen EXCEPT ![r] = [phase |-> phase, target |-> resumeTarget, count |-> 0]]
  /\ UNCHANGED <<phase, resumeTarget, log>>

(* _rebuild_orchestrator: the history only tells it the next sequence number *)
ReadHistory(r) ==
  /\ step[r] = "read"
  /\ step' = [step EXCEPT ![r] = "counted"]
  /\ seen' = [seen EXCEPT ![r].count = Len(log)]
  /\ UNCHANGED <<phase, resumeTarget, log>>

(* what the orchestrator allows a caller to ask for in phase p with target t *)
ResumeAnywhere(p, t) == {[to |-> q, target |-> None] : q \in Phases \ {"paused", "cancelled"}}
ResumeAtTarget(p, t) == {[to |-> q, target |-> None] : q \in {t} \ {None}}

Moves(p, t) ==
  (IF CanPause(p) THEN {[to |-> "paused", target |-> p]} ELSE {})
    \cup (IF CanCancel(p) THEN {[to |-> "cancelled", target |-> None]} ELSE {})
    \cup (IF p = "paused" THEN ResumeAtTarget(p, t)
                          ELSE {[to |-> q, target |-> t] : q \in {q \in Phases : <<p, q>> \in Edges}})

(* the sequence number of a request's transition: the length of the history it read *)
SequenceOfLast(r) == seen[r].count - 1
Sequence(r) == seen[r].count

(* uq_campaign_transitions_sequence *)
SequenceUnchecked(n) == TRUE
SequenceFree(n) == \A i \in 1..Len(log) : log[i].seq # n

ColumnUnlessNull(old, new, current) == IF new # None THEN new ELSE current

(* the session writes a column of the row only when its value changed *)
Column(old, new, current) == IF new # old THEN new ELSE current

Commit(r) ==
  /\ step[r] = "counted" /\ Len(log) < MaxLog
  /\ SequenceFree(Sequence(r))
  /\ \E m \in Moves(seen[r].phase, seen[r].target) :
       /\ log' = Append(log, [seq |-> Sequence(r), from |-> seen[r].phase, to |-> m.to])
       /\ phase' = Column(seen[r].phase, m.to, phase)
       /\ resumeTarget' = Column(seen[r].target, m.target, resumeTarget)
  /\ step' = [step EXCEPT ![r] = "idle"]
  /\ seen' = [seen EXCEPT ![r] = NothingSeen]

(* The request ends without a commit: the machine refuses the move, a      *)
(* paused campaign resumes elsewhere than the caller asked, the sequence   *)
(* number is taken, or the connection is lost.                             *)
Abandon(r) ==
  /\ step[r] # "idle"
  /\ step' = [step EXCEPT ![r] = "idle"]
  /\ seen' = [seen EXCEPT ![r] = NothingSeen]
  /\ UNCHANGED <<phase, resumeTarget, log>>

Next == \E r \in Requests : ReadRow(r) \/ ReadHistory(r) \/ Commit(r) \/ Abandon(r)

Spec == Init /\ [][Next]_vars

-----------------------------------------------------------------------------
(* Every variable has its type. *)
TypeOK ==
  /\ phase \in Phases /\ resumeTarget \in Phases \cup {None}
  /\ log \in Seq(Hops)
  /\ step \in [Requests -> {"idle", "read", "counted"}]
  /\ seen \in [Requests -> Views]

(* "phase is the current lifecycle phase - a projection of the transition  *)
(* log" (db/models/campaign.py:52-53), and "sequence is gapless per        *)
(* campaign" (84): transitions are committed in the order of their         *)
(* numbers, and the row's phase is where the last of them led, however     *)
(* many stale requests race.                                               *)
RowIsProjection ==
  /\ \A i \in 1..Len(log) : log[i].seq = i - 1
  /\ phase = PhaseAfter(log, Len(log))

(* "CANCELLED: the campaign is stopped for good" (machine.py:109-110).     *)
CancelledForGood == [][phase = "cancelled" => phase' = "cancelled"]_vars

(* No phase is reached that the graph does not lead to from some phase the *)
(* campaign really was in: stale requests can repeat a step and undo one,  *)
(* they cannot skip one.                                                   *)
NoPhaseSkipped ==
  \A i \in 1..Len(log) :
    log[i].to \notin {"paused", "cancelled"} =>
      \/ log[i].to = "discover"
      \/ \E j \in 0..(i - 1) : <<PhaseAfter(log, j), log[i].to>> \in Edges

(* A request that commits on what it read, unchanged since, takes a step   *)
(* of the campaign lifecycle: whatever races went before, only a stale     *)
(* request can leave it.                                                   *)
Lifecycle == INSTANCE CampaignLifecycle WITH target <- resumeTarget, saved <- {}
Current(r) == seen[r] = [phase |-> phase, target |-> resumeTarget, count |-> Len(log)]
Leaves(r) == step[r] = "counted" /\ step'[r] = "idle"
CurrentRequestsImplementLifecycle ==
  /\ Lifecycle!Init
  /\ [][(\A r \in Requests : Leaves(r) => Current(r))
          => Lifecycle!Next \/ UNCHANGED Lifecycle!vars]_vars

=============================================================================
