---------------------------- MODULE ApprovalBoard ----------------------------
(***************************************************************************)
(* The review board (api/approvals.py): a request collects the decisions   *)
(* of verified identities, its status is projected from them, and an       *)
(* admission mints a signed record.  Requests run concurrently, each in    *)
(* one READ COMMITTED transaction that reads the request's row without     *)
(* locking it, reads its decisions in a later statement, and writes when   *)
(* it commits.                                                             *)
(*                                                                         *)
(* The model follows one request, of one of the kinds.  A tier-4 request   *)
(* has both of its evidence legs, without which it is not opened.          *)
(***************************************************************************)
EXTENDS Naturals, Sequences

CONSTANTS
  Identities,  (* verified workload identities *)
  Fold,        (* casefold: the identity two spellings of it stand for *)
  Requester,   (* requested_by *)
  Kinds,       (* the kinds of request that may be opened *)
  Threads      (* the server's worker threads *)

ASSUME BoardAssumption ==
  /\ Requester \in Identities
  /\ Fold \in [Identities -> Identities]
  /\ Kinds \subseteq {"privileged_admission", "tier3_promotion", "tier4_promotion"}

VARIABLES
  kind,       (* of the request; "none" until it is opened *)
  status,     (* approval_requests.status *)
  decisions,  (* approval_decisions: approver and decision *)
  records,    (* admission_records, in order: identifier and approvers *)
  step,       (* per thread: where its call is *)
  seen,       (* per thread: the status it read *)
  vote,       (* per thread: the decision it is inserting *)
  projected,  (* per thread: the status it is going to write *)
  held        (* per thread: the approvers of the record it is going to mint *)

requestVars == <<kind, status, decisions, records>>
callVars == <<seen, vote, projected, held>>
vars == <<requestVars, step, callVars>>

NoVote == [approver |-> Requester, decision |-> "none"]

Init ==
  /\ kind = "none" /\ status = "pending" /\ decisions = {} /\ records = <<>>
  /\ step = [t \in Threads |-> "idle"]
  /\ seen = [t \in Threads |-> "pending"] /\ vote = [t \in Threads |-> NoVote]
  /\ projected = [t \in Threads |-> "pending"] /\ held = [t \in Threads |-> {}]

Approvers(D) == {d.approver : d \in {e \in D : e.decision = "approve"}}
People(S) == {Fold[a] : a \in S}

-----------------------------------------------------------------------------
CreateRequest ==
  /\ kind = "none"
  /\ kind' \in Kinds
  /\ UNCHANGED <<status, decisions, records, step, callVars>>

Goto(t, next) == step' = [step EXCEPT ![t] = next]

(* a call forgets what it read when its transaction ends *)
End(t) ==
  /\ Goto(t, "idle")
  /\ seen' = [seen EXCEPT ![t] = "pending"] /\ vote' = [vote EXCEPT ![t] = NoVote]
  /\ projected' = [projected EXCEPT ![t] = "pending"] /\ held' = [held EXCEPT ![t] = {}]

Closed == {"rejected", "admitted"}
AnyWord == {"approve", "reject", "abstain"}
DecisionKinds == {"approve", "reject"}
OthersOnly(a, d) == d = "approve" => Fold[a] # Fold[Requester]

(* decide: the request's row is read, and the caller checked *)
OpenDecision(t) ==
  /\ step[t] = "idle" /\ kind # "none" /\ status \notin Closed
  /\ \E a \in Identities, d \in DecisionKinds :
       /\ OthersOnly(a, d)
       /\ \A e \in decisions : e.approver # a
       /\ vote' = [vote EXCEPT ![t] = [approver |-> a, decision |-> d]]
  /\ seen' = [seen EXCEPT ![t] = status]
  /\ Goto(t, "deciding")
  /\ UNCHANGED <<requestVars, projected, held>>

(* _project_request_status, over the decisions committed by now and the own one *)
TwoPeople(S) == \E a, b \in S : Fold[a] # Fold[b]

ProjectionOfSpellings(D, before) ==
  IF \E d \in D : d.decision = "reject" THEN "rejected"
  ELSE IF \E a, b \in Approvers(D) : a # b THEN "approved" ELSE before

Projection(D, before) ==
  IF \E d \in D : d.decision = "reject" THEN "rejected"
  ELSE IF TwoPeople(Approvers(D)) THEN "approved" ELSE before

Project(t) ==
  /\ step[t] = "deciding"
  /\ projected' = [projected EXCEPT ![t] = Projection(decisions \cup {vote[t]}, seen[t])]
  /\ Goto(t, "projected")
  /\ UNCHANGED <<requestVars, seen, vote, held>>

(* uq_approval_decisions_request_approver *)
Undecided(a) == \A d \in decisions : d.approver # a

(* the session writes the status only if it differs from the one it read *)
CommitDecision(t) ==
  /\ step[t] = "projected"
  /\ Undecided(vote[t].approver)
  /\ decisions' = decisions \cup {vote[t]}
  /\ status' = IF projected[t] = seen[t] THEN status ELSE projected[t]
  /\ End(t)
  /\ UNCHANGED <<kind, records>>

(* another call of the same identity committed first *)
DecisionFails(t) ==
  /\ step[t] = "projected" /\ ~Undecided(vote[t].approver)
  /\ End(t)
  /\ UNCHANGED requestVars

-----------------------------------------------------------------------------
(* _admit_locked: the request's row ... *)
MayAdmitOpen == status \notin Closed
MayAdmit == status \notin Closed /\ (kind = "tier4_promotion" => status = "approved")

OpenAdmission(t) ==
  /\ step[t] = "idle" /\ kind # "none"
  /\ MayAdmit
  /\ seen' = [seen EXCEPT ![t] = status]
  /\ Goto(t, "admitting")
  /\ UNCHANGED <<requestVars, vote, projected, held>>

(* ... and its decisions, judged by admit_privileged or assert_phase2_admissible *)
TwoPersonApproval(S) ==
  /\ \E a, b \in S : S = {a, b} /\ Fold[a] # Fold[b]
  /\ Fold[Requester] \notin People(S)

Admissible(S) == kind # "tier4_promotion" => TwoPersonApproval(S)

Judge(t) ==
  /\ step[t] = "admitting"
  /\ Admissible(Approvers(decisions))
  /\ held' = [held EXCEPT ![t] = Approvers(decisions)]
  /\ Goto(t, "judged")
  /\ UNCHANGED <<requestVars, seen, vote, projected>>

Deny(t) ==
  /\ step[t] = "admitting" /\ ~Admissible(Approvers(decisions))
  /\ End(t)
  /\ UNCHANGED requestVars

(* A promotion's record gets a fresh identifier, a privileged admission's  *)
(* is derived from its content, and identifiers are unique.                *)
FreshId == Len(records) + 1
RecordId == IF kind = "privileged_admission" THEN 0 ELSE Len(records) + 1

Minted(i) == \E n \in 1..Len(records) : records[n].id = i

Mint(t) ==
  /\ step[t] = "judged"
  /\ ~Minted(RecordId)
  /\ records' = Append(records, [id |-> RecordId, approvers |-> held[t]])
  /\ status' = "admitted"
  /\ End(t)
  /\ UNCHANGED <<kind, decisions>>

(* an identical signed admission record already exists *)
MintFails(t) ==
  /\ step[t] = "judged" /\ Minted(RecordId)
  /\ End(t)
  /\ UNCHANGED requestVars

-----------------------------------------------------------------------------
Decide(t) == OpenDecision(t) \/ Project(t) \/ CommitDecision(t) \/ DecisionFails(t)
Admit(t) == OpenAdmission(t) \/ Judge(t) \/ Deny(t) \/ Mint(t) \/ MintFails(t)

Next == CreateRequest \/ \E t \in Threads : Decide(t) \/ Admit(t)

Spec == Init /\ [][Next]_vars

-----------------------------------------------------------------------------
RequestKinds == {"privileged_admission", "tier3_promotion", "tier4_promotion"}
RequestStatuses == {"pending", "approved", "rejected", "admitted"}
Votes == [approver : Identities, decision : {"none", "approve", "reject"}]

(* Every variable has its type. *)
TypeOK ==
  /\ kind \in RequestKinds \cup {"none"} /\ status \in RequestStatuses
  /\ decisions \subseteq [approver : Identities, decision : {"approve", "reject"}]
  /\ records \in Seq([id : Nat, approvers : SUBSET Identities])
  /\ step \in [Threads -> {"idle", "deciding", "projected", "admitting", "judged"}]
  /\ seen \in [Threads -> RequestStatuses] /\ vote \in [Threads -> Votes]
  /\ projected \in [Threads -> RequestStatuses] /\ held \in [Threads -> SUBSET Identities]

(* "anything short of two distinct approvers, neither of them the          *)
(* requester" is refused (api/approvals.py): every signed record names two *)
(* people, however they spell themselves, and not the requester, whatever  *)
(* decisions and admissions raced; for a tier-4 promotion only the status  *)
(* a decision projected stands behind this.                                *)
AdmittedByTwo ==
  \A n \in 1..Len(records) :
    TwoPeople(records[n].approvers) /\ Fold[Requester] \notin People(records[n].approvers)

(* The status is a projection of the decisions beneath it and of the       *)
(* records (db/models/approvals.py), although a call may write one it      *)
(* projected before another call committed.                                *)
StatusEarned ==
  /\ status = "approved" => TwoPeople(Approvers(decisions))
  /\ status = "rejected" => \E d \in decisions : d.decision = "reject"
  /\ status = "admitted" => records # <<>>

(* "one person, one decision, no matter how many times they call"          *)
(* (api/approvals.py:409), calls that overlap included; a spelling is a    *)
(* person here.                                                            *)
OneDecisionEach == \A d, e \in decisions : d.approver = e.approver => d = e

(* A privileged admission is minted once, although a late decision may set *)
(* an admitted request back to approved and two admissions may overlap.    *)
PrivilegedOnce == kind = "privileged_admission" => Len(records) <= 1

(* What is counted is counted once (api/approvals.py, decide and admit):   *)
(* decisions by identity, privileged admissions by content.                *)
CountedOnce == OneDecisionEach /\ PrivilegedOnce

(* "a single rejection ends the review" (db/models/approvals.py:56): no    *)
(* record is minted once a rejection is recorded.                          *)
RejectionEndsReview ==
  [][records' # records => \A d \in decisions : d.decision # "reject"]_<<records, decisions>>

=============================================================================
