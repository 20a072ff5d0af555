------------------------ MODULE ApprovalBoard_proofs ------------------------
(***************************************************************************)
(* Proofs about ApprovalBoard, for any set of identities, any way they may *)
(* be spelled and any number of threads.                                   *)
(***************************************************************************)
EXTENDS ApprovalBoard, TLAPS

Steps == {"idle", "deciding", "projected", "admitting", "judged"}
Choices == [approver : Identities, decision : {"approve", "reject"}]
RecordType == [id : Nat, approvers : SUBSET Identities]

BoardOK == /\ kind \in RequestKinds \cup {"none"} /\ status \in RequestStatuses
           /\ decisions \subseteq Choices /\ records \in Seq(RecordType)
StepOK == step \in [Threads -> Steps]
ReadOK == seen \in [Threads -> RequestStatuses] /\ projected \in [Threads -> RequestStatuses]
VoteOK == vote \in [Threads -> Votes]
HeldOK == held \in [Threads -> SUBSET Identities]

(* a thread past reading the request has a decision or a request to judge  *)
Acting == \A t \in Threads :
  /\ step[t] \in {"deciding", "projected"} => vote[t].decision \in {"approve", "reject"}
  /\ step[t] # "idle" => kind # "none"

Typed == BoardOK /\ StepOK /\ ReadOK /\ VoteOK /\ HeldOK /\ Acting

LEMMA TypedIsTypeOK == Typed => TypeOK
  BY DEF TypeOK, Typed, BoardOK, StepOK, ReadOK, VoteOK, HeldOK, Choices, RecordType, Steps

LEMMA StatusesTyped ==
  ASSUME NEW s \in {"pending", "approved", "rejected", "admitted"}
  PROVE  s \in RequestStatuses
  BY DEF RequestStatuses

LEMMA StepsTyped ==
  ASSUME NEW s \in {"idle", "deciding", "projected", "admitting", "judged"}
  PROVE  s \in Steps
  BY DEF Steps

LEMMA NoVoteTyped == NoVote \in Votes
  BY BoardAssumption DEF NoVote, Votes

LEMMA ApproversTyped ==
  ASSUME NEW D \in SUBSET Choices
  PROVE  Approvers(D) \in SUBSET Identities
  BY DEF Approvers, Choices

LEMMA ProjectionTyped ==
  ASSUME NEW D, NEW s \in RequestStatuses
  PROVE  Projection(D, s) \in RequestStatuses
  BY StatusesTyped DEF Projection

LEMMA EndTyped ==
  ASSUME Typed, NEW t \in Threads, End(t), kind' = kind
  PROVE  StepOK' /\ ReadOK' /\ VoteOK' /\ HeldOK' /\ Acting'
<1>1. step' = [step EXCEPT ![t] = "idle"] /\ vote' = [vote EXCEPT ![t] = NoVote] BY DEF End, Goto
<1>2. StepOK' BY <1>1, StepsTyped DEF Typed, StepOK
<1>3. ReadOK' BY StatusesTyped DEF Typed, ReadOK, End
<1>4. VoteOK' BY <1>1, NoVoteTyped DEF Typed, VoteOK
<1>5. HeldOK' BY DEF Typed, HeldOK, End
<1>6. Acting'
  <2> SUFFICES ASSUME NEW u \in Threads
               PROVE  /\ step'[u] \in {"deciding", "projected"} => vote'[u].decision \in {"approve", "reject"}
                      /\ step'[u] # "idle" => kind' # "none"
    BY DEF Acting
  <2>1. CASE u = t BY <2>1, <1>1 DEF Typed, StepOK
  <2>2. CASE u # t
    <3>1. step'[u] = step[u] /\ vote'[u] = vote[u] BY <2>2, <1>1 DEF Typed, StepOK, VoteOK
    <3> QED BY <3>1 DEF Typed, Acting
  <2> QED BY <2>1, <2>2
<1> QED BY <1>2, <1>3, <1>4, <1>5, <1>6

LEMMA InitTyped == Init => Typed
<1> SUFFICES ASSUME Init PROVE Typed OBVIOUS
<1>1. BoardOK BY StatusesTyped DEF Init, BoardOK
<1>2. StepOK BY StepsTyped DEF Init, StepOK
<1>3. ReadOK BY StatusesTyped DEF Init, ReadOK
<1>4. VoteOK BY NoVoteTyped DEF Init, VoteOK
<1>5. HeldOK BY DEF Init, HeldOK
<1>6. Acting BY DEF Init, Acting
<1> QED BY <1>1, <1>2, <1>3, <1>4, <1>5, <1>6 DEF Typed

LEMMA OpenDecisionTyped ==
  ASSUME Typed, NEW t \in Threads, OpenDecision(t)
  PROVE  Typed'
<1>1. PICK a \in Identities, d \in {"approve", "reject"} :
        vote' = [vote EXCEPT ![t] = [approver |-> a, decision |-> d]]
  BY DEF OpenDecision, DecisionKinds
<1>2. step' = [step EXCEPT ![t] = "deciding"] /\ kind # "none" /\ kind' = kind
  BY DEF OpenDecision, Goto, requestVars
<1>3. BoardOK' BY DEF Typed, BoardOK, OpenDecision, requestVars
<1>4. StepOK' BY <1>2, StepsTyped DEF Typed, StepOK
<1>5. ReadOK'
  <2>1. status \in RequestStatuses /\ seen' = [seen EXCEPT ![t] = status] /\ projected' = projected
    BY DEF Typed, BoardOK, OpenDecision
  <2> QED BY <2>1 DEF Typed, ReadOK
<1>6. VoteOK'
  <2>1. [approver |-> a, decision |-> d] \in Votes BY DEF Votes
  <2> QED BY <1>1, <2>1 DEF Typed, VoteOK
<1>7. HeldOK' BY DEF Typed, HeldOK, OpenDecision
<1>8. Acting'
  <2> SUFFICES ASSUME NEW u \in Threads
               PROVE  /\ step'[u] \in {"deciding", "projected"} => vote'[u].decision \in {"approve", "reject"}
                      /\ step'[u] # "idle" => kind' # "none"
    BY DEF Acting
  <2>1. CASE u = t
    <3>1. vote'[t] = [approver |-> a, decision |-> d] BY <1>1 DEF Typed, VoteOK
    <3> QED BY <2>1, <3>1, <1>2
  <2>2. CASE u # t
    <3>1. step'[u] = step[u] /\ vote'[u] = vote[u] BY <2>2, <1>1, <1>2 DEF Typed, StepOK, VoteOK
    <3> QED BY <3>1, <1>2 DEF Typed, Acting
  <2> QED BY <2>1, <2>2
<1> QED BY <1>3, <1>4, <1>5, <1>6, <1>7, <1>8 DEF Typed

(* a step that keeps the votes and moves one thread on *)
LEMMA MovesOn ==
  ASSUME Typed, NEW t \in Threads, NEW from \in Steps, NEW next \in Steps,
         step[t] = from, Goto(t, next), UNCHANGED <<requestVars, vote>>,
         from # "idle", next \in {"deciding", "projected"} => from \in {"deciding", "projected"}
  PROVE  BoardOK' /\ StepOK' /\ VoteOK' /\ Acting'
<1>1. step' = [step EXCEPT ![t] = next] BY DEF Goto
<1>2. BoardOK' BY DEF Typed, BoardOK, requestVars
<1>3. StepOK' BY <1>1 DEF Typed, StepOK
<1>4. VoteOK' BY DEF Typed, VoteOK
<1>5. Acting'
  <2> SUFFICES ASSUME NEW u \in Threads
               PROVE  /\ step'[u] \in {"deciding", "projected"} => vote'[u].decision \in {"approve", "reject"}
                      /\ step'[u] # "idle" => kind' # "none"
    BY DEF Acting
  <2>1. kind' = kind /\ vote' = vote BY DEF requestVars
  <2>2. CASE u = t BY <1>1, <2>1, <2>2 DEF Typed, StepOK, Acting
  <2>3. CASE u # t
    <3>1. step'[u] = step[u] BY <2>3, <1>1 DEF Typed, StepOK
    <3> QED BY <3>1, <2>1 DEF Typed, Acting
  <2> QED BY <2>2, <2>3
<1> QED BY <1>2, <1>3, <1>4, <1>5

LEMMA ProjectTyped ==
  ASSUME Typed, NEW t \in Threads, Project(t)
  PROVE  Typed'
<1>1. BoardOK' /\ StepOK' /\ VoteOK' /\ Acting' BY MovesOn, StepsTyped DEF Project
<1>2. ReadOK'
  <2>1. seen[t] \in RequestStatuses BY DEF Typed, ReadOK
  <2>2. Projection(decisions \cup {vote[t]}, seen[t]) \in RequestStatuses BY <2>1, ProjectionTyped
  <2> QED BY <2>2 DEF Typed, ReadOK, Project
<1>3. HeldOK' BY DEF Typed, HeldOK, Project
<1> QED BY <1>1, <1>2, <1>3 DEF Typed

(* the decision a thread commits *)
LEMMA CastVote ==
  ASSUME Typed, NEW t \in Threads, step[t] \in {"deciding", "projected"}
  PROVE  vote[t] \in Choices
<1>1. vote[t] \in Votes /\ vote[t].decision \in {"approve", "reject"} BY DEF Typed, VoteOK, Acting
<1> QED BY <1>1 DEF Votes, Choices

LEMMA CommitDecisionTyped ==
  ASSUME Typed, NEW t \in Threads, CommitDecision(t)
  PROVE  Typed'
<1>1. End(t) /\ kind' = kind /\ records' = records BY DEF CommitDecision
<1>2. StepOK' /\ ReadOK' /\ VoteOK' /\ HeldOK' /\ Acting' BY <1>1, EndTyped
<1>3. decisions' \subseteq Choices BY CastVote DEF Typed, BoardOK, CommitDecision
<1>4. status' \in RequestStatuses BY DEF Typed, BoardOK, ReadOK, CommitDecision
<1>5. BoardOK' BY <1>1, <1>3, <1>4 DEF Typed, BoardOK
<1> QED BY <1>2, <1>5 DEF Typed

LEMMA FailTyped ==
  ASSUME Typed, NEW t \in Threads, End(t), UNCHANGED requestVars
  PROVE  Typed'
<1>1. StepOK' /\ ReadOK' /\ VoteOK' /\ HeldOK' /\ Acting' BY EndTyped DEF requestVars
<1>2. BoardOK' BY DEF Typed, BoardOK, requestVars
<1> QED BY <1>1, <1>2 DEF Typed

LEMMA OpenAdmissionTyped ==
  ASSUME Typed, NEW t \in Threads, OpenAdmission(t)
  PROVE  Typed'
<1>1. step' = [step EXCEPT ![t] = "admitting"] /\ kind # "none" /\ kind' = kind
      /\ vote' = vote /\ held' = held /\ projected' = projected /\ seen' = [seen EXCEPT ![t] = status]
  BY DEF OpenAdmission, Goto, requestVars
<1>2. BoardOK' BY DEF Typed, BoardOK, OpenAdmission, requestVars
<1>3. StepOK' BY <1>1, StepsTyped DEF Typed, StepOK
<1>4. ReadOK' BY <1>1 DEF Typed, BoardOK, ReadOK
<1>5. VoteOK' /\ HeldOK' BY <1>1 DEF Typed, VoteOK, HeldOK
<1>6. Acting'
  <2> SUFFICES ASSUME NEW u \in Threads
               PROVE  /\ step'[u] \in {"deciding", "projected"} => vote'[u].decision \in {"approve", "reject"}
                      /\ step'[u] # "idle" => kind' # "none"
    BY DEF Acting
  <2>1. CASE u = t BY <2>1, <1>1 DEF Typed, StepOK
  <2>2. CASE u # t
    <3>1. step'[u] = step[u] BY <2>2, <1>1 DEF Typed, StepOK
    <3> QED BY <3>1, <1>1 DEF Typed, Acting
  <2> QED BY <2>1, <2>2
<1> QED BY <1>2, <1>3, <1>4, <1>5, <1>6 DEF Typed

LEMMA JudgeTyped ==
  ASSUME Typed, NEW t \in Threads, Judge(t)
  PROVE  Typed'
<1>1. BoardOK' /\ StepOK' /\ VoteOK' /\ Acting' BY MovesOn, StepsTyped DEF Judge
<1>2. ReadOK' BY DEF Typed, ReadOK, Judge
<1>3. HeldOK'
  <2>1. Approvers(decisions) \in SUBSET Identities BY ApproversTyped DEF Typed, BoardOK
  <2> QED BY <2>1 DEF Typed, HeldOK, Judge
<1> QED BY <1>1, <1>2, <1>3 DEF Typed

LEMMA MintTyped ==
  ASSUME Typed, NEW t \in Threads, Mint(t)
  PROVE  Typed'
<1> DEFINE r == [id |-> RecordId, approvers |-> held[t]]
<1>1. records \in Seq(RecordType) BY DEF Typed, BoardOK
<1>2. Len(records) \in Nat BY <1>1
<1>3. RecordId \in Nat BY <1>2 DEF RecordId
<1>4. r \in RecordType BY <1>3 DEF RecordType, Typed, HeldOK
<1>5. records' = Append(records, r) /\ status' = "admitted" /\ UNCHANGED <<kind, decisions>> /\ End(t)
  BY DEF Mint
<1> HIDE DEF r
<1>6. records' \in Seq(RecordType) BY <1>1, <1>4, <1>5
<1>7. BoardOK' BY <1>5, <1>6, StatusesTyped DEF Typed, BoardOK
<1>8. StepOK' /\ ReadOK' /\ VoteOK' /\ HeldOK' /\ Acting' BY <1>5, EndTyped
<1> QED BY <1>7, <1>8 DEF Typed

LEMMA CreateRequestTyped ==
  ASSUME Typed, CreateRequest
  PROVE  Typed'
<1>1. kind' \in RequestKinds BY BoardAssumption DEF CreateRequest, RequestKinds
<1>2. UNCHANGED <<status, decisions, records, step, seen, vote, projected, held>>
  BY DEF CreateRequest, callVars
<1>3. BoardOK' BY <1>1, <1>2 DEF Typed, BoardOK
<1>4. kind' # "none" BY <1>1 DEF RequestKinds
<1> QED BY <1>2, <1>3, <1>4 DEF Typed, StepOK, ReadOK, VoteOK, HeldOK, Acting

LEMMA NextTyped == Typed /\ [Next]_vars => Typed'
<1> SUFFICES ASSUME Typed, [Next]_vars PROVE Typed' OBVIOUS
<1>1. CASE CreateRequest BY <1>1, CreateRequestTyped
<1>2. ASSUME NEW t \in Threads, OpenDecision(t) PROVE Typed' BY <1>2, OpenDecisionTyped
<1>3. ASSUME NEW t \in Threads, Project(t) PROVE Typed' BY <1>3, ProjectTyped
<1>4. ASSUME NEW t \in Threads, CommitDecision(t) PROVE Typed' BY <1>4, CommitDecisionTyped
<1>5. ASSUME NEW t \in Threads, DecisionFails(t) \/ Deny(t) \/ MintFails(t) PROVE Typed'
  BY <1>5, FailTyped DEF DecisionFails, Deny, MintFails
<1>6. ASSUME NEW t \in Threads, OpenAdmission(t) PROVE Typed' BY <1>6, OpenAdmissionTyped
<1>7. ASSUME NEW t \in Threads, Judge(t) PROVE Typed' BY <1>7, JudgeTyped
<1>8. ASSUME NEW t \in Threads, Mint(t) PROVE Typed' BY <1>8, MintTyped
<1>9. CASE UNCHANGED vars
  BY <1>9 DEF vars, requestVars, callVars, Typed, BoardOK, StepOK, ReadOK, VoteOK, HeldOK, Acting
<1> QED BY <1>1, <1>2, <1>3, <1>4, <1>5, <1>6, <1>7, <1>8, <1>9 DEF Next, Decide, Admit

(* Every variable keeps its type, for any identities, spellings and        *)
(* threads (api/approvals.py).                                             *)
THEOREM TypeCorrect == Spec => []TypeOK
<1>1. Spec => []Typed BY InitTyped, NextTyped, PTL DEF Spec
<1> QED BY <1>1, TypedIsTypeOK, PTL

-----------------------------------------------------------------------------
(* The two-person rule.  Decisions only accumulate, so what a call saw of  *)
(* them stays true: an approved status, wherever it is remembered, stands  *)
(* on two people's approvals, with those of the call about to commit.      *)
Own(t) == decisions \cup {vote[t]}

VotesByOthers ==
  /\ \A d \in decisions : OthersOnly(d.approver, d.decision)
  /\ \A t \in Threads : OthersOnly(vote[t].approver, vote[t].decision)
ApprovedByTwo ==
  /\ status = "approved" => TwoPeople(Approvers(decisions))
  /\ \A t \in Threads :
       /\ seen[t] = "approved" => TwoPeople(Approvers(decisions))
       /\ projected[t] = "approved" => step[t] = "projected" /\ TwoPeople(Approvers(Own(t)))
Good(S) == TwoPeople(S) /\ Fold[Requester] \notin People(S)
JudgedByTwo == \A t \in Threads :
  /\ step[t] = "admitting" /\ kind = "tier4_promotion" => seen[t] = "approved"
  /\ step[t] = "judged" => Good(held[t])

TwoPersonRule == VotesByOthers /\ ApprovedByTwo /\ JudgedByTwo /\ AdmittedByTwo

LEMMA ApproversGrow ==
  ASSUME NEW D, NEW E, D \subseteq E, TwoPeople(Approvers(D))
  PROVE  TwoPeople(Approvers(E))
<1>1. Approvers(D) \subseteq Approvers(E) BY DEF Approvers
<1> QED BY <1>1 DEF TwoPeople

LEMMA NotTheRequester ==
  ASSUME VotesByOthers
  PROVE  Fold[Requester] \notin People(Approvers(decisions))
  BY DEF VotesByOthers, OthersOnly, People, Approvers

LEMMA InitByTwo == Init => TwoPersonRule
<1> SUFFICES ASSUME Init PROVE TwoPersonRule OBVIOUS
<1>1. VotesByOthers BY DEF Init, VotesByOthers, OthersOnly, NoVote
<1>2. ApprovedByTwo BY DEF Init, ApprovedByTwo
<1>3. JudgedByTwo BY DEF Init, JudgedByTwo
<1>4. AdmittedByTwo BY DEF Init, AdmittedByTwo
<1> QED BY <1>1, <1>2, <1>3, <1>4 DEF TwoPersonRule

(* a call ends, and what the others remember stays true                    *)
LEMMA EndByTwo ==
  ASSUME Typed, TwoPersonRule, NEW t \in Threads, End(t), kind' = kind, decisions \subseteq decisions',
         \A d \in decisions' : OthersOnly(d.approver, d.decision),
         status' = "approved" => TwoPeople(Approvers(decisions'))
  PROVE  VotesByOthers' /\ ApprovedByTwo' /\ JudgedByTwo'
<1>1. ASSUME NEW u \in Threads, u # t
      PROVE  /\ step'[u] = step[u] /\ seen'[u] = seen[u] /\ vote'[u] = vote[u]
             /\ projected'[u] = projected[u] /\ held'[u] = held[u]
  BY <1>1 DEF End, Goto, Typed, StepOK, ReadOK, VoteOK, HeldOK
<1>2. /\ step'[t] = "idle" /\ seen'[t] = "pending" /\ vote'[t] = NoVote /\ projected'[t] = "pending"
  BY DEF End, Goto, Typed, StepOK, ReadOK, VoteOK
<1>3. VotesByOthers'
  <2>1. ASSUME NEW u \in Threads PROVE OthersOnly(vote'[u].approver, vote'[u].decision)
    <3>1. CASE u = t BY <3>1, <1>2 DEF NoVote, OthersOnly
    <3>2. CASE u # t BY <3>2, <1>1 DEF TwoPersonRule, VotesByOthers
    <3> QED BY <3>1, <3>2
  <2> QED BY <2>1 DEF VotesByOthers, OthersOnly
<1>4. ApprovedByTwo'
  <2>1. ASSUME NEW u \in Threads
        PROVE  /\ seen'[u] = "approved" => TwoPeople(Approvers(decisions'))
               /\ projected'[u] = "approved" =>
                    step'[u] = "projected" /\ TwoPeople(Approvers(decisions' \cup {vote'[u]}))
    <3>1. CASE u = t BY <3>1, <1>2
    <3>2. CASE u # t
      <4>1. /\ seen[u] = "approved" => TwoPeople(Approvers(decisions))
            /\ projected[u] = "approved" =>
                 step[u] = "projected" /\ TwoPeople(Approvers(decisions \cup {vote[u]}))
        BY DEF TwoPersonRule, ApprovedByTwo, Own
      <4> QED BY <3>2, <4>1, <1>1, ApproversGrow
    <3> QED BY <3>1, <3>2
  <2> QED BY <2>1 DEF ApprovedByTwo, Own, TwoPeople, Approvers
<1>5. JudgedByTwo'
  <2>1. ASSUME NEW u \in Threads
        PROVE  /\ step'[u] = "admitting" /\ kind = "tier4_promotion" => seen'[u] = "approved"
               /\ step'[u] = "judged" => Good(held'[u])
    <3>1. CASE u = t BY <3>1, <1>2
    <3>2. CASE u # t BY <3>2, <1>1 DEF TwoPersonRule, JudgedByTwo
    <3> QED BY <3>1, <3>2
  <2> QED BY <2>1 DEF JudgedByTwo, Good, TwoPeople, People
<1> QED BY <1>3, <1>4, <1>5

LEMMA OpenDecisionByTwo ==
  ASSUME Typed, TwoPersonRule, NEW t \in Threads, OpenDecision(t)
  PROVE  TwoPersonRule'
<1>1. PICK a \in Identities, d \in {"approve", "reject"} :
        OthersOnly(a, d) /\ vote' = [vote EXCEPT ![t] = [approver |-> a, decision |-> d]]
  BY DEF OpenDecision, DecisionKinds
<1>2. UNCHANGED <<kind, status, decisions, records, projected, held>> /\ step[t] = "idle"
      /\ step' = [step EXCEPT ![t] = "deciding"] /\ seen' = [seen EXCEPT ![t] = status]
  BY DEF OpenDecision, Goto, requestVars
<1>3. VotesByOthers'
  <2>1. ASSUME NEW u \in Threads PROVE OthersOnly(vote'[u].approver, vote'[u].decision)
    <3>1. CASE u = t BY <3>1, <1>1 DEF Typed, VoteOK
    <3>2. CASE u # t
      <4>1. vote'[u] = vote[u] BY <3>2, <1>1 DEF Typed, VoteOK
      <4> QED BY <4>1 DEF TwoPersonRule, VotesByOthers
    <3> QED BY <3>1, <3>2
  <2> QED BY <2>1, <1>2 DEF TwoPersonRule, VotesByOthers, OthersOnly
<1>4. ApprovedByTwo'
  <2>1. ASSUME NEW u \in Threads
        PROVE  /\ seen'[u] = "approved" => TwoPeople(Approvers(decisions))
               /\ projected[u] = "approved" =>
                    step'[u] = "projected" /\ TwoPeople(Approvers(decisions \cup {vote'[u]}))
    <3>1. seen'[u] = seen[u] \/ seen'[u] = status BY <1>2 DEF Typed, ReadOK
    <3>2. seen'[u] = "approved" => TwoPeople(Approvers(decisions))
      BY <3>1 DEF TwoPersonRule, ApprovedByTwo
    <3>3. CASE u # t
      <4>1. vote'[u] = vote[u] /\ step'[u] = step[u] BY <3>3, <1>1, <1>2 DEF Typed, VoteOK, StepOK
      <4> QED BY <4>1, <3>2 DEF TwoPersonRule, ApprovedByTwo, Own
    <3>4. CASE u = t
      <4>1. projected[t] # "approved" BY <1>2 DEF TwoPersonRule, ApprovedByTwo
      <4> QED BY <3>4, <3>2, <4>1
    <3> QED BY <3>3, <3>4
  <2> QED BY <2>1, <1>2 DEF TwoPersonRule, ApprovedByTwo, Own, TwoPeople, Approvers
<1>5. JudgedByTwo'
  <2>1. ASSUME NEW u \in Threads
        PROVE  /\ step'[u] = "admitting" /\ kind = "tier4_promotion" => seen'[u] = "approved"
               /\ step'[u] = "judged" => Good(held[u])
    <3>1. CASE u = t BY <3>1, <1>2 DEF Typed, StepOK
    <3>2. CASE u # t
      <4>1. step'[u] = step[u] /\ seen'[u] = seen[u] BY <3>2, <1>2 DEF Typed, StepOK, ReadOK
      <4> QED BY <4>1 DEF TwoPersonRule, JudgedByTwo
    <3> QED BY <3>1, <3>2
  <2> QED BY <2>1, <1>2 DEF JudgedByTwo, Good, TwoPeople, People
<1>6. AdmittedByTwo' BY <1>2 DEF TwoPersonRule, AdmittedByTwo, TwoPeople, People
<1> QED BY <1>3, <1>4, <1>5, <1>6 DEF TwoPersonRule

LEMMA ProjectByTwo ==
  ASSUME Typed, TwoPersonRule, NEW t \in Threads, Project(t)
  PROVE  TwoPersonRule'
<1>1. UNCHANGED <<kind, status, decisions, records, seen, vote, held>>
      /\ step[t] = "deciding" /\ step' = [step EXCEPT ![t] = "projected"]
      /\ projected' = [projected EXCEPT ![t] = Projection(Own(t), seen[t])]
  BY DEF Project, Goto, requestVars, Own
<1>2. Projection(Own(t), seen[t]) = "approved" => TwoPeople(Approvers(Own(t)))
  <2>1. CASE seen[t] = "approved"
    <3>1. TwoPeople(Approvers(decisions)) BY <2>1 DEF TwoPersonRule, ApprovedByTwo
    <3> QED BY <3>1, ApproversGrow DEF Own
  <2>2. CASE seen[t] # "approved" BY <2>2 DEF Projection
  <2> QED BY <2>1, <2>2
<1>3. VotesByOthers' BY <1>1 DEF TwoPersonRule, VotesByOthers, OthersOnly
<1>4. ApprovedByTwo'
  <2>1. ASSUME NEW u \in Threads
        PROVE  /\ seen[u] = "approved" => TwoPeople(Approvers(decisions))
               /\ projected'[u] = "approved" => step'[u] = "projected" /\ TwoPeople(Approvers(Own(u)))
    <3>1. seen[u] = "approved" => TwoPeople(Approvers(decisions)) BY DEF TwoPersonRule, ApprovedByTwo
    <3>2. CASE u = t BY <3>1, <3>2, <1>1, <1>2 DEF Typed, StepOK, ReadOK
    <3>3. CASE u # t
      <4>1. projected'[u] = projected[u] /\ step'[u] = step[u] BY <3>3, <1>1 DEF Typed, StepOK, ReadOK
      <4> QED BY <4>1, <3>1 DEF TwoPersonRule, ApprovedByTwo
    <3> QED BY <3>2, <3>3
  <2> QED BY <2>1, <1>1, SMTT(30), ZenonT(60) DEF TwoPersonRule, ApprovedByTwo, Own, TwoPeople, Approvers
<1>5. JudgedByTwo'
  <2>1. ASSUME NEW u \in Threads
        PROVE  /\ step'[u] = "admitting" /\ kind = "tier4_promotion" => seen[u] = "approved"
               /\ step'[u] = "judged" => Good(held[u])
    BY <1>1 DEF TwoPersonRule, JudgedByTwo, Typed, StepOK
  <2> QED BY <2>1, <1>1 DEF JudgedByTwo, Good, TwoPeople, People
<1>6. AdmittedByTwo' BY <1>1 DEF TwoPersonRule, AdmittedByTwo, TwoPeople, People
<1> QED BY <1>3, <1>4, <1>5, <1>6 DEF TwoPersonRule

LEMMA CommitDecisionByTwo ==
  ASSUME Typed, TwoPersonRule, NEW t \in Threads, CommitDecision(t)
  PROVE  TwoPersonRule'
<1>1. /\ End(t) /\ kind' = kind /\ records' = records /\ decisions' = Own(t)
      /\ status' = status \/ status' = projected[t]
  BY DEF CommitDecision, Own
<1>2. \A d \in decisions' : OthersOnly(d.approver, d.decision)
  BY <1>1 DEF TwoPersonRule, VotesByOthers, Own
<1>3. status' = "approved" => TwoPeople(Approvers(decisions'))
  <2>1. status = "approved" => TwoPeople(Approvers(Own(t)))
    BY ApproversGrow DEF TwoPersonRule, ApprovedByTwo, Own
  <2>2. projected[t] = "approved" => TwoPeople(Approvers(Own(t)))
    BY DEF TwoPersonRule, ApprovedByTwo
  <2> QED BY <1>1, <2>1, <2>2
<1>4. decisions \subseteq decisions' BY <1>1 DEF Own
<1>5. VotesByOthers' /\ ApprovedByTwo' /\ JudgedByTwo' BY <1>1, <1>2, <1>3, <1>4, EndByTwo
<1>6. AdmittedByTwo' BY <1>1 DEF TwoPersonRule, AdmittedByTwo, TwoPeople, People
<1> QED BY <1>5, <1>6 DEF TwoPersonRule

LEMMA FailByTwo ==
  ASSUME Typed, TwoPersonRule, NEW t \in Threads, End(t), UNCHANGED requestVars
  PROVE  TwoPersonRule'
<1>1. UNCHANGED <<kind, status, decisions, records>> BY DEF requestVars
<1>2. \A d \in decisions' : OthersOnly(d.approver, d.decision) BY <1>1 DEF TwoPersonRule, VotesByOthers
<1>3. status' = "approved" => TwoPeople(Approvers(decisions'))
  BY <1>1 DEF TwoPersonRule, ApprovedByTwo
<1>4. VotesByOthers' /\ ApprovedByTwo' /\ JudgedByTwo' BY <1>1, <1>2, <1>3, EndByTwo
<1>5. AdmittedByTwo' BY <1>1 DEF TwoPersonRule, AdmittedByTwo, TwoPeople, People
<1> QED BY <1>4, <1>5 DEF TwoPersonRule

LEMMA OpenAdmissionByTwo ==
  ASSUME Typed, TwoPersonRule, NEW t \in Threads, OpenAdmission(t)
  PROVE  TwoPersonRule'
<1>1. /\ UNCHANGED <<kind, status, decisions, records, vote, projected, held>>
      /\ step[t] = "idle" /\ step' = [step EXCEPT ![t] = "admitting"]
      /\ seen' = [seen EXCEPT ![t] = status]
      /\ kind = "tier4_promotion" => status = "approved"
  BY DEF OpenAdmission, MayAdmit, Goto, requestVars
<1>2. VotesByOthers' BY <1>1 DEF TwoPersonRule, VotesByOthers, OthersOnly
<1>3. ApprovedByTwo'
  <2>1. ASSUME NEW u \in Threads
        PROVE  /\ seen'[u] = "approved" => TwoPeople(Approvers(decisions))
               /\ projected[u] = "approved" => step'[u] = "projected" /\ TwoPeople(Approvers(Own(u)))
    <3>1. seen'[u] = seen[u] \/ seen'[u] = status BY <1>1 DEF Typed, ReadOK
    <3>2. seen'[u] = "approved" => TwoPeople(Approvers(decisions))
      BY <3>1 DEF TwoPersonRule, ApprovedByTwo
    <3>3. projected[u] = "approved" => step[u] = "projected" /\ TwoPeople(Approvers(Own(u)))
      BY DEF TwoPersonRule, ApprovedByTwo
    <3>4. step[u] = "projected" => step'[u] = "projected" BY <1>1 DEF Typed, StepOK
    <3> QED BY <3>2, <3>3, <3>4
  <2> QED BY <2>1, <1>1 DEF TwoPersonRule, ApprovedByTwo, Own, TwoPeople, Approvers
<1>4. JudgedByTwo'
  <2>1. ASSUME NEW u \in Threads
        PROVE  /\ step'[u] = "admitting" /\ kind = "tier4_promotion" => seen'[u] = "approved"
               /\ step'[u] = "judged" => Good(held[u])
    <3>1. CASE u = t BY <3>1, <1>1 DEF Typed, StepOK, ReadOK
    <3>2. CASE u # t
      <4>1. step'[u] = step[u] /\ seen'[u] = seen[u] BY <3>2, <1>1 DEF Typed, StepOK, ReadOK
      <4> QED BY <4>1 DEF TwoPersonRule, JudgedByTwo
    <3> QED BY <3>1, <3>2
  <2> QED BY <2>1, <1>1 DEF JudgedByTwo, Good, TwoPeople, People
<1>5. AdmittedByTwo' BY <1>1 DEF TwoPersonRule, AdmittedByTwo, TwoPeople, People
<1> QED BY <1>2, <1>3, <1>4, <1>5 DEF TwoPersonRule

LEMMA JudgeByTwo ==
  ASSUME Typed, TwoPersonRule, NEW t \in Threads, Judge(t)
  PROVE  TwoPersonRule'
<1>1. /\ UNCHANGED <<kind, status, decisions, records, seen, vote, projected>>
      /\ step[t] = "admitting" /\ step' = [step EXCEPT ![t] = "judged"]
      /\ held' = [held EXCEPT ![t] = Approvers(decisions)]
      /\ Admissible(Approvers(decisions))
  BY DEF Judge, Goto, requestVars
<1>2. Good(Approvers(decisions))
  <2>1. kind = "tier4_promotion" => TwoPeople(Approvers(decisions))
    BY <1>1 DEF TwoPersonRule, ApprovedByTwo, JudgedByTwo
  <2>2. kind # "tier4_promotion" => TwoPeople(Approvers(decisions))
    BY <1>1 DEF Admissible, TwoPersonApproval, TwoPeople
  <2> QED BY <2>1, <2>2, NotTheRequester DEF Good, TwoPersonRule
<1>3. VotesByOthers' BY <1>1 DEF TwoPersonRule, VotesByOthers, OthersOnly
<1>4. ApprovedByTwo'
  <2>1. ASSUME NEW u \in Threads
        PROVE  /\ seen[u] = "approved" => TwoPeople(Approvers(decisions))
               /\ projected[u] = "approved" => step'[u] = "projected" /\ TwoPeople(Approvers(Own(u)))
    BY <1>1 DEF TwoPersonRule, ApprovedByTwo, Typed, StepOK
  <2> QED BY <2>1, <1>1 DEF TwoPersonRule, ApprovedByTwo, Own, TwoPeople, Approvers
<1>5. JudgedByTwo'
  <2>1. ASSUME NEW u \in Threads
        PROVE  /\ step'[u] = "admitting" /\ kind = "tier4_promotion" => seen[u] = "approved"
               /\ step'[u] = "judged" => Good(held'[u])
    <3>1. CASE u = t BY <3>1, <1>1, <1>2 DEF Typed, StepOK, HeldOK
    <3>2. CASE u # t
      <4>1. step'[u] = step[u] /\ held'[u] = held[u] BY <3>2, <1>1 DEF Typed, StepOK, HeldOK
      <4> QED BY <4>1 DEF TwoPersonRule, JudgedByTwo
    <3> QED BY <3>1, <3>2
  <2> QED BY <2>1, <1>1 DEF JudgedByTwo, Good, TwoPeople, People
<1>6. AdmittedByTwo' BY <1>1 DEF TwoPersonRule, AdmittedByTwo, TwoPeople, People
<1> QED BY <1>3, <1>4, <1>5, <1>6 DEF TwoPersonRule

LEMMA MintByTwo ==
  ASSUME Typed, TwoPersonRule, NEW t \in Threads, Mint(t)
  PROVE  TwoPersonRule'
<1> DEFINE r == [id |-> RecordId, approvers |-> held[t]]
<1>1. /\ End(t) /\ kind' = kind /\ decisions' = decisions /\ status' = "admitted"
      /\ step[t] = "judged" /\ records' = Append(records, r)
  BY DEF Mint
<1>2. r.approvers = held[t] /\ Good(r.approvers) BY <1>1 DEF TwoPersonRule, JudgedByTwo
<1> HIDE DEF r
<1>3. records \in Seq(RecordType) BY DEF Typed, BoardOK
<1>4. AdmittedByTwo'
  <2> SUFFICES ASSUME NEW n \in 1..Len(records') PROVE Good(records'[n].approvers)
    BY DEF AdmittedByTwo, Good, TwoPeople, People
  <2>1. CASE n = Len(records) + 1
    <3>1. records'[n] = r BY <2>1, <1>1, <1>3
    <3> QED BY <3>1, <1>2
  <2>2. CASE n # Len(records) + 1
    <3>1. n \in 1..Len(records) /\ records'[n] = records[n] BY <2>2, <1>1, <1>3
    <3> QED BY <3>1 DEF TwoPersonRule, AdmittedByTwo, Good
  <2> QED BY <2>1, <2>2
<1>5. \A d \in decisions' : OthersOnly(d.approver, d.decision) BY <1>1 DEF TwoPersonRule, VotesByOthers
<1>6. VotesByOthers' /\ ApprovedByTwo' /\ JudgedByTwo' BY <1>1, <1>5, EndByTwo
<1> QED BY <1>4, <1>6 DEF TwoPersonRule

LEMMA CreateRequestByTwo ==
  ASSUME Typed, TwoPersonRule, CreateRequest
  PROVE  TwoPersonRule'
<1>1. UNCHANGED <<status, decisions, records, step, seen, vote, projected, held>> /\ kind = "none"
  BY DEF CreateRequest, callVars
<1>2. \A t \in Threads : step[t] = "idle" BY <1>1 DEF Typed, Acting
<1>3. VotesByOthers' BY <1>1 DEF TwoPersonRule, VotesByOthers, OthersOnly
<1>4. ApprovedByTwo' BY <1>1 DEF TwoPersonRule, ApprovedByTwo, Own, TwoPeople, Approvers
<1>5. JudgedByTwo' BY <1>1, <1>2 DEF JudgedByTwo
<1>6. AdmittedByTwo' BY <1>1 DEF TwoPersonRule, AdmittedByTwo, TwoPeople, People
<1> QED BY <1>3, <1>4, <1>5, <1>6 DEF TwoPersonRule

LEMMA NextByTwo == Typed /\ TwoPersonRule /\ [Next]_vars => TwoPersonRule'
<1> SUFFICES ASSUME Typed, TwoPersonRule, [Next]_vars PROVE TwoPersonRule' OBVIOUS
<1>1. CASE CreateRequest BY <1>1, CreateRequestByTwo
<1>2. ASSUME NEW t \in Threads, OpenDecision(t) PROVE TwoPersonRule' BY <1>2, OpenDecisionByTwo
<1>3. ASSUME NEW t \in Threads, Project(t) PROVE TwoPersonRule' BY <1>3, ProjectByTwo
<1>4. ASSUME NEW t \in Threads, CommitDecision(t) PROVE TwoPersonRule' BY <1>4, CommitDecisionByTwo
<1>5. ASSUME NEW t \in Threads, DecisionFails(t) \/ Deny(t) \/ MintFails(t) PROVE TwoPersonRule'
  BY <1>5, FailByTwo DEF DecisionFails, Deny, MintFails
<1>6. ASSUME NEW t \in Threads, OpenAdmission(t) PROVE TwoPersonRule' BY <1>6, OpenAdmissionByTwo
<1>7. ASSUME NEW t \in Threads, Judge(t) PROVE TwoPersonRule' BY <1>7, JudgeByTwo
<1>8. ASSUME NEW t \in Threads, Mint(t) PROVE TwoPersonRule' BY <1>8, MintByTwo
<1>9. CASE UNCHANGED vars
  BY <1>9 DEF vars, requestVars, callVars, TwoPersonRule, VotesByOthers, ApprovedByTwo, JudgedByTwo,
              AdmittedByTwo, Own, Good, OthersOnly, TwoPeople, People, Approvers
<1> QED BY <1>1, <1>2, <1>3, <1>4, <1>5, <1>6, <1>7, <1>8, <1>9 DEF Next, Decide, Admit

(* Every signed record names two people, none of them the requester,       *)
(* however many calls overlap (api/approvals.py:520-553).                  *)
THEOREM TwoPersonCorrect == Spec => []AdmittedByTwo
<1>1. Spec => [](Typed /\ TwoPersonRule)
  BY InitTyped, InitByTwo, NextTyped, NextByTwo, PTL DEF Spec
<1>2. TwoPersonRule => AdmittedByTwo BY DEF TwoPersonRule
<1> QED BY <1>1, <1>2, PTL

-----------------------------------------------------------------------------
(* The status.  No call remembers a closed one, so a rejection that a call *)
(* is about to write stands on a vote that is recorded with it at latest.  *)
Rejects(D) == \E d \in D : d.decision = "reject"

RejectionsRecorded ==
  /\ status = "rejected" => Rejects(decisions)
  /\ \A t \in Threads :
       /\ seen[t] \notin Closed /\ projected[t] # "admitted"
       /\ projected[t] = "rejected" => step[t] = "projected" /\ Rejects(Own(t))
AdmissionsRecorded == status = "admitted" => records # <<>>

Recorded == RejectionsRecorded /\ AdmissionsRecorded

(* a call ends, and what the others remember stays true                    *)
LEMMA EndRecorded ==
  ASSUME Typed, Recorded, NEW t \in Threads, End(t), decisions \subseteq decisions',
         status' = "rejected" => Rejects(decisions')
  PROVE  RejectionsRecorded'
<1>1. ASSUME NEW u \in Threads
      PROVE  /\ seen'[u] \notin Closed /\ projected'[u] # "admitted"
             /\ projected'[u] = "rejected" => step'[u] = "projected" /\ Rejects(decisions' \cup {vote'[u]})
  <2>1. CASE u = t
    <3>1. seen'[t] = "pending" /\ projected'[t] = "pending" BY DEF End, Typed, ReadOK
    <3> QED BY <2>1, <3>1 DEF Closed
  <2>2. CASE u # t
    <3>1. step'[u] = step[u] /\ seen'[u] = seen[u] /\ vote'[u] = vote[u] /\ projected'[u] = projected[u]
      BY <2>2 DEF End, Goto, Typed, StepOK, ReadOK, VoteOK
    <3>2. /\ seen[u] \notin Closed /\ projected[u] # "admitted"
          /\ projected[u] = "rejected" => step[u] = "projected" /\ Rejects(decisions \cup {vote[u]})
      BY DEF Recorded, RejectionsRecorded, Own
    <3> QED BY <3>1, <3>2 DEF Rejects
  <2> QED BY <2>1, <2>2
<1> QED BY <1>1 DEF RejectionsRecorded, Rejects, Own

LEMMA OpenRecorded ==
  ASSUME Typed, Recorded, NEW t \in Threads, OpenDecision(t) \/ OpenAdmission(t)
  PROVE  Recorded'
<1>1. /\ UNCHANGED <<status, decisions, records, projected>> /\ step[t] = "idle" /\ status \notin Closed
      /\ seen' = [seen EXCEPT ![t] = status]
      /\ \A u \in Threads : u # t => vote'[u] = vote[u] /\ step'[u] = step[u]
  BY DEF OpenDecision, OpenAdmission, MayAdmit, Goto, requestVars, Typed, StepOK, VoteOK
<1>2. ASSUME NEW u \in Threads
      PROVE  /\ seen'[u] \notin Closed /\ projected[u] # "admitted"
             /\ projected[u] = "rejected" => step'[u] = "projected" /\ Rejects(decisions \cup {vote'[u]})
  <2>1. /\ seen[u] \notin Closed /\ projected[u] # "admitted"
        /\ projected[u] = "rejected" => step[u] = "projected" /\ Rejects(decisions \cup {vote[u]})
    BY DEF Recorded, RejectionsRecorded, Own
  <2>2. seen'[u] = IF u = t THEN status ELSE seen[u] BY <1>1 DEF Typed, ReadOK
  <2> QED BY <1>1, <2>1, <2>2
<1>3. RejectionsRecorded' BY <1>1, <1>2 DEF Recorded, RejectionsRecorded, Rejects, Own
<1> QED BY <1>1, <1>3 DEF Recorded, AdmissionsRecorded

LEMMA ProjectRecorded ==
  ASSUME Typed, Recorded, NEW t \in Threads, Project(t)
  PROVE  Recorded'
<1>1. /\ UNCHANGED <<status, decisions, records, seen, vote>>
      /\ step' = [step EXCEPT ![t] = "projected"]
      /\ projected' = [projected EXCEPT ![t] = Projection(Own(t), seen[t])]
  BY DEF Project, Goto, requestVars, Own
<1>2. seen[t] \notin {"rejected", "admitted"} BY DEF Recorded, RejectionsRecorded, Closed
<1>3. /\ Projection(Own(t), seen[t]) # "admitted"
      /\ Projection(Own(t), seen[t]) = "rejected" => Rejects(Own(t))
  BY <1>2 DEF Projection, Rejects
<1>4. ASSUME NEW u \in Threads
      PROVE  /\ projected'[u] # "admitted"
             /\ projected'[u] = "rejected" => step'[u] = "projected" /\ Rejects(Own(u))
  <2>1. CASE u = t BY <2>1, <1>1, <1>3 DEF Typed, StepOK, ReadOK
  <2>2. CASE u # t
    <3>1. projected'[u] = projected[u] /\ step'[u] = step[u] BY <2>2, <1>1 DEF Typed, StepOK, ReadOK
    <3> QED BY <3>1 DEF Recorded, RejectionsRecorded
  <2> QED BY <2>1, <2>2
<1>5. RejectionsRecorded' BY <1>1, <1>4 DEF Recorded, RejectionsRecorded, Rejects, Own
<1> QED BY <1>1, <1>5 DEF Recorded, AdmissionsRecorded

LEMMA CommitRecorded ==
  ASSUME Typed, Recorded, NEW t \in Threads, CommitDecision(t)
  PROVE  Recorded'
<1>1. /\ End(t) /\ records' = records /\ decisions' = Own(t)
      /\ status' = status \/ status' = projected[t]
  BY DEF CommitDecision, Own
<1>2. status' = "rejected" => Rejects(decisions')
  <2>1. status = "rejected" => Rejects(Own(t))
    BY DEF Recorded, RejectionsRecorded, Rejects, Own
  <2>2. projected[t] = "rejected" => Rejects(Own(t)) BY DEF Recorded, RejectionsRecorded
  <2> QED BY <1>1, <2>1, <2>2
<1>3. RejectionsRecorded' BY <1>1, <1>2, EndRecorded DEF Own
<1>4. AdmissionsRecorded' BY <1>1 DEF Recorded, RejectionsRecorded, AdmissionsRecorded
<1> QED BY <1>3, <1>4 DEF Recorded

LEMMA MintRecorded ==
  ASSUME Typed, Recorded, NEW t \in Threads, Mint(t)
  PROVE  Recorded'
<1> DEFINE r == [id |-> RecordId, approvers |-> held[t]]
<1>1. End(t) /\ decisions' = decisions /\ status' = "admitted" /\ records' = Append(records, r)
  BY DEF Mint
<1> HIDE DEF r
<1>2. records' # <<>>
  <2>1. records \in Seq(RecordType) BY DEF Typed, BoardOK
  <2>2. Len(records') = Len(records) + 1 /\ Len(records) \in Nat BY <2>1, <1>1
  <2> QED BY <2>2
<1>3. RejectionsRecorded' BY <1>1, EndRecorded
<1> QED BY <1>2, <1>3 DEF Recorded, AdmissionsRecorded

LEMMA NextRecorded == Typed /\ Recorded /\ [Next]_vars => Recorded'
<1> SUFFICES ASSUME Typed, Recorded, [Next]_vars PROVE Recorded' OBVIOUS
<1>1. CASE CreateRequest
  BY <1>1 DEF CreateRequest, callVars, Recorded, RejectionsRecorded, AdmissionsRecorded, Rejects, Own
<1>2. ASSUME NEW t \in Threads, OpenDecision(t) \/ OpenAdmission(t) PROVE Recorded' BY <1>2, OpenRecorded
<1>3. ASSUME NEW t \in Threads, Project(t) PROVE Recorded' BY <1>3, ProjectRecorded
<1>4. ASSUME NEW t \in Threads, CommitDecision(t) PROVE Recorded' BY <1>4, CommitRecorded
<1>5. ASSUME NEW t \in Threads, DecisionFails(t) \/ Deny(t) \/ MintFails(t) PROVE Recorded'
  <2>1. End(t) /\ UNCHANGED <<status, decisions, records>>
    BY <1>5 DEF DecisionFails, Deny, MintFails, requestVars
  <2>2. status' = "rejected" => Rejects(decisions') BY <2>1 DEF Recorded, RejectionsRecorded
  <2>3. RejectionsRecorded' BY <2>1, <2>2, EndRecorded
  <2> QED BY <2>1, <2>3 DEF Recorded, AdmissionsRecorded
<1>6. ASSUME NEW t \in Threads, Judge(t) PROVE Recorded'
  <2>1. UNCHANGED <<status, decisions, records, seen, vote, projected>> /\ step[t] = "admitting"
        /\ step' = [step EXCEPT ![t] = "judged"]
    BY <1>6 DEF Judge, Goto, requestVars
  <2>2. \A u \in Threads : step[u] = "projected" => step'[u] = "projected" BY <2>1 DEF Typed, StepOK
  <2> QED BY <2>1, <2>2 DEF Recorded, RejectionsRecorded, AdmissionsRecorded, Rejects, Own
<1>7. ASSUME NEW t \in Threads, Mint(t) PROVE Recorded' BY <1>7, MintRecorded
<1>8. CASE UNCHANGED vars
  BY <1>8 DEF vars, requestVars, callVars, Recorded, RejectionsRecorded, AdmissionsRecorded, Rejects, Own
<1> QED BY <1>1, <1>2, <1>3, <1>4, <1>5, <1>6, <1>7, <1>8 DEF Next, Decide, Admit

(* The status is a projection of the decisions beneath it and of the       *)
(* records, although a call may write one it projected before another call *)
(* committed (api/approvals.py, decide).                                     *)
THEOREM StatusCorrect == Spec => []StatusEarned
<1>1. Init => Recorded
  BY DEF Init, Recorded, RejectionsRecorded, AdmissionsRecorded, Closed
<1>2. TwoPersonRule /\ Recorded => StatusEarned
  BY DEF TwoPersonRule, ApprovedByTwo, Recorded, RejectionsRecorded, AdmissionsRecorded, Rejects, StatusEarned
<1> QED BY <1>1, <1>2, InitTyped, InitByTwo, NextTyped, NextByTwo, NextRecorded, PTL DEF Spec

-----------------------------------------------------------------------------
(* One decision per identity: the unique constraint is what holds when the *)
(* duplicate check of two overlapping calls finds nothing                  *)
(* (db/models/approvals.py:131).                                           *)
THEOREM OneDecisionCorrect == Spec => []OneDecisionEach
<1>1. Init => OneDecisionEach BY DEF Init, OneDecisionEach
<1>2. OneDecisionEach /\ [Next]_vars => OneDecisionEach'
  <2> SUFFICES ASSUME OneDecisionEach, [Next]_vars PROVE OneDecisionEach' OBVIOUS
  <2>1. ASSUME NEW t \in Threads, CommitDecision(t) PROVE OneDecisionEach'
    <3>1. decisions' = decisions \cup {vote[t]} /\ \A d \in decisions : d.approver # vote[t].approver
      BY <2>1 DEF CommitDecision, Undecided
    <3> QED BY <3>1 DEF OneDecisionEach
  <2>2. CASE decisions' = decisions BY <2>2 DEF OneDecisionEach
  <2>3. decisions' = decisions \/ \E t \in Threads : CommitDecision(t)
    BY DEF Next, Decide, Admit, CreateRequest, OpenDecision, Project, DecisionFails, OpenAdmission,
           Judge, Deny, Mint, MintFails, vars, requestVars
  <2> QED BY <2>1, <2>2, <2>3
<1> QED BY <1>1, <1>2, PTL DEF Spec

(* A privileged admission has one record, however many admissions overlap  *)
(* and although a late decision may reopen it (plugins/privileged.py:143). *)
OneRecordId == (kind = "none" => records = <<>>)
               /\ (kind = "privileged_admission" => records = <<>> \/ Minted(0))

THEOREM PrivilegedOnceCorrect == Spec => []PrivilegedOnce
<1> DEFINE I == PrivilegedOnce /\ OneRecordId
<1>1. Init => I BY DEF Init, PrivilegedOnce, OneRecordId
<1>2. Typed /\ I /\ [Next]_vars => I'
  <2> SUFFICES ASSUME Typed, I, [Next]_vars PROVE I' OBVIOUS
  <2>1. CASE CreateRequest
    <3>1. kind' \in Kinds /\ records' = <<>> BY <2>1 DEF CreateRequest, OneRecordId
    <3>2. kind' # "none" BY <3>1, BoardAssumption
    <3> QED BY <3>1, <3>2 DEF PrivilegedOnce, OneRecordId
  <2>2. ASSUME NEW t \in Threads, Mint(t) PROVE I'
    <3> DEFINE r == [id |-> RecordId, approvers |-> held[t]]
    <3>1. records' = Append(records, r) /\ kind' = kind /\ ~Minted(RecordId) /\ step[t] = "judged"
      BY <2>2 DEF Mint
    <3>2. kind # "none" BY <3>1 DEF Typed, Acting
    <3>3. records \in Seq(RecordType) BY DEF Typed, BoardOK
    <3>4. CASE kind = "privileged_admission"
      <4>1. RecordId = 0 /\ r.id = 0 BY <3>4 DEF RecordId
      <4> HIDE DEF r
      <4>2. records = <<>> BY <4>1, <3>1, <3>4 DEF OneRecordId
      <4>3. records' = <<r>> BY <4>2, <3>1
      <4> QED BY <4>1, <4>3, <3>1, <3>2 DEF PrivilegedOnce, OneRecordId, Minted
    <3>5. CASE kind # "privileged_admission"
      BY <3>1, <3>2, <3>5 DEF PrivilegedOnce, OneRecordId
    <3> QED BY <3>4, <3>5
  <2>3. CASE UNCHANGED <<kind, records>> BY <2>3 DEF PrivilegedOnce, OneRecordId, Minted
  <2>4. CreateRequest \/ (\E t \in Threads : Mint(t)) \/ UNCHANGED <<kind, records>>
    BY DEF Next, Decide, Admit, OpenDecision, Project, CommitDecision, DecisionFails, OpenAdmission,
           Judge, Deny, MintFails, vars, requestVars
  <2> QED BY <2>1, <2>2, <2>3, <2>4
<1>3. Spec => [](Typed /\ I)
  <2> HIDE DEF I
  <2> QED BY <1>1, <1>2, InitTyped, NextTyped, PTL DEF Spec
<1>4. I => PrivilegedOnce OBVIOUS
<1> HIDE DEF I
<1> QED BY <1>3, <1>4, PTL

(* Decisions and privileged admissions are counted once, by the two        *)
(* theorems before.                                                        *)
THEOREM CountedOnceCorrect == Spec => []CountedOnce
<1>1. OneDecisionEach /\ PrivilegedOnce => CountedOnce BY DEF CountedOnce
<1> QED BY <1>1, OneDecisionCorrect, PrivilegedOnceCorrect, PTL

=============================================================================
