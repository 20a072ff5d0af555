--------------------------- MODULE CompensationPlans ---------------------------
(***************************************************************************)
(* Signed compensation plans from the spec's section to the canary gate    *)
(* (campaign/compensation.py): built from the resolved artifacts, signed   *)
(* over their canonical bytes, stored under the address of an envelope,    *)
(* loaded and verified, walked on a rollback and asked for by the gate;    *)
(* and the rows the approval service keeps of them (api/approvals.py).     *)
(* A content address is the content, a signature the body it was made of.  *)
(***************************************************************************)
EXTENDS Integers, Sequences, FiniteSets

CONSTANTS
  PlanSections,     (* sections of a spec: sequences of [artifactType, action] *)
  ArtifactSets,     (* candidates: functions from artifact types to digests *)
  PlanDrafts,       (* what a client posts: sequences of [artifact, action, mode, executed] *)
  PlanIds,          (* the ids callers choose *)
  MaxBuilt,         (* bounds of the model *)
  MaxWalks,
  MaxHandled

VARIABLES
  gatePlan,         (* the plan the gate enforces, NoPlan before there is one *)
  signedBodies,     (* what was signed *)
  planStore,        (* address -> the bytes found there *)
  evidenceLog,      (* what the execution sink holds *)
  ranActions,       (* [plan, index] of every compensation that ran *)
  approvedPlans,    (* bodies on which the gate opened *)
  planRows,         (* rows of the approval service *)
  planMoves         (* plans built, walks, and other handling: bounds of the model *)

planVars == <<gatePlan, signedBodies, planStore, evidenceLog, ranActions, approvedPlans, planRows, planMoves>>

CasKinds == {"restore_prior_release_pointer", "revoke_artifact", "restore_scaffold_source"}
ExecutedKinds == {"run_compensation_hook", "rerun_conformance_suite"}
ActionKinds == CasKinds \cup ExecutedKinds
Modes == {"cas", "requires_execution"}
NoPlan == [body |-> "none"]

PlansInit ==
  /\ gatePlan = NoPlan /\ signedBodies = {} /\ planStore = <<>> /\ evidenceLog = {}
  /\ ranActions = {} /\ approvedPlans = {} /\ planRows = <<>> /\ planMoves = [built |-> 0, walked |-> 0, handled |-> 0]

-----------------------------------------------------------------------------
(* Building and signing                                                    *)

(* A name this runtime does not know may touch the outside: it is executed *)
ClassifiedWhenKnown(action) == IF action \in ExecutedKinds THEN "requires_execution" ELSE "cas"
ClassificationFor(action) ==
  IF action \in ActionKinds /\ action \in CasKinds THEN "cas" ELSE "requires_execution"

Buildable(section, resolved) == \A i \in DOMAIN section : section[i].artifactType \in DOMAIN resolved
ActionsFromSpec(section, resolved) ==
  [i \in DOMAIN section |->
     [artifact |-> resolved[section[i].artifactType], action |-> section[i].action,
      mode |-> ClassificationFor(section[i].action), executed |-> FALSE]]

(* validate_compensation_actions: the shape only, the mode is the caller's *)
Wanting == ""
WellShaped(actions) == \A i \in DOMAIN actions : actions[i].artifact # Wanting /\ actions[i].mode \in Modes

(* the bytes digest and signature cover: the plan as it is declared *)
PlanBody(id, actions) == [id |-> id, actions |-> actions]
SignedPlan(id, actions) ==
  LET body == PlanBody(id, actions) IN [body |-> body, digest |-> body, signature |-> body]
PlanTrusted(plan) == TRUE
PlanVerified(plan) == plan.digest = plan.body /\ plan.signature = plan.body

SignPlan ==
  /\ planMoves.built < MaxBuilt /\ planMoves' = [planMoves EXCEPT !.built = @ + 1]
  /\ \E section \in PlanSections, resolved \in ArtifactSets, id \in PlanIds :
       /\ Buildable(section, resolved)
       /\ LET actions == ActionsFromSpec(section, resolved) IN
          /\ WellShaped(actions)
          /\ gatePlan' = SignedPlan(id, actions)
          /\ signedBodies' = signedBodies \cup {gatePlan'.body}
  /\ UNCHANGED <<planStore, evidenceLog, ranActions, approvedPlans, planRows>>

Handled == planMoves.handled < MaxHandled /\ planMoves' = [planMoves EXCEPT !.handled = @ + 1]

(* The actions of a plan are dicts: whoever holds it may set their flag *)
MarkInPlace ==
  /\ Handled
  /\ gatePlan # NoPlan
  /\ \E i \in DOMAIN gatePlan.body.actions : gatePlan' = [gatePlan EXCEPT !.body.actions[i].executed = TRUE]
  /\ UNCHANGED <<signedBodies, planStore, evidenceLog, ranActions, approvedPlans, planRows>>

-----------------------------------------------------------------------------
(* The store of envelopes                                                  *)

TornPlan == [body |-> "torn"]
SavePlan ==
  /\ Handled
  /\ gatePlan # NoPlan
  /\ planStore' = [address \in DOMAIN planStore \cup {gatePlan} |->
                     IF address = gatePlan THEN gatePlan ELSE planStore[address]]
  /\ UNCHANGED <<gatePlan, signedBodies, evidenceLog, ranActions, approvedPlans, planRows>>

(* Bytes at rest are damaged, or another envelope lands on the address *)
DamagePlan ==
  /\ Handled
  /\ \E address \in DOMAIN planStore, bytes \in {TornPlan} \cup DOMAIN planStore :
       bytes # planStore[address] /\ planStore' = [planStore EXCEPT ![address] = bytes]
  /\ UNCHANGED <<gatePlan, signedBodies, evidenceLog, ranActions, approvedPlans, planRows>>

(* The address first, then the shape, then digest and signature *)
LoadsPlan(address) ==
  /\ planStore[address] = address
  /\ planStore[address] # TornPlan
  /\ PlanVerified(planStore[address])
LoadPlan ==
  /\ \E address \in DOMAIN planStore : LoadsPlan(address) /\ gatePlan' = planStore[address]
  /\ UNCHANGED <<signedBodies, planStore, evidenceLog, ranActions, approvedPlans, planRows, planMoves>>

-----------------------------------------------------------------------------
(* The walk and the gate                                                   *)

Needed(plan) == {i \in DOMAIN plan.body.actions : plan.body.actions[i].mode # "cas"}
(* CompensationExecutionRecord: the plan and the position, in its order, of what ran *)
ExecutionRecord(plan, i) == [plan |-> plan.body.id, index |-> i]
RecordsOf(plan) == {ExecutionRecord(plan, i) : i \in Needed(plan)}

(* execute_rollback_compensations: in declared order; the records are kept *)
(* once the whole walk is through, and a failure loses those it made       *)
LoggedAsDeclared(plan, failsAt) == RecordsOf(plan)
KeptOf(plan, failsAt) == IF failsAt \in Needed(plan) THEN {} ELSE RecordsOf(plan)
WalkPlan ==
  /\ gatePlan # NoPlan
  /\ planMoves.walked < MaxWalks /\ planMoves' = [planMoves EXCEPT !.walked = @ + 1]
  /\ \E failsAt \in {0} \cup Needed(gatePlan) :
       /\ ranActions' = ranActions \cup
            {ExecutionRecord(gatePlan, i) : i \in {j \in Needed(gatePlan) : failsAt = 0 \/ j < failsAt}}
       /\ evidenceLog' = evidenceLog \cup KeptOf(gatePlan, failsAt)
  /\ UNCHANGED <<gatePlan, signedBodies, planStore, approvedPlans, planRows>>

(* assert_promotion_allowed: by the plan's id and the action's position *)
Evidenced(plan, i) == ExecutionRecord(plan, i) \in evidenceLog
ApproveCanary ==
  /\ gatePlan # NoPlan
  /\ PlanVerified(gatePlan)
  /\ \A i \in Needed(gatePlan) : Evidenced(gatePlan, i)
  /\ approvedPlans' = approvedPlans \cup {gatePlan.body}
  /\ UNCHANGED <<gatePlan, signedBodies, planStore, evidenceLog, ranActions, planRows, planMoves>>

-----------------------------------------------------------------------------
(* The approval service's rows: recorded and read, and no gate reads them  *)
RecordPlanRow ==
  /\ planMoves.built < MaxBuilt /\ planMoves' = [planMoves EXCEPT !.built = @ + 1]
  /\ \E draft \in PlanDrafts :
       /\ WellShaped(draft)
       /\ planRows' = Append(planRows, SignedPlan(Len(planRows) + 1, draft))
  /\ UNCHANGED <<gatePlan, signedBodies, planStore, evidenceLog, ranActions, approvedPlans>>

(* a row is the plan as it was signed: its id, its actions, digest and signature *)
IsPlanRow(row) ==
  /\ DOMAIN row = {"body", "digest", "signature"}
  /\ row.body.id \in Nat \ {0} /\ WellShaped(row.body.actions)
PlanRowOf(id) == {k \in DOMAIN planRows : planRows[k].body.id = id}

PlansNext ==
  SignPlan \/ MarkInPlace \/ SavePlan \/ DamagePlan \/ LoadPlan \/ WalkPlan \/ ApproveCanary \/ RecordPlanRow

-----------------------------------------------------------------------------
PlansTypes ==
  /\ ranActions \subseteq [plan : PlanIds, index : Nat \ {0}]
  /\ evidenceLog \subseteq [plan : PlanIds, index : Nat \ {0}]
  /\ \A k \in DOMAIN planRows : IsPlanRow(planRows[k])
  /\ planMoves \in [built : 0..MaxBuilt, walked : 0..MaxWalks, handled : 0..MaxHandled]

(* The gate opens on a plan exactly as it was signed, and only once every   *)
(* compensation that is not a compare-and-swap ran under the plan's id,     *)
(* the ones the runtime cannot name included: through saves, damage, loads, *)
(* flags set in place, and walks that failed (assert_promotion_allowed)     *)
GateOpensOnEvidence ==
  \A body \in approvedPlans :
    /\ body \in signedBodies
    /\ \A i \in DOMAIN body.actions :
         body.actions[i].action \notin CasKinds => [plan |-> body.id, index |-> i] \in ranActions

(* What is signed for a client stays whole, one row to an id               *)
(* (record_compensation_plan, get_compensation_plan)                       *)
RowsAreWhole == \A k \in DOMAIN planRows : PlanVerified(planRows[k]) /\ PlanRowOf(planRows[k].body.id) = {k}

PlansAreEvidenced == GateOpensOnEvidence /\ RowsAreWhole

=============================================================================
