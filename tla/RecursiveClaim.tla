----------------------------- MODULE RecursiveClaim -----------------------------
(***************************************************************************)
(* The claim "recursive improvement" (selection/recursive_evidence.py,     *)
(* selection/recursive_gate.py, api/claims.py, tenancy/).  A request       *)
(* states nine fields of evidence; the gate judges them, and the label is  *)
(* issued or refused under the tenant's policy.  A refusal is two commits, *)
(* one to the ledger of the tenancy boundary and one to the claim          *)
(* decisions, and the server may stop between them.                        *)
(*                                                                         *)
(* The fields are the caller's: the service looks up no experiment.  A     *)
(* caller may have assembled them from the paired results of two           *)
(* generations (Evidence), or have made them up (Submissions).             *)
(*                                                                         *)
(* A comparison is its observed delta, its p-value in percent, and whether *)
(* its whole interval is above parity.  The digests of campaign and        *)
(* releases that a request may carry are stored and not read.              *)
(***************************************************************************)
EXTENDS Integers, Sequences, FiniteSets

CONSTANTS
  Comparisons,      (* [delta, p, above] *)
  Minimums,         (* minimum effects to assemble evidence with, NoNumber among them *)
  Submissions,      (* evidence that callers state themselves *)
  NoNumber,         (* None, a NaN or an infinity *)
  Alpha,            (* in percent *)
  MaxClaims         (* bound of the model *)

(* ClaimEvidenceRequest: any truth values and any numbers *)
Evidences == [successive : BOOLEAN, budget : BOOLEAN, inheritance : BOOLEAN, oneShotAdvantage : BOOLEAN,
              noInheritanceArm : BOOLEAN, editorArm : BOOLEAN, editorAdvantage : Int \cup {NoNumber},
              editorMinimum : Int \cup {NoNumber}, editorSignificant : BOOLEAN]

ASSUME ClaimAssumption ==
  /\ Comparisons \subseteq [delta : Int, p : 0..100, above : BOOLEAN]
  /\ Minimums \subseteq Int \cup {NoNumber} /\ NoNumber \notin Int
  /\ Submissions \subseteq Evidences
  /\ Alpha \in 0..100 /\ MaxClaims \in Nat

VARIABLES
  policy,           (* the tenant's document in the running process, or Unmapped *)
  boundaryRows,     (* recursive_label refusals on the tenancy ledger *)
  claimDecisions,   (* recursive_claim_decisions, in the order of their commits *)
  claiming          (* the request being served, or NoClaim *)

claimVars == <<policy, boundaryRows, claimDecisions, claiming>>

Unmapped == [environment |-> "production", enabled |-> FALSE]
Absent == [delta |-> 0, p |-> 101, above |-> FALSE]
NoClaim == <<>>

(* TenantPolicyDocument: production never enables the claim *)
Policies == {d \in [environment : {"research", "production"}, enabled : BOOLEAN] :
              d.environment = "production" => ~d.enabled}

(* What two generations produced: the promotions, which release generation *)
(* 2 started from, which experiments ran under one matched budget (shared: *)
(* both, and the same), generation 2's strategy, one-shot and fixed-editor *)
(* arms against the incumbent, the strategy against both control arms      *)
(* (Absent: no such arm), and the minimum effect the caller pins           *)
Generations ==
  [promotions : {"none", "first", "both", "same"}, fromFirst : BOOLEAN, matched : {"none", "second", "shared"},
   strategy : Comparisons, oneShot : Comparisons \cup {Absent}, versusOneShot : Comparisons,
   editor : Comparisons, versusEditor : Comparisons \cup {Absent}, minimum : Minimums]

ClaimInit ==
  /\ policy \in Policies \cup {Unmapped}
  /\ boundaryRows = 0 /\ claimDecisions = <<>> /\ claiming = NoClaim

-----------------------------------------------------------------------------
(* _holm_significance: the strategy's comparison with the fixed editor     *)
(* takes the place of its comparison with the incumbent in the family      *)
HolmFamily(g) == <<g.versusEditor.p, g.editor.p>> \o (IF g.oneShot = Absent THEN <<>> ELSE <<g.oneShot.p>>)

(* holm_adjusted_p_values, for the first member: each p-value up to its own *)
(* times the number still untested                                         *)
Least(a, b) == IF a < b THEN a ELSE b
HolmAdjusted(family) ==
  LET rank(i) == Cardinality({j \in DOMAIN family : family[j] < family[i] \/ (family[j] = family[i] /\ j < i)})
      scaled == {Least(100, (Len(family) - rank(i)) * family[i]) : i \in {i \in DOMAIN family : rank(i) <= rank(1)}}
  IN CHOOSE s \in scaled : \A t \in scaled : t <= s

(* assemble_recursive_claim_evidence *)
Evidence(g) ==
  [successive |-> g.promotions = "both",
   budget |-> g.matched = "shared",
   inheritance |-> g.promotions # "none" /\ g.fromFirst /\ g.strategy.above,
   oneShotAdvantage |-> g.oneShot # Absent /\ g.matched # "none" /\ g.versusOneShot.above,
   noInheritanceArm |-> g.oneShot # Absent /\ g.strategy.delta > g.oneShot.delta,
   editorArm |-> g.versusEditor # Absent,
   editorAdvantage |-> IF g.versusEditor = Absent THEN NoNumber ELSE g.versusEditor.delta,
   editorMinimum |-> g.minimum,
   editorSignificant |-> g.versusEditor # Absent /\ HolmAdjusted(HolmFamily(g)) < Alpha]

Assembled == {Evidence(g) : g \in Generations}

(* _fixed_editor_advantage_holds: nothing unpinned or unmeasured passes,   *)
(* but any number pins a minimum, a negative one too                       *)
EditorUnpinned(e) ==
  /\ e.editorArm /\ e.editorAdvantage # NoNumber
  /\ e.editorMinimum = NoNumber \/ e.editorAdvantage > e.editorMinimum
  /\ e.editorSignificant
EditorAdvantageHolds(e) ==
  /\ e.editorArm /\ e.editorAdvantage # NoNumber /\ e.editorMinimum # NoNumber
  /\ e.editorAdvantage > e.editorMinimum /\ e.editorSignificant

(* evaluate_recursive_claim *)
Satisfied(e) ==
  /\ e.successive /\ e.budget /\ e.inheritance
  /\ e.oneShotAdvantage /\ e.noInheritanceArm
  /\ EditorAdvantageHolds(e)

(* claim_label *)
RecursiveImprovement == "recursive improvement"
ArtifactOptimization == "artifact optimization"
ClaimsEnabled == policy.enabled /\ policy.environment = "research"
Label(e) == IF Satisfied(e) /\ ClaimsEnabled THEN RecursiveImprovement ELSE ArtifactOptimization

(* the policy is history: the row names none *)
Decision(e) == [label |-> Label(e), evidence |-> e, under |-> policy]

(* one request is followed at a time; a bound *)
Unasked == claiming = NoClaim /\ Len(claimDecisions) < MaxClaims /\ boundaryRows <= MaxClaims

(* issue_claim_label: what is issued is recorded and answered *)
IssueLabel(e) ==
  /\ Label(e) = RecursiveImprovement
  /\ claimDecisions' = Append(claimDecisions, Decision(e))
  /\ UNCHANGED <<policy, boundaryRows, claiming>>

(* _record_boundary_refusal commits its row first *)
BeginRefusal(e) ==
  /\ Label(e) # RecursiveImprovement
  /\ boundaryRows' = boundaryRows + 1 /\ claiming' = <<e>>
  /\ UNCHANGED <<policy, claimDecisions>>

(* then the decision is recorded, and the refusal raised *)
EndRefusal ==
  /\ claiming # NoClaim
  /\ claimDecisions' = Append(claimDecisions, Decision(claiming[1])) /\ claiming' = NoClaim
  /\ UNCHANGED <<policy, boundaryRows>>

(* or the decision is not recorded: its insert fails *)
LoseRefusal ==
  /\ claiming # NoClaim /\ claiming' = NoClaim
  /\ UNCHANGED <<policy, boundaryRows, claimDecisions>>

(* the server stops, and comes back with the documents it is given then *)
RestartServer ==
  /\ policy' \in Policies \cup {Unmapped} /\ claiming' = NoClaim
  /\ UNCHANGED <<boundaryRows, claimDecisions>>

ClaimNext ==
  \/ Unasked /\ \E e \in Submissions \cup Assembled : IssueLabel(e) \/ BeginRefusal(e)
  \/ EndRefusal \/ LoseRefusal \/ RestartServer

-----------------------------------------------------------------------------
ClaimTypes ==
  /\ policy \in Policies /\ boundaryRows \in Nat
  /\ \A d \in DOMAIN claimDecisions : claimDecisions[d].evidence \in Evidences
  /\ claiming = NoClaim \/ claiming[1] \in Evidences

(* The results of two generations that back a claim: both promoted, the    *)
(* second upon the first, under one matched budget, with a strategy that   *)
(* improved on the release it inherited, on the one-shot arm and, by more  *)
(* than the minimum and significantly, on the fixed editor                 *)
Backed(g) ==
  /\ g.promotions = "both" /\ g.fromFirst /\ g.matched = "shared" /\ g.strategy.above
  /\ g.oneShot # Absent /\ g.versusOneShot.above /\ g.oneShot.delta < g.strategy.delta
  /\ g.versusEditor # Absent /\ g.versusEditor.p < Alpha
  /\ g.minimum # NoNumber /\ g.minimum < g.versusEditor.delta

(* "a claim cannot slip past" the gate (recursive_gate.py), and "the       *)
(* refusal is already recorded" when it is raised (api/claims.py): a label *)
(* was issued only under a research policy that enables the claim, on      *)
(* stated evidence with a measured advantage over a pinned minimum; any    *)
(* generations from which that very evidence is assembled back the claim;  *)
(* and every refused decision has its row on the boundary's ledger.  That  *)
(* the evidence was assembled from any generations, nothing ensures.       *)
ClaimsAreBacked ==
  /\ \A d \in DOMAIN claimDecisions : claimDecisions[d].label = RecursiveImprovement =>
       LET e == claimDecisions[d].evidence IN
       /\ claimDecisions[d].under = [environment |-> "research", enabled |-> TRUE]
       /\ e.editorAdvantage # NoNumber /\ e.editorMinimum # NoNumber /\ e.editorMinimum < e.editorAdvantage
       /\ e.successive /\ e.inheritance /\ e.noInheritanceArm
       /\ \A g \in Generations : Evidence(g) = e => Backed(g)
  /\ Cardinality({d \in DOMAIN claimDecisions : claimDecisions[d].label # RecursiveImprovement}) <= boundaryRows

=============================================================================
