------------------------------- MODULE Promotion -------------------------------
(***************************************************************************)
(* From an evaluation to a promotion decision (selection/policy.py).  The  *)
(* stages of a cascade run from the cheapest on (eval/cascade.py), the     *)
(* first of them the scaffold's own conformance suite, and give the scores *)
(* of the candidate; the families of a transfer suite run one after the    *)
(* other (eval/suites.py) and give the scopes it transfers to; a caller    *)
(* puts both into the evidence with what else it reports, and              *)
(* evaluate_promotion decides it by the six conditions of the policy.      *)
(*                                                                         *)
(* Scores, gains and margins are in percent.  The bootstrap is a choice    *)
(* among the means its resamples can have; multiplicity only widens the    *)
(* choice, and p-values are reported without deciding anything.            *)
(***************************************************************************)
EXTENDS GateReadings, FiniteSets

CONSTANTS
  Cascades,         (* sets of stages [stage, shortCircuit] *)
  Suites,           (* conformance runs: [did, run] *)
  Families,         (* the scopes of the transfer suite's families, in order *)
  Baselines,        (* the incumbent's scores: sequences, one score per task *)
  PolicyDocuments,  (* [minGain, minCost, maxLatency, maxSeverity1, margin, slices] *)
  Reports,          (* [cost, latency, severity1, critical, budget, findings] *)
  Releases, Approvals,
  MaxPromotions     (* bound of the model *)

(* a scope has one family (TransferSuite), a suite exits with 0 only when   *)
(* no test failed (pytest), and what is scored and costs is a number        *)
ASSUME PromotionAssumption ==
  /\ DOMAIN Families = 1..Len(Families)
  /\ \A f, g \in DOMAIN Families : Families[f] = Families[g] => f = g
  /\ \A suite \in Suites : suite.run.exit \in {NoExit, Exit(suite.did)} /\ suite.did.failed \in Nat
  /\ Baselines \subseteq Seq(0..100)
  /\ \A report \in Reports : report.cost \in Int

VARIABLES
  cascade,          (* the stages declared *)
  stageRuns,        (* the stages that ran: [stage, shortCircuit, passed, failures] *)
  familyOutcomes,   (* "result" or "error", in the order of the families *)
  promotions        (* the decisions taken *)

promotionVars == <<cascade, stageRuns, familyOutcomes, promotions>>

PromotionInit ==
  /\ cascade \in Cascades /\ stageRuns = <<>> /\ familyOutcomes = <<>> /\ promotions = <<>>

-----------------------------------------------------------------------------
(* run_cascade: stages with one number are refused; a failed stage that    *)
(* short-circuits is the last one to run                                   *)
TotalOrder == cascade # {} /\ Cardinality({s.stage : s \in cascade}) = Cardinality(cascade)
Ran == {stageRuns[i].stage : i \in DOMAIN stageRuns}
ShortCircuited == \E i \in DOMAIN stageRuns : ~stageRuns[i].passed /\ stageRuns[i].shortCircuit
CascadeOver == stageRuns # <<>> /\ (ShortCircuited \/ Len(stageRuns) = Cardinality(cascade))

Skipping == {s \in cascade : s.stage \notin Ran}
NextStage == CHOOSE s \in Skipping : \A t \in Skipping : s.stage <= t.stage

RecordStage(s, passed, failures) ==
  /\ stageRuns' = Append(stageRuns, [stage |-> s.stage, shortCircuit |-> s.shortCircuit,
                                     passed |-> passed, failures |-> failures])
  /\ UNCHANGED <<cascade, familyOutcomes, promotions>>

(* stage 0 is pinned: it is the conformance suite and it short-circuits *)
RunConformanceStage(suite) ==
  /\ TotalOrder /\ ~CascadeOver /\ NextStage.stage = 0
  /\ RecordStage([NextStage EXCEPT !.shortCircuit = TRUE], SuitePasses(suite.run), suite.did.failed)
RunStage(passed) ==
  /\ TotalOrder /\ ~CascadeOver /\ NextStage.stage > 0
  /\ RecordStage(NextStage, passed, 0)

(* CascadeResult.candidate_scores *)
CandidateScores(baseline) ==
  LET score == IF ~ShortCircuited /\ stageRuns[Len(stageRuns)].passed THEN 100 ELSE 0
  IN [t \in DOMAIN baseline |-> score]

(* run_transfer_suite: a harness error is an outcome, any other error ends *)
(* the run and with it the outcomes so far                                 *)
RunFamily(outcome) ==
  /\ Len(familyOutcomes) < Len(Families)
  /\ familyOutcomes' = Append(familyOutcomes, outcome)
  /\ UNCHANGED <<cascade, stageRuns, promotions>>
FamilyRaises ==
  /\ familyOutcomes # <<>> /\ Len(familyOutcomes) < Len(Families)
  /\ familyOutcomes' = <<>>
  /\ UNCHANGED <<cascade, stageRuns, promotions>>

(* evaluated_transfer_scopes *)
DeclaredScopes == {Families[f] : f \in DOMAIN Families}
EvaluatedScopes == {Families[f] : f \in {f \in DOMAIN familyOutcomes : familyOutcomes[f] = "result"}}

-----------------------------------------------------------------------------
Mean(scores) ==
  LET sum[n \in 0..Len(scores)] == IF n = 0 THEN 0 ELSE sum[n - 1] + scores[n]
  IN  sum[Len(scores)] \div Len(scores)

(* paired_bootstrap: the mean difference over tasks drawn with replacement *)
Intervals(baseline, scores) ==
  LET means == {Mean([t \in DOMAIN baseline |-> scores[draw[t]] - baseline[draw[t]]]) :
                  draw \in [DOMAIN baseline -> DOMAIN baseline]}
  IN {ci \in means \X means : ci[1] <= ci[2]}

(* PromotionPolicyDocument._validate, PairedScores.__post_init__ *)
Permissive(policy) == TRUE
PolicySound(policy) ==
  /\ {policy.minGain, policy.minCost, policy.maxLatency, policy.margin} \subseteq 0..100
  /\ policy.maxSeverity1 >= 0
  /\ \A s \in DOMAIN policy.slices : policy.slices[s] \in 1..100
Paired(baseline, scores) == baseline # <<>> /\ DOMAIN scores = DOMAIN baseline

(* _statistical_condition *)
Superior(policy, e) == e.ci[1] > 0 /\ e.gain >= policy.minGain
NonInferior(policy, e) ==
  e.preregistered /\ e.ci[1] >= -policy.margin /\ e.report.cost >= policy.minCost

(* the other conditions, in the order of the decision; a slice without     *)
(* paired data fails                                                       *)
ProtectedSlices(policy, e) ==
  \A s \in DOMAIN policy.slices : s \in DOMAIN e.slices /\ e.slices[s] >= -policy.slices[s]
NoCriticalFailure(policy, e) == ~e.report.critical /\ e.report.severity1 <= policy.maxSeverity1
BudgetPass(e) == e.report.budget
NoIntegrityFindings(e) == ~e.report.findings
ScopesCovered(e) == e.claimed \subseteq e.evaluated

(* evaluate_promotion: all of them *)
Promotable(policy, e) ==
  /\ Superior(policy, e) \/ NonInferior(policy, e)
  /\ ProtectedSlices(policy, e) /\ NoCriticalFailure(policy, e)
  /\ BudgetPass(e) /\ NoIntegrityFindings(e) /\ ScopesCovered(e)

(* both results are in; a bound *)
ResultsIn ==
  CascadeOver /\ Len(familyOutcomes) = Len(Families) /\ Len(promotions) < MaxPromotions

Judge(policy, report, baseline, preregistered, claimed, release, approval) ==
  /\ PolicySound(policy) /\ Paired(baseline, CandidateScores(baseline))
  /\ TierAdmits(ResolveTier(release), approval)
  /\ \E ci \in Intervals(baseline, CandidateScores(baseline)),
        paired \in SUBSET DOMAIN policy.slices :
     \E slices \in [paired -> {-100, 0}] :
       LET e == [report |-> report, ci |-> ci, slices |-> slices, preregistered |-> preregistered,
                 gain |-> Mean(CandidateScores(baseline)) - Mean(baseline),
                 claimed |-> claimed, evaluated |-> EvaluatedScopes]
       IN promotions' = Append(promotions,
            [policy |-> policy, evidence |-> e, tier |-> ResolveTier(release), approval |-> approval,
             eligible |-> Promotable(policy, e)])
  /\ UNCHANGED <<cascade, stageRuns, familyOutcomes>>

PromotionNext ==
  \/ \E suite \in Suites : RunConformanceStage(suite)
  \/ \E passed \in BOOLEAN : RunStage(passed)
  \/ \E outcome \in {"result", "error"} : RunFamily(outcome)
  \/ FamilyRaises
  \/ /\ ResultsIn
     /\ \E policy \in PolicyDocuments, report \in Reports, baseline \in Baselines,
           preregistered \in BOOLEAN, claimed \in SUBSET DeclaredScopes,
           release \in Releases, approval \in Approvals :
           Judge(policy, report, baseline, preregistered, claimed, release, approval)

-----------------------------------------------------------------------------
PromotionTypes ==
  /\ cascade \in Cascades
  /\ familyOutcomes \in Seq({"result", "error"}) /\ Len(familyOutcomes) <= Len(Families)
  /\ \A i \in DOMAIN stageRuns : stageRuns[i].passed \in BOOLEAN
  /\ \A d \in DOMAIN promotions : promotions[d].eligible \in BOOLEAN /\ promotions[d].tier \in 1..4

Eligibles == {promotions[d] : d \in {d \in DOMAIN promotions : promotions[d].eligible}}

(* "the engine reads thresholds" and fails closed (policy.py): whatever    *)
(* order stages and families ran in, an eligible candidate claims no scope *)
(* of a family that failed, is superior only when the cascade ran to its   *)
(* end and the conformance suite had no failing test - a candidate stopped *)
(* early can pass as preregistered non-inferior alone - neither costs more *)
(* nor loses a point it has not its margin for, leaves no protected slice  *)
(* unmeasured, and has the approvals of its tier.                          *)
PromotedOnWhatRan ==
  \A d \in Eligibles :
    /\ \A f \in DOMAIN Families : Families[f] \in d.evidence.claimed => familyOutcomes[f] = "result"
    /\ ~NonInferior(d.policy, d.evidence) =>
         /\ Len(stageRuns) = Cardinality(cascade)
         /\ \A i \in DOMAIN stageRuns : stageRuns[i].failures = 0
    /\ d.evidence.gain < 0 => d.evidence.report.cost >= 0
    /\ d.evidence.ci[1] < 0 => d.policy.margin > 0
    /\ DOMAIN d.policy.slices \subseteq DOMAIN d.evidence.slices
    /\ d.tier = 3 => TwoOthers(d.approval)
    /\ d.tier = 4 => d.approval.signoff /\ d.approval.manual

(* "The thresholds - ... p95 latency <=+10%, zero severity-1 regressions - *)
(* live in PromotionPolicyDocument ... The engine reads thresholds"        *)
(* (selection/policy.py:14-19): an eligible candidate is within them.      *)
WithinLatency ==
  \A d \in Eligibles : d.evidence.report.latency <= d.policy.maxLatency

=============================================================================
