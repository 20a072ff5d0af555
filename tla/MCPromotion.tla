------------------------------ MODULE MCPromotion ------------------------------
(***************************************************************************)
(* Small instances of promotion: a cascade that short-circuits and one     *)
(* that is no total order; suites that pass, fail, collect nothing or are  *)
(* killed, with a line in their output that looks like a summary; one      *)
(* policy document and reports, releases and approvals on both sides of    *)
(* each of its thresholds.                                                 *)
(***************************************************************************)
EXTENDS Promotion

MCFamilies == <<"harness", "model">>
MCBaselines == {<<0, 0>>, <<0, 100>>}

Stg(n, shortCircuit) == [stage |-> n, shortCircuit |-> shortCircuit]
MCCascades == {{Stg(0, TRUE), Stg(1, FALSE), Stg(2, TRUE)}, {Stg(0, TRUE), Stg(0, FALSE)}}

MCNoise == {[ruled |-> FALSE, failed |-> 0, passed |-> 7], [ruled |-> FALSE, failed |-> 2, passed |-> 0]}
Did(failed, passed) == [failed |-> failed, passed |-> passed]
MCSuites ==
  {[did |-> d, run |-> SuiteRun(d, TRUE, <<line>>)] : d \in {Did(0, 3), Did(2, 1), Did(0, 0)}, line \in MCNoise}
  \cup {[did |-> Did(0, 3), run |-> KilledRun(<<>>)]}

MCPolicyDocuments ==
  {[minGain |-> 10, minCost |-> c, maxLatency |-> 10, maxSeverity1 |-> 0, margin |-> 5, slices |-> [safety |-> 5]] :
     c \in {20, -20}}
Reported(cost, latency, severity1) ==
  [cost |-> cost, latency |-> latency, severity1 |-> severity1, critical |-> FALSE, budget |-> TRUE, findings |-> FALSE]
MCReports == {Reported(30, 0, 0), Reported(-10, 20, 0), Reported(30, 0, 1)}

ReleaseOf(class, changesHarness) ==
  [classes |-> {class}, executable |-> FALSE, harness |-> changesHarness, direct |-> FALSE, reversible |-> TRUE,
   runtime |-> FALSE]
MCReleases == {ReleaseOf("skill_package", FALSE), ReleaseOf("prompt_bundle", TRUE), ReleaseOf("algorithm", FALSE)}
MCApprovals == {[approvers |-> <<"a", "b">>, requester |-> "c", signoff |-> FALSE, manual |-> TRUE],
                [approvers |-> <<>>, requester |-> "c", signoff |-> TRUE, manual |-> TRUE]}

=============================================================================
