---------------------------- MODULE GateReadings ----------------------------
(***************************************************************************)
(* What the gates read of what they are given: the authority a release     *)
(* warrants (selection/authority.py), and the outcome of a run of the      *)
(* conformance suite (eval/conformance.py).                                *)
(***************************************************************************)
EXTENDS Integers, Sequences

-----------------------------------------------------------------------------
(* A release is [classes, executable, harness, direct, reversible,         *)
(* runtime]; an approval is [approvers, requester, signoff, manual], where *)
(* approvers is the sequence of names as they were given, case folded.     *)
ClassTier ==
  [prompt_bundle |-> 1, demonstration_set |-> 1,
   memory_entry |-> 2, compiled_prompt_program |-> 2, skill_package |-> 2,
   workflow_graph |-> 3, tool_spec |-> 3, skill_script |-> 3, algorithm |-> 3,
   harness_patch |-> 4, scaffold |-> 4]

TierOf(class) == IF class \in DOMAIN ClassTier THEN ClassTier[class] ELSE 3

(* resolve_authority_tier: what a release does dominates what it is made of *)
ResolveTier(release) ==
  IF release.harness THEN 4
  ELSE IF release.executable \/ release.direct \/ ~release.reversible \/ release.runtime
          \/ release.classes = {} THEN 3
  ELSE CHOOSE t \in 1..4 : /\ \E c \in release.classes : TierOf(c) = t
                           /\ \A c \in release.classes : TierOf(c) <= t

(* assert_phase2_admissible *)
TwoOthers(approval) ==
  /\ Len(approval.approvers) = 2
  /\ approval.approvers[1] # approval.approvers[2]
  /\ \A i \in 1..2 : approval.approvers[i] # approval.requester
TierAdmits(tier, approval) ==
  /\ tier = 3 => TwoOthers(approval)
  /\ tier = 4 => approval.signoff /\ approval.manual

-----------------------------------------------------------------------------
(* What the suite did is [failed, passed]; what the evaluator sees is the  *)
(* run: was it killed, its exit code, and its output, a sequence of lines. *)
(* A line is the counts it names, zero for one it does not name, and       *)
(* whether it is ruled: pytest rules its summary off on both sides unless  *)
(* quiet.                                                                  *)
NoExit == -1
Unparsed == <<-1, -1>>

(* A run of the suite: quiet or ruled, cut short, behind what its tests    *)
(* print themselves                                                        *)
Exit(did) == IF did.failed > 0 THEN 1 ELSE IF did.passed = 0 THEN 5 ELSE 0
SuiteRun(did, ruled, noise) ==
  [timedOut |-> FALSE, exit |-> Exit(did), empty |-> did.failed + did.passed = 0,
   lines |-> noise \o <<[ruled |-> ruled, failed |-> did.failed, passed |-> did.passed]>>]
KilledRun(noise) == [timedOut |-> TRUE, exit |-> NoExit, empty |-> FALSE, lines |-> noise]
CrashedRun(noise) == [timedOut |-> FALSE, exit |-> NoExit, empty |-> FALSE, lines |-> noise]

(* _PYTEST_SUMMARY.search, from the start of a line: failures are read     *)
(* there only, passes behind anything that is not a digit                  *)
ReadCounts(line) ==
  IF line.ruled /\ line.failed > 0 THEN <<0, 0>> ELSE <<line.failed, line.passed>>

(* parse_pytest_summary: the last line that names a count *)
ParsedSummary(lines) ==
  LET named == SelectSeq(lines, LAMBDA line : ReadCounts(line) # <<0, 0>>) IN
  IF named = <<>> THEN Unparsed ELSE ReadCounts(named[Len(named)])

(* SelfEditConformanceEvaluator._interpret; run.empty: "no tests ran" *)
SuitePasses(run) ==
  LET summary == ParsedSummary(run.lines) IN
  /\ ~run.timedOut /\ run.exit # NoExit /\ ~run.empty
  /\ summary # Unparsed /\ summary[1] = 0 /\ summary[2] >= 1
  /\ run.exit = 0

=============================================================================
