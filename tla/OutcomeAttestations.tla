------------------------ MODULE OutcomeAttestations ------------------------
(***************************************************************************)
(* What an agent claims and what is proved of it (fixture_agent/agent.py,  *)
(* fixture_agent/tools.py, fixture_agent/verifier.py, sdk/attestation.py). *)
(* The agent works through its plan in a workspace, a model call before    *)
(* every tool, and claims an outcome; the verifier runs the tests itself,  *)
(* digests the grader, and signs; a release controller checks the record   *)
(* against the key it has pinned.                                          *)
(*                                                                         *)
(* The workspace is one file of code and one of tests, each by its content;*)
(* digests are contents.  The verifier's calls are separate, and the agent *)
(* may be given its next task between any two of them.                     *)
(***************************************************************************)
EXTENDS SignedPolicies

CONSTANTS
  WorkFiles,              (* the files of the workspace *)
  Start,              (* the workspace the agent finds *)
  Plans,              (* task |-> its steps: [kind, path, old, new] *)
  Verifiers,          (* [role, key] *)
  Published,          (* the key the release controller pins *)
  MaxAgentRuns, MaxOutcomes   (* bounds of the model *)

VARIABLES
  workspace,          (* file |-> content *)
  agentRuns,          (* the runs of the agent, each with the events of its trace *)
  lastTests,           (* the verifier's last run of the tests, or <<>> *)
  outcomes            (* the attestations *)

(* a plan is a list of steps of the four kinds *)
ASSUME PlansAssumption ==
  \A task \in DOMAIN Plans :
    /\ Len(Plans[task]) \in Nat /\ DOMAIN Plans[task] = 1..Len(Plans[task])
    /\ \A k \in DOMAIN Plans[task] : Plans[task][k].kind \in {"read", "edit", "test", "shell"}

outcomeVars == <<workspace, agentRuns, lastTests, outcomes>>

OutcomesInit == workspace = Start /\ agentRuns = <<>> /\ lastTests = <<>> /\ outcomes = <<>>

-----------------------------------------------------------------------------
(* WorkspaceTools: whether a tool succeeds - not on a path that leaves the *)
(* workspace - what it leaves behind, and what it observes                 *)
TestsPass(files) == files["test"] = "weak" \/ files["code"] = "fixed"
StepSucceeds(step, files) ==
  CASE step.kind = "read" -> step.path \in WorkFiles
    [] step.kind = "edit" -> step.path \in WorkFiles /\ files[step.path] = step.old
    [] step.kind = "test" -> TestsPass(files)
    [] step.kind = "shell" -> TRUE
FilesAfter(step, files) ==
  IF step.kind \in {"edit", "shell"} /\ StepSucceeds(step, files) THEN [files EXCEPT ![step.path] = step.new] ELSE files

ToolResult(step, files) ==
  IF step.kind \in {"read", "edit"} /\ step.path \in WorkFiles THEN files[step.path] ELSE ""

Event(type, name, result, ok) == [type |-> type, name |-> name, result |-> result, ok |-> ok]
Tool(name, result, ok) == Event("tool", name, result, ok)

Working == agentRuns # <<>> /\ ~agentRuns[Len(agentRuns)].over
AtWork == agentRuns[Len(agentRuns)]
RunIs(run) == agentRuns' = [agentRuns EXCEPT ![Len(agentRuns)] = run]

(* record_context: the issue and the repository as the run finds it        *)
BeginRun(task) ==
  /\ ~Working /\ Len(agentRuns) < MaxAgentRuns
  /\ agentRuns' = Append(agentRuns,
       [task |-> task, at |-> 0, ok |-> TRUE, patch |-> <<>>, over |-> FALSE, found |-> workspace,
        events |-> <<Tool("read_issue", task, TRUE), Tool("read_repo_state", workspace, TRUE)>>])
  /\ UNCHANGED <<workspace, lastTests, outcomes>>

(* execute_step and record_step: the model call that decided it, then the  *)
(* tool; the patch is the file the last edit left                          *)
LastStepOk(before, now) == now
StepsOk(before, now) == before /\ now
RunStep ==
  /\ Working /\ AtWork.at < Len(Plans[AtWork.task])
  /\ LET step == Plans[AtWork.task][AtWork.at + 1]
         ok == StepSucceeds(step, workspace)
         after == FilesAfter(step, workspace)
     IN /\ workspace' = after
        /\ RunIs([AtWork EXCEPT !.at = @ + 1, !.ok = StepsOk(@, ok),
             !.patch = IF step.kind = "edit" /\ ok THEN <<after[step.path]>> ELSE @,
             !.events = @ \o <<Event("model", "", "", TRUE), Tool(step.kind, ToolResult(step, after), ok)>>])
  /\ UNCHANGED <<lastTests, outcomes>>

(* the end of run: the patch if there is one, and the claim                *)
EndRun ==
  /\ Working /\ AtWork.at = Len(Plans[AtWork.task])
  /\ RunIs([AtWork EXCEPT !.over = TRUE,
       !.events = @ \o (IF AtWork.patch = <<>> THEN <<>> ELSE <<Tool("repo_patch", AtWork.patch[1], TRUE)>>)
                    \o <<Event("claim", "", "", AtWork.ok)>>])
  /\ UNCHANGED <<workspace, lastTests, outcomes>>

(* FixtureVerifier.run_tests, on the workspace as it is                    *)
VerifyRun ==
  /\ lastTests' = <<[passed |-> TestsPass(workspace), files |-> workspace]>>
  /\ UNCHANGED <<workspace, agentRuns, outcomes>>

-----------------------------------------------------------------------------
(* attestation_payload: every field that is vouched for, and the time      *)
PayloadWithoutGrader(x) ==
  [trace |-> x.trace, tasks |-> x.tasks, result |-> x.result, signedAt |-> x.signedAt, subject |-> x.subject]
AttestationPayload(x) ==
  [trace |-> x.trace, tasks |-> x.tasks, grader |-> x.grader, result |-> x.result,
   signedAt |-> x.signedAt, subject |-> x.subject]

(* OutcomeAttestation.sign: the role is asked whoever holds the key        *)
KeyHeld(verifier) == verifier.key \in Signers
MaySign(verifier) == verifier.role = "evaluator"

TaskSet(task) == <<task, Plans[task]>>
Bundle(files) == files["test"]

(* attest, as its callers do: of the last run, with the tests' result they *)
(* hold and the grader read now                                            *)
AttestOutcome(verifier) ==
  /\ agentRuns # <<>> /\ ~Working /\ lastTests # <<>> /\ Len(outcomes) < MaxOutcomes
  /\ MaySign(verifier)
  /\ LET run == Len(agentRuns)
         body == [trace |-> run, tasks |-> TaskSet(agentRuns[run].task),
                  grader |-> Bundle(workspace), result |-> lastTests[1].passed,
                  signedAt |-> Len(outcomes), subject |-> verifier.role]
     IN outcomes' = Append(outcomes,
          [body |-> body, key |-> verifier.key, signature |-> SignBytes(verifier.key, AttestationPayload(body)),
           ranOn |-> lastTests[1].files, endedOn |-> workspace])
  /\ UNCHANGED <<workspace, agentRuns, lastTests>>

(* verify(expected_public_key)                                             *)
OutcomeVerifies(body, key, signature) ==
  key = Published /\ Authentic(signature, key, AttestationPayload(body))

OutcomesNext ==
  \/ \E task \in DOMAIN Plans : BeginRun(task)
  \/ RunStep \/ EndRun \/ VerifyRun
  \/ \E verifier \in Verifiers : AttestOutcome(verifier)

-----------------------------------------------------------------------------
OutcomesTypes ==
  /\ DOMAIN workspace = WorkFiles /\ Len(lastTests) <= 1
  /\ \A r \in DOMAIN agentRuns : agentRuns[r].task \in DOMAIN Plans /\ agentRuns[r].at <= Len(Plans[agentRuns[r].task])
  /\ \A i \in DOMAIN outcomes : outcomes[i].body.trace \in DOMAIN agentRuns

(* A record made of the fields of two: those of S are from the other       *)
Spliced(x, y, S) == [f \in DOMAIN x |-> IF f \in S THEN y[f] ELSE x[f]]

(* "Change any one and the signature fails" (sdk/attestation.py): whatever *)
(* fields of two attestations are put together, with the signature of      *)
(* either, what verifies under the published key is one of them, signed by *)
(* the evaluator; and while nothing wrote to the workspace between the     *)
(* tests and the digest, a pass under the strict grader means the code was *)
(* fixed as the tests ran, whatever the agent claimed.                     *)
AttestedAsGraded ==
  \A i, j \in DOMAIN outcomes :
    /\ \A S \in SUBSET DOMAIN outcomes[i].body :
         LET body == Spliced(outcomes[i].body, outcomes[j].body, S) IN
         OutcomeVerifies(body, outcomes[i].key, outcomes[i].signature) =>
           /\ body = outcomes[i].body
           /\ \E v \in Verifiers : v.key = Published /\ v.role = "evaluator" /\ v.role = body.subject
    /\ LET x == outcomes[i] IN
       x.ranOn = x.endedOn /\ x.body.grader = "strict" /\ x.body.result => x.ranOn["code"] = "fixed"

(* The trace of a run (fixture_agent/agent.py): a model call right before  *)
(* every tool of the plan, in the plan's order; the claim is that of every *)
(* step, not of the last; and the patch recorded is the content the last   *)
(* successful edit left, while the context is what the run found.          *)
TraceTellsTheRun ==
  \A r \in DOMAIN agentRuns :
    LET run == agentRuns[r]
        plan == Plans[run.task]
        calls == {n \in DOMAIN run.events : run.events[n].type = "model"}
        edits == {n \in calls : run.events[n + 1].name = "edit" /\ run.events[n + 1].ok}
    IN /\ calls = {2 * k + 1 : k \in 1..run.at}
       /\ \A k \in 1..run.at : run.events[2 * k + 2].name = plan[k].kind
       /\ run.events[2].result = run.found
       /\ run.over =>
            /\ run.events[Len(run.events)].ok <=> \A n \in calls : run.events[n + 1].ok
            /\ (edits # {}) <=> (run.events[Len(run.events) - 1].name = "repo_patch")
            /\ \A n \in edits : (\A k \in edits : k <= n) =>
                 run.events[n + 1].result = run.events[Len(run.events) - 1].result

OutcomesAreProved == AttestedAsGraded /\ TraceTellsTheRun

=============================================================================
