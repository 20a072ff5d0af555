---------------------------- MODULE ExecutionWorker ----------------------------
(***************************************************************************)
(* Sandboxed runs (execution/worker.py, sandbox/): a worker stages a       *)
(* candidate's payloads in a fresh workspace, starts it behind a broker    *)
(* proxy, collects its output up to the wall clock, captures the declared  *)
(* outputs, tears everything down, attests the run and turns the report    *)
(* into a verdict.                                                         *)
(*                                                                         *)
(* One worker, run after run; the candidate and its children run beside    *)
(* it.  A child may hold the candidate's output pipes or have closed them, *)
(* and it runs for as long as it likes: the worker kills the candidate     *)
(* only, and waits for the pipes only.  Workspaces are removed with errors *)
(* ignored, and the sweep of stale ones looks elsewhere: the executor      *)
(* stages in the system's temp dir, not in the worker's scratch root.      *)
(* The kernel's walls (seccomp, Landlock, rlimits) are taken as given:     *)
(* what they deny is not an action.                                        *)
(***************************************************************************)
EXTENDS Integers, Sequences, FiniteSets

CONSTANTS
  Requests,      (* [refused, brokered, outputs]: a tier that never executes or that this *)
                 (* platform cannot isolate; network mode; declared capture paths         *)
  MaxRuns, MaxDenials       (* bounds of the model *)

ASSUME WorkerAssumption ==
  /\ Requests \subseteq [refused : BOOLEAN, brokered : BOOLEAN, outputs : Nat]
  /\ MaxRuns \in Nat /\ MaxDenials \in Nat

VARIABLES
  step,          (* where the worker is *)
  request,       (* the run it is at *)
  candidate,     (* its state, and whether the wall clock passed first *)
  children,      (* the candidates' descendants that are still there *)
  proxy,         (* the broker proxy of the run *)
  denied,        (* egress denials the proxy has recorded *)
  workspaces,    (* staged workspaces on disk, by run *)
  unremoved,     (* history: the runs whose workspace could not be removed *)
  timedOut,      (* what _collect returned *)
  captured,      (* outputs captured, and outputs that failed *)
  reported       (* the reports made: what each says, and what really happened *)

workerVars == <<step, request, candidate, children, proxy, denied, workspaces, unremoved, timedOut, captured, reported>>

NoRequest == [refused |-> TRUE, brokered |-> FALSE, outputs |-> 0]
NotStarted == [state |-> "none", late |-> FALSE]
WorkerSteps == {"idle", "staged", "bound", "collecting", "killed", "capturing", "attest", "stopped"}

WorkerInit ==
  /\ step = "idle" /\ request = NoRequest /\ candidate = NotStarted /\ children = {} /\ proxy = "none"
  /\ denied = 0 /\ workspaces = {} /\ unremoved = {} /\ timedOut = FALSE /\ captured = [ok |-> 0, failed |-> 0]
  /\ reported = <<>>

Run == Len(reported) + 1
StepTo(here, there) == step = here /\ step' = there

-----------------------------------------------------------------------------
(* dev_evaluate_verdict: only a completed run that exited 0 in time passes *)
VerdictLate(r) == IF r.outcome = "completed" /\ r.exit = "exit0" THEN "pass" ELSE "fail"
Verdict(r) == IF r.outcome = "completed" /\ r.exit = "exit0" /\ ~r.timedOut THEN "pass" ELSE "fail"

Report(r) == reported' = Append(reported, [r EXCEPT !.verdict = Verdict(r)])
NoResult(outcome) ==
  [outcome |-> outcome, verdict |-> "fail", exit |-> "none", timedOut |-> FALSE, denials |-> 0,
   missing |-> 0, late |-> FALSE]

(* run: the tier and the platform first *)
RefuseRun(q) ==
  /\ step = "idle" /\ Run <= MaxRuns
  /\ q.refused
  /\ Report(NoResult("refused"))
  /\ UNCHANGED <<step, request, candidate, children, proxy, denied, workspaces, unremoved, timedOut, captured>>

(* StagedWorkspace.cleanup: rmtree with errors ignored may leave it there *)
CleanUp(removed) ==
  /\ workspaces' = IF removed THEN workspaces \ {Run} ELSE workspaces \cup {Run}
  /\ unremoved' = IF removed THEN unremoved ELSE unremoved \cup {Run}

(* StagedWorkspace.stage: whatever fails, the workspace goes with it *)
StageFails(q, removed) ==
  /\ step = "idle" /\ Run <= MaxRuns
  /\ ~q.refused
  /\ Report(NoResult("failed")) /\ CleanUp(removed)
  /\ UNCHANGED <<step, request, candidate, children, proxy, denied, timedOut, captured>>

Stage(q) ==
  /\ StepTo("idle", "staged") /\ Run <= MaxRuns
  /\ ~q.refused
  /\ request' = q /\ workspaces' = workspaces \cup {Run}
  /\ candidate' = NotStarted /\ denied' = 0 /\ timedOut' = FALSE /\ captured' = [ok |-> 0, failed |-> 0]
  /\ UNCHANGED <<children, proxy, unremoved, reported>>

(* write zones, and the proxy's listener; an error here is outside the try *)
BindProxy ==
  /\ StepTo("staged", "bound")
  /\ proxy' = IF request.brokered THEN "bound" ELSE "none"
  /\ UNCHANGED <<request, candidate, children, denied, workspaces, unremoved, timedOut, captured, reported>>

BindFails ==
  /\ StepTo("staged", "stopped")
  /\ UNCHANGED <<request, candidate, children, proxy, denied, workspaces, unremoved, timedOut, captured, reported>>

(* the child is hardened before it executes, or not spawned; then the proxy serves *)
Started == [NotStarted EXCEPT !.state = "running"]

Spawn ==
  /\ StepTo("bound", "collecting")
  /\ candidate' = Started
  /\ proxy' = IF request.brokered THEN "serving" ELSE "none"
  /\ UNCHANGED <<request, children, denied, workspaces, unremoved, timedOut, captured, reported>>

(* what the try raises reaches the worker's caller, after the finally: the *)
(* spawn, the proxy's thread (the candidate runs on), or reading an output *)
RunRaises(started, removed) ==
  /\ step \in {"bound", "capturing"} /\ step' = "stopped"
  /\ step = "capturing" => ~started /\ captured.ok + captured.failed < request.outputs
  /\ candidate' = IF started THEN Started ELSE candidate
  /\ proxy' = "none" /\ CleanUp(removed)
  /\ UNCHANGED <<request, children, denied, timedOut, captured, reported>>

(* The candidate and its descendants, beside the worker: each may end, and *)
(* start another that holds no pipe it does not hold itself; what was let  *)
(* out to the broker may ask whichever proxy serves now                    *)
Child(pipes) == [run |-> Run, brokered |-> request.brokered, pipes |-> pipes]
Family == children \cup (IF candidate.state = "running" THEN {Child(TRUE)} ELSE {})

Forks(k, pipes) ==
  /\ pipes => k.pipes
  /\ children' = children \cup {[k EXCEPT !.pipes = pipes]}
  /\ UNCHANGED <<step, request, candidate, proxy, denied, workspaces, unremoved, timedOut, captured, reported>>

CandidateEnds(how) ==
  /\ candidate.state = "running"
  /\ candidate' = [candidate EXCEPT !.state = how]
  /\ UNCHANGED <<step, request, children, proxy, denied, workspaces, unremoved, timedOut, captured, reported>>

ChildEnds(k) ==
  /\ children' = children \ {k}
  /\ UNCHANGED <<step, request, candidate, proxy, denied, workspaces, unremoved, timedOut, captured, reported>>

AskProxy(k) ==
  /\ proxy = "serving" /\ k.brokered /\ denied < MaxDenials
  /\ denied' = denied + 1
  /\ UNCHANGED <<step, request, candidate, children, proxy, workspaces, unremoved, timedOut, captured, reported>>

-----------------------------------------------------------------------------
(* _collect: communicate() ends when the candidate has exited and nothing  *)
(* holds its pipes; past the wall clock the candidate is killed, and the   *)
(* second communicate() waits for the pipes as long as it takes            *)
PipesClosed == \A k \in children : k.run = Run => ~k.pipes

CollectOutput ==
  /\ StepTo("collecting", "capturing")
  /\ candidate.state # "running" /\ PipesClosed
  /\ UNCHANGED <<request, candidate, children, proxy, denied, workspaces, unremoved, timedOut, captured, reported>>

WallClockExpires ==
  /\ StepTo("collecting", "killed")
  /\ timedOut' = TRUE
  /\ candidate' = [candidate EXCEPT !.late = TRUE, !.state = IF @ = "running" THEN "killed" ELSE @]
  /\ UNCHANGED <<request, children, proxy, denied, workspaces, unremoved, captured, reported>>

CollectAfterKill ==
  /\ StepTo("killed", "capturing")
  /\ PipesClosed
  /\ UNCHANGED <<request, candidate, children, proxy, denied, workspaces, unremoved, timedOut, captured, reported>>

(* capture, path by path: a missing output is recorded *)
Capture(ok) == captured' = IF ok THEN [captured EXCEPT !.ok = @ + 1] ELSE [captured EXCEPT !.failed = @ + 1]

CaptureOne(ok) ==
  /\ step = "capturing" /\ captured.ok + captured.failed < request.outputs
  /\ Capture(ok)
  /\ UNCHANGED <<step, request, candidate, children, proxy, denied, workspaces, unremoved, timedOut, reported>>

(* finally: the proxy, then the workspace *)
TearDown(removed) ==
  /\ StepTo("capturing", "attest")
  /\ captured.ok + captured.failed >= request.outputs
  /\ proxy' = "none" /\ CleanUp(removed)
  /\ UNCHANGED <<request, candidate, children, denied, timedOut, captured, reported>>

(* attestation, outcome and verdict *)
Outcome == IF captured.failed = 0 THEN "completed" ELSE "capture_partial_failure"

Attest ==
  /\ StepTo("attest", "idle")
  /\ Report([outcome |-> Outcome, verdict |-> "fail", exit |-> candidate.state, timedOut |-> timedOut,
             denials |-> denied, missing |-> request.outputs - captured.ok, late |-> candidate.late])
  /\ request' = NoRequest
  /\ UNCHANGED <<candidate, children, proxy, denied, workspaces, unremoved, timedOut, captured>>

WorkerNext ==
  \/ \E q \in Requests : RefuseRun(q) \/ Stage(q)
  \/ \E q \in Requests, removed \in BOOLEAN : StageFails(q, removed)
  \/ BindProxy \/ BindFails \/ Spawn
  \/ \E started, removed \in BOOLEAN : RunRaises(started, removed)
  \/ \E k \in Family : AskProxy(k) \/ \E pipes \in BOOLEAN : Forks(k, pipes)
  \/ \E k \in children : ChildEnds(k)
  \/ \E how \in {"exit0", "exit1", "signal"} : CandidateEnds(how)
  \/ CollectOutput \/ WallClockExpires \/ CollectAfterKill
  \/ \E ok \in BOOLEAN : CaptureOne(ok)
  \/ (\E removed \in BOOLEAN : TearDown(removed)) \/ Attest

-----------------------------------------------------------------------------
WorkerTypes ==
  /\ step \in WorkerSteps /\ request \in Requests \cup {NoRequest}
  /\ candidate \in [state : {"none", "running", "exit0", "exit1", "signal", "killed"}, late : BOOLEAN]
  /\ children \subseteq [run : 1..MaxRuns, brokered : BOOLEAN, pipes : BOOLEAN]
  /\ proxy \in {"none", "bound", "serving"} /\ denied \in Nat
  /\ workspaces \subseteq 1..MaxRuns /\ unremoved \subseteq 1..MaxRuns
  /\ timedOut \in BOOLEAN /\ captured \in [ok : Nat, failed : Nat]
  /\ \A r \in DOMAIN reported : reported[r].verdict \in {"pass", "fail"}

(* "only a completed run with exit 0, no capture failures, and no timeout  *)
(* records pass" (dev_evaluate_verdict), of what really happened: every    *)
(* output is there, the candidate ended by itself before the wall clock    *)
(* did.  And of what a reported run leaves behind (executor.py, run):      *)
(* neither its candidate nor its proxy, no descendant that holds its       *)
(* pipes, and its workspace only where that could not be removed.          *)
PassMeansCleanRun ==
  /\ \A r \in DOMAIN reported : reported[r].verdict = "pass" =>
       reported[r].exit = "exit0" /\ ~reported[r].late /\ reported[r].missing = 0
  /\ \A r \in DOMAIN reported : /\ r \in workspaces => r \in unremoved
                               /\ \A k \in children : k.run = r => ~k.pipes
  /\ step = "idle" => proxy = "none" /\ candidate.state # "running"

=============================================================================
