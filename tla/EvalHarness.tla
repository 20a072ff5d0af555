----------------------------- MODULE EvalHarness -----------------------------
(***************************************************************************)
(* The matched-budget harness (eval/): run_experiment runs every declared  *)
(* arm over the task set (runner.py), each run under a BudgetMeter of its  *)
(* own over the one budget all arms share (budgets.py), with a scripted or *)
(* a live backend (backends.py), and a verifier decides the outcome from   *)
(* the attempts (tasks.py).  A live backend reserves, dials the provider   *)
(* and reconciles; real time passes while it does.                         *)
(*                                                                         *)
(* One task and one seed: runs differ by arm only, and every run gets a    *)
(* fresh meter.  Costs and claims are nondeterministic; a provider is      *)
(* taken to keep to the max_tokens it was asked for (the code would refund *)
(* nothing, and charge nothing, for an answer that is longer).             *)
(***************************************************************************)
EXTENDS Integers, Sequences, FiniteSets

CONSTANTS
  Arms,         (* the experiment's arms, in order, with their backend: [kind, maxAttempts, live] *)
  Limit,        (* the TaskBudget: [input, output, calls, wall] *)
  MaxPerCall,   (* max_output_tokens of the live backend *)
  MaxCost       (* bound: tokens a prompt costs *)

(* what an arm can run out of (BudgetDimension), and the envelope all arms  *)
(* hold: every ceiling is positive (TaskBudget.__post_init__)              *)
BudgetDimensions == {"input", "output", "calls", "wall"}
TaskBudgets == [BudgetDimensions -> Nat \ {0}]

ASSUME HarnessAssumption ==
  /\ \A i \in DOMAIN Arms : Arms[i].maxAttempts \in Nat \ {0}
  /\ Limit \in TaskBudgets
  /\ MaxPerCall \in Nat /\ MaxCost \in Nat

VARIABLES
  runPc,      (* "attempt": before a backend call; "dialling": a provider has the request; "record"; "done" *)
  arm,        (* index of the arm that runs *)
  meter,      (* BudgetMeter: what was charged, and the time since it was made *)
  reserved,   (* the live backend's reservation: [input, output] *)
  claims,     (* the claims of the attempts that completed *)
  stop,       (* the run's stop reason *)
  billed,     (* what the run's completed attempts really cost: [input, output] *)
  runs        (* finished runs: [kind, success, stop, attempts, billed] *)

runVars == <<runPc, arm, meter, reserved, claims, stop, billed, runs>>

(* a BudgetMeter as its run makes it *)
Zero == [d \in BudgetDimensions |-> 0]
NoTokens == [input |-> 0, output |-> 0]

HarnessInit ==
  /\ runPc = "attempt" /\ arm = 1 /\ meter = Zero /\ reserved = NoTokens
  /\ claims = <<>> /\ stop = "completed" /\ billed = NoTokens /\ runs = <<>>

-----------------------------------------------------------------------------
(* strategy_for *)
Attempts(a) == IF a.kind = "retry" THEN a.maxAttempts ELSE 1
AllowTools(a) == a.kind # "one_shot"

(* BudgetMeter.charge: recorded in full or not at all.  A usage is within  *)
(* the budget when no dimension is above its ceiling (BudgetUsage.within,  *)
(* TaskBudget.limit).                                                      *)
Plus(m, c) == [d \in DOMAIN m |-> m[d] + c[d]]
Ceiling(d) == Limit[d]
WithinBudget(usage) == \A d \in BudgetDimensions : usage[d] <= Ceiling(d)
Fits(c) == WithinBudget(Plus(meter, c))
Charge(c) == Fits(c) /\ meter' = Plus(meter, c)

Remaining(d) == IF Ceiling(d) > meter[d] THEN Ceiling(d) - meter[d] ELSE 0

Lesser(a, b) == IF a < b THEN a ELSE b

(* the verifiers: the last claim, or a strict majority for the retry arm *)
Yes(s) == Cardinality({i \in DOMAIN s : s[i]})
Verified(a, s) ==
  IF a.kind = "retry" THEN 2 * Yes(s) > Len(s) ELSE s # <<>> /\ s[Len(s)]

(* run_task's handlers: budget exhaustion and backend errors end the run *)
StopWith(reason) ==
  /\ stop' = reason /\ runPc' = "record"
  /\ UNCHANGED <<arm, claims, billed, runs>>

(* the attempt is recorded; the loop goes on while attempts are left *)
Completed(claim, cost) ==
  /\ claims' = Append(claims, claim)
  /\ billed' = [input |-> billed.input + cost.input, output |-> billed.output + cost.output]
  /\ runPc' = IF Len(claims') < Attempts(Arms[arm]) THEN "attempt" ELSE "record"
  /\ UNCHANGED <<arm, stop, runs>>

-----------------------------------------------------------------------------
(* checkpoint() before a retry: only time can have run out *)
CheckpointFails ==
  /\ runPc = "attempt" /\ claims # <<>> /\ ~Fits(Zero)
  /\ StopWith("budget_exhausted")
  /\ UNCHANGED <<meter, reserved>>

MayAttempt == runPc = "attempt" /\ (claims # <<>> => Fits(Zero))

(* ScriptedAgent.run and BernoulliScriptedAgent.run: charge, then the claim *)
ScriptedAttempt ==
  /\ MayAttempt /\ ~Arms[arm].live
  /\ \E input \in 1..MaxCost, claim \in BOOLEAN :
       LET cost == [input |-> input, output |-> 1, calls |-> IF AllowTools(Arms[arm]) THEN 1 ELSE 0, wall |-> 0] IN
       \/ ~Fits(cost) /\ StopWith("budget_exhausted") /\ UNCHANGED meter
       \/ Charge(cost) /\ Completed(claim, cost)
  /\ UNCHANGED reserved

(* a denied dial, a missing credential, a missing script: EvalError *)
BackendFails ==
  /\ MayAttempt \/ runPc = "dialling"
  /\ StopWith("backend_error")
  /\ UNCHANGED <<meter, reserved>>

(* OpenAICompatibleBackend.run: the estimated input and the whole output   *)
(* allowance are charged before the request goes out ...                   *)
Reservation(input) == [input |-> input, output |-> Lesser(MaxPerCall, Remaining("output")), calls |-> 0, wall |-> 0]

Reserve ==
  /\ MayAttempt /\ Arms[arm].live
  /\ \E input \in 1..MaxCost :
       LET cost == Reservation(input) IN
       \/ /\ ~Fits(cost)
          /\ StopWith("budget_exhausted")
          /\ UNCHANGED <<meter, reserved>>
       \/ /\ Charge(cost)
          /\ reserved' = [input |-> cost.input, output |-> cost.output]
          /\ runPc' = "dialling"
          /\ UNCHANGED <<arm, claims, stop, billed, runs>>

(* ... and reconciled with the provider's usage when the answer is in:     *)
(* unused output comes back, input the estimate missed is charged          *)
RefundedAll(out) == [meter EXCEPT !.output = @ - reserved.output]
Refunded(out) == [meter EXCEPT !.output = @ - (reserved.output - out)]

ReconcileUsage ==
  /\ runPc = "dialling"
  /\ \E input \in 1..(MaxCost + 1), out \in 0..reserved.output, claim \in BOOLEAN :
       LET missed == [Zero EXCEPT !.input = IF input > reserved.input THEN input - reserved.input ELSE 0]
           settled == Plus(Refunded(out), missed)
       IN  \/ ~WithinBudget(settled) /\ meter' = Refunded(out) /\ StopWith("budget_exhausted")
           \/ WithinBudget(settled) /\ meter' = settled
                              /\ Completed(claim, [input |-> input, output |-> out])
  /\ UNCHANGED reserved

(* real time, between attempts and while the provider answers *)
TimePasses ==
  /\ runPc \in {"attempt", "dialling"} /\ meter.wall <= Limit.wall
  /\ meter' = [meter EXCEPT !.wall = @ + 1]
  /\ UNCHANGED <<runPc, arm, reserved, claims, stop, billed, runs>>

(* the run's outcome; the next arm starts on a fresh meter *)
RecordRun ==
  /\ runPc = "record"
  /\ runs' = Append(runs, [kind |-> Arms[arm].kind, stop |-> stop, attempts |-> Len(claims), billed |-> billed,
                           success |-> stop # "backend_error" /\ Verified(Arms[arm], claims)])
  /\ runPc' = IF arm < Len(Arms) THEN "attempt" ELSE "done"
  /\ arm' = IF arm < Len(Arms) THEN arm + 1 ELSE arm
  /\ meter' = Zero /\ reserved' = NoTokens /\ claims' = <<>> /\ stop' = "completed" /\ billed' = NoTokens

HarnessNext ==
  CheckpointFails \/ ScriptedAttempt \/ BackendFails \/ Reserve \/ ReconcileUsage \/ TimePasses \/ RecordRun

-----------------------------------------------------------------------------
HarnessTypes ==
  /\ runPc \in {"attempt", "dialling", "record", "done"} /\ arm \in 1..Len(Arms)
  /\ meter \in [BudgetDimensions -> Nat] /\ reserved \in [DOMAIN NoTokens -> Nat] /\ billed \in [DOMAIN NoTokens -> Nat]
  /\ claims \in Seq(BOOLEAN) /\ stop \in {"completed", "budget_exhausted", "backend_error"}
  /\ \A i \in DOMAIN runs : runs[i].success \in BOOLEAN /\ runs[i].attempts \in Nat

(* "An over-budget result never enters the comparison" (backends.py,       *)
(* OpenAICompatibleBackend): whatever was reserved, refunded, missed by    *)
(* the estimate or cut short, the attempts a run counts really cost no     *)
(* more tokens than the envelope all arms share, the meter never records   *)
(* less than they cost nor more than the envelope, and while the provider  *)
(* works its whole output allowance is on the meter.                       *)
CountedAttemptsFitBudget ==
  /\ \A d \in {"input", "output"} :
       /\ billed[d] <= meter[d] \/ runPc = "done"
       /\ meter[d] <= Limit[d]
       /\ \A i \in DOMAIN runs : runs[i].billed[d] <= Limit[d]
  /\ meter.calls <= Limit.calls
  /\ runPc = "dialling" => billed.output + reserved.output <= meter.output

=============================================================================
