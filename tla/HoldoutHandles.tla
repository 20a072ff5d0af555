--------------------------- MODULE HoldoutHandles ---------------------------
(***************************************************************************)
(* Sealed holdouts (datasets/service.py): handles over a sealed partition, *)
(* their tokens and alpha budgets, and the ledger of every resolution; the *)
(* evaluation of a frozen candidate that starts with a resolution          *)
(* (execution/holdout.py); and the two-transaction handoff of a holdout    *)
(* from one campaign generation to the next (campaign/generation2.py).     *)
(*                                                                         *)
(* resolve, rotate_handle and revoke_handle load the handle by its token   *)
(* FOR UPDATE and commit before they answer, so each is one action.        *)
(* Tokens are numbered in the order they are minted; time is the action    *)
(* HandleExpires.  Reads answer from one row and change nothing.           *)
(***************************************************************************)
EXTENDS Integers, Sequences, FiniteSets

CONSTANTS
  Principals,     (* callers: [role, tenant] *)
  AlphaTotal, AlphaPerQuery,
  MaxHandles, MaxTokens, MaxLedger   (* bounds of the model *)

ASSUME HandleAssumption ==
  /\ \A p \in Principals : p.role \in {"evaluator", "candidate_runner"} /\ p.tenant \in {"own", "other"}
  /\ AlphaTotal \in Nat /\ AlphaPerQuery \in Nat \ {0}
  /\ {MaxHandles, MaxTokens, MaxLedger} \subseteq Nat

VARIABLES
  partitions, (* the kinds of the partitions created; the sealed one is "holdout" *)
  handles,    (* the rows of holdout_handles, all over the sealed partition, of tenant "own" *)
  minted,     (* tokens minted so far *)
  known,      (* tokens some caller was given *)
  ledger,     (* the rows of holdout_query_ledger, in commit order *)
  disclosed,  (* <<caller, ledger row>>: a sealed locator handed out; row 0: by a listing *)
  derive,     (* the run of prepare_generation2_holdouts: the handle it rotated, 0 before and after *)
  evaluating, (* the ledger row a holdout evaluation in progress runs on, 0 when none does *)
  evidence    (* ledger rows whose evaluation returned paired scores *)

handleVars == <<partitions, handles, minted, known, ledger, disclosed, derive, evaluating, evidence>>

HandleRows == [token : Nat, revoked : BOOLEAN, expired : BOOLEAN, spent : Nat, parent : Nat]

LedgerRows == [handle : Nat, token : Nat, caller : Principals,
               denial : {"none", "role_not_evaluator", "tenant_mismatch", "handle_revoked",
                         "handle_expired", "alpha_budget_exhausted"},
               spent : Nat, remaining : Int]

HandleInit ==
  /\ partitions = {} /\ handles = <<>> /\ minted = 0 /\ known = {} /\ ledger = <<>> /\ disclosed = {}
  /\ derive = 0 /\ evaluating = 0 /\ evidence = {}

-----------------------------------------------------------------------------
(* Who may do what *)

HasHoldoutAccess(p) == p.role = "evaluator"

IsSealed(kind) == kind = "holdout"

MutationDenial(p) ==
  IF ~HasHoldoutAccess(p) THEN "role_not_evaluator"
  ELSE IF p.tenant # "own" THEN "tenant_mismatch" ELSE "none"

AlphaRemaining(h) == AlphaTotal - handles[h].spent

(* _denial_reason: role, tenant, state, budget, in this order *)
Denial(p, h) ==
  IF MutationDenial(p) # "none" THEN MutationDenial(p)
  ELSE IF handles[h].revoked THEN "handle_revoked"
  ELSE IF handles[h].expired THEN "handle_expired"
  ELSE IF AlphaRemaining(h) < AlphaPerQuery THEN "alpha_budget_exhausted" ELSE "none"

(* the handle a token is the current one of: _lock_handle finds it or nothing *)
HandlesOf(t) == {h \in DOMAIN handles : handles[h].token = t}

(* _append_ledger_row, after the budget was charged *)
LedgerRow(p, h, denial, spent) ==
  [handle |-> h, token |-> handles[h].token, caller |-> p, denial |-> denial,
   spent |-> spent, remaining |-> AlphaRemaining(h) - spent]

Deny(p, h, denial) == ledger' = Append(ledger, LedgerRow(p, h, denial, 0))

-----------------------------------------------------------------------------
(* Operations *)

CreatePartition(p, kind) ==
  /\ p.tenant = "own" /\ kind \notin partitions
  /\ IsSealed(kind) => HasHoldoutAccess(p)
  /\ partitions' = partitions \cup {kind}
  /\ UNCHANGED <<handles, minted, known, ledger, disclosed, derive, evaluating, evidence>>

(* list_partitions and get_partition show the locators of what is not sealed *)
ReadPartitions(p) ==
  /\ p.tenant = "own" /\ "holdout" \in partitions
  /\ disclosed' = IF IsSealed("holdout") THEN disclosed ELSE disclosed \cup {<<p, 0>>}
  /\ UNCHANGED <<partitions, handles, minted, known, ledger, derive, evaluating, evidence>>

NewHandle(parent) ==
  [token |-> minted + 1, revoked |-> FALSE, expired |-> FALSE, spent |-> 0, parent |-> parent]

(* issue_handle's transaction, for a caller the policy lets in *)
Insert(parent) ==
  /\ "holdout" \in partitions
  /\ Len(handles) < MaxHandles /\ minted < MaxTokens
  /\ handles' = Append(handles, NewHandle(parent))
  /\ minted' = minted + 1 /\ known' = known \cup {minted'}

IssueHandle(p) ==
  /\ MutationDenial(p) = "none"
  /\ Insert(0)
  /\ UNCHANGED <<partitions, ledger, disclosed, derive, evaluating, evidence>>

(* resolve: the budget, the ledger row and the content in one transaction; *)
(* evaluate_frozen_candidate goes on with the experiment when it is granted *)
Resolve(p, t, evaluate) ==
  /\ Len(ledger) < MaxLedger
  /\ evaluate => evaluating = 0
  /\ \E h \in HandlesOf(t) :
       LET denial == Denial(p, h) IN
       \/ /\ denial # "none"
          /\ Deny(p, h, denial)
          /\ UNCHANGED <<handles, disclosed, evaluating>>
       \/ /\ denial = "none"
          /\ handles' = [handles EXCEPT ![h].spent = @ + AlphaPerQuery]
          /\ ledger' = Append(ledger, LedgerRow(p, h, "none", AlphaPerQuery))
          /\ disclosed' = disclosed \cup {<<p, Len(ledger')>>}
          /\ evaluating' = IF evaluate THEN Len(ledger') ELSE evaluating
  /\ UNCHANGED <<partitions, minted, known, derive, evidence>>

(* run_experiment returns paired scores, or raises with the alpha spent *)
EvaluationEnds ==
  /\ evaluating # 0
  /\ \/ evidence' = evidence \cup {evaluating}
     \/ UNCHANGED evidence
  /\ evaluating' = 0
  /\ UNCHANGED <<partitions, handles, minted, known, ledger, disclosed, derive>>

(* rotate_handle's transaction: a new token and a new freshness window; the *)
(* budget stays spent, and a revocation is taken back                       *)
RotatedForgiven(h) == [handles[h] EXCEPT !.token = minted + 1, !.expired = FALSE, !.revoked = FALSE, !.spent = 0]
Rotated(h) == [handles[h] EXCEPT !.token = minted + 1, !.expired = FALSE, !.revoked = FALSE]

RotateHandle(p, t) ==
  /\ \E h \in HandlesOf(t) :
       \/ /\ MutationDenial(p) # "none"
          /\ Len(ledger) < MaxLedger
          /\ Deny(p, h, MutationDenial(p))
          /\ UNCHANGED <<handles, minted, known>>
       \/ /\ MutationDenial(p) = "none"
          /\ minted < MaxTokens
          /\ handles' = [handles EXCEPT ![h] = Rotated(h)]
          /\ minted' = minted + 1 /\ known' = known \cup {minted'}
          /\ UNCHANGED ledger
  /\ UNCHANGED <<partitions, disclosed, derive, evaluating, evidence>>

RevokeHandle(p, t) ==
  /\ \E h \in HandlesOf(t) :
       \/ /\ MutationDenial(p) # "none"
          /\ Len(ledger) < MaxLedger
          /\ Deny(p, h, MutationDenial(p))
          /\ UNCHANGED handles
       \/ /\ MutationDenial(p) = "none"
          /\ handles' = [handles EXCEPT ![h].revoked = TRUE]
          /\ UNCHANGED ledger
  /\ UNCHANGED <<partitions, minted, known, disclosed, derive, evaluating, evidence>>

HandleExpires ==
  /\ \E h \in DOMAIN handles :
       /\ ~handles[h].expired
       /\ handles' = [handles EXCEPT ![h].expired = TRUE]
  /\ UNCHANGED <<partitions, minted, known, ledger, disclosed, derive, evaluating, evidence>>

(* prepare_generation2_holdouts, first transaction: the parent is rotated  *)
(* and its new token goes to nobody ...                                    *)
DeriveRotate(p, t) ==
  /\ derive = 0 /\ MutationDenial(p) = "none" /\ minted < MaxTokens
  /\ \E h \in HandlesOf(t) :
       /\ handles' = [handles EXCEPT ![h] = Rotated(h)]
       /\ derive' = h
  /\ minted' = minted + 1
  /\ UNCHANGED <<partitions, known, ledger, disclosed, evaluating, evidence>>

(* ... second transaction: the child is issued with a budget of its own ... *)
DeriveIssue ==
  /\ derive # 0
  /\ Insert(derive)
  /\ derive' = 0
  /\ UNCHANGED <<partitions, ledger, disclosed, evaluating, evidence>>

(* ... unless the process or the insert fails between the two *)
DeriveFails ==
  /\ derive # 0
  /\ derive' = 0
  /\ UNCHANGED <<partitions, handles, minted, known, ledger, disclosed, evaluating, evidence>>

HandleNext ==
  \/ \E p \in Principals, kind \in {"holdout"} : CreatePartition(p, kind)
  \/ \E p \in Principals : IssueHandle(p) \/ ReadPartitions(p)
  \/ \E p \in Principals, t \in known, evaluate \in BOOLEAN : Resolve(p, t, evaluate)
  \/ \E p \in Principals, t \in known : RotateHandle(p, t) \/ RevokeHandle(p, t) \/ DeriveRotate(p, t)
  \/ EvaluationEnds \/ HandleExpires \/ DeriveIssue \/ DeriveFails

-----------------------------------------------------------------------------
HandleTypes ==
  /\ partitions \subseteq {"holdout"}
  /\ handles \in Seq(HandleRows) /\ minted \in Nat /\ known \subseteq 1..minted
  /\ ledger \in Seq(LedgerRows) /\ disclosed \subseteq Principals \X Nat
  /\ derive \in 0..Len(handles) /\ evaluating \in 0..Len(ledger) /\ evidence \subseteq 1..Len(ledger)

(* what the ledger says was spent on a handle *)
Charged(h) == Cardinality({i \in DOMAIN ledger : ledger[i].handle = h /\ ledger[i].denial = "none"})

(* "The ledger can never disagree with the budget it reports" (service.py, *)
(* resolve), through rotations, revocations and the handoff; no handle is  *)
(* overdrawn; and content, evaluations and evidence are each paid for by   *)
(* a granted row of an evaluator of the tenant.                            *)
LedgerMatchesBudget ==
  /\ \A h \in DOMAIN handles :
       /\ handles[h].spent = Charged(h) * AlphaPerQuery
       /\ handles[h].spent <= AlphaTotal
  /\ \A d \in disclosed :
       /\ d[2] \in DOMAIN ledger /\ ledger[d[2]].denial = "none" /\ ledger[d[2]].caller = d[1]
       /\ d[1].role = "evaluator" /\ d[1].tenant = "own"
  /\ evidence \cup ({evaluating} \ {0}) \subseteq {d[2] : d \in disclosed}

(* "The two generations can never resolve through the same live           *)
(* capability" (generation2.py:120-122): from the moment the handoff has   *)
(* rotated the parent nobody holds a token of it, whether the child was    *)
(* issued or the second transaction failed, so every use of the parent     *)
(* precedes every use of the child.                                        *)
HandoffRetiresParent ==
  /\ \A h \in DOMAIN handles :
       h = derive \/ (\E g \in DOMAIN handles : handles[g].parent = h) => handles[h].token \notin known
  /\ \A i, j \in DOMAIN ledger : ledger[i].handle = handles[ledger[j].handle].parent => i < j

(* Holdout access is capability access (datasets/service.py and            *)
(* generation2.py): every disclosure was paid for on the ledger, and no    *)
(* two generations share a live capability.                                *)
HoldoutAccessIsEarned == LedgerMatchesBudget /\ HandoffRetiresParent

=============================================================================
