---------------------------- MODULE ReleasePlane ----------------------------
(***************************************************************************)
(* Releasing a candidate: the release pointer and its controller           *)
(* (selection/release_pointer.py, release/controller.py), the fleet        *)
(* (release/fleet.py), the fixed-horizon canary (release/canary.py) run by *)
(* the canary service (api/canary.py), invalidation                        *)
(* (release/invalidation.py), and the activation ledger.                   *)
(*                                                                         *)
(* Pointer and fleet are objects of the server process, shared by its      *)
(* threads and lost with it; the ledger is in the database.  One action is *)
(* one access of a thread to one of them.                                  *)
(***************************************************************************)
EXTENDS Integers, FiniteSets

(***************************************************************************)
(* The release activation ledger (release_activations) and the requests    *)
(* that move it: create_release, promote_release and rollback_release of   *)
(* api/service.py.  A request runs in one READ COMMITTED transaction: it   *)
(* checks the release's latest row, reads the rows it will supersede, and  *)
(* writes; other transactions may commit between any two of these.         *)
(*                                                                         *)
(* A row's created_at is the time its transaction began, and the latest    *)
(* row of a release is the one with the highest created_at.                *)
(***************************************************************************)
CONSTANTS
  Releases,  (* release manifests, named by their digests *)
  Prior,     (* prior_release_digest of each of them      *)
  None,
  Threads,   (* the server's worker threads               *)
  MaxTxns    (* bound of the model: ledger transactions   *)

ASSUME LedgerAssumption ==
  /\ None \notin Releases
  /\ Prior \in [Releases -> Releases \cup {None}]
  /\ \A r \in Releases : Prior[r] # r
  /\ MaxTxns \in Nat

VARIABLES
  rows,    (* release_activations: a set of rows, identified by rel and at *)
  now,     (* number of ledger transactions begun *)
  step,    (* per thread: where its request is *)
  intent,  (* per thread: what its request is for *)
  rel,     (* per thread: the release its request is about *)
  at,      (* per thread: when its transaction began *)
  listed,  (* per thread: the rows it is going to supersede *)
  alone    (* the threads whose request has not overlapped with another one *)

ledgerVars == <<rows, now>>
requestVars == <<step, intent, rel, at, listed, alone>>

Statuses == {"canary", "active", "superseded", "rolled_back"}

(* _latest_activation *)
Latest(R)   == {x \in R : \A y \in R : y.at <= x.at}
Status(r) == {x.status : x \in Latest({y \in rows : y.rel = r})}

Recorded(r) == \E x \in rows : x.rel = r
Active == {r \in Releases : Status(r) = {"active"}}

LedgerInit ==
  /\ rows = {} /\ now = 0
  /\ step = [t \in Threads |-> "idle"] /\ intent = [t \in Threads |-> "none"]
  /\ rel = [t \in Threads |-> None] /\ at = [t \in Threads |-> 0]
  /\ listed = [t \in Threads |-> {}] /\ alone = {}

-----------------------------------------------------------------------------
(* a request enters a thread, ... *)
Begin(t, what, r, first) ==
  /\ step[t] = "idle"
  /\ step' = [step EXCEPT ![t] = first]
  /\ intent' = [intent EXCEPT ![t] = what]
  /\ rel' = [rel EXCEPT ![t] = r]
  /\ alone' = IF \A u \in Threads \ {t} : step[u] = "idle" THEN {t} ELSE {}
  /\ UNCHANGED listed

(* ... goes on, ... *)
Goto(t, next) ==
  /\ step' = [step EXCEPT ![t] = next]
  /\ UNCHANGED <<intent, rel, alone>>

Continue(t, next) == Goto(t, next) /\ UNCHANGED <<at, listed>>

(* ... and leaves it *)
End(t) ==
  /\ step' = [step EXCEPT ![t] = "idle"] /\ intent' = [intent EXCEPT ![t] = "none"]
  /\ rel' = [rel EXCEPT ![t] = None] /\ at' = [at EXCEPT ![t] = 0]
  /\ listed' = [listed EXCEPT ![t] = {}]
  /\ alone' = alone \ {t}

BeginTransaction(t) ==
  /\ now < MaxTxns
  /\ now' = now + 1
  /\ at' = [at EXCEPT ![t] = now + 1]

Row(r, s, n) == [rel |-> r, status |-> s, at |-> n]

(* The manifest and its first row, in one transaction; a manifest's digest *)
(* is unique, and the prior release it names is recorded.                  *)
Create ==
  /\ now < MaxTxns /\ now' = now + 1
  /\ \E r \in Releases, s \in {"canary", "active"} :
       /\ ~Recorded(r)
       /\ Prior[r] = None \/ Recorded(Prior[r])
       /\ rows' = rows \cup {Row(r, s, now + 1)}
  /\ alone' = {}
  /\ UNCHANGED <<step, intent, rel, at, listed>>

MayPromote(r)  == Status(r) = {"canary"}
MayRollBack(r) == Status(r) \in {{"canary"}, {"active"}}

Promote(t) ==
  /\ \E r \in Releases : MayPromote(r) /\ Begin(t, "promote", r, "checked")
  /\ BeginTransaction(t)
  /\ UNCHANGED rows

RollBackRelease(t) ==
  /\ \E r \in Releases : MayRollBack(r) /\ Begin(t, "rollback", r, "checked")
  /\ BeginTransaction(t)
  /\ UNCHANGED rows

(* the release a transaction makes active *)
Target(t) == IF intent[t] = "promote" THEN rel[t] ELSE Prior[rel[t]]

(* _supersede_other_active: its query ... *)
OthersOfPrior(r) == {x \in rows : x.status = "active" /\ Prior[x.rel] = r}
OthersActive(r)  == {x \in rows : x.status = "active" /\ x.rel # r}

(* ... which a rollback to no prior release skips *)
ListActive(t) ==
  /\ step[t] = "checked"
  /\ listed' = [listed EXCEPT ![t] = IF Target(t) = None THEN {} ELSE OthersActive(Target(t))]
  /\ Goto(t, "listed")
  /\ UNCHANGED <<rows, now, at>>

Superseded(t) == {IF \E y \in listed[t] : y.rel = x.rel /\ y.at = x.at
                    THEN [x EXCEPT !.status = "superseded"] ELSE x : x \in rows}

NewRows(t) ==
  (IF intent[t] = "promote" THEN {} ELSE {Row(rel[t], "rolled_back", at[t])})
    \cup (IF Target(t) = None THEN {} ELSE {Row(Target(t), "active", at[t])})

CommitMove(t) ==
  /\ step[t] = "listed"
  /\ rows' = Superseded(t) \cup NewRows(t)
  /\ End(t)
  /\ UNCHANGED now

LedgerStep(t) == Promote(t) \/ RollBackRelease(t) \/ ListActive(t) \/ CommitMove(t)

-----------------------------------------------------------------------------
(* The plane: pointer, fleet and canaries                                  *)

CONSTANTS
  Tasks,      (* paired tasks of a canary; its sessions are named by task index *)
  MaxCrashes  (* bound of the model *)

ASSUME PlaneAssumption == Tasks \in Nat \ {0} /\ MaxCrashes \in Nat

VARIABLES
  pointer,    (* ReleasePointerStore: the active digest *)
  fleet,      (* the digest the fleet's workers were last told to resolve *)
  pins,       (* the fleet's sessions: by task index, digest and arm *)
  incumbent,  (* per thread: the incumbent its canary read *)
  slice,      (* per thread: the tasks of its canary drawn for the candidate *)
  task,       (* per thread: the task its canary is at *)
  crashes

planeVars  == <<pointer, fleet, pins>>
canaryVars == <<incumbent, slice, task>>
vars == <<ledgerVars, requestVars, planeVars, canaryVars, crashes>>

Unpinned == [digest |-> None, arm |-> "none"]

Init ==
  /\ LedgerInit
  /\ pointer = None /\ fleet = None /\ pins = [i \in 1..Tasks |-> Unpinned]
  /\ incumbent = [t \in Threads |-> None] /\ slice = [t \in Threads |-> {}]
  /\ task = [t \in Threads |-> 1]
  /\ crashes = 0

-----------------------------------------------------------------------------
(* a canary's request forgets what it read and drew *)
Forget(t) ==
  /\ incumbent' = [incumbent EXCEPT ![t] = None]
  /\ slice' = [slice EXCEPT ![t] = {}]
  /\ task' = [task EXCEPT ![t] = 1]

Leave(t) == End(t) /\ Forget(t)

-----------------------------------------------------------------------------
(* start_canary: admission *)

(* the release must be in canary status *)
Ask(t) ==
  /\ \E r \in Releases : MayPromote(r) /\ Begin(t, "canary", r, "asked")
  /\ UNCHANGED <<ledgerVars, at, planeVars, canaryVars, crashes>>

(* _ensure_incumbent_active: a pointer that was never set is activated on  *)
(* the release of the newest active row                                    *)
NewestActive == {x.rel : x \in Latest({y \in rows : y.status = "active"})}

FindIncumbent(t) ==
  /\ step[t] = "asked" /\ pointer = None
  /\ \E r \in NewestActive : incumbent' = [incumbent EXCEPT ![t] = r]
  /\ Continue(t, "bootstrapping")
  /\ UNCHANGED <<ledgerVars, planeVars, slice, task, crashes>>

Bootstrap(t) ==
  /\ step[t] = "bootstrapping"
  /\ pointer' = incumbent[t]
  /\ Continue(t, "bootstrapped")
  /\ UNCHANGED <<ledgerVars, fleet, pins, canaryVars, crashes>>

(* a canary compares its candidate against the incumbent it declares *)
AnyIncumbent(r) == Prior[r] # None
DeclaredIncumbent(r) == Prior[r] # None /\ Prior[r] = pointer

Admit(t) ==
  /\ step[t] \in {"asked", "bootstrapped"} /\ pointer # None
  /\ DeclaredIncumbent(rel[t])
  /\ Continue(t, "admitted")
  /\ UNCHANGED <<ledgerVars, planeVars, canaryVars, crashes>>

Refuse(t) ==
  /\ step[t] \in {"asked", "bootstrapped"}
  /\ IF pointer = None THEN NewestActive = {} ELSE ~DeclaredIncumbent(rel[t])
  /\ Leave(t)
  /\ UNCHANGED <<ledgerVars, planeVars, crashes>>

-----------------------------------------------------------------------------
(* CanaryHarness.run, as the service constructs it: without a compensation plan *)

Start(t) ==
  /\ step[t] = "admitted"
  /\ pointer # rel[t]
  /\ incumbent' = [incumbent EXCEPT ![t] = pointer]
  /\ Continue(t, "started")
  /\ UNCHANGED <<ledgerVars, planeVars, slice, task, crashes>>

(* another canary of the same release has activated it in the meantime *)
StartRefused(t) ==
  /\ step[t] = "admitted" /\ pointer = rel[t]
  /\ Leave(t)
  /\ UNCHANGED <<ledgerVars, planeVars, crashes>>

(* ReleaseController.activate swaps from whatever is current *)
Activate(t) ==
  /\ step[t] = "started"
  /\ pointer' = rel[t]
  /\ Continue(t, "activated")
  /\ UNCHANGED <<ledgerVars, fleet, pins, canaryVars, crashes>>

(* the fleet drops its caches; the candidate's slice is drawn, never all of it *)
Allocate(t) ==
  /\ step[t] = "activated"
  /\ fleet' = rel[t]
  /\ \E s \in SUBSET (1..Tasks) : s # 1..Tasks /\ slice' = [slice EXCEPT ![t] = s]
  /\ task' = [task EXCEPT ![t] = 1]
  /\ Continue(t, "running")
  /\ UNCHANGED <<ledgerVars, pointer, pins, incumbent, crashes>>

(* the pin a task asks for *)
Pin(t, i) == IF i \in slice[t] THEN [digest |-> rel[t], arm |-> "candidate"]
                               ELSE [digest |-> incumbent[t], arm |-> "incumbent"]

(* The fleet knows the session from an earlier canary: pinning it to       *)
(* another release is refused, and the arm it was first pinned for decides *)
(* where it may write.                                                     *)
AnyPin(i, p) == TRUE
Pinnable(i, p) == pins[i] \in {Unpinned, p}

LastTaskLate(t) == task[t] > Tasks
LastTask(t) == task[t] = Tasks

RunTask(t) ==
  /\ step[t] = "running"
  /\ LET i == task[t] IN
       /\ Pinnable(i, Pin(t, i))
       /\ pins' = [pins EXCEPT ![i] = IF @ = Unpinned THEN Pin(t, i) ELSE @]
  /\ \/ (* a severity-1 event stops the horizon *)
        Continue(t, "stopping") /\ UNCHANGED task
     \/ LastTask(t) /\ Continue(t, "completed") /\ UNCHANGED task
     \/ ~LastTask(t) /\ UNCHANGED requestVars /\ task' = [task EXCEPT ![t] = @ + 1]
  /\ UNCHANGED <<ledgerVars, pointer, fleet, incumbent, slice, crashes>>

(* pin_session or write_state raises, and nothing catches it *)
TaskRaises(t) ==
  /\ step[t] = "running" /\ ~Pinnable(task[t], Pin(t, task[t]))
  /\ Leave(t)
  /\ UNCHANGED <<ledgerVars, planeVars, crashes>>

(* ReleaseController.rollback swaps from the manifest's own digest *)
FromItself(r) == pointer = r

RollBack(t) ==
  /\ step[t] = "stopping" /\ FromItself(rel[t])
  /\ pointer' = Prior[rel[t]]
  /\ Continue(t, "restoring")
  /\ UNCHANGED <<ledgerVars, fleet, pins, canaryVars, crashes>>

RollBackRaises(t) ==
  /\ step[t] = "stopping" /\ ~FromItself(rel[t])
  /\ Leave(t)
  /\ UNCHANGED <<ledgerVars, planeVars, crashes>>

Restore(t) ==
  /\ step[t] = "restoring"
  /\ fleet' = incumbent[t]
  /\ \/ intent[t] = "canary" /\ Continue(t, "rolledback") /\ UNCHANGED canaryVars
     \/ intent[t] = "invalidate" /\ Leave(t)
  /\ UNCHANGED <<ledgerVars, pointer, pins, crashes>>

-----------------------------------------------------------------------------
(* start_canary: the run is recorded, and a severity-1 event is followed by *)
(* the ledger's rollback                                                    *)

RecordCompleted(t) ==
  /\ step[t] = "completed"
  /\ Leave(t)
  /\ UNCHANGED <<ledgerVars, planeVars, crashes>>

RecordRolledBack(t) ==
  /\ step[t] = "rolledback"
  /\ Continue(t, "undoing")
  /\ UNCHANGED <<ledgerVars, planeVars, canaryVars, crashes>>

UndoRelease(t) ==
  /\ step[t] = "undoing" /\ MayRollBack(rel[t])
  /\ BeginTransaction(t)
  /\ Goto(t, "checked") /\ Forget(t)
  /\ UNCHANGED <<rows, listed, planeVars, crashes>>

UndoRefused(t) ==
  /\ step[t] = "undoing" /\ ~MayRollBack(rel[t])
  /\ Leave(t)
  /\ UNCHANGED <<ledgerVars, planeVars, crashes>>

-----------------------------------------------------------------------------
(* invalidation: what was observed, and what the default policy answers *)
InvalidationTriggers == {"model_alias_drift", "tool_api_change", "dependency_cve",
                         "evaluator_change", "expiry", "environment_drift"}
InvalidationPolicy == [trigger \in InvalidationTriggers |->
  CASE trigger \in {"model_alias_drift", "evaluator_change"} -> "re_evaluate"
    [] trigger \in {"tool_api_change", "expiry"}             -> "quarantine"
    [] trigger \in {"dependency_cve", "environment_drift"}   -> "roll_back"]
InvalidationActions == <<"re_evaluate", "quarantine", "roll_back">>  \* by severity

(* evaluate_invalidation: a decision per signal *)
DecisionsOn(signals) == {[trigger |-> s, action |-> InvalidationPolicy[s]] : s \in signals}

(* strongest_action: the most severe of the decisions *)
StrongestAction(decisions) ==
  LET severity == {i \in 1..3 : \E d \in decisions : d.action = InvalidationActions[i]}
  IN  IF decisions = {} THEN "none"
      ELSE InvalidationActions[CHOOSE i \in severity : \A j \in severity : j <= i]

(* ReleaseInvalidator.handle: only a rollback touches the pointer; one signal or two at once *)
Invalidate(t) ==
  /\ \E a, b \in InvalidationTriggers : StrongestAction(DecisionsOn({a, b})) = "roll_back"
  /\ \E r \in Releases :
       /\ FromItself(r) /\ Prior[r] # None
       /\ Begin(t, "invalidate", r, "restoring")
       /\ pointer' = Prior[r]
       /\ incumbent' = [incumbent EXCEPT ![t] = Prior[r]]
  /\ UNCHANGED <<ledgerVars, at, fleet, pins, slice, task, crashes>>

(* the server process dies and another one starts *)
Crash ==
  /\ crashes < MaxCrashes
  /\ crashes' = crashes + 1
  /\ pointer' = None /\ fleet' = None /\ pins' = [i \in 1..Tasks |-> Unpinned]
  /\ step' = [t \in Threads |-> "idle"] /\ intent' = [t \in Threads |-> "none"]
  /\ rel' = [t \in Threads |-> None] /\ at' = [t \in Threads |-> 0]
  /\ listed' = [t \in Threads |-> {}] /\ alone' = {}
  /\ incumbent' = [t \in Threads |-> None] /\ slice' = [t \in Threads |-> {}]
  /\ task' = [t \in Threads |-> 1]
  /\ UNCHANGED ledgerVars

-----------------------------------------------------------------------------
Registration == Create /\ UNCHANGED <<planeVars, canaryVars, crashes>>
Ledger(t) == LedgerStep(t) /\ UNCHANGED <<planeVars, canaryVars, crashes>>
Admission(t) == Ask(t) \/ FindIncumbent(t) \/ Bootstrap(t) \/ Admit(t) \/ Refuse(t)
Harness(t) == \/ Start(t) \/ StartRefused(t) \/ Activate(t) \/ Allocate(t) \/ RunTask(t) \/ TaskRaises(t)
              \/ RollBack(t) \/ RollBackRaises(t) \/ Restore(t)
Outcome(t) == RecordCompleted(t) \/ RecordRolledBack(t) \/ UndoRelease(t) \/ UndoRefused(t)

Work(t) == Ledger(t) \/ Admission(t) \/ Harness(t) \/ Outcome(t) \/ Invalidate(t)

Next == Registration \/ Crash \/ \E t \in Threads : Work(t)

Spec == Init /\ [][Next]_vars

-----------------------------------------------------------------------------
Rows == [rel : Releases, status : Statuses, at : Nat]

LedgerTypeOK ==
  /\ rows \subseteq Rows /\ now \in Nat
  /\ rel \in [Threads -> Releases \cup {None}] /\ at \in [Threads -> Nat]
  /\ listed \in [Threads -> SUBSET Rows] /\ alone \subseteq Threads

Steps == {"idle", "checked", "listed", "asked", "bootstrapping", "bootstrapped", "admitted",
          "started", "activated", "running", "stopping", "restoring", "completed", "rolledback", "undoing"}

(* Every variable has its type. *)
TypeOK ==
  /\ LedgerTypeOK
  /\ step \in [Threads -> Steps]
  /\ intent \in [Threads -> {"none", "promote", "rollback", "canary", "invalidate"}]
  /\ {pointer, fleet} \subseteq Releases \cup {None}
  /\ pins \in [1..Tasks -> [digest : Releases \cup {None}, arm : {"none", "candidate", "incumbent"}]]
  /\ incumbent \in [Threads -> Releases \cup {None}]
  /\ slice \in [Threads -> SUBSET (1..Tasks)] /\ task \in [Threads -> 1..Tasks]
  /\ crashes \in Nat

(* A canary nothing else interfered with, stopped by a severity-1 event,   *)
(* leaves pointer and fleet at the incumbent it started from, whatever     *)
(* earlier runs, invalidations and failures left behind.                   *)
RolledBackRunRestores ==
  \A t \in alone : step[t] \in {"rolledback", "undoing"} =>
    pointer = incumbent[t] /\ fleet = incumbent[t]

(* A canary that completed undisturbed serves what it measured: pointer    *)
(* and fleet are at the candidate, and every session of its slice, and no  *)
(* other, was pinned to it, although the fleet remembers the sessions of   *)
(* earlier canaries.                                                       *)
CompletedRunMeasured ==
  \A t \in alone : step[t] = "completed" =>
    pointer = rel[t] /\ fleet = rel[t] /\ \A i \in 1..Tasks : pins[i] = Pin(t, i)

(* Either way, how a canary ended says what is served afterwards           *)
(* (release/canary.py:61, CanaryOutcome).                                  *)
EndsAsServed == RolledBackRunRestores /\ CompletedRunMeasured

(* "How the canary ended. Only COMPLETED leaves the candidate active"      *)
(* (release/canary.py:61): a canary that was admitted, that no other       *)
(* request touched and that ends otherwise leaves the pointer elsewhere.   *)
OnlyCompletedLeavesActive ==
  [][\A t \in alone :
       /\ intent[t] = "canary" /\ step'[t] = "idle"
       /\ step[t] \notin {"idle", "asked", "bootstrapping", "bootstrapped", "admitted", "completed"}
       => pointer' # rel[t]]_<<step, pointer>>

(* "exactly one release is active at a time" (_supersede_other_active): a  *)
(* promotion or rollback that overlapped with no other request leaves its  *)
(* target as the only active release, whatever races and direct            *)
(* activations left behind before it.                                      *)
MovesLeaveOneActive ==
  [][\A t \in alone : step[t] = "listed" /\ step'[t] = "idle" /\ rows' # rows /\ Target(t) # None
       => Active' = {Target(t)}]_<<rows, step>>

=============================================================================
