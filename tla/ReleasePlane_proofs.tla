------------------------- MODULE ReleasePlane_proofs -------------------------
(***************************************************************************)
(* Proofs about ReleasePlane, for every set of releases and threads, every *)
(* number of paired tasks and every bound.  The properties are about a     *)
(* request that overlaps with no other one, so the invariant follows that  *)
(* request alone through the steps of its canary.                          *)
(***************************************************************************)
EXTENDS ReleasePlane, TLAPS

(* a request is alone only while every other thread is idle *)
AloneOK == \A t \in alone : t \in Threads /\ step[t] # "idle"
                            /\ \A u \in Threads \ {t} : step[u] = "idle"

Activated == {"activated", "running", "stopping", "completed"}

(* what a canary alone has read and done by each of its steps *)
Admitted(t) ==
  /\ step[t] = "admitted" => pointer = Prior[rel[t]]
  /\ step[t] = "started" => incumbent[t] = Prior[rel[t]]
  /\ step[t] \in Activated => pointer = rel[t] /\ incumbent[t] = Prior[rel[t]]
Served(t) == step[t] \in {"running", "completed"} => fleet = rel[t]
Pinned(t) ==
  /\ step[t] = "running" => \A i \in 1..Tasks : i < task[t] => pins[i] = Pin(t, i)
  /\ step[t] = "completed" => \A i \in 1..Tasks : pins[i] = Pin(t, i)
Restored(t) ==
  /\ step[t] = "restoring" => pointer = incumbent[t]
  /\ step[t] \in {"rolledback", "undoing"} => pointer = incumbent[t] /\ fleet = incumbent[t]

Follows(t) == Admitted(t) /\ Served(t) /\ Pinned(t) /\ Restored(t)
AloneFollows == \A t \in alone : Follows(t)

-----------------------------------------------------------------------------
(* type correctness, variable group by variable group *)
Intents == {"none", "promote", "rollback", "canary", "invalidate"}
RowsOK    == rows \subseteq Rows /\ now \in Nat
StepOK    == step \in [Threads -> Steps] /\ intent \in [Threads -> Intents]
RequestOK == /\ rel \in [Threads -> Releases \cup {None}] /\ at \in [Threads -> Nat]
             /\ listed \in [Threads -> SUBSET Rows] /\ alone \subseteq Threads
Arms == {"none", "candidate", "incumbent"}
PlaneOK   == /\ pointer \in Releases \cup {None} /\ fleet \in Releases \cup {None}
             /\ pins \in [1..Tasks -> [digest : Releases \cup {None}, arm : Arms]]
CanaryOK  == /\ incumbent \in [Threads -> Releases \cup {None}]
             /\ slice \in [Threads -> SUBSET (1..Tasks)] /\ task \in [Threads -> 1..Tasks]
Typed == RowsOK /\ StepOK /\ RequestOK /\ PlaneOK /\ CanaryOK /\ crashes \in Nat

LEMMA TypedIsTypeOK == TypeOK <=> Typed
  BY DEF TypeOK, LedgerTypeOK, Typed, RowsOK, StepOK, RequestOK, PlaneOK, CanaryOK, Intents, Arms

LEMMA StepsTyped ==
  ASSUME NEW s \in {"idle", "checked", "listed", "asked", "bootstrapping", "bootstrapped", "admitted",
                    "started", "activated", "running", "stopping", "restoring", "completed",
                    "rolledback", "undoing"}
  PROVE  s \in Steps
  BY DEF Steps

LEMMA InitTyped == Init => Typed
<1> SUFFICES ASSUME Init PROVE Typed OBVIOUS
<1>1. RowsOK BY DEF Init, LedgerInit, RowsOK
<1>2. StepOK BY StepsTyped DEF Init, LedgerInit, StepOK, Intents
<1>3. RequestOK BY DEF Init, LedgerInit, RequestOK
<1>4. pointer = None /\ fleet = None /\ pins = [i \in 1..Tasks |-> Unpinned] BY DEF Init
<1>5. Unpinned \in [digest : Releases \cup {None}, arm : Arms] BY DEF Unpinned, Arms
<1>6. PlaneOK BY <1>4, <1>5 DEF PlaneOK
<1>7. CanaryOK BY PlaneAssumption DEF Init, CanaryOK
<1> QED BY <1>1, <1>2, <1>3, <1>6, <1>7 DEF Typed, Init

(* what a thread's bookkeeping does to the types *)
LEMMA BeginTyped ==
  ASSUME StepOK, RequestOK, NEW t \in Threads, NEW what \in Intents, NEW r \in Releases,
         NEW first \in Steps, Begin(t, what, r, first), at' \in [Threads -> Nat]
  PROVE  StepOK' /\ RequestOK'
  BY DEF StepOK, RequestOK, Begin

LEMMA GotoTyped ==
  ASSUME StepOK, NEW t \in Threads, NEW next \in Steps, Goto(t, next)
  PROVE  StepOK'
  BY DEF StepOK, Goto

LEMMA ContinueTyped ==
  ASSUME StepOK, RequestOK, NEW t \in Threads, NEW next \in Steps, Continue(t, next)
  PROVE  StepOK' /\ RequestOK'
  BY DEF StepOK, RequestOK, Continue, Goto

LEMMA EndTyped ==
  ASSUME StepOK, RequestOK, NEW t \in Threads, End(t)
  PROVE  StepOK' /\ RequestOK'
  BY StepsTyped DEF StepOK, RequestOK, End, Intents

LEMMA ForgetTyped ==
  ASSUME CanaryOK, NEW t \in Threads, Forget(t)
  PROVE  CanaryOK'
  BY PlaneAssumption DEF CanaryOK, Forget

(* the ledger's steps *)
LEMMA RowTyped ==
  ASSUME NEW r \in Releases, NEW s \in Statuses, NEW n \in Nat
  PROVE  Row(r, s, n) \in Rows
  BY DEF Row, Rows

LEMMA BeginTransactionTyped ==
  ASSUME RowsOK, RequestOK, NEW t \in Threads, BeginTransaction(t), rows' = rows
  PROVE  RowsOK' /\ at' \in [Threads -> Nat]
<1>1. now \in Nat /\ now' = now + 1 /\ at' = [at EXCEPT ![t] = now + 1] BY DEF RowsOK, BeginTransaction
<1>2. at \in [Threads -> Nat] BY DEF RequestOK
<1> QED BY <1>1, <1>2 DEF RowsOK

LEMMA CreateTyped ==
  ASSUME RowsOK, StepOK, RequestOK, Create
  PROVE  RowsOK' /\ StepOK' /\ RequestOK'
<1>1. PICK r \in Releases, s \in {"canary", "active"} : rows' = rows \cup {Row(r, s, now + 1)}
  BY DEF Create
<1>2. s \in Statuses BY DEF Statuses
<1>3. now \in Nat /\ now' = now + 1 BY DEF RowsOK, Create
<1>4. Row(r, s, now + 1) \in Rows BY <1>2, <1>3, RowTyped
<1>5. RowsOK' BY <1>1, <1>3, <1>4 DEF RowsOK
<1>6. StepOK' BY DEF StepOK, Create
<1>7. RequestOK' BY DEF RequestOK, Create
<1> QED BY <1>5, <1>6, <1>7

LEMMA ListTyped ==
  ASSUME RowsOK, StepOK, RequestOK, NEW t \in Threads, ListActive(t)
  PROVE  RowsOK' /\ StepOK' /\ RequestOK'
<1> DEFINE L == IF Target(t) = None THEN {} ELSE OthersActive(Target(t))
<1>1. L \subseteq Rows BY DEF OthersActive, RowsOK
<1>2. listed' = [listed EXCEPT ![t] = L] /\ UNCHANGED <<rows, now, at, rel, alone>> BY DEF ListActive, Goto
<1> HIDE DEF L
<1>3. RequestOK' BY <1>1, <1>2 DEF RequestOK
<1>4. StepOK' BY GotoTyped, StepsTyped DEF ListActive
<1> QED BY <1>2, <1>3, <1>4 DEF RowsOK

LEMMA TargetTyped ==
  ASSUME RequestOK, NEW t \in Threads, rel[t] \in Releases
  PROVE  Target(t) \in Releases \cup {None}
  BY LedgerAssumption DEF Target, RequestOK

LEMMA CommitTyped ==
  ASSUME RowsOK, StepOK, RequestOK, NEW t \in Threads, rel[t] \in Releases, CommitMove(t)
  PROVE  RowsOK' /\ StepOK' /\ RequestOK'
<1>1. Superseded(t) \subseteq Rows
  <2> SUFFICES ASSUME NEW x \in rows
               PROVE  /\ x \in Rows /\ [x EXCEPT !.status = "superseded"] \in Rows
    BY DEF Superseded
  <2>1. x \in Rows BY DEF RowsOK
  <2> QED BY <2>1 DEF Rows, Statuses
<1>2. NewRows(t) \subseteq Rows
  <2>1. at[t] \in Nat BY DEF RequestOK
  <2>2. "rolled_back" \in Statuses /\ "active" \in Statuses BY DEF Statuses
  <2>3. Row(rel[t], "rolled_back", at[t]) \in Rows BY <2>1, <2>2, RowTyped
  <2>4. Target(t) # None => Row(Target(t), "active", at[t]) \in Rows BY <2>1, <2>2, RowTyped, TargetTyped
  <2> QED BY <2>3, <2>4 DEF NewRows
<1>3. RowsOK' BY <1>1, <1>2 DEF RowsOK, CommitMove
<1>4. StepOK' /\ RequestOK' BY EndTyped DEF CommitMove
<1> QED BY <1>3, <1>4

-----------------------------------------------------------------------------
(* a busy thread has a release to work on *)
Busy == \A t \in Threads : step[t] # "idle" => rel[t] \in Releases

LEMMA BeginBusy ==
  ASSUME StepOK, RequestOK, Busy, NEW t \in Threads, NEW what, NEW r \in Releases, NEW first,
         Begin(t, what, r, first)
  PROVE  Busy'
  BY DEF StepOK, RequestOK, Begin, Busy

LEMMA GotoBusy ==
  ASSUME StepOK, RequestOK, Busy, NEW t \in Threads, step[t] # "idle", NEW next, Goto(t, next)
  PROVE  Busy'
  BY DEF StepOK, RequestOK, Goto, Busy

LEMMA EndBusy ==
  ASSUME StepOK, RequestOK, Busy, NEW t \in Threads, End(t)
  PROVE  Busy'
  BY DEF StepOK, RequestOK, End, Busy

LEMMA LedgerTyped ==
  ASSUME Typed, Busy, NEW t \in Threads, Ledger(t)
  PROVE  Typed' /\ Busy'
<1> USE DEF Typed
<1>1. PlaneOK' /\ CanaryOK' /\ crashes' \in Nat
  BY DEF Ledger, planeVars, canaryVars, PlaneOK, CanaryOK
<1>2. ASSUME NEW what \in Intents, NEW r \in Releases, Begin(t, what, r, "checked"),
             BeginTransaction(t), rows' = rows
      PROVE  RowsOK' /\ StepOK' /\ RequestOK' /\ Busy'
  <2>1. RowsOK' /\ at' \in [Threads -> Nat] BY <1>2, BeginTransactionTyped
  <2>2. StepOK' /\ RequestOK' BY <1>2, <2>1, BeginTyped, StepsTyped
  <2>3. Busy' BY <1>2, BeginBusy
  <2> QED BY <2>1, <2>2, <2>3
<1>3. CASE Promote(t)
  <2>1. PICK r \in Releases : Begin(t, "promote", r, "checked") BY <1>3 DEF Promote
  <2>2. "promote" \in Intents /\ BeginTransaction(t) /\ rows' = rows BY <1>3 DEF Promote, Intents
  <2> QED BY <1>1, <1>2, <2>1, <2>2
<1>4. CASE RollBackRelease(t)
  <2>1. PICK r \in Releases : Begin(t, "rollback", r, "checked") BY <1>4 DEF RollBackRelease
  <2>2. "rollback" \in Intents /\ BeginTransaction(t) /\ rows' = rows BY <1>4 DEF RollBackRelease, Intents
  <2> QED BY <1>1, <1>2, <2>1, <2>2
<1>5. CASE ListActive(t)
  <2>1. RowsOK' /\ StepOK' /\ RequestOK' BY <1>5, ListTyped
  <2>2. step[t] # "idle" /\ Goto(t, "listed") BY <1>5 DEF ListActive
  <2>3. Busy' BY <2>2, GotoBusy
  <2> QED BY <1>1, <2>1, <2>3
<1>6. CASE CommitMove(t)
  <2>1. step[t] = "listed" /\ End(t) BY <1>6 DEF CommitMove
  <2>2. rel[t] \in Releases BY <2>1 DEF Busy
  <2>3. RowsOK' /\ StepOK' /\ RequestOK' BY <1>6, <2>2, CommitTyped
  <2>4. Busy' BY <2>1, EndBusy
  <2> QED BY <1>1, <2>3, <2>4
<1> QED BY <1>3, <1>4, <1>5, <1>6 DEF Ledger, LedgerStep

(* steps that leave the ledger alone *)
LEMMA LeaveTyped ==
  ASSUME Typed, Busy, NEW t \in Threads, Leave(t), UNCHANGED <<ledgerVars, planeVars, crashes>>
  PROVE  Typed' /\ Busy'
<1> USE DEF Typed
<1>1. End(t) /\ Forget(t) BY DEF Leave
<1>2. StepOK' /\ RequestOK' /\ CanaryOK' /\ Busy' BY <1>1, EndTyped, ForgetTyped, EndBusy
<1>3. RowsOK' /\ PlaneOK' /\ crashes' \in Nat BY DEF ledgerVars, planeVars, RowsOK, PlaneOK
<1> QED BY <1>2, <1>3

LEMMA ContinueTypedBusy ==
  ASSUME Typed, Busy, NEW t \in Threads, step[t] # "idle", NEW next \in Steps, Continue(t, next),
         UNCHANGED <<ledgerVars, crashes>>
  PROVE  RowsOK' /\ StepOK' /\ RequestOK' /\ crashes' \in Nat /\ Busy'
<1> USE DEF Typed
<1>1. StepOK' /\ RequestOK' BY ContinueTyped
<1>2. Goto(t, next) BY DEF Continue
<1>3. Busy' BY <1>2, GotoBusy
<1>4. RowsOK' /\ crashes' \in Nat BY DEF ledgerVars, RowsOK
<1> QED BY <1>1, <1>3, <1>4

LEMMA NewestTyped == ASSUME RowsOK PROVE NewestActive \subseteq Releases
  BY DEF NewestActive, Latest, RowsOK, Rows

LEMMA AdmissionTyped ==
  ASSUME Typed, Busy, NEW t \in Threads, Admission(t)
  PROVE  Typed' /\ Busy'
<1> USE DEF Typed
<1>1. CASE Ask(t)
  <2>1. PICK r \in Releases : Begin(t, "canary", r, "asked") BY <1>1 DEF Ask
  <2>2. "canary" \in Intents BY DEF Intents
  <2>3. UNCHANGED <<ledgerVars, at, planeVars, canaryVars, crashes>> BY <1>1 DEF Ask
  <2>4. at' \in [Threads -> Nat] BY <2>3 DEF RequestOK
  <2>5. StepOK' /\ RequestOK' BY <2>1, <2>2, <2>4, BeginTyped, StepsTyped
  <2>6. Busy' BY <2>1, BeginBusy
  <2>7. RowsOK' /\ PlaneOK' /\ CanaryOK' /\ crashes' \in Nat
    BY <2>3 DEF ledgerVars, planeVars, canaryVars, RowsOK, PlaneOK, CanaryOK
  <2> QED BY <2>5, <2>6, <2>7
<1>2. CASE FindIncumbent(t)
  <2>1. PICK r \in NewestActive : incumbent' = [incumbent EXCEPT ![t] = r] BY <1>2 DEF FindIncumbent
  <2>2. r \in Releases BY <2>1, NewestTyped
  <2>3. CanaryOK' BY <1>2, <2>1, <2>2 DEF FindIncumbent, CanaryOK
  <2>4. PlaneOK' BY <1>2 DEF FindIncumbent, planeVars, PlaneOK
  <2>5. step[t] # "idle" /\ Continue(t, "bootstrapping") /\ UNCHANGED <<ledgerVars, crashes>>
    BY <1>2 DEF FindIncumbent
  <2> QED BY <2>3, <2>4, <2>5, ContinueTypedBusy, StepsTyped
<1>3. CASE Bootstrap(t)
  <2>1. step[t] # "idle" /\ Continue(t, "bootstrapped") /\ UNCHANGED <<ledgerVars, crashes>>
    BY <1>3 DEF Bootstrap
  <2>2. PlaneOK' /\ CanaryOK' BY <1>3 DEF Bootstrap, PlaneOK, CanaryOK, canaryVars
  <2> QED BY <2>1, <2>2, ContinueTypedBusy, StepsTyped
<1>4. CASE Admit(t)
  <2>1. step[t] # "idle" /\ Continue(t, "admitted") /\ UNCHANGED <<ledgerVars, crashes>>
    BY <1>4 DEF Admit
  <2>2. PlaneOK' /\ CanaryOK' BY <1>4 DEF Admit, PlaneOK, CanaryOK, canaryVars, planeVars
  <2> QED BY <2>1, <2>2, ContinueTypedBusy, StepsTyped
<1>5. CASE Refuse(t) BY <1>5, LeaveTyped DEF Refuse
<1> QED BY <1>1, <1>2, <1>3, <1>4, <1>5 DEF Admission

LEMMA PinTyped ==
  ASSUME Typed, NEW t \in Threads, NEW i \in 1..Tasks
  PROVE  Pin(t, i) \in [digest : Releases \cup {None}, arm : Arms]
<1>1. rel[t] \in Releases \cup {None} /\ incumbent[t] \in Releases \cup {None}
  BY DEF Typed, RequestOK, CanaryOK
<1>2. "candidate" \in Arms /\ "incumbent" \in Arms BY DEF Arms
<1> QED BY <1>1, <1>2 DEF Pin

LEMMA PinsTyped ==
  ASSUME Typed, NEW t \in Threads, RunTask(t)
  PROVE  PlaneOK'
<1>1. task[t] \in 1..Tasks BY DEF Typed, CanaryOK
<1> DEFINE i == task[t]
           P == [digest : Releases \cup {None}, arm : Arms]
<1>2. Pin(t, i) \in P BY <1>1, PinTyped
<1>3. pins \in [1..Tasks -> P] BY DEF Typed, PlaneOK
<1>4. pins' = [pins EXCEPT ![i] = IF @ = Unpinned THEN Pin(t, i) ELSE @] BY DEF RunTask
<1> HIDE DEF P, i
<1>5. pins' \in [1..Tasks -> P] BY <1>2, <1>3, <1>4
<1>6. UNCHANGED <<pointer, fleet>> BY DEF RunTask
<1> QED BY <1>5, <1>6 DEF Typed, PlaneOK, P

LEMMA NextTaskTyped ==
  ASSUME CanaryOK, NEW t \in Threads, task[t] # Tasks, UNCHANGED <<incumbent, slice>>,
         task' = [task EXCEPT ![t] = @ + 1]
  PROVE  CanaryOK'
<1>1. task[t] \in 1..Tasks BY DEF CanaryOK
<1>2. task[t] + 1 \in 1..Tasks BY <1>1, PlaneAssumption
<1>3. task' \in [Threads -> 1..Tasks] BY <1>2 DEF CanaryOK
<1> QED BY <1>3 DEF CanaryOK

LEMMA HarnessTyped ==
  ASSUME Typed, Busy, NEW t \in Threads, Harness(t)
  PROVE  Typed' /\ Busy'
<1> USE DEF Typed
<1>1. CASE Start(t)
  <2>1. step[t] # "idle" /\ Continue(t, "started") /\ UNCHANGED <<ledgerVars, crashes>>
    BY <1>1 DEF Start
  <2>2. PlaneOK' /\ CanaryOK' BY <1>1 DEF Start, PlaneOK, CanaryOK, planeVars
  <2> QED BY <2>1, <2>2, ContinueTypedBusy, StepsTyped
<1>2. CASE StartRefused(t) BY <1>2, LeaveTyped DEF StartRefused
<1>3. CASE Activate(t)
  <2>1. step[t] # "idle" /\ Continue(t, "activated") /\ UNCHANGED <<ledgerVars, crashes>>
    BY <1>3 DEF Activate
  <2>2. PlaneOK' /\ CanaryOK' BY <1>3 DEF Activate, PlaneOK, CanaryOK, canaryVars, RequestOK
  <2> QED BY <2>1, <2>2, ContinueTypedBusy, StepsTyped
<1>4. CASE Allocate(t)
  <2>1. step[t] # "idle" /\ Continue(t, "running") /\ UNCHANGED <<ledgerVars, crashes>>
    BY <1>4 DEF Allocate
  <2>2. PICK s \in SUBSET (1..Tasks) : slice' = [slice EXCEPT ![t] = s] BY <1>4 DEF Allocate
  <2>3. CanaryOK' BY <1>4, <2>2, PlaneAssumption DEF Allocate, CanaryOK
  <2>4. PlaneOK' BY <1>4 DEF Allocate, PlaneOK, RequestOK
  <2> QED BY <2>1, <2>3, <2>4, ContinueTypedBusy, StepsTyped
<1>5. CASE RunTask(t)
  <2>1. step[t] = "running" /\ UNCHANGED <<ledgerVars, incumbent, slice, crashes>> BY <1>5 DEF RunTask
  <2>2. PlaneOK' BY <1>5, PinsTyped
  <2>3. CASE Continue(t, "stopping") /\ UNCHANGED task
    <3>1. CanaryOK' BY <2>1, <2>3 DEF CanaryOK
    <3> QED BY <2>1, <2>2, <2>3, <3>1, ContinueTypedBusy, StepsTyped
  <2>4. CASE Continue(t, "completed") /\ UNCHANGED task
    <3>1. CanaryOK' BY <2>1, <2>4 DEF CanaryOK
    <3> QED BY <2>1, <2>2, <2>4, <3>1, ContinueTypedBusy, StepsTyped
  <2>5. CASE ~LastTask(t) /\ UNCHANGED requestVars /\ task' = [task EXCEPT ![t] = @ + 1]
    <3>1. CanaryOK' BY <2>1, <2>5, NextTaskTyped DEF LastTask
    <3>2. StepOK' /\ RequestOK' /\ Busy' BY <2>5 DEF requestVars, StepOK, RequestOK, Busy
    <3>3. RowsOK' /\ crashes' \in Nat BY <2>1 DEF ledgerVars, RowsOK
    <3> QED BY <2>2, <3>1, <3>2, <3>3
  <2> QED BY <1>5, <2>3, <2>4, <2>5 DEF RunTask
<1>6. CASE TaskRaises(t) BY <1>6, LeaveTyped DEF TaskRaises
<1>7. CASE RollBack(t)
  <2>1. step[t] # "idle" /\ Continue(t, "restoring") /\ UNCHANGED <<ledgerVars, crashes>>
    BY <1>7 DEF RollBack
  <2>2. rel[t] \in Releases BY <2>1 DEF Busy
  <2>3. Prior[rel[t]] \in Releases \cup {None} BY <2>2, LedgerAssumption
  <2>4. PlaneOK' /\ CanaryOK' BY <1>7, <2>3 DEF RollBack, PlaneOK, CanaryOK, canaryVars
  <2> QED BY <2>1, <2>4, ContinueTypedBusy, StepsTyped
<1>8. CASE RollBackRaises(t) BY <1>8, LeaveTyped DEF RollBackRaises
<1>9. CASE Restore(t)
  <2>1. step[t] # "idle" /\ UNCHANGED <<ledgerVars, pointer, pins, crashes>> /\ fleet' = incumbent[t]
    BY <1>9 DEF Restore
  <2>2. PlaneOK' BY <2>1 DEF PlaneOK, CanaryOK
  <2>3. CASE Continue(t, "rolledback") /\ UNCHANGED canaryVars
    <3>1. CanaryOK' BY <2>3 DEF CanaryOK, canaryVars
    <3> QED BY <2>1, <2>2, <2>3, <3>1, ContinueTypedBusy, StepsTyped
  <2>4. CASE Leave(t)
    <3>1. End(t) /\ Forget(t) BY <2>4 DEF Leave
    <3>2. StepOK' /\ RequestOK' /\ CanaryOK' /\ Busy' BY <3>1, EndTyped, ForgetTyped, EndBusy
    <3>3. RowsOK' /\ crashes' \in Nat BY <2>1 DEF ledgerVars, RowsOK
    <3> QED BY <2>2, <3>2, <3>3
  <2> QED BY <1>9, <2>3, <2>4 DEF Restore
<1> QED BY <1>1, <1>2, <1>3, <1>4, <1>5, <1>6, <1>7, <1>8, <1>9 DEF Harness

LEMMA OutcomeTyped ==
  ASSUME Typed, Busy, NEW t \in Threads, Outcome(t)
  PROVE  Typed' /\ Busy'
<1> USE DEF Typed
<1>1. CASE RecordCompleted(t) BY <1>1, LeaveTyped DEF RecordCompleted
<1>2. CASE RecordRolledBack(t)
  <2>1. step[t] # "idle" /\ Continue(t, "undoing") /\ UNCHANGED <<ledgerVars, crashes>>
    BY <1>2 DEF RecordRolledBack
  <2>2. PlaneOK' /\ CanaryOK' BY <1>2 DEF RecordRolledBack, PlaneOK, CanaryOK, canaryVars, planeVars
  <2> QED BY <2>1, <2>2, ContinueTypedBusy, StepsTyped
<1>3. CASE UndoRelease(t)
  <2>1. step[t] # "idle" /\ BeginTransaction(t) /\ Goto(t, "checked") /\ Forget(t) /\ rows' = rows
    BY <1>3 DEF UndoRelease
  <2>2. RowsOK' /\ at' \in [Threads -> Nat] BY <2>1, BeginTransactionTyped
  <2>3. StepOK' /\ Busy' BY <2>1, GotoTyped, GotoBusy, StepsTyped
  <2>4. RequestOK' BY <1>3, <2>1, <2>2 DEF UndoRelease, Goto, RequestOK
  <2>5. CanaryOK' BY <2>1, ForgetTyped
  <2>6. PlaneOK' /\ crashes' \in Nat BY <1>3 DEF UndoRelease, planeVars, PlaneOK
  <2> QED BY <2>2, <2>3, <2>4, <2>5, <2>6
<1>4. CASE UndoRefused(t) BY <1>4, LeaveTyped DEF UndoRefused
<1> QED BY <1>1, <1>2, <1>3, <1>4 DEF Outcome

LEMMA InvalidateTyped ==
  ASSUME Typed, Busy, NEW t \in Threads, Invalidate(t)
  PROVE  Typed' /\ Busy'
<1> USE DEF Typed
<1>1. PICK r \in Releases : /\ Begin(t, "invalidate", r, "restoring") /\ pointer' = Prior[r]
                            /\ incumbent' = [incumbent EXCEPT ![t] = Prior[r]]
  BY DEF Invalidate
<1>2. Prior[r] \in Releases \cup {None} BY LedgerAssumption
<1>3. UNCHANGED <<ledgerVars, at, fleet, pins, slice, task, crashes>> BY DEF Invalidate
<1>4. PlaneOK' BY <1>1, <1>2, <1>3 DEF PlaneOK
<1>5. CanaryOK' BY <1>1, <1>2, <1>3 DEF CanaryOK
<1>6. at' \in [Threads -> Nat] BY <1>3 DEF RequestOK
<1>7. "invalidate" \in Intents BY DEF Intents
<1>8. StepOK' /\ RequestOK' BY <1>1, <1>6, <1>7, BeginTyped, StepsTyped
<1>9. Busy' BY <1>1, BeginBusy
<1> QED BY <1>3, <1>4, <1>5, <1>8, <1>9 DEF ledgerVars, RowsOK

LEMMA CrashTyped ==
  ASSUME Typed, Crash
  PROVE  Typed' /\ Busy'
<1> USE DEF Typed
<1>1. RowsOK' BY DEF Crash, ledgerVars, RowsOK
<1>2. StepOK' BY StepsTyped DEF Crash, StepOK, Intents
<1>3. RequestOK' BY DEF Crash, RequestOK
<1>4. Unpinned \in [digest : Releases \cup {None}, arm : Arms] BY DEF Unpinned, Arms
<1>5. PlaneOK' BY <1>4 DEF Crash, PlaneOK
<1>6. CanaryOK' BY PlaneAssumption DEF Crash, CanaryOK
<1>7. crashes' \in Nat BY DEF Crash
<1>8. Busy' BY DEF Crash, Busy
<1> QED BY <1>1, <1>2, <1>3, <1>5, <1>6, <1>7, <1>8

LEMMA TypedStep == Typed /\ Busy /\ [Next]_vars => Typed' /\ Busy'
<1> SUFFICES ASSUME Typed, Busy, [Next]_vars PROVE Typed' /\ Busy' OBVIOUS
<1>1. CASE Registration
  <2>1. Create /\ UNCHANGED <<planeVars, canaryVars, crashes>> BY <1>1 DEF Registration
  <2>2. RowsOK' /\ StepOK' /\ RequestOK' BY <2>1, CreateTyped DEF Typed
  <2>3. Busy' BY <2>1 DEF Create, Busy
  <2>4. PlaneOK' /\ CanaryOK' /\ crashes' \in Nat
    BY <2>1 DEF planeVars, canaryVars, PlaneOK, CanaryOK, Typed
  <2> QED BY <2>2, <2>3, <2>4 DEF Typed
<1>2. CASE Crash BY <1>2, CrashTyped
<1>3. ASSUME NEW t \in Threads, Work(t) PROVE Typed' /\ Busy'
  BY <1>3, LedgerTyped, AdmissionTyped, HarnessTyped, OutcomeTyped, InvalidateTyped DEF Work
<1>4. CASE UNCHANGED vars
  <2> USE <1>4 DEF vars, ledgerVars, requestVars, planeVars, canaryVars
  <2>1. RowsOK' /\ StepOK' /\ RequestOK' BY DEF Typed, RowsOK, StepOK, RequestOK
  <2>2. PlaneOK' /\ CanaryOK' BY DEF Typed, PlaneOK, CanaryOK
  <2>3. crashes' \in Nat /\ Busy' BY DEF Typed, Busy
  <2> QED BY <2>1, <2>2, <2>3 DEF Typed
<1> QED BY <1>1, <1>2, <1>3, <1>4 DEF Next

(* Every variable of ledger, plane and requests keeps its type, for any    *)
(* releases, threads and number of paired tasks.                           *)
THEOREM TypeCorrect == Spec => []TypeOK
<1>1. Init => Typed /\ Busy BY InitTyped DEF Init, LedgerInit, Busy
<1>2. Typed /\ Busy /\ [Next]_vars => (Typed /\ Busy)' BY TypedStep
<1>3. Typed /\ Busy => TypeOK BY TypedIsTypeOK
<1> QED BY <1>1, <1>2, <1>3, PTL DEF Spec

-----------------------------------------------------------------------------
(* who is alone *)
LEMMA BeginAlone ==
  ASSUME StepOK, NEW t \in Threads, NEW what, NEW r, NEW first, first # "idle", Begin(t, what, r, first)
  PROVE  AloneOK' /\ alone' \subseteq {t}
  BY DEF StepOK, Begin, AloneOK

LEMMA GotoAlone ==
  ASSUME StepOK, AloneOK, NEW t \in Threads, step[t] # "idle", NEW next, next # "idle", Goto(t, next)
  PROVE  AloneOK' /\ alone' \subseteq {t} /\ alone' = alone
  BY DEF StepOK, Goto, AloneOK

LEMMA EndAlone ==
  ASSUME AloneOK, NEW t \in Threads, step[t] # "idle", End(t)
  PROVE  alone' = {}
  BY DEF End, AloneOK

LEMMA NobodyAlone == alone' = {} => AloneOK' /\ AloneFollows'
  BY DEF AloneOK, AloneFollows

LEMMA OnlyOneAlone ==
  ASSUME NEW t, alone' \subseteq {t}, t \in alone' => Follows(t)'
  PROVE  AloneFollows'
  BY DEF AloneFollows

(* the steps at which nothing is promised *)
Silent == {"idle", "checked", "listed", "asked", "bootstrapping", "bootstrapped"}

LEMMA SilentFollows == ASSUME NEW t, step'[t] \in Silent PROVE Follows(t)'
  BY DEF Silent, Follows, Admitted, Served, Pinned, Restored, Activated

Inv == Typed /\ Busy /\ AloneOK /\ AloneFollows

LEMMA BeginSilent ==
  ASSUME StepOK, NEW t \in Threads, NEW what, NEW r, NEW first \in {"checked", "asked"},
         Begin(t, what, r, first)
  PROVE  AloneOK' /\ AloneFollows'
<1>1. AloneOK' /\ alone' \subseteq {t} BY BeginAlone
<1>2. step'[t] = first BY DEF Begin, StepOK
<1>3. Follows(t)' BY <1>2, SilentFollows DEF Silent
<1> QED BY <1>1, <1>3, OnlyOneAlone

LEMMA GotoSilent ==
  ASSUME StepOK, AloneOK, NEW t \in Threads, step[t] # "idle",
         NEW next \in {"checked", "listed", "bootstrapping", "bootstrapped"}, Goto(t, next)
  PROVE  AloneOK' /\ AloneFollows'
<1>1. AloneOK' /\ alone' \subseteq {t} BY GotoAlone
<1>2. step'[t] = next BY DEF Goto, StepOK
<1>3. Follows(t)' BY <1>2, SilentFollows DEF Silent
<1> QED BY <1>1, <1>3, OnlyOneAlone

LEMMA LeaveSilent ==
  ASSUME AloneOK, NEW t \in Threads, step[t] # "idle", Leave(t)
  PROVE  AloneOK' /\ AloneFollows'
  BY EndAlone, NobodyAlone DEF Leave

(* A step from one promise to the next: what it gives the next is a fact   *)
(* about the thread that is alone.                                         *)
LEMMA GotoFollows ==
  ASSUME Inv, NEW t \in Threads, step[t] # "idle", NEW next, next # "idle", Continue(t, next),
         t \in alone /\ Follows(t) /\ step'[t] = next /\ rel' = rel => Follows(t)'
  PROVE  AloneOK' /\ AloneFollows'
<1>1. Goto(t, next) BY DEF Continue
<1>2. AloneOK' /\ alone' \subseteq {t} /\ alone' = alone BY <1>1, GotoAlone DEF Inv, Typed
<1>3. step'[t] = next /\ rel' = rel BY <1>1 DEF Goto, Inv, Typed, StepOK
<1>4. t \in alone => Follows(t) BY DEF Inv, AloneFollows
<1> QED BY <1>2, <1>3, <1>4, OnlyOneAlone

(* what a canary alone has read and done, step by step *)
LEMMA LedgerFollows ==
  ASSUME Inv, NEW t \in Threads, Ledger(t)
  PROVE  AloneOK' /\ AloneFollows'
<1> USE DEF Inv, Typed
<1>1. CASE Promote(t) BY <1>1, BeginSilent DEF Promote
<1>2. CASE RollBackRelease(t) BY <1>2, BeginSilent DEF RollBackRelease
<1>3. CASE ListActive(t) BY <1>3, GotoSilent DEF ListActive
<1>4. CASE CommitMove(t) BY <1>4, EndAlone, NobodyAlone DEF CommitMove
<1> QED BY <1>1, <1>2, <1>3, <1>4 DEF Ledger, LedgerStep

LEMMA AdmissionFollows ==
  ASSUME Inv, NEW t \in Threads, Admission(t)
  PROVE  AloneOK' /\ AloneFollows'
<1> USE DEF Inv, Typed
<1>1. CASE Ask(t) BY <1>1, BeginSilent DEF Ask
<1>2. CASE FindIncumbent(t) BY <1>2, GotoSilent DEF FindIncumbent, Continue
<1>3. CASE Bootstrap(t) BY <1>3, GotoSilent DEF Bootstrap, Continue
<1>4. CASE Admit(t)
  <2>1. step[t] # "idle" /\ Continue(t, "admitted") BY <1>4 DEF Admit
  <2>2. ASSUME Follows(t), step'[t] = "admitted", rel' = rel PROVE Follows(t)'
    BY <1>4, <2>2 DEF Admit, Follows, Admitted, Served, Pinned, Restored, Activated, DeclaredIncumbent, planeVars
  <2> QED BY <2>1, <2>2, GotoFollows
<1>5. CASE Refuse(t) BY <1>5, LeaveSilent DEF Refuse
<1> QED BY <1>1, <1>2, <1>3, <1>4, <1>5 DEF Admission

(* a task that ran has its pin, and the pins of the others stay *)
LEMMA PinsGrow ==
  ASSUME Inv, NEW t \in Threads, RunTask(t), Pinned(t)
  PROVE  \A i \in 1..Tasks : i <= task[t] => pins'[i] = Pin(t, i)
<1> SUFFICES ASSUME NEW i \in 1..Tasks, i <= task[t] PROVE pins'[i] = Pin(t, i) OBVIOUS
<1>1. step[t] = "running" /\ task[t] \in 1..Tasks BY DEF RunTask, Inv, Typed, CanaryOK
<1> DEFINE k == task[t]
           p == Pin(t, k)
           P == [digest : Releases \cup {None}, arm : Arms]
<1>2. pins' = [pins EXCEPT ![k] = IF @ = Unpinned THEN p ELSE @] /\ pins[k] \in {Unpinned, p}
  BY DEF RunTask, Pinnable
<1>3. pins \in [1..Tasks -> P] BY DEF Inv, Typed, PlaneOK
<1>4. k \in 1..Tasks /\ i <= k BY <1>1
<1>5. i # k => i < k BY <1>4
<1>6. i < k => pins[i] = Pin(t, i) BY <1>1 DEF Pinned
<1>7. p = Pin(t, k) OBVIOUS
<1> HIDE DEF k, p, P
<1>8. CASE i = k
  <2>1. pins'[k] = p BY <1>2, <1>3, <1>4
  <2> QED BY <2>1, <1>7, <1>8
<1>9. CASE i # k
  <2>1. pins'[i] = pins[i] BY <1>2, <1>3, <1>9
  <2> QED BY <2>1, <1>5, <1>6, <1>9
<1> QED BY <1>8, <1>9

LEMMA RunTaskFollows ==
  ASSUME Inv, NEW t \in Threads, RunTask(t)
  PROVE  AloneOK' /\ AloneFollows'
<1> DEFINE more == ~LastTask(t) /\ UNCHANGED requestVars /\ task' = [task EXCEPT ![t] = @ + 1]
<1>1. step[t] = "running" /\ UNCHANGED <<pointer, fleet, incumbent, slice>> BY DEF RunTask
<1>2. task[t] \in 1..Tasks /\ Tasks \in Nat BY PlaneAssumption DEF Inv, Typed, CanaryOK
<1>3. ASSUME Follows(t) PROVE \A i \in 1..Tasks : i <= task[t] => pins'[i] = Pin(t, i)
  BY <1>3, PinsGrow DEF Follows
<1>4. ASSUME rel' = rel PROVE \A i : Pin(t, i)' = Pin(t, i)
  BY <1>1, <1>4 DEF Pin
<1>5. CASE Continue(t, "stopping")
  <2>1. ASSUME Follows(t), step'[t] = "stopping", rel' = rel PROVE Follows(t)'
    BY <1>1, <2>1 DEF Follows, Admitted, Served, Pinned, Restored, Activated
  <2> QED BY <1>1, <1>5, <2>1, GotoFollows
<1>6. CASE LastTask(t) /\ Continue(t, "completed")
  <2>1. ASSUME Follows(t), step'[t] = "completed", rel' = rel PROVE Follows(t)'
    <3>1. \A i \in 1..Tasks : i <= task[t] BY <1>2, <1>6 DEF LastTask
    <3>2. \A i \in 1..Tasks : pins'[i] = Pin(t, i)' BY <1>3, <1>4, <2>1, <3>1
    <3>3. Pinned(t)' BY <2>1, <3>2 DEF Pinned
    <3>4. Admitted(t)' /\ Served(t)' /\ Restored(t)'
      BY <1>1, <2>1 DEF Follows, Admitted, Served, Restored, Activated
    <3> QED BY <3>3, <3>4 DEF Follows
  <2> QED BY <1>1, <1>6, <2>1, GotoFollows
<1>7. CASE more
  <2>1. step' = step /\ rel' = rel /\ alone' = alone BY <1>7 DEF requestVars
  <2>2. AloneOK' BY <2>1 DEF Inv, AloneOK
  <2>3. alone' \subseteq {t} BY <1>1, <2>1 DEF Inv, AloneOK
  <2>4. ASSUME t \in alone PROVE Follows(t)'
    <3>1. Follows(t) BY <2>4 DEF Inv, AloneFollows
    <3>2. task'[t] = task[t] + 1 BY <1>7 DEF Inv, Typed, CanaryOK
    <3>3. \A i \in 1..Tasks : i < task'[t] => i <= task[t] BY <1>2, <3>2
    <3>4. \A i \in 1..Tasks : i < task'[t] => pins'[i] = Pin(t, i)' BY <1>3, <1>4, <2>1, <3>1, <3>3
    <3>5. Pinned(t)' BY <1>1, <2>1, <3>4 DEF Pinned
    <3>6. Admitted(t)' /\ Served(t)' /\ Restored(t)'
      BY <1>1, <2>1, <3>1 DEF Follows, Admitted, Served, Restored, Activated
    <3> QED BY <3>5, <3>6 DEF Follows
  <2> QED BY <2>1, <2>2, <2>3, <2>4, OnlyOneAlone
<1> QED BY <1>5, <1>6, <1>7 DEF RunTask

LEMMA HarnessFollows ==
  ASSUME Inv, NEW t \in Threads, Harness(t)
  PROVE  AloneOK' /\ AloneFollows'
<1> USE DEF Inv, Typed
<1>1. CASE Start(t)
  <2>1. step[t] # "idle" /\ Continue(t, "started") BY <1>1 DEF Start
  <2>2. ASSUME Follows(t), step'[t] = "started", rel' = rel PROVE Follows(t)'
    BY <1>1, <2>2 DEF Start, Follows, Admitted, Served, Pinned, Restored, Activated, CanaryOK, planeVars
  <2> QED BY <2>1, <2>2, GotoFollows
<1>2. CASE StartRefused(t) BY <1>2, LeaveSilent DEF StartRefused
<1>3. CASE Activate(t)
  <2>1. step[t] # "idle" /\ Continue(t, "activated") BY <1>3 DEF Activate
  <2>2. ASSUME Follows(t), step'[t] = "activated", rel' = rel PROVE Follows(t)'
    BY <1>3, <2>2 DEF Activate, Follows, Admitted, Served, Pinned, Restored, Activated, canaryVars
  <2> QED BY <2>1, <2>2, GotoFollows
<1>4. CASE Allocate(t)
  <2>1. step[t] # "idle" /\ Continue(t, "running") BY <1>4 DEF Allocate
  <2>2. ASSUME Follows(t), step'[t] = "running", rel' = rel PROVE Follows(t)'
    <3>1. task'[t] = 1 BY <1>4 DEF Allocate, CanaryOK
    <3>2. \A i \in 1..Tasks : ~(i < task'[t]) BY <3>1
    <3>3. Pinned(t)' BY <2>2, <3>2 DEF Pinned
    <3>4. Admitted(t)' /\ Served(t)' /\ Restored(t)'
      BY <1>4, <2>2 DEF Allocate, Follows, Admitted, Served, Restored, Activated
    <3> QED BY <3>3, <3>4 DEF Follows
  <2> QED BY <2>1, <2>2, GotoFollows
<1>5. CASE RunTask(t) BY <1>5, RunTaskFollows
<1>6. CASE TaskRaises(t) BY <1>6, LeaveSilent DEF TaskRaises
<1>7. CASE RollBack(t)
  <2>1. step[t] # "idle" /\ Continue(t, "restoring") BY <1>7 DEF RollBack
  <2>2. ASSUME Follows(t), step'[t] = "restoring", rel' = rel PROVE Follows(t)'
    BY <1>7, <2>2 DEF RollBack, Follows, Admitted, Served, Pinned, Restored, Activated, canaryVars
  <2> QED BY <2>1, <2>2, GotoFollows
<1>8. CASE RollBackRaises(t) BY <1>8, LeaveSilent DEF RollBackRaises
<1>9. CASE Restore(t)
  <2>1. step[t] = "restoring" /\ fleet' = incumbent[t] /\ pointer' = pointer BY <1>9 DEF Restore
  <2>2. CASE Continue(t, "rolledback") /\ UNCHANGED canaryVars
    <3>1. ASSUME Follows(t), step'[t] = "rolledback", rel' = rel PROVE Follows(t)'
      BY <2>1, <2>2, <3>1 DEF Follows, Admitted, Served, Pinned, Restored, Activated, canaryVars
    <3> QED BY <2>1, <2>2, <3>1, GotoFollows
  <2>3. CASE Leave(t) BY <2>1, <2>3, LeaveSilent
  <2> QED BY <1>9, <2>2, <2>3 DEF Restore
<1> QED BY <1>1, <1>2, <1>3, <1>4, <1>5, <1>6, <1>7, <1>8, <1>9 DEF Harness

LEMMA OutcomeFollows ==
  ASSUME Inv, NEW t \in Threads, Outcome(t)
  PROVE  AloneOK' /\ AloneFollows'
<1> USE DEF Inv, Typed
<1>1. CASE RecordCompleted(t) BY <1>1, LeaveSilent DEF RecordCompleted
<1>2. CASE RecordRolledBack(t)
  <2>1. step[t] # "idle" /\ Continue(t, "undoing") BY <1>2 DEF RecordRolledBack
  <2>2. ASSUME Follows(t), step'[t] = "undoing", rel' = rel PROVE Follows(t)'
    BY <1>2, <2>2 DEF RecordRolledBack, Follows, Admitted, Served, Pinned, Restored, Activated, planeVars, canaryVars
  <2> QED BY <2>1, <2>2, GotoFollows
<1>3. CASE UndoRelease(t) BY <1>3, GotoSilent DEF UndoRelease
<1>4. CASE UndoRefused(t) BY <1>4, LeaveSilent DEF UndoRefused
<1> QED BY <1>1, <1>2, <1>3, <1>4 DEF Outcome

LEMMA InvalidateFollows ==
  ASSUME Inv, NEW t \in Threads, Invalidate(t)
  PROVE  AloneOK' /\ AloneFollows'
<1>1. PICK r \in Releases : /\ Begin(t, "invalidate", r, "restoring") /\ pointer' = Prior[r]
                            /\ incumbent' = [incumbent EXCEPT ![t] = Prior[r]]
  BY DEF Invalidate
<1>2. AloneOK' /\ alone' \subseteq {t} BY <1>1, BeginAlone DEF Inv, Typed
<1>3. step'[t] = "restoring" BY <1>1 DEF Begin, Inv, Typed, StepOK
<1>4. incumbent'[t] = pointer' BY <1>1 DEF Inv, Typed, CanaryOK
<1>5. Follows(t)' BY <1>3, <1>4 DEF Follows, Admitted, Served, Pinned, Restored, Activated
<1> QED BY <1>2, <1>5, OnlyOneAlone

LEMMA InvStep == Inv /\ [Next]_vars => Inv'
<1> SUFFICES ASSUME Inv, [Next]_vars PROVE AloneOK' /\ AloneFollows' BY TypedStep DEF Inv
<1>1. CASE Registration BY <1>1, NobodyAlone DEF Registration, Create
<1>2. CASE Crash BY <1>2, NobodyAlone DEF Crash
<1>3. ASSUME NEW t \in Threads, Work(t) PROVE AloneOK' /\ AloneFollows'
  BY <1>3, LedgerFollows, AdmissionFollows, HarnessFollows, OutcomeFollows, InvalidateFollows DEF Work
<1>4. CASE UNCHANGED vars
  <2> USE <1>4 DEF vars, requestVars, planeVars, canaryVars, Inv
  <2>1. AloneOK' BY DEF AloneOK
  <2>2. AloneFollows'
    BY DEF AloneFollows, Follows, Admitted, Served, Pinned, Restored, Pin
  <2> QED BY <2>1, <2>2
<1> QED BY <1>1, <1>2, <1>3, <1>4 DEF Next

LEMMA InvAlways == Spec => []Inv
<1>1. Init => Inv BY InitTyped DEF Inv, Init, LedgerInit, Busy, AloneOK, AloneFollows
<1> QED BY <1>1, InvStep, PTL DEF Spec

(* A canary nothing interfered with that a severity-1 event stops leaves   *)
(* pointer and fleet at the incumbent it started from.                     *)
THEOREM RestoreCorrect == Spec => []RolledBackRunRestores
<1>1. Inv => RolledBackRunRestores
  BY DEF Inv, AloneFollows, Follows, Restored, RolledBackRunRestores
<1> QED BY <1>1, InvAlways, PTL

(* A canary that completed undisturbed serves what it measured: pointer,   *)
(* fleet and every session's pin agree with the slice it drew.             *)
THEOREM MeasureCorrect == Spec => []CompletedRunMeasured
<1>1. Inv => CompletedRunMeasured
  BY DEF Inv, AloneFollows, Follows, Admitted, Served, Pinned, Activated, CompletedRunMeasured
<1> QED BY <1>1, InvAlways, PTL

(* However a canary nothing interfered with ended, what is served is what  *)
(* its outcome says.                                                       *)
THEOREM OutcomeCorrect == Spec => []EndsAsServed
BY RestoreCorrect, MeasureCorrect, PTL DEF EndsAsServed

-----------------------------------------------------------------------------
(* Moves of the ledger.  Rows and transactions are from the past, so the   *)
(* rows of a transaction that runs alone are newer than any other, and     *)
(* what it listed is still there when it commits.                          *)
Moving == {"checked", "listed"}
RowsPast == \A x \in rows : x.at <= now
BegunPast == \A t \in Threads : at[t] <= now
MoveOK(t) == step[t] \in Moving =>
  /\ \A x \in rows : x.at < at[t]
  /\ step[t] = "listed" /\ Target(t) # None => listed[t] = OthersActive(Target(t))
AloneMoves == \A t \in alone : MoveOK(t)

Ordered == RowsPast /\ BegunPast /\ AloneMoves

LEMMA BeginOrdered ==
  ASSUME Inv, Ordered, NEW t \in Threads, alone' \subseteq {t}, BeginTransaction(t), rows' = rows,
         step'[t] = "checked"
  PROVE  Ordered'
<1>1. now \in Nat /\ now' = now + 1 /\ at' = [at EXCEPT ![t] = now + 1]
  BY DEF BeginTransaction, Inv, Typed, RowsOK
<1>2. at \in [Threads -> Nat] BY DEF Inv, Typed, RequestOK
<1>3. \A x \in rows : x.at \in Nat /\ x.at <= now BY DEF Inv, Typed, RowsOK, Rows, Ordered, RowsPast
<1>4. RowsPast' BY <1>1, <1>3 DEF RowsPast
<1>5. BegunPast'
  <2> SUFFICES ASSUME NEW u \in Threads PROVE at'[u] <= now' BY DEF BegunPast
  <2>1. at[u] \in Nat /\ at[u] <= now BY <1>2 DEF Ordered, BegunPast
  <2> QED BY <1>1, <1>2, <2>1
<1>6. at'[t] = now + 1 BY <1>1, <1>2
<1>7. \A x \in rows' : x.at < at'[t] BY <1>1, <1>3, <1>6
<1>8. MoveOK(t)' BY <1>7 DEF MoveOK
<1> QED BY <1>4, <1>5, <1>8 DEF Ordered, AloneMoves

(* steps that write no row and are not about to *)
LEMMA ElsewhereOrdered ==
  ASSUME Inv, Ordered, NEW t, alone' \subseteq {t}, step'[t] \notin Moving, UNCHANGED ledgerVars,
         at' = at \/ End(t) \/ at' = [u \in Threads |-> 0]
  PROVE  Ordered'
<1>1. rows' = rows /\ now' = now /\ now \in Nat BY DEF ledgerVars, Inv, Typed, RowsOK
<1>2. at \in [Threads -> Nat] BY DEF Inv, Typed, RequestOK
<1>3. \A u \in Threads : at'[u] = at[u] \/ at'[u] = 0 BY <1>2 DEF End
<1>4. BegunPast' BY <1>1, <1>3 DEF Ordered, BegunPast
<1>5. RowsPast' BY <1>1 DEF Ordered, RowsPast
<1>6. AloneMoves' BY DEF AloneMoves, MoveOK
<1> QED BY <1>4, <1>5, <1>6 DEF Ordered

LEMMA CommitOrdered ==
  ASSUME Inv, Ordered, NEW t \in Threads, CommitMove(t)
  PROVE  Ordered'
<1>1. step[t] = "listed" /\ End(t) /\ now' = now /\ rows' = Superseded(t) \cup NewRows(t)
  BY DEF CommitMove
<1>2. alone' = {} BY <1>1, EndAlone DEF Inv
<1>3. now \in Nat /\ at \in [Threads -> Nat] BY DEF Inv, Typed, RowsOK, RequestOK
<1>4. at[t] <= now BY DEF Ordered, BegunPast
<1>5. \A x \in Superseded(t) : x.at <= now
  <2> SUFFICES ASSUME NEW x \in rows
               PROVE  x.at <= now /\ [x EXCEPT !.status = "superseded"].at <= now
    BY DEF Superseded
  <2>1. x \in Rows /\ x.at <= now BY DEF Inv, Typed, RowsOK, Ordered, RowsPast
  <2> QED BY <2>1 DEF Rows
<1>6. \A x \in NewRows(t) : x.at = at[t] BY DEF NewRows, Row
<1>7. RowsPast' BY <1>1, <1>4, <1>5, <1>6 DEF RowsPast
<1>8. \A u \in Threads : at'[u] = at[u] \/ at'[u] = 0 BY <1>1, <1>3 DEF End
<1>9. BegunPast' BY <1>1, <1>3, <1>8 DEF Ordered, BegunPast
<1> QED BY <1>2, <1>7, <1>9 DEF Ordered, AloneMoves

LEMMA ListOrdered ==
  ASSUME Inv, Ordered, NEW t \in Threads, ListActive(t)
  PROVE  Ordered'
<1>1. step[t] = "checked" /\ Goto(t, "listed") /\ UNCHANGED <<rows, now, at, rel, intent, alone>>
      /\ listed' = [listed EXCEPT ![t] = IF Target(t) = None THEN {} ELSE OthersActive(Target(t))]
  BY DEF ListActive, Goto
<1>2. alone' \subseteq {t} BY <1>1, GotoAlone DEF Inv, Typed
<1>3. Target(t)' = Target(t) /\ \A r : OthersActive(r)' = OthersActive(r)
  BY <1>1 DEF Target, OthersActive
<1>4. Target(t) # None => listed'[t] = OthersActive(Target(t))
  BY <1>1 DEF Inv, Typed, RequestOK
<1>5. t \in alone => \A x \in rows : x.at < at[t]
  BY <1>1 DEF Ordered, AloneMoves, MoveOK, Moving
<1>6. t \in alone' => MoveOK(t)' BY <1>1, <1>3, <1>4, <1>5 DEF MoveOK
<1>7. RowsPast' /\ BegunPast' BY <1>1 DEF Ordered, RowsPast, BegunPast
<1> QED BY <1>2, <1>6, <1>7 DEF Ordered, AloneMoves

LEMMA CreateOrdered ==
  ASSUME Inv, Ordered, Create
  PROVE  Ordered'
<1>1. PICK r \in Releases, s \in {"canary", "active"} : rows' = rows \cup {Row(r, s, now + 1)}
  BY DEF Create
<1>2. now \in Nat /\ now' = now + 1 /\ at' = at /\ alone' = {} BY DEF Create, Inv, Typed, RowsOK
<1>3. \A x \in rows : x.at \in Nat /\ x.at <= now BY DEF Inv, Typed, RowsOK, Rows, Ordered, RowsPast
<1>4. Row(r, s, now + 1).at = now + 1 BY DEF Row
<1>5. RowsPast' BY <1>1, <1>2, <1>3, <1>4 DEF RowsPast
<1>6. \A u \in Threads : at[u] \in Nat /\ at[u] <= now
  BY DEF Inv, Typed, RequestOK, Ordered, BegunPast
<1>7. BegunPast' BY <1>2, <1>6 DEF BegunPast
<1> QED BY <1>2, <1>5, <1>7 DEF Ordered, AloneMoves

LEMMA GoesOnElsewhere ==
  ASSUME Inv, Ordered, NEW t \in Threads, step[t] # "idle", NEW next, next \notin Moving, next # "idle",
         Continue(t, next), UNCHANGED ledgerVars
  PROVE  Ordered'
<1>1. Goto(t, next) /\ at' = at BY DEF Continue
<1>2. alone' \subseteq {t} BY <1>1, GotoAlone DEF Inv, Typed
<1>3. step'[t] = next BY <1>1 DEF Goto, Inv, Typed, StepOK
<1> QED BY <1>1, <1>2, <1>3, ElsewhereOrdered

LEMMA BeginsElsewhere ==
  ASSUME Inv, Ordered, NEW t \in Threads, NEW what, NEW r, NEW next, next \notin Moving, next # "idle",
         Begin(t, what, r, next), at' = at, UNCHANGED ledgerVars
  PROVE  Ordered'
<1>1. alone' \subseteq {t} BY BeginAlone DEF Inv, Typed
<1>2. step'[t] = next BY DEF Begin, Inv, Typed, StepOK
<1> QED BY <1>1, <1>2, ElsewhereOrdered

LEMMA LeavesOrdered ==
  ASSUME Inv, Ordered, NEW t \in Threads, step[t] # "idle", Leave(t), UNCHANGED ledgerVars
  PROVE  Ordered'
<1>1. End(t) BY DEF Leave
<1>2. alone' = {} BY <1>1, EndAlone DEF Inv
<1>3. step'[t] = "idle" BY <1>1 DEF End, Inv, Typed, StepOK
<1>4. step'[t] \notin Moving BY <1>3 DEF Moving
<1> QED BY <1>1, <1>2, <1>4, ElsewhereOrdered

LEMMA WorkOrdered ==
  ASSUME Inv, Ordered, NEW t \in Threads, Work(t)
  PROVE  Ordered'
<1>1. CASE Ledger(t)
  <2>1. ASSUME NEW what, NEW r, Begin(t, what, r, "checked"), BeginTransaction(t), rows' = rows
        PROVE  Ordered'
    <3>1. alone' \subseteq {t} BY <2>1, BeginAlone DEF Inv, Typed
    <3>2. step'[t] = "checked" BY <2>1 DEF Begin, Inv, Typed, StepOK
    <3> QED BY <2>1, <3>1, <3>2, BeginOrdered
  <2>2. CASE Promote(t) BY <2>1, <2>2 DEF Promote
  <2>3. CASE RollBackRelease(t) BY <2>1, <2>3 DEF RollBackRelease
  <2> QED BY <1>1, <2>2, <2>3, ListOrdered, CommitOrdered DEF Ledger, LedgerStep
<1>2. CASE Admission(t)
  <2>1. CASE Ask(t) BY <2>1, BeginsElsewhere DEF Ask, Moving
  <2>2. CASE FindIncumbent(t) BY <2>2, GoesOnElsewhere DEF FindIncumbent, Moving
  <2>3. CASE Bootstrap(t) BY <2>3, GoesOnElsewhere DEF Bootstrap, Moving
  <2>4. CASE Admit(t) BY <2>4, GoesOnElsewhere DEF Admit, Moving
  <2>5. CASE Refuse(t) BY <2>5, LeavesOrdered DEF Refuse
  <2> QED BY <1>2, <2>1, <2>2, <2>3, <2>4, <2>5 DEF Admission
<1>3. CASE Harness(t)
  <2>1. CASE Start(t) BY <2>1, GoesOnElsewhere DEF Start, Moving
  <2>2. CASE StartRefused(t) BY <2>2, LeavesOrdered DEF StartRefused
  <2>3. CASE Activate(t) BY <2>3, GoesOnElsewhere DEF Activate, Moving
  <2>4. CASE Allocate(t) BY <2>4, GoesOnElsewhere DEF Allocate, Moving
  <2>5. CASE RunTask(t)
    <3>1. step[t] = "running" /\ UNCHANGED ledgerVars BY <2>5 DEF RunTask
    <3>2. CASE Continue(t, "stopping") \/ Continue(t, "completed")
      BY <3>1, <3>2, GoesOnElsewhere DEF Moving
    <3>3. CASE UNCHANGED requestVars
      <4>1. step' = step /\ alone' = alone /\ at' = at BY <3>3 DEF requestVars
      <4>2. alone' \subseteq {t} BY <3>1, <4>1 DEF Inv, AloneOK
      <4>3. step'[t] \notin Moving BY <3>1, <4>1 DEF Moving
      <4> QED BY <3>1, <4>1, <4>2, <4>3, ElsewhereOrdered
    <3> QED BY <2>5, <3>2, <3>3 DEF RunTask
  <2>6. CASE TaskRaises(t) BY <2>6, LeavesOrdered DEF TaskRaises
  <2>7. CASE RollBack(t) BY <2>7, GoesOnElsewhere DEF RollBack, Moving
  <2>8. CASE RollBackRaises(t) BY <2>8, LeavesOrdered DEF RollBackRaises
  <2>9. CASE Restore(t)
    <3>1. step[t] # "idle" /\ UNCHANGED ledgerVars BY <2>9 DEF Restore
    <3>2. CASE Continue(t, "rolledback") BY <3>1, <3>2, GoesOnElsewhere DEF Moving
    <3>3. CASE Leave(t) BY <3>1, <3>3, LeavesOrdered
    <3> QED BY <2>9, <3>2, <3>3 DEF Restore
  <2> QED BY <1>3, <2>1, <2>2, <2>3, <2>4, <2>5, <2>6, <2>7, <2>8, <2>9 DEF Harness
<1>4. CASE Outcome(t)
  <2>1. CASE RecordCompleted(t) BY <2>1, LeavesOrdered DEF RecordCompleted
  <2>2. CASE RecordRolledBack(t) BY <2>2, GoesOnElsewhere DEF RecordRolledBack, Moving
  <2>3. CASE UndoRelease(t)
    <3>1. step[t] = "undoing" /\ Goto(t, "checked") /\ BeginTransaction(t) /\ rows' = rows
      BY <2>3 DEF UndoRelease
    <3>2. alone' \subseteq {t} BY <3>1, GotoAlone DEF Inv, Typed
    <3>3. step'[t] = "checked" BY <3>1 DEF Goto, Inv, Typed, StepOK
    <3> QED BY <3>1, <3>2, <3>3, BeginOrdered
  <2>4. CASE UndoRefused(t) BY <2>4, LeavesOrdered DEF UndoRefused
  <2> QED BY <1>4, <2>1, <2>2, <2>3, <2>4 DEF Outcome
<1>5. CASE Invalidate(t) BY <1>5, BeginsElsewhere DEF Invalidate, Moving
<1> QED BY <1>1, <1>2, <1>3, <1>4, <1>5 DEF Work

LEMMA OrderedStep == Inv /\ Ordered /\ [Next]_vars => Ordered'
<1> SUFFICES ASSUME Inv, Ordered, [Next]_vars PROVE Ordered' OBVIOUS
<1>1. CASE Registration BY <1>1, CreateOrdered DEF Registration
<1>2. CASE Crash
  <2>1. alone' = {} /\ UNCHANGED ledgerVars /\ at' = [u \in Threads |-> 0]
        /\ step' = [u \in Threads |-> "idle"]
    BY <1>2 DEF Crash
  <2>2. now \in Nat /\ now' = now /\ rows' = rows BY <2>1 DEF ledgerVars, Inv, Typed, RowsOK
  <2> QED BY <2>1, <2>2 DEF Ordered, RowsPast, BegunPast, AloneMoves
<1>3. ASSUME NEW t \in Threads, Work(t) PROVE Ordered' BY <1>3, WorkOrdered
<1>4. CASE UNCHANGED vars
  BY <1>4 DEF vars, ledgerVars, requestVars, Ordered, RowsPast, BegunPast, AloneMoves, MoveOK,
              Target, OthersActive
<1> QED BY <1>1, <1>2, <1>3, <1>4 DEF Next

-----------------------------------------------------------------------------
(* an undisturbed move leaves its target, and nothing else, active *)
LEMMA CommitLeavesOne ==
  ASSUME Inv, Ordered, NEW t \in alone, CommitMove(t), NEW r \in Releases, r = Target(t)
  PROVE  Active' = {r}
<1> DEFINE new == Row(r, "active", at[t])
           back == Row(rel[t], "rolled_back", at[t])
<1>1. t \in Threads /\ step[t] = "listed" BY DEF CommitMove, Inv, Typed, RequestOK
<1>2. rel[t] \in Releases /\ at[t] \in Nat BY <1>1 DEF Inv, Typed, Busy, RequestOK
<1>3. r # None BY LedgerAssumption
<1>4. (\A x \in rows : x.at < at[t]) /\ listed[t] = OthersActive(r)
  BY <1>1, <1>3 DEF Ordered, AloneMoves, MoveOK, Moving
<1>5. rows' = Superseded(t) \cup NewRows(t) BY DEF CommitMove
<1>6. intent[t] # "promote" => rel[t] # r BY <1>2, LedgerAssumption DEF Target
<1>7. NewRows(t) = {new} \/ (NewRows(t) = {new, back} /\ rel[t] # r)
  BY <1>3, <1>6 DEF NewRows
<1>8. new.rel = r /\ new.at = at[t] /\ new.status = "active" /\ back.rel = rel[t] /\ back.status = "rolled_back"
  BY DEF Row
<1> HIDE DEF new, back
<1>9. ASSUME NEW y \in Superseded(t) PROVE y.at < at[t] /\ (y.status = "active" => y.rel = r)
  <2>1. PICK x \in rows : y = IF \E z \in listed[t] : z.rel = x.rel /\ z.at = x.at
                               THEN [x EXCEPT !.status = "superseded"] ELSE x
    BY <1>9 DEF Superseded
  <2>2. x \in Rows /\ x.at < at[t] BY <1>4 DEF Inv, Typed, RowsOK
  <2>3. CASE \E z \in listed[t] : z.rel = x.rel /\ z.at = x.at
    <3>1. y = [x EXCEPT !.status = "superseded"] BY <2>1, <2>3, Zenon
    <3>2. x = [rel |-> x.rel, status |-> x.status, at |-> x.at] BY <2>2 DEF Rows
    <3>3. y = [rel |-> x.rel, status |-> "superseded", at |-> x.at] BY <3>1, <3>2
    <3>4. y.at = x.at /\ y.status = "superseded" BY <3>3
    <3> QED BY <2>2, <3>4
  <2>4. CASE ~ \E z \in listed[t] : z.rel = x.rel /\ z.at = x.at
    <3>1. x \notin OthersActive(r) BY <2>4, <1>4
    <3>2. x.status = "active" => x.rel = r BY <3>1 DEF OthersActive
    <3> QED BY <2>1, <2>2, <2>4, <3>2
  <2> QED BY <2>3, <2>4
<1>10. new \in rows' BY <1>5, <1>7
<1>11. \A x \in rows' : x.rel = r => x = new \/ x.at < at[t] BY <1>5, <1>7, <1>8, <1>9
<1>12. \A x \in rows' : x.status = "active" => x.rel = r BY <1>5, <1>7, <1>8, <1>9
<1>13. \A x \in rows' : x.at \in Nat
  <2>1. RowsOK' BY <1>1, <1>2, CommitTyped DEF Inv, Typed
  <2> QED BY <2>1 DEF RowsOK, Rows
<1> DEFINE R == {y \in rows' : y.rel = r}
<1>14. {x \in R : \A y \in R : y.at <= x.at} = {new}
  <2>1. new \in R /\ \A y \in R : y = new \/ y.at < at[t] BY <1>8, <1>10, <1>11
  <2>2. \A y \in R : y.at \in Nat BY <1>13
  <2>3. \A y \in R : y.at <= new.at BY <2>1, <2>2, <1>2, <1>8
  <2>4. \A y \in R : y # new => ~(new.at <= y.at) BY <2>1, <2>2, <1>2, <1>8
  <2> HIDE DEF R
  <2> QED BY <2>1, <2>3, <2>4
<1>15. Status(r)' = {"active"}
  <2>1. Status(r)' = {x.status : x \in {x \in R : \A y \in R : y.at <= x.at}} BY DEF Status, Latest
  <2> HIDE DEF R
  <2> QED BY <2>1, <1>8, <1>14
<1>16. ASSUME NEW q \in Releases, q # r PROVE Status(q)' # {"active"}
  <2>1. \A x \in rows' : x.rel = q => x.status # "active" BY <1>12, <1>16
  <2>2. Status(q)' \subseteq {x.status : x \in {y \in rows' : y.rel = q}} BY DEF Status, Latest
  <2>3. "active" \notin Status(q)' BY <2>1, <2>2
  <2> QED BY <2>3
<1> QED BY <1>15, <1>16 DEF Active

(* A promotion or rollback that overlapped with nothing leaves exactly one *)
(* release active, whatever races left behind before it                    *)
(* (api/service.py:1649-1662).                                             *)
THEOREM MovesCorrect == Spec => MovesLeaveOneActive
<1> DEFINE Good == \A t \in alone : step[t] = "listed" /\ step'[t] = "idle" /\ rows' # rows /\ Target(t) # None
                     => Active' = {Target(t)}
<1>1. Inv /\ Ordered /\ [Next]_vars => [Good]_<<rows, step>>
  <2> SUFFICES ASSUME Inv, Ordered, [Next]_vars,
                      NEW t \in alone, step[t] = "listed", step'[t] = "idle", rows' # rows, Target(t) # None
               PROVE  Active' = {Target(t)}
    OBVIOUS
  <2>1. t \in Threads /\ \A u \in Threads \ {t} : step[u] = "idle" BY DEF Inv, AloneOK
  <2>2. Create \/ \E u \in Threads : CommitMove(u)
    BY DEF Next, Registration, Crash, Work, Ledger, LedgerStep, Admission, Harness, Outcome, Promote,
           RollBackRelease, ListActive, Ask, FindIncumbent, Bootstrap, Admit, Refuse, Start, StartRefused,
           Activate, Allocate, RunTask, TaskRaises, RollBack, RollBackRaises, Restore, RecordCompleted,
           RecordRolledBack, UndoRelease, UndoRefused, Invalidate, vars, ledgerVars
  <2>3. CASE Create BY <2>3 DEF Create
  <2>4. ASSUME NEW u \in Threads, CommitMove(u) PROVE Active' = {Target(t)}
    <3>1. step[u] = "listed" BY <2>4 DEF CommitMove
    <3>2. u = t BY <2>1, <3>1
    <3>3. rel[t] \in Releases BY <2>1 DEF Inv, Busy
    <3>4. Target(t) \in Releases BY <3>3, TargetTyped, <2>1 DEF Inv, Typed
    <3> QED BY <2>4, <3>2, <3>4, CommitLeavesOne
  <2> QED BY <2>2, <2>3, <2>4
<1>2. Init => Ordered
  BY DEF Init, LedgerInit, Ordered, RowsPast, BegunPast, AloneMoves
<1>3. Spec => []Ordered BY <1>2, OrderedStep, InvAlways, PTL DEF Spec
<1>4. Spec => [][Good]_<<rows, step>>
  <2> HIDE DEF Good
  <2> QED BY <1>1, <1>3, InvAlways, PTL DEF Spec
<1> QED BY <1>4 DEF MovesLeaveOneActive
=============================================================================
