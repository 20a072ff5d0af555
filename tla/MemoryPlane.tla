----------------------------- MODULE MemoryPlane -----------------------------
(***************************************************************************)
(* Governed memory (memory/): entries are proposed as suggestions, leave   *)
(* circulation by quarantine, revocation or expiry, and become active only *)
(* through the promotion gates.  Every entry is also an artifact of the    *)
(* registry, whose append-only status events its row must follow, and owns *)
(* a payload: revoking the entry requests its deletion, which two sweeps   *)
(* carry out (lineage/).                                                   *)
(*                                                                         *)
(* A call is a transaction at READ COMMITTED and nothing serialises it: it *)
(* looks (its queries, here one step), decides on what it saw, and its     *)
(* writes appear when it commits, or never.  What other calls committed in *)
(* between it does not see; `missed' names those rows.  Calls that write   *)
(* one row wait for each other, so commits have an order.                  *)
(*                                                                         *)
(* One tenant, one claim key in one scope: two entries compete when their  *)
(* statements differ.  Scores are abstracted to the verdict of the two     *)
(* statistical gates.  The sweeps of lineage/ are single steps of one      *)
(* scheduler.  Backups (lineage/backup.py) keep copies under deadlines of  *)
(* their own; nothing here reads them.                                     *)
(***************************************************************************)
EXTENDS Integers, Sequences, FiniteSets

CONSTANTS
  Statements,                  (* what entries may claim *)
  Callers,                     (* callers of the service that may overlap *)
  MaxEntries, MaxTombstones,   (* bounds of the model *)
  MaxCalls,                    (* bound: calls made *)
  MaxLinks                     (* bound: parents and superseded entries of one entry *)

VARIABLES
  entries,     (* the rows of memory_entries, in the order they were inserted *)
  tombstones,  (* deletion requests over entries' payloads, in request order *)
  payloads,    (* entries whose payload row exists *)
  derived,     (* entries with derived data on record *)
  openCalls,   (* the transaction each caller has open, or NoCall *)
  callsMade    (* calls made, a bound of the model *)

memoryVars == <<entries, tombstones, payloads, derived, openCalls, callsMade>>

Live == {"suggestion", "active"}
EventStatus == [none |-> "suggestion", nominate |-> "active", quarantine |-> "quarantined",
                revoke |-> "revoked", supersede |-> "revoked", expire |-> "expired"]

(* supersedes 0: an id that names no entry.  History: revokedAt, how many  *)
(* entries there were when the entry was last revoked; missed, the rows    *)
(* that the call which last wrote this one did not see as they were        *)
EntryRows == [statement : Statements, expired : BOOLEAN, parents : SUBSET Nat, supersedes : SUBSET Nat,
              status : {"suggestion", "active", "quarantined", "revoked", "expired"},
              event : DOMAIN EventStatus, revokedAt : Nat, missed : SUBSET Nat]
Tombstones == [entry : Nat, access : BOOLEAN, purged : BOOLEAN]

(* An open transaction: its event for the entry it is about, the other     *)
(* rows it found to move, the row it inserts, the rows it found already    *)
(* in the status it sets, and what was committed since it looked           *)
Calls == [kind : DOMAIN EventStatus, entry : Nat, reach : SUBSET Nat, draft : Seq(EntryRows),
          settled : SUBSET Nat, missed : SUBSET Nat]
CallOf(kind, entry, reach, settled, draft) ==
  [kind |-> kind, entry |-> entry, reach |-> reach, draft |-> draft, settled |-> settled, missed |-> {}]
NoCall == CallOf("none", 0, {}, {}, <<>>)

MemoryInit ==
  /\ entries = <<>> /\ tombstones = <<>> /\ payloads = {} /\ derived = {}
  /\ openCalls = [c \in Callers |-> NoCall] /\ callsMade = 0

Ids == DOMAIN entries
IsLive(i) == entries[i].status \in Live

(* live rows with the same claim key and scope and another statement *)
Conflicts(statement, except) ==
  {i \in Ids \ {except} : IsLive(i) /\ entries[i].statement # statement}

(* the event a call appends for row j *)
KindFor(call, j) ==
  IF j = call.entry THEN call.kind
  ELSE CASE call.kind = "nominate" -> "supersede" [] call.kind = "revoke" -> "quarantine" [] OTHER -> "expire"
Touched(call) == (call.reach \cup {call.entry}) \cap Ids

(* a caller without a transaction opens one *)
Open(c, call) ==
  /\ openCalls[c] = NoCall /\ callsMade < MaxCalls
  /\ openCalls' = [openCalls EXCEPT ![c] = call]
  /\ callsMade' = callsMade + 1
  /\ UNCHANGED <<entries, tombstones, payloads, derived>>

(* to append an event of this kind for the entry, and others for its reach *)
Look(c, kind, entry, reach) ==
  LET call == CallOf(kind, entry, reach, {}, <<>>)
      settled == {j \in Touched(call) : entries[j].status = EventStatus[KindFor(call, j)]}
  IN  Open(c, CallOf(kind, entry, reach, settled, <<>>))

-----------------------------------------------------------------------------
(* intake_decision: an unfit entry (poison by its domain or evidence, or   *)
(* past its time already) never circulates, nor does a newcomer that       *)
(* contradicts an entry seen live                                          *)
Quarantined(unfit, statement) == unfit \/ Conflicts(statement, 0) # {}

(* propose_entry: no status event is recorded; a lesson's parents must exist *)
Drafting == {d \in Callers : openCalls[d].draft # <<>>}

ProposeEntry(c) ==
  /\ Len(entries) + Cardinality(Drafting) < MaxEntries
  /\ \E statement \in Statements, unfit \in BOOLEAN, parents \in SUBSET Ids, supersedes \in SUBSET (Ids \cup {0}) :
       /\ Cardinality(parents) + Cardinality(supersedes) <= MaxLinks
       /\ Open(c, CallOf("none", 0, {}, {}, <<
            [statement |-> statement, expired |-> FALSE, parents |-> parents, supersedes |-> supersedes,
             status |-> IF Quarantined(unfit, statement) THEN "quarantined" ELSE "suggestion",
             event |-> "none", revokedAt |-> 0, missed |-> {}] >>))

(* the gates: non-inferior with persistence on, no negative transfer, and  *)
(* still a clean suggestion                                                *)
HygieneClear(i) == entries[i].status = "suggestion" /\ Conflicts(entries[i].statement, i) = {}

(* promote_entry: gates and supersession links first; the superseded       *)
(* entries are to be retired with it, whatever their status                *)
PromoteEntry(c, i) ==
  /\ HygieneClear(i)
  /\ entries[i].supersedes \subseteq Ids
  /\ Look(c, "nominate", i, entries[i].supersedes)

QuarantineEntry(c, i) == Look(c, "quarantine", i, {})

(* the live lessons that cite the entry as evidence *)
ActiveLessons(i) == {j \in Ids : entries[j].status = "active" /\ i \in entries[j].parents}
DependentLessons(i) == {j \in Ids : IsLive(j) /\ i \in entries[j].parents}

(* revoke_entry: of any status, and more than once *)
RevokeEntry(c, i) ==
  /\ Len(tombstones) + Cardinality({d \in Callers : openCalls[d].kind = "revoke"}) < MaxTombstones
  /\ Look(c, "revoke", i, DependentLessons(i))

(* expire_stale: every live entry past its time, in one sweep *)
ExpireStale(c) ==
  LET stale == {i \in Ids : IsLive(i) /\ entries[i].expired} IN
  /\ stale # {}
  /\ Look(c, "expire", 0, stale)

-----------------------------------------------------------------------------
(* append_status_event, and the row's status with it.  A status the call   *)
(* found in place is not written.  The events of calls that overlapped on  *)
(* a row may stand in either order: `behind' are those that come first.    *)
WrittenBy(call, j, behind) ==
  LET row == entries[j]
  IN  [statement |-> row.statement, expired |-> row.expired, parents |-> row.parents, supersedes |-> row.supersedes,
       status |-> IF j \in call.settled THEN row.status ELSE EventStatus[KindFor(call, j)],
       event |-> IF j \in behind THEN row.event ELSE KindFor(call, j),
       revokedAt |-> IF KindFor(call, j) = "revoke" THEN Len(entries) ELSE row.revokedAt,
       missed |-> call.missed \cup (IF j \in call.missed THEN row.missed ELSE {})]

DraftRows(call) == [k \in DOMAIN call.draft |-> [call.draft[k] EXCEPT !.missed = call.missed]]

(* DeletionService.request_deletion: a tombstone with two deadlines *)
RequestDeletion(call) ==
  tombstones' = IF call.kind # "revoke" THEN tombstones
                ELSE Append(tombstones, [entry |-> call.entry, access |-> FALSE, purged |-> FALSE])

(* the transaction ends: its writes appear, and no open call has seen them *)
CommitCall(c) ==
  LET call == openCalls[c]
      wrote == Touched(call) \cup {Len(entries) + k : k \in DOMAIN call.draft} IN
  /\ call # NoCall
  /\ \E behind \in SUBSET (Touched(call) \cap call.missed) :
       entries' = [j \in Ids |-> IF j \in Touched(call) THEN WrittenBy(call, j, behind) ELSE entries[j]]
                  \o DraftRows(call)
  /\ payloads' = payloads \cup {Len(entries) + k : k \in DOMAIN call.draft}
  /\ RequestDeletion(call)
  /\ openCalls' = [d \in Callers |-> IF d = c THEN NoCall
                                 ELSE IF openCalls[d] = NoCall THEN NoCall
                                 ELSE [openCalls[d] EXCEPT !.missed = @ \cup wrote]]
  /\ UNCHANGED <<derived, callsMade>>

(* an error, a deadlock or a lost connection: nothing is written *)
RollBackCall(c) ==
  /\ openCalls[c] # NoCall
  /\ openCalls' = [openCalls EXCEPT ![c] = NoCall]
  /\ UNCHANGED <<entries, tombstones, payloads, derived, callsMade>>

(* time: a live entry passes its valid_until *)
TtlPasses(i) ==
  /\ IsLive(i) /\ ~entries[i].expired
  /\ entries' = [entries EXCEPT ![i].expired = TRUE]
  /\ UNCHANGED <<tombstones, payloads, derived, openCalls, callsMade>>

(* register_derived_data asks for a row, not for its status *)
RegisterDerivedData(i) ==
  /\ callsMade < MaxCalls
  /\ callsMade' = callsMade + 1
  /\ derived' = derived \cup {i}
  /\ UNCHANGED <<entries, tombstones, payloads, openCalls>>

-----------------------------------------------------------------------------
(* Deletion.  Deadlines follow the order of the requests, so a sweep takes *)
(* the pending tombstones among the first n.                               *)

(* DeletionService.revoke_access: the payload rows are deleted *)
RevokeAccess(due) ==
  /\ tombstones' = [t \in DOMAIN tombstones |-> [tombstones[t] EXCEPT !.access = @ \/ t \in due]]
  /\ payloads' = payloads \ {tombstones[t].entry : t \in due}

(* run_access_revocation_sweep *)
AccessSweep(n) ==
  LET due == {t \in 1..n : ~tombstones[t].access} IN
  /\ due # {}
  /\ RevokeAccess(due)
  /\ UNCHANGED <<entries, derived, openCalls, callsMade>>

(* run_derived_purge_sweep: only what was revoked before, and only once *)
DueForPurge(n) == {t \in 1..n : tombstones[t].access /\ ~tombstones[t].purged}

PurgeSweep(n) ==
  /\ DueForPurge(n) # {}
  /\ tombstones' = [t \in DOMAIN tombstones |-> [tombstones[t] EXCEPT !.purged = @ \/ t \in DueForPurge(n)]]
  /\ derived' = derived \ {tombstones[t].entry : t \in DueForPurge(n)}
  /\ UNCHANGED <<entries, payloads, openCalls, callsMade>>

MemoryNext ==
  \/ \E c \in Callers : \/ ProposeEntry(c) \/ ExpireStale(c) \/ CommitCall(c) \/ RollBackCall(c)
                        \/ \E i \in Ids : PromoteEntry(c, i) \/ QuarantineEntry(c, i) \/ RevokeEntry(c, i)
  \/ \E i \in Ids : TtlPasses(i) \/ RegisterDerivedData(i)
  \/ \E n \in DOMAIN tombstones : AccessSweep(n) \/ PurgeSweep(n)

-----------------------------------------------------------------------------
MemoryTypes ==
  /\ entries \in Seq(EntryRows) /\ tombstones \in Seq(Tombstones)
  /\ payloads \subseteq Ids /\ derived \subseteq Ids /\ openCalls \in [Callers -> Calls] /\ callsMade \in Nat

Overlapped(i, j) == i \in entries[j].missed \/ j \in entries[i].missed

(* A newcomer that contradicts a live entry is quarantined and promotion   *)
(* asks again (memory/service.py, propose_entry, promote_entry), with      *)
(* nothing to serialise the query and the write: two live entries          *)
(* contradict each other only if the call that put one of them there, or a *)
(* call that overlapped with it, had looked before the other was written.  *)
ContradictionsOverlapped ==
  \A i, j \in Ids : IsLive(i) /\ IsLive(j) /\ entries[i].statement # entries[j].statement => Overlapped(i, j)

(* "every generalized lesson citing it is quarantined" (revoke_entry): a   *)
(* live lesson that cites an entry whose last event is its revocation was  *)
(* inserted after it, or overlapped with it.                               *)
RevocationReachesLessons ==
  \A i, j \in Ids : entries[i].event = "revoke" /\ IsLive(j) /\ i \in entries[j].parents =>
    entries[i].revokedAt < j \/ Overlapped(i, j)

(* Registry and row agree (append_status_event): a row has the status of   *)
(* its artifact's last event unless only intake quarantined it, or a call  *)
(* wrote it that had looked before the one that wrote it before.           *)
RowsFollowEvents ==
  \A i \in Ids : \/ entries[i].status = EventStatus[entries[i].event]
                 \/ entries[i].event = "none" /\ entries[i].status = "quarantined"
                 \/ i \in entries[i].missed

(* What was ever revoked has a tombstone (request_deletion), its payload   *)
(* is gone once access is revoked, and derived data is purged only then.   *)
RevokedIsDeleted ==
  /\ \A i \in Ids : entries[i].revokedAt > 0 => \E t \in DOMAIN tombstones : tombstones[t].entry = i
  /\ \A t \in DOMAIN tombstones :
       /\ tombstones[t].access => tombstones[t].entry \notin payloads
       /\ tombstones[t].purged => tombstones[t].access

(* What circulates can be believed and what was revoked does not come back *)
(* (memory/service.py, lineage/deletion.py) but where calls overlapped.    *)
MemoryIsSound ==
  ContradictionsOverlapped /\ RevocationReachesLessons /\ RowsFollowEvents /\ RevokedIsDeleted

=============================================================================
