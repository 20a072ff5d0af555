---------------------------- MODULE EvidenceArchive ----------------------------
(***************************************************************************)
(* Candidates, evaluations and the archive over them (api/service.py,      *)
(* registry/service.py, selection/{pareto,mutation}_archive.py,            *)
(* selection/productivity.py).  Candidates enter through the tenancy       *)
(* boundary and the output-admission gate; evaluators attest; an archive   *)
(* report rebuilds a stored projection of that evidence, checks it against *)
(* the evidence and aggregates the stored rows, in one transaction.        *)
(*                                                                         *)
(* Report requests are served by threads: every query of one sees what was *)
(* committed when it runs, and its own writes.  Registrations and          *)
(* evaluations are one commit each.  What an attestation says is left out: *)
(* the archive copies it to a row keyed by proposal and attestation.       *)
(***************************************************************************)
EXTENDS Integers, Sequences, FiniteSets

CONSTANTS
  Contents,      (* what callers submit: [type, clean]; clean is the verdict of *)
                 (* the admission gate, a function of the bytes                 *)
  Kinds,         (* archives to report on *)
  Readers,       (* threads that serve archive reports *)
  MaxRegistrations, MaxAttestations, MaxRebuilds, MaxRefusals    (* bounds of the model *)

VARIABLES
  environment,   (* of the tenant, as the server's policy documents have it *)
  artifacts,     (* artifact_contents: the environment each was registered in *)
  proposals,     (* proposal_records, in the order of their commits *)
  attestations,  (* evaluation_attestations, likewise: the artifact of each *)
  reports,       (* analysis_reports: one row per artifact the gate passed *)
  refusals,      (* tenant_policy_refusals *)
  turnedAway,    (* history: the submissions the tenancy boundary turned away *)
  kind,          (* which archive the reports are about *)
  stored,        (* its committed rows *)
  rebuilds,      (* how many rebuilds have begun *)
  reader         (* the report each thread is at *)

evidenceVars == <<artifacts, proposals, attestations, reports, refusals, turnedAway>>
archiveVars == <<environment, artifacts, proposals, attestations, reports, refusals, turnedAway,
                 kind, stored, rebuilds, reader>>

Executable == {c \in Contents : c.type \in {"middleware", "scaffold"}}
Scaffold == {c \in Contents : c.type = "scaffold"}
Environments == {"research", "production"}

Rows == [proposal : Nat, attestation : Nat, by : Nat]
Steps == {"idle", "flush", "reconcile", "aggregate", "report"}
Idle == [at |-> "idle", by |-> 0, since |-> <<0, 0>>, compared |-> <<0, 0>>, victims |-> {}, own |-> {},
         reconciled |-> FALSE, rows |-> {}]

ArchiveInit ==
  /\ environment \in Environments /\ artifacts = <<>> /\ proposals = <<>> /\ attestations = <<>>
  /\ reports = {} /\ refusals = <<>> /\ turnedAway = 0
  /\ kind \in Kinds /\ stored = {} /\ rebuilds = 0
  /\ reader = [r \in Readers |-> Idle]

-----------------------------------------------------------------------------
(* The tenancy boundary: an unmapped tenant is a production one *)
MayRegister(c) == c \in Scaffold => environment = "research"

(* _refuse_scaffold_outside_research: the ledger row is committed, then the *)
(* error unwinds the request                                               *)
Refuse(c) == refusals' = Append(refusals, c)

RefuseCandidate(c) ==
  /\ Len(refusals) < MaxRefusals /\ turnedAway < MaxRefusals
  /\ ~MayRegister(c)
  /\ Refuse(c) /\ turnedAway' = turnedAway + 1
  /\ UNCHANGED <<environment, artifacts, proposals, attestations, reports, kind, stored, rebuilds, reader>>

(* gate_executable_candidate runs before anything is registered, and its   *)
(* report is unique per verdict: an executable artifact that has one is    *)
(* not registered again (the whole request is rolled back)                 *)
Gate(c) == c \in Executable => c.clean /\ c \notin reports

(* _persist_analysis_report: the verdict of a gate that ran, signed *)
PersistAnalysisReport(c) == reports' = IF c \in Executable THEN reports \cup {c} ELSE reports

(* register_candidate: artifact (kept if it is there), report, proposal *)
RegisterCandidate(c) ==
  /\ Len(proposals) < MaxRegistrations
  /\ MayRegister(c) /\ Gate(c)
  /\ artifacts' = IF c \in DOMAIN artifacts THEN artifacts
                  ELSE [d \in DOMAIN artifacts \cup {c} |-> IF d = c THEN environment ELSE artifacts[d]]
  /\ PersistAnalysisReport(c)
  /\ \E declared \in BOOLEAN :          (* does the proposal declare a mutation class *)
       proposals' = Append(proposals, [artifact |-> c, declared |-> declared])
  /\ UNCHANGED <<environment, attestations, refusals, turnedAway, kind, stored, rebuilds, reader>>

(* record_evaluation: of a registered artifact, by the evaluator *)
RecordEvaluation(c) ==
  /\ Len(attestations) < MaxAttestations
  /\ c \in DOMAIN artifacts
  /\ attestations' = Append(attestations, c)
  /\ UNCHANGED <<environment, artifacts, proposals, reports, refusals, turnedAway, kind, stored, rebuilds, reader>>

(* the server restarts with other policy documents; requests in flight end *)
Redeploy ==
  /\ environment' \in Environments \ {environment}
  /\ reader' = [r \in Readers |-> Idle]
  /\ UNCHANGED <<evidenceVars, kind, stored, rebuilds>>

-----------------------------------------------------------------------------
(* project_*_rows over the first n[1] proposals and n[2] attestations *)
Projected(p) == kind = "mutation" => proposals[p].declared

Pairs(n) == {ij \in (1..n[1]) \X (1..n[2]) :
              Projected(ij[1]) /\ attestations[ij[2]] = proposals[ij[1]].artifact}

(* One report.  The queries of a rebuild are one step, and so are those of *)
(* a reconcile: a commit changes the evidence or the rows, never both, so  *)
(* every order of it and the queries comes to one without it in between.   *)
Move(r, here, row) ==
  /\ reader[r].at = here
  /\ reader' = [reader EXCEPT ![r] = row]
  /\ UNCHANGED <<environment, artifacts, proposals, attestations, reports, refusals, turnedAway, kind>>

Now == <<Len(proposals), Len(attestations)>>

(* rebuild: the rows to write and the rows to replace; threads are alike,  *)
(* and one that is idle takes the request                                  *)
ReadEvidence(r) ==
  /\ rebuilds < MaxRebuilds
  /\ r = CHOOSE q \in Readers : reader[q].at = "idle"
  /\ rebuilds' = rebuilds + 1
  /\ Move(r, "idle", [Idle EXCEPT !.at = "flush", !.by = rebuilds + 1, !.since = Now, !.victims = stored])
  /\ UNCHANGED stored

(* The flush deletes those rows and adds the projected ones.  It waits for *)
(* a transaction that has deleted one of the same rows; a row that is gone *)
(* by then is only a warning.                                              *)
Locked(r) == \E q \in Readers \ {r} :
  reader[q].at \in {"reconcile", "aggregate", "report"} /\ reader[q].victims \cap reader[r].victims # {}

Flush(r) ==
  /\ ~Locked(r)
  /\ Move(r, "flush", [reader[r] EXCEPT !.at = "reconcile",
       !.own = {[proposal |-> ij[1], attestation |-> ij[2], by |-> reader[r].by] :
                 ij \in Pairs(reader[r].since)}])
  /\ UNCHANGED <<stored, rebuilds>>

(* the rows the transaction sees: the committed ones it has not deleted,   *)
(* and its own                                                             *)
Visible(r) == (stored \ reader[r].victims) \cup reader[r].own
Keys(rows) == {<<row.proposal, row.attestation>> : row \in rows}

(* reconcile: the rows against the evidence, by key *)
MissingUnseen(rows, evidence) == Keys(rows) \subseteq Pairs(evidence)
Matches(rows, evidence) == Keys(rows) = Pairs(evidence)

Reconcile(r) ==
  /\ Move(r, "reconcile", [reader[r] EXCEPT !.at = "aggregate", !.compared = Now,
                             !.reconciled = Matches(Visible(r), Now)])
  /\ UNCHANGED <<stored, rebuilds>>

(* frontier and slice summaries, over the stored rows *)
Aggregate(r) ==
  /\ Move(r, "aggregate", [reader[r] EXCEPT !.at = "report", !.rows = Visible(r)])
  /\ UNCHANGED <<stored, rebuilds>>

Commit(r) ==
  /\ Move(r, "report", Idle)
  /\ stored' = Visible(r)
  /\ UNCHANGED rebuilds

ArchiveNext ==
  \/ Redeploy
  \/ \E c \in Contents : RefuseCandidate(c) \/ RegisterCandidate(c) \/ RecordEvaluation(c)
  \/ \E r \in Readers : \/ ReadEvidence(r) \/ Flush(r) \/ Reconcile(r) \/ Aggregate(r) \/ Commit(r)

-----------------------------------------------------------------------------
ArchiveTypes ==
  /\ environment \in Environments
  /\ \A c \in DOMAIN artifacts : c \in Contents /\ artifacts[c] \in Environments
  /\ proposals \in Seq([artifact : DOMAIN artifacts, declared : BOOLEAN])
  /\ attestations \in Seq(DOMAIN artifacts)
  /\ reports \subseteq DOMAIN artifacts /\ refusals \in Seq(Contents) /\ turnedAway \in Nat
  /\ kind \in Kinds /\ stored \subseteq Rows /\ rebuilds \in Nat
  /\ \A r \in Readers :
       reader[r].at \in Steps /\ reader[r].victims \cup reader[r].own \cup reader[r].rows \subseteq Rows

(* "scaffold mutation exists only in the research tenant", "a candidate    *)
(* that would be refused leaves no artifact row", and a refusal outlives   *)
(* the transaction it ends (api/service.py): what is registered passed the *)
(* boundary then in force and, if executable, the gate; it was proposed;   *)
(* and every submission turned away is on the ledger.                      *)
RegisteredByTheRules ==
  /\ \A c \in DOMAIN artifacts :
       /\ c \in Scaffold => artifacts[c] = "research"
       /\ c \in Executable => c.clean /\ c \in reports
       /\ \E p \in DOMAIN proposals : proposals[p].artifact = c
  /\ \A c \in Executable : Cardinality({p \in DOMAIN proposals : proposals[p].artifact = c}) <= 1
  /\ Len(refusals) = turnedAway

(* The archive says nothing the evidence does not, and a report that says  *)
(* it was reconciled (ParetoArchiveService.reconcile) rests on all the     *)
(* evidence it was compared with, whoever else rebuilds, registers or      *)
(* commits older rows between the comparison and the aggregation.          *)
ArchiveRestsOnEvidence ==
  /\ Keys(stored) \subseteq Pairs(Now)
  /\ \A r \in Readers : reader[r].at = "report" =>
       /\ Keys(reader[r].rows) \subseteq Pairs(Now)
       /\ reader[r].reconciled => Pairs(reader[r].compared) \subseteq Keys(reader[r].rows)

(* From submission to report (api/service.py): nothing enters the registry *)
(* but by the rules, and nothing is reported but what evidence says.       *)
EvidenceIsSound == RegisteredByTheRules /\ ArchiveRestsOnEvidence

=============================================================================
