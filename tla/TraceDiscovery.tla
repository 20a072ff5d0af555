---------------------------- MODULE TraceDiscovery ----------------------------
(***************************************************************************)
(* What is read back from the trace store: the tenant's hash chain and its *)
(* verification (db/ingest.py, db/chain_verification.py), the trace reads  *)
(* (db/trace_reads.py), and the discovery reports that cluster failed      *)
(* traces (eval/discovery.py, CampaignApiService.run_discovery).           *)
(*                                                                         *)
(* An event is a record [trace, task, campaign, time, type, name, ok]: the *)
(* envelope, and what its out-of-line body says of a tool call or of the   *)
(* outcome.  Hashes and digests are collision-free, so a hash is what it   *)
(* covers and a report is its own digest.  Agent and release narrow a run  *)
(* as a campaign does.                                                     *)
(***************************************************************************)
EXTENDS Integers, FiniteSets, SequencesExt

CONSTANTS Events, Campaigns, TaxonomyOf, PageSize, MaxRepresentatives, Discoverers, MaxEvents, MaxLost, MaxDiscoveries

(* traces and tasks have an order, and nobody asks for clusters without a  *)
(* representative                                                          *)
ASSUME TraceAssumption ==
  /\ \A e \in Events : e.trace \in Nat /\ e.task \in Nat
  /\ MaxRepresentatives \in Nat \ {0}

VARIABLES
  traceChain,      \* events: rows [seq, event, prev, hash] in chain_seq order
  ingested,        \* the events as they were ingested
  damagedChain,    \* a row was altered, moved or deleted behind the service
  lostBodies,      \* events whose body was never registered or is revoked
  discovery,       \* discoverer -> [at, report, basis]: what it clustered, then what it is served
  discoveryRows    \* analysis_reports: [body, digest, signed], and the basis of the run that wrote it

traceVars == <<traceChain, ingested, damagedChain, lostBodies, discovery, discoveryRows>>

Genesis == <<>>
NoReport == [at |-> "idle", report |-> {}, basis |-> {}]

TraceInit ==
  /\ traceChain = <<>> /\ ingested = <<>> /\ damagedChain = FALSE /\ lostBodies = {}
  /\ discovery = [d \in Discoverers |-> NoReport]
  /\ discoveryRows = <<>>

Discoveries == Len(discoveryRows) + Cardinality({d \in Discoverers : discovery[d].at \in {"look", "insert"}})

-----------------------------------------------------------------------------
(* A stored report: its body is rebuilt, and what is rebuilt has to be what *)
(* the digest names and the signature covers                               *)
Malformed == [campaign |-> "", scanned |-> -1, unresolved |-> 0, clusters |-> {}]
Rebuilds(row) == row.body # Malformed
TrustReport(row) == Rebuilds(row)
VerifyReport(row) == Rebuilds(row) /\ row.body = row.digest /\ row.body = row.signed

(* what is damaged is examined, and neither extended nor lost from: a bound *)
Undamaged == ~damagedChain /\ \A i \in DOMAIN discoveryRows : VerifyReport(discoveryRows[i])

(* a report is computed when the traces are read: what changes them before *)
(* it is looked for and inserted comes to the same afterwards: a bound     *)
Settled == \A d \in Discoverers : discovery[d].at \notin {"look", "insert"}

-----------------------------------------------------------------------------
(* The chain *)

EventHash(event, prev) == <<event, prev>>

Ingest(event) ==
  /\ Undamaged /\ Settled /\ Len(ingested) < MaxEvents /\ event \notin Range(ingested)
  /\ LET prev == IF traceChain = <<>> THEN Genesis ELSE Last(traceChain).hash IN
     traceChain' = Append(traceChain, [seq |-> Len(traceChain) + 1, event |-> event, prev |-> prev,
                                       hash |-> EventHash(event, prev)])
  /\ ingested' = Append(ingested, event)
  /\ UNCHANGED <<damagedChain, lostBodies, discovery, discoveryRows>>

(* verify_chain: what is wrong with a chain, row by row *)
Violations(rows) ==
  UNION {(IF rows[i].seq # (IF i = 1 THEN 1 ELSE rows[i - 1].seq + 1) THEN {<<i, "sequence_gap">>} ELSE {})
         \cup (IF rows[i].prev # (IF i = 1 THEN Genesis ELSE rows[i - 1].hash)
               THEN {<<i, "prev_hash_mismatch">>} ELSE {})
         \cup (IF rows[i].hash # EventHash(rows[i].event, rows[i].prev) THEN {<<i, "hash_mismatch">>} ELSE {})
         : i \in DOMAIN rows}

(* The damage verify_chain is for: an envelope altered, two neighbours that *)
(* exchange their places, a row deleted.  A damaged chain is examined and   *)
(* neither extended nor clustered: a bound                                  *)
DamageChain ==
  /\ ~damagedChain /\ damagedChain' = TRUE /\ Discoveries = 0 /\ lostBodies = {}
  /\ \E i \in DOMAIN traceChain :
       \/ \E event \in Events \ {traceChain[i].event} : traceChain' = [traceChain EXCEPT ![i].event = event]
       \/ /\ i < Len(traceChain)
          /\ traceChain' = [traceChain EXCEPT ![i] = [traceChain[i + 1] EXCEPT !.seq = traceChain[i].seq],
                                              ![i + 1] = [traceChain[i] EXCEPT !.seq = traceChain[i + 1].seq]]
       \/ traceChain' = RemoveAt(traceChain, i)
  /\ UNCHANGED <<ingested, lostBodies, discovery, discoveryRows>>

LoseBody ==
  /\ Undamaged /\ Settled /\ Cardinality(lostBodies) < MaxLost
  /\ \E i \in DOMAIN ingested : ingested[i] \notin lostBodies /\ lostBodies' = lostBodies \cup {ingested[i]}
  /\ UNCHANGED <<traceChain, ingested, damagedChain, discovery, discoveryRows>>

-----------------------------------------------------------------------------
(* Trace reads: one page of the traces with an event of the campaign, the   *)
(* newest activity first                                                    *)

Stored == {traceChain[i].event : i \in DOMAIN traceChain}
Matching(campaign) == {e \in Stored : campaign = "all" \/ e.campaign = campaign}
LastActivity(campaign) ==
  [t \in {e.trace : e \in Matching(campaign)} |-> Max({e.time : e \in {e \in Matching(campaign) : e.trace = t}})]
ByActivity(last, t, u) == last[t] > last[u] \/ (last[t] = last[u] /\ t < u)
ListTraces(campaign) ==
  LET last == LastActivity(campaign) IN
  {t \in DOMAIN last : Cardinality({u \in DOMAIN last : ByActivity(last, u, t)}) < PageSize}

TaskOf(t) == Min({e.task : e \in {e \in Stored : e.trace = t}})

(* a body that cannot be read leaves the event without detail *)
Signal(event) == IF event \in lostBodies THEN [event EXCEPT !.name = "unknown", !.ok = "unknown"] ELSE event
Signals(t) ==
  LET rows == SelectSeq(traceChain, LAMBDA row : row.event.trace = t) IN [i \in DOMAIN rows |-> Signal(rows[i].event)]

-----------------------------------------------------------------------------
(* Clustering: the last claim decides, or without one the last end *)

OutcomeOf(s) ==
  LET OfType(type) == {i \in DOMAIN s : s[i].type = type} IN
  IF OfType("claimed") # {} THEN s[Max(OfType("claimed"))].ok
  ELSE IF OfType("ended") # {} THEN s[Max(OfType("ended"))].ok ELSE "unknown"

ToolNames(s, ok) == {s[i].name : i \in {i \in DOMAIN s : s[i].type = "tool" /\ s[i].ok = ok}} \ {"unknown"}

Classify(t, s) ==
  LET failed == ToolNames(s, "no")
      succeeded == ToolNames(s, "yes")
  IN IF TaskOf(t) \in DOMAIN TaxonomyOf THEN TaxonomyOf[TaskOf(t)]
     ELSE IF "test" \in failed THEN "test_misunderstanding"
     ELSE IF "shell" \in failed THEN "dependency_misuse"
     ELSE IF "edit" \in failed \/ ("edit" \notin succeeded /\ "read" \in succeeded \cup failed) THEN "localization"
     ELSE "none"

ClusterKey(t) == <<Classify(t, Signals(t)), ToolNames(Signals(t), "no")>>
Failed(campaign) == {t \in ListTraces(campaign) : OutcomeOf(Signals(t)) = "no"}

(* the members of a cluster as the page lists them, and as the code does,  *)
(* by task and trace: each has before it as many as its place says         *)
MembersAsListed(campaign, key) ==
  SetToSortSeq({t \in Failed(campaign) : ClusterKey(t) = key}, LAMBDA t, u : ByActivity(LastActivity(campaign), t, u))
TaskBefore(p, q) == p[1] < q[1] \/ (p[1] = q[1] /\ p[2] < q[2])
InTaskOrder(pairs) ==
  [i \in 1..Cardinality(pairs) |->
     (CHOOSE p \in pairs : Cardinality({q \in pairs : TaskBefore(q, p)}) = i - 1)[2]]
Members(campaign, key) == InTaskOrder({<<TaskOf(t), t>> : t \in {t \in Failed(campaign) : ClusterKey(t) = key}})

Page(s, n) == SubSeq(s, 1, IF n < Len(s) THEN n ELSE Len(s))
Cluster(campaign, key) ==
  [category |-> key[1], signature |-> key[2], members |-> Members(campaign, key),
   representatives |-> Page(Members(campaign, key), MaxRepresentatives)]

Unresolved(campaign) ==
  Cardinality({i \in DOMAIN traceChain :
                 traceChain[i].event.trace \in ListTraces(campaign) /\ traceChain[i].event \in lostBodies})

ClusterFailures(campaign) ==
  [campaign |-> campaign, scanned |-> Cardinality(ListTraces(campaign)), unresolved |-> Unresolved(campaign),
   clusters |-> {Cluster(campaign, ClusterKey(t)) : t \in Failed(campaign)}]

(* what a report speaks of, in no order *)
Basis(campaign) ==
  [campaign |-> campaign, scanned |-> Cardinality(ListTraces(campaign)), unresolved |-> Unresolved(campaign),
   failures |-> {<<t, TaskOf(t), ClusterKey(t)>> : t \in Failed(campaign)}]

-----------------------------------------------------------------------------
(* run_discovery: one transaction reads, a second looks for the same report *)
(* and writes; between look and write another one may commit                *)

ReadTraces(d, campaign) ==
  /\ discovery[d].at \notin {"look", "insert"} /\ Discoveries < MaxDiscoveries /\ ~damagedChain
  /\ discovery' = [discovery EXCEPT ![d] =
       [at |-> "look", report |-> ClusterFailures(campaign), basis |-> Basis(campaign)]]
  /\ UNCHANGED <<traceChain, ingested, damagedChain, lostBodies, discoveryRows>>

ExistingReport(report) == \E i \in DOMAIN discoveryRows : discoveryRows[i].digest = report

Served(d, row) ==
  [discovery EXCEPT ![d] = IF VerifyReport(row) THEN [@ EXCEPT !.at = "served", !.report = row.body]
                                                ELSE [@ EXCEPT !.at = "refused"]]

LookForReport(d) ==
  /\ discovery[d].at = "look"
  /\ \/ /\ ~ExistingReport(discovery[d].report)
        /\ discovery' = [discovery EXCEPT ![d].at = "insert"]
     \/ \E row \in Range(discoveryRows) :
          row.digest = discovery[d].report /\ discovery' = Served(d, row)
  /\ UNCHANGED <<traceChain, ingested, damagedChain, lostBodies, discoveryRows>>

(* uq_analysis_reports_tenant_verdict_digest *)
InsertReport(d) ==
  /\ discovery[d].at = "insert"
  /\ IF ExistingReport(discovery[d].report)
     THEN discovery' = [discovery EXCEPT ![d].at = "collided"] /\ UNCHANGED discoveryRows
     ELSE LET row == [body |-> discovery[d].report, digest |-> discovery[d].report,
                      signed |-> discovery[d].report, basis |-> discovery[d].basis]
          IN  discoveryRows' = Append(discoveryRows, row) /\ discovery' = Served(d, row)
  /\ UNCHANGED <<traceChain, ingested, damagedChain, lostBodies>>

(* the body of a row is altered, or no report can be rebuilt from it; bound: *)
(* of the first row, over a chain that was not full yet                    *)
DamageReport ==
  /\ Undamaged /\ Len(discoveryRows) = 1 /\ Len(ingested) < MaxEvents
  /\ \E body \in {Malformed, [discoveryRows[1].body EXCEPT !.clusters = {}]} :
       discoveryRows' = [discoveryRows EXCEPT ![1].body = body]
  /\ UNCHANGED <<traceChain, ingested, damagedChain, lostBodies, discovery>>

(* list_discovery_reports: one row that fails refuses the list *)
ListReports(campaign) ==
  LET rows == {row \in Range(discoveryRows) : row.digest.campaign = campaign} IN
  IF \A row \in rows : VerifyReport(row) THEN {row.body : row \in rows} ELSE {Malformed}

TraceNext ==
  \/ DamageChain \/ LoseBody \/ DamageReport
  \/ \E event \in Events : Ingest(event)
  \/ \E d \in Discoverers : LookForReport(d) \/ InsertReport(d) \/ \E campaign \in Campaigns : ReadTraces(d, campaign)

-----------------------------------------------------------------------------
TraceTypes ==
  /\ ingested \in Seq(Events) /\ lostBodies \subseteq Events /\ damagedChain \in BOOLEAN
  /\ \A i \in DOMAIN traceChain : traceChain[i].event \in Events /\ traceChain[i].seq \in Nat
  /\ \A d \in Discoverers : discovery[d].at \in {"idle", "look", "insert", "served", "refused", "collided"}

(* "This detects two distinct failure modes" (chain_verification.py): a     *)
(* chain that verifies is what was ingested, but for a tail that was cut    *)
(* off; and a chain nobody touched always verifies.                         *)
DamageShows ==
  /\ Violations(traceChain) = {} => IsPrefix([i \in DOMAIN traceChain |-> traceChain[i].event], ingested)
  /\ ~damagedChain => Violations(traceChain) = {}

(* "a re-run over unchanged traces re-signs the same digest" and "the      *)
(* existing signed row IS the answer" (discovery.py, run_discovery):        *)
(* whatever order traces were listed in and however runs overlap, reports   *)
(* that speak of the same failures are one row; and each failed trace is in *)
(* one cluster of its report, each cluster with its first members.          *)
DiscoveryIsReproducible ==
  /\ \A i, j \in DOMAIN discoveryRows : discoveryRows[i].basis = discoveryRows[j].basis => i = j
  /\ \A i \in DOMAIN discoveryRows :
       LET row == discoveryRows[i] IN
       /\ \A failure \in row.basis.failures :
            \E c \in row.digest.clusters :
              <<c.category, c.signature>> = failure[3] /\ failure[1] \in Range(c.members)
       /\ \A c \in row.digest.clusters :
            /\ Range(c.members) \subseteq {failure[1] : failure \in row.basis.failures}
            /\ \A other \in row.digest.clusters \ {c} : Range(c.members) \cap Range(other.members) = {}
            /\ c.representatives # <<>> /\ IsPrefix(c.representatives, c.members)

(* "verified before it is served" (get_discovery_report): whatever became   *)
(* of the rows since, a report that is served or listed names every failure *)
(* it was clustered from.                                                   *)
FailuresNamed(report) == UNION {Range(c.members) : c \in report.clusters}
ServedAsSigned ==
  /\ \A d \in Discoverers : discovery[d].at = "served" =>
       FailuresNamed(discovery[d].report) = {failure[1] : failure \in discovery[d].basis.failures}
  /\ \A campaign \in Campaigns : \A report \in ListReports(campaign) \ {Malformed} :
       \E row \in Range(discoveryRows) : FailuresNamed(report) = {failure[1] : failure \in row.basis.failures}

(* What is read back can be relied on (db/trace_reads.py): damage to the    *)
(* chain or to a report shows, and discovery says the same of the same      *)
(* traces.                                                                  *)
TracesAreFaithful == DamageShows /\ DiscoveryIsReproducible /\ ServedAsSigned

=============================================================================
