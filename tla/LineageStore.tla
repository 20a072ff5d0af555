---------------------------- MODULE LineageStore ----------------------------
(***************************************************************************)
(* What the lineage service keeps (lineage/): the provenance graph, and    *)
(* payloads from their storage to the end of their last copy.  The two     *)
(* share no step.                                                          *)
(***************************************************************************)
EXTENDS Integers, Sequences, FiniteSets

-----------------------------------------------------------------------------
(* The graph (service.py): nodes and edges of several tenants in two       *)
(* append-only tables, and the recursive query that resolves the ancestors *)
(* or the descendants of a node up to a depth.  Nothing refuses an edge    *)
(* that closes a cycle; the query has to end.                              *)
CONSTANTS
  Owners,               (* tenants *)
  MaxDepth,             (* max_depth of a query, 50 in the code *)
  MaxNodes, MaxEdges    (* bounds of the model *)

ASSUME DepthAssumption == MaxDepth \in Nat

VARIABLES
  nodes,   (* lineage_nodes: the tenant of each *)
  edges    (* lineage_edges: [tenant, source, target] *)

graphVars == <<nodes, edges>>

GraphInit == nodes = <<>> /\ edges = {}

NodesOf(tenant) == {n \in DOMAIN nodes : nodes[n] = tenant}

(* append_node *)
AppendNode(tenant) ==
  /\ Len(nodes) < MaxNodes
  /\ nodes' = Append(nodes, tenant)
  /\ UNCHANGED edges

(* append_edge: both ends are the tenant's; the table refuses self-loops *)
EndsBelongAtSource(tenant, source, target) == source \in NodesOf(tenant) /\ source # target
EndsBelong(tenant, source, target) == {source, target} \subseteq NodesOf(tenant) /\ source # target
AppendEdge(tenant, source, target) ==
  /\ Cardinality(edges) < MaxEdges
  /\ EndsBelong(tenant, source, target)
  /\ edges' = edges \cup {[tenant |-> tenant, source |-> source, target |-> target]}
  /\ UNCHANGED nodes

GraphNext ==
  \E tenant \in Owners : AppendNode(tenant) \/ \E s, t \in DOMAIN nodes : AppendEdge(tenant, s, t)

-----------------------------------------------------------------------------
(* One row of the recursive query joined with the edges: a row is a node   *)
(* with the path that led to it                                            *)
Joined(tenant, upstream, row) ==
  {[node |-> IF upstream THEN e.source ELSE e.target,
    visited |-> row.visited \cup {IF upstream THEN e.source ELSE e.target}] :
     e \in {e \in edges : /\ e.tenant = tenant
                          /\ row.node = IF upstream THEN e.target ELSE e.source
                          /\ (IF upstream THEN e.source ELSE e.target) \notin row.visited}}

(* _TRAVERSAL_SQL: the rows of each depth, from those of the depth before *)
Traverse(tenant, upstream, n) ==
  LET rowsAt[d \in 0..MaxDepth] ==
        IF d = 0 THEN {[node |-> n, visited |-> {n}]}
        ELSE UNION {Joined(tenant, upstream, row) : row \in rowsAt[d - 1]}
  IN  {row.node : row \in UNION {rowsAt[d] : d \in 0..MaxDepth}} \ {n}

ResolveUpstream(tenant, n) == Traverse(tenant, TRUE, n)
ResolveDownstream(tenant, n) == Traverse(tenant, FALSE, n)

-----------------------------------------------------------------------------
GraphTypes ==
  /\ nodes \in Seq(Owners)
  /\ edges \subseteq [tenant : Owners, source : DOMAIN nodes, target : DOMAIN nodes]

(* The nodes from which n is reached by at most d edges *)
Within(n, d) ==
  LET back[k \in 0..d] ==
        IF k = 0 THEN {n} ELSE back[k - 1] \cup {e.source : e \in {e \in edges : e.target \in back[k - 1]}}
  IN  back[d]

(* resolve_upstream returns every ancestor at most max_depth hops away,    *)
(* and nothing else, whatever cycles the graph has; resolve_downstream is  *)
(* its converse; and neither ever names a node of another tenant, though   *)
(* the query compares the tenant of edges only.                            *)
AncestryIsExact ==
  \A n \in DOMAIN nodes :
    /\ ResolveUpstream(nodes[n], n) = Within(n, MaxDepth) \ {n}
    /\ ResolveUpstream(nodes[n], n) \subseteq NodesOf(nodes[n])
    /\ \A a \in DOMAIN nodes :
         a \in ResolveUpstream(nodes[n], n) <=> n \in ResolveDownstream(nodes[n], a)

-----------------------------------------------------------------------------
(* One payload (payload_store.py, deletion.py, purge.py, backup.py):       *)
(* deletion requests, the two sweeps with their deadlines, a copy in one   *)
(* tier with its own, and storage of the same bytes again.  Time is        *)
(* counted in ticks.  Storing, backing up, scheduling and sweeping are     *)
(* calls of the deployment, in any order.                                  *)
CONSTANTS
  AccessSla,            (* ticks from a request to the access sweep that serves it *)
  DerivedSetting,       (* LineageSettings.derived_purge_sla_seconds *)
  PrimaryDays,          (* the window of the primary tier *)
  BackupWindows,        (* those of the backup tier: BackupAgeOutPolicy has 35 days, *)
                        (* backup_age_out_policy 30 *)
  MaxTime, MaxRequested (* bounds of the model *)

ASSUME DeletionAssumption ==
  {AccessSla, DerivedSetting, PrimaryDays} \cup BackupWindows \subseteq Nat

VARIABLES
  now,
  kept,         (* the payload row: when it was stored, or Never *)
  requestsMade, (* tombstones: [at, revoked, purged], in request order *)
  recorded,     (* derived data: when the latest was recorded, or Never *)
  place,        (* the tier of the copy that is followed *)
  copy,         (* [held, due, marked]: age_out_at, and when it was set *)
  swept         (* history: when the age-out sweep of the tier last ran *)

deletionVars == <<now, kept, requestsMade, recorded, place, copy, swept>>

Never == 0
Tiers == {"primary", "backup"}
NoCopy == [held |-> FALSE, due |-> Never, marked |-> Never]

DeletionInit ==
  /\ now = 1 /\ kept = Never /\ requestsMade = <<>> /\ recorded = Never
  /\ copy = NoCopy /\ swept = Never /\ place \in Tiers

Tick ==
  /\ now < MaxTime
  /\ now' = now + 1
  /\ UNCHANGED <<kept, requestsMade, recorded, place, copy, swept>>

-----------------------------------------------------------------------------
(* The payload                                                             *)

(* PayloadStore.store: a row that is there is kept *)
StorePayload ==
  /\ kept = Never
  /\ kept' = now
  /\ UNCHANGED <<now, requestsMade, recorded, place, copy, swept>>

RecordDerived ==
  /\ recorded' = now
  /\ UNCHANGED <<now, kept, requestsMade, place, copy, swept>>

(* request_deletion: as often as it is asked for *)
AskForDeletion ==
  /\ Len(requestsMade) < MaxRequested
  /\ requestsMade' = Append(requestsMade, [at |-> now, revoked |-> Never, purged |-> Never])
  /\ UNCHANGED <<now, kept, recorded, place, copy, swept>>

Tombstoned == requestsMade # <<>>

(* run_access_revocation_sweep *)
Overdue == {i \in DOMAIN requestsMade : requestsMade[i].revoked = Never /\ requestsMade[i].at + AccessSla <= now}
SweepAccess ==
  /\ Overdue # {}
  /\ kept' = Never
  /\ requestsMade' = [i \in DOMAIN requestsMade |->
                        IF i \in Overdue THEN [requestsMade[i] EXCEPT !.revoked = now] ELSE requestsMade[i]]
  /\ UNCHANGED <<now, recorded, place, copy, swept>>

(* run_derived_purge_sweep: counted from the revocation *)
PurgeableAtOnce ==
  {i \in DOMAIN requestsMade : requestsMade[i].purged = Never /\ requestsMade[i].at + DerivedSetting <= now}
Purgeable ==
  {i \in DOMAIN requestsMade : /\ requestsMade[i].revoked # Never /\ requestsMade[i].purged = Never
                               /\ requestsMade[i].revoked + DerivedSetting <= now}
SweepDerived ==
  /\ Purgeable # {}
  /\ recorded' = Never
  /\ requestsMade' = [i \in DOMAIN requestsMade |->
                        IF i \in Purgeable THEN [requestsMade[i] EXCEPT !.purged = now] ELSE requestsMade[i]]
  /\ UNCHANGED <<now, kept, place, copy, swept>>

-----------------------------------------------------------------------------
(* Its copies                                                              *)

(* put: a new copy takes the place of the old one, deadline and all *)
BackUp ==
  /\ kept # Never
  /\ copy' = [NoCopy EXCEPT !.held = TRUE]
  /\ UNCHANGED <<now, kept, requestsMade, recorded, place, swept>>

(* deadline_for: counted from the deletion request *)
Deadline(at, window) == at + (IF place = "primary" THEN PrimaryDays ELSE window)

(* schedule_age_out, for a tombstone; refused without a copy *)
ScheduleAgeOut ==
  /\ copy.held
  /\ \E i \in DOMAIN requestsMade, window \in BackupWindows :
       copy' = [copy EXCEPT !.due = Deadline(requestsMade[i].at, window), !.marked = now]
  /\ UNCHANGED <<now, kept, requestsMade, recorded, place, swept>>

(* run_age_out_sweep: copies without a deadline are never touched *)
PastDue == copy.due # Never /\ copy.due <= now
SweepAgeOut ==
  /\ swept # now \/ PastDue
  /\ copy' = IF PastDue THEN NoCopy ELSE copy
  /\ swept' = now
  /\ UNCHANGED <<now, kept, requestsMade, recorded, place>>

(* restore, and the bytes are stored again: refused while there is a       *)
(* tombstone, whatever has become of the payload since                     *)
Restore ==
  /\ ~Tombstoned /\ copy.held
  /\ kept = Never
  /\ kept' = now
  /\ UNCHANGED <<now, requestsMade, recorded, place, copy, swept>>

(* audit_tombstone_coverage *)
Audited == copy.held /\ Tombstoned /\ copy.due = Never

DeletionNext ==
  \/ Tick \/ StorePayload \/ RecordDerived \/ AskForDeletion \/ SweepAccess \/ SweepDerived
  \/ BackUp \/ ScheduleAgeOut \/ SweepAgeOut \/ Restore

-----------------------------------------------------------------------------
DeletionTypes ==
  /\ {now, kept, recorded} \subseteq Nat
  /\ requestsMade \in Seq([at : Nat, revoked : Nat, purged : Nat])
  /\ copy \in [held : BOOLEAN, due : Nat, marked : Nat] /\ swept \in Nat /\ place \in Tiers

(* A deleted payload cannot resurface from any tier (lineage/backup.py):   *)
(* what is there after access was revoked was stored again since; a copy   *)
(* of a tombstoned payload is either on the audit's list or due within its *)
(* window of a request, and no copy outlives a sweep past its deadline;    *)
(* while nothing was deleted, no copy is due.                              *)
CopiesAreCovered ==
  /\ \A i \in DOMAIN requestsMade :
       requestsMade[i].revoked # Never => (kept = Never \/ kept >= requestsMade[i].revoked)
  /\ copy.held =>
       \/ ~Tombstoned /\ copy.due = Never
       \/ Audited
       \/ /\ swept < copy.due \/ swept <= copy.marked
          /\ \E i \in DOMAIN requestsMade, window \in BackupWindows :
               copy.due = Deadline(requestsMade[i].at, window)

(* Each deadline is kept from the event that starts it: access ends one    *)
(* service level after the request, derived data one after that, and what  *)
(* is on record after a purge was recorded since.                          *)
DeadlinesFollow ==
  \A i \in DOMAIN requestsMade :
    LET r == requestsMade[i] IN
    /\ r.revoked # Never => r.revoked >= r.at + AccessSla
    /\ r.purged # Never => r.revoked # Never /\ r.purged >= r.revoked + DerivedSetting
    /\ r.purged # Never => recorded = Never \/ recorded >= r.purged

=============================================================================
