---------------------------- MODULE ArtifactRegistry ----------------------------
(***************************************************************************)
(* The artifact registry (registry/service.py, registry/canonical.py,      *)
(* lineage/payload_store.py) under the requests that write to it           *)
(* (api/service.py, memory/service.py): artifacts under the digest of what *)
(* they are, their bytes in a store that shares equal bodies and loses     *)
(* those whose deletion was asked for, the rows that refer to them, and    *)
(* release manifests.                                                      *)
(*                                                                         *)
(* A registration is one transaction that looks and then inserts; another  *)
(* one, or a deletion, may commit in between, and then the unique keys     *)
(* decide.  Every table is append-only, so what the other requests look up *)
(* stays true until they commit: each of them is one step.                 *)
(***************************************************************************)
EXTENDS Integers, Sequences, FiniteSets

CONSTANTS
  Design,          (* what may be registered: name -> [type, body, deps, clean]; deps *)
                   (* is a sequence of digests, clean the verdict of the gates        *)
  Registrations,   (* what callers ask for: [for, claim, parent] *)
  Clients,         (* threads that serve registrations *)
  ReleaseSets,     (* the sets of artifacts that releases are asked for *)
  MaxManifests,    (* bounds of the model: manifests; and the rows that refer, *)
  MaxAsides        (* the releases refused and the losses, together            *)

VARIABLES
  rows,            (* artifact_content: digest -> [type, body, deps, uri] *)
  bodies,          (* payloads: the bodies in the store *)
  deleted,         (* bodies whose access was revoked on request *)
  misplaced,       (* history: artifacts whose storage_uri was changed behind the service *)
  references,      (* rows that name an artifact: proposals, their members, evidence, events *)
  manifests,       (* release_manifests, each with its activation *)
  refused,         (* the releases refused, for the environment or as circular *)
  client,          (* the registration each thread is at *)
  registered       (* history: what callers sent and were told is registered *)

registryVars == <<rows, bodies, deleted, misplaced, references, manifests, refused, client, registered>>

Names == DOMAIN Design
Bodies == {Design[n].body : n \in Names}
Nothing == "nothing"
NotFound == "not found"

ASSUME RegistryAssumption ==
  /\ IsFiniteSet(Names)
  /\ \A n \in Names : Design[n].deps \in Seq(Names)
  /\ \A r \in Registrations : r.for \in Names

(* artifact_digest_for: what the digest covers, and what bears it *)
DigestedWithoutDeps(r) == <<r.type, r.body>>
Digested(r) == <<r.type, r.body, r.deps>>
Digest(n) == CHOOSE e \in Names : Digested(Design[e]) = Digested(Design[n])
Elements(s) == {s[i] : i \in DOMAIN s}

NotRegistering == [for |-> Nothing, parent |-> Nothing, kept |-> FALSE]

RegistryInit ==
  /\ rows = [n \in {} |-> Nothing] /\ bodies = {} /\ deleted = {} /\ misplaced = {}
  /\ references = {} /\ manifests = {} /\ refused = {} /\ registered = {}
  /\ client = [c \in Clients |-> NotRegistering]

Artifacts == DOMAIN rows
RoomForAsides ==
  Cardinality(references) + Cardinality(deleted) + Cardinality(misplaced) + Cardinality(refused)
    < MaxAsides

-----------------------------------------------------------------------------
(* Registration                                                            *)

(* the claimed digest must be the computed one, and never a dependency *)
ClaimHolds(n, claim) ==
  claim # Nothing => claim \notin Elements(Design[n].deps) /\ claim = Digest(n)

(* the gates of an executable candidate, before anything is registered *)
Admissible(n) == Design[n].type = "algorithm" => Design[n].clean

(* record_proposal, in the same transaction *)
ProposalHolds(request) ==
  request.parent # Nothing => request.parent # Digest(request.for) /\ request.parent \in Artifacts
Proposal(request) == IF request.parent = Nothing THEN {} ELSE {{Digest(request.for), request.parent}}

(* register_candidate passes a parent, and neither dependencies nor a claim *)
Acceptable(request) ==
  /\ ClaimHolds(request.for, request.claim)
  /\ request.parent # Nothing =>
       Admissible(request.for) /\ Design[request.for].deps = <<>> /\ request.claim = Nothing /\ RoomForAsides

(* register_artifact returns an artifact that is there, whatever became of *)
(* its bytes                                                               *)
ReturnExisting(request) ==
  /\ Acceptable(request) /\ ProposalHolds(request)
  /\ Digest(request.for) \in Artifacts
  /\ references' = references \cup Proposal(request)
  /\ registered' = registered \cup {request.for}
  /\ UNCHANGED <<rows, bodies, deleted, misplaced, manifests, refused, client>>

(* a new one, up to the inserts: its dependencies must be there; its body  *)
(* may be                                                                  *)
LookUp(c, request) ==
  /\ client[c] = NotRegistering
  /\ Acceptable(request)
  /\ Digest(request.for) \notin Artifacts /\ Elements(Design[request.for].deps) \subseteq Artifacts
  /\ client' = [client EXCEPT ![c] =
       [for |-> request.for, parent |-> request.parent, kept |-> Design[request.for].body \in bodies]]
  /\ UNCHANGED <<rows, bodies, deleted, misplaced, references, manifests, refused, registered>>

(* the unique keys of artifact_content and of payloads *)
Unique(r) == Digest(r.for) \notin Artifacts /\ (r.kept \/ Design[r.for].body \notin bodies)

(* the inserts and the commit *)
Register(c) ==
  LET r == client[c]  d == Digest(r.for)  content == Design[r.for] IN
  /\ r # NotRegistering
  /\ Unique(r) /\ ProposalHolds(r)
  /\ rows' = [e \in Artifacts \cup {d} |->
       IF e = d THEN [type |-> content.type, body |-> content.body, deps |-> content.deps, uri |-> content.body]
       ELSE rows[e]]
  /\ bodies' = IF r.kept THEN bodies ELSE bodies \cup {content.body}
  /\ references' = references \cup Proposal(r)
  /\ registered' = registered \cup {r.for}
  /\ client' = [client EXCEPT ![c] = NotRegistering]
  /\ UNCHANGED <<deleted, misplaced, manifests, refused>>

(* any error: the whole request is rolled back, the artifact with it *)
Fail(c) ==
  /\ client[c] # NotRegistering
  /\ ~(Unique(client[c]) /\ ProposalHolds(client[c]))
  /\ client' = [client EXCEPT ![c] = NotRegistering]
  /\ UNCHANGED <<rows, bodies, deleted, misplaced, references, manifests, refused, registered>>

-----------------------------------------------------------------------------
(* What refers to an artifact                                              *)

(* record_composite_proposal: the members, each with its own parent, in    *)
(* one transaction                                                         *)
Member(d, parent) == [digest |-> d, parent |-> parent]
Named(m) == {m.digest, m.parent} \ {Nothing}

RecordComposite(proposed, members) ==
  /\ RoomForAsides
  /\ members # {} /\ \A m \in members : m.digest # proposed /\ m.parent # m.digest
  /\ {proposed} \cup UNION {Named(m) : m \in members} \subseteq Artifacts
  /\ references' = references \cup {{proposed}} \cup {Named(m) : m \in members}
  /\ UNCHANGED <<rows, bodies, deleted, misplaced, manifests, refused, client, registered>>

(* _require_artifact, then a row about it *)
RecordAbout(d) ==
  /\ RoomForAsides
  /\ d \in Artifacts
  /\ references' = references \cup {{d}}
  /\ UNCHANGED <<rows, bodies, deleted, misplaced, manifests, refused, client, registered>>

StatusEventKinds == {"nominate", "reject", "revoke", "expire", "quarantine", "supersede"}
RecordEvidence(d) == RecordAbout(d)
RecordAttestation(d, role) == role = "evaluator" /\ RecordAbout(d)
AppendStatusEvent(d, eventKind) == eventKind \in StatusEventKinds /\ RecordAbout(d)

-----------------------------------------------------------------------------
(* Bytes                                                                   *)

(* a deletion is requested and its access sweep runs *)
DeleteBody(b) ==
  /\ RoomForAsides
  /\ bodies' = bodies \ {b} /\ deleted' = deleted \cup {b}
  /\ UNCHANGED <<rows, misplaced, references, manifests, refused, client,
                 registered>>

MisplaceBody(d, b) ==
  /\ RoomForAsides /\ b # rows[d].uri
  /\ rows' = [rows EXCEPT ![d].uri = b] /\ misplaced' = misplaced \cup {d}
  /\ UNCHANGED <<bodies, deleted, references, manifests, refused, client,
                 registered>>

(* PayloadStore.read, then both digests again *)
ReadArtifact(d) ==
  LET r == rows[d] IN
  IF r.uri \notin bodies THEN IF r.uri \in deleted THEN "revoked" ELSE NotFound
  ELSE IF r.uri # r.body \/ Digested(r) # Digested(Design[d]) THEN "mismatch"
  ELSE r.uri

-----------------------------------------------------------------------------
(* Releases                                                                *)

(* _assert_acyclic: a walk from one root that stops at an artifact it has *)
(* already been to; each pop adds an artifact, or stops                   *)
MeetsAgain(root) ==
  LET walk[n \in Nat] ==
        IF n = 0 THEN [seen |-> {}, stack |-> <<root>>, again |-> FALSE]
        ELSE LET w == walk[n - 1]  top == w.stack[Len(w.stack)] IN
             IF w.stack = <<>> \/ w.again THEN w
             ELSE [seen |-> w.seen \cup {top}, again |-> top \in w.seen,
                   stack |-> SubSeq(w.stack, 1, Len(w.stack) - 1) \o rows[top].deps]
  IN  walk[Cardinality(Names) + 1].again

(* _refuse_scaffold_release, under a policy document by which the tenant   *)
(* is not a research one: the refusal is committed, then the error raised  *)
RefuseScaffoldRelease(arts) ==
  /\ RoomForAsides
  /\ \E d \in arts \cap Artifacts : rows[d].type = "scaffold"
  /\ refused' = refused \cup {[arts |-> arts, why |-> "environment"]}
  /\ UNCHANGED <<rows, bodies, deleted, misplaced, references, manifests, client, registered>>

(* a manifest's digest is unique, and covers the prior release *)
Manifest(arts, prior) == [arts |-> arts, prior |-> prior]
PriorReleases == {{}} \cup {m.arts : m \in manifests}

(* activate_release, of all that the manifest names: it was signed, and    *)
(* its artifacts found, in the same transaction                            *)
Activates(arts) == \A d \in arts : ~MeetsAgain(d)

(* create_release: the manifest and its activation, or neither *)
CreateRelease(arts, prior, research) ==
  /\ Cardinality(manifests) < MaxManifests /\ RoomForAsides
  /\ arts \subseteq Artifacts /\ Manifest(arts, prior) \notin manifests
  /\ research \/ \A d \in arts : rows[d].type # "scaffold"
  /\ IF Activates(arts)
     THEN manifests' = manifests \cup {Manifest(arts, prior)} /\ UNCHANGED refused
     ELSE refused' = refused \cup {[arts |-> arts, why |-> "circular"]} /\ UNCHANGED manifests
  /\ UNCHANGED <<rows, bodies, deleted, misplaced, references, client, registered>>

RegistryNext ==
  \/ \E request \in Registrations : ReturnExisting(request) \/ \E c \in Clients : LookUp(c, request)
  \/ \E c \in Clients : Register(c) \/ Fail(c)
  \/ \E d, m \in Artifacts, p \in Artifacts \cup {Nothing} : RecordComposite(d, {Member(m, p)})
  \/ \E d \in Artifacts : \/ RecordEvidence(d)
                         \/ \E role \in {"evaluator", "candidate_runner"} : RecordAttestation(d, role)
                         \/ \E eventKind \in {"nominate", "promote"} : AppendStatusEvent(d, eventKind)
                         \/ \E b \in bodies : MisplaceBody(d, b)
  \/ \E b \in bodies : DeleteBody(b)
  \/ \E arts \in ReleaseSets :
       \/ RefuseScaffoldRelease(arts)
       \/ \E prior \in PriorReleases, research \in BOOLEAN : CreateRelease(arts, prior, research)

-----------------------------------------------------------------------------
RegistryTypes ==
  /\ Artifacts \subseteq Names /\ bodies \subseteq Bodies /\ deleted \subseteq Bodies /\ misplaced \subseteq Artifacts
  /\ \A d \in Artifacts : rows[d].body \in Bodies /\ rows[d].uri \in Bodies
  /\ registered \subseteq Names
  /\ \A c \in Clients : client[c].for \in Names \cup {Nothing}

(* What an artifact depends on, through any number of others *)
Reached(d) ==
  LET from[n \in Nat] == IF n = 0 THEN Elements(rows[d].deps)
                         ELSE from[n - 1] \cup UNION {Elements(rows[e].deps) : e \in from[n - 1]}
  IN  from[Cardinality(Names)]

(* A caller who was told that something is registered finds exactly that   *)
(* under the digest it was given, or learns that its bytes were deleted on *)
(* request, whoever else registered or deleted the same bytes meanwhile;   *)
(* bytes that are not the artifact's are never returned.                   *)
FoundAsRegistered ==
  /\ \A n \in registered :
       LET d == Digest(n) IN
       /\ d \in Artifacts
       /\ rows[d].body = Design[n].body /\ rows[d].deps = Design[n].deps
       /\ d \notin misplaced => ReadArtifact(d) \in {Design[n].body, "revoked"}
  /\ \A d \in misplaced : ReadArtifact(d) \in {Design[d].body, "revoked", NotFound, "mismatch"}

(* Nothing in the registry points nowhere: dependencies, lineage and       *)
(* releases resolve, however far they are followed.                        *)
PointsSomewhere ==
  /\ \A d \in Artifacts : Reached(d) \subseteq Artifacts
  /\ UNION references \subseteq Artifacts
  /\ \A m \in manifests :
       /\ UNION {Reached(d) : d \in m.arts} \subseteq Artifacts
       /\ m.prior = {} \/ m.prior \in {x.arts : x \in manifests}

(* The registry cannot hold a cycle - a dependency is registered first and *)
(* the digest covers it - so what a release is refused for as "circular"   *)
(* (registry/service.py, _assert_acyclic) is a dependency met along two    *)
(* ways, and a release that was created has none.                          *)
CircularIsShared ==
  /\ \A d \in Artifacts : d \notin Reached(d)
  /\ \A r \in refused : r.why = "circular" => \E d \in r.arts : \E e, f \in {d} \cup Reached(d) :
       \E i \in DOMAIN rows[e].deps, j \in DOMAIN rows[f].deps :
         <<e, i>> # <<f, j>> /\ rows[e].deps[i] = rows[f].deps[j]
  /\ \A m \in manifests : \A d \in m.arts : ~MeetsAgain(d)

RegistrySound == FoundAsRegistered /\ PointsSomewhere /\ CircularIsShared

=============================================================================
