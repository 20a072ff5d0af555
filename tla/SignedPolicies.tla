--------------------------- MODULE SignedPolicies ---------------------------
(***************************************************************************)
(* Policy as signed data (security/signing.py, security/protected_modules, *)
(* tenancy/policy.py, tenancy/seed.py, tenancy/retention.py, and the       *)
(* admission records of plugins/privileged.py): documents are validated    *)
(* when they are made, signed over their canonical bytes, verified by      *)
(* whoever holds them, and obeyed: which modules are protected, which      *)
(* tiers a tenant promotes by itself, what a purge may never take.         *)
(*                                                                         *)
(* A signature is the key and the bytes it was made over; a digest is the  *)
(* bytes it addresses.  What travels may come back with fields of another. *)
(***************************************************************************)
EXTENDS Integers, Sequences, FiniteSets

CONSTANTS
  Signers,            (* keys in use *)
  TenantDrafts,       (* tenant documents somebody writes *)
  RootLists,          (* lists of roots somebody writes; a root is [name, ragged] *)
  RetentionDrafts,    (* retention documents somebody writes *)
  AdmissionRequests,  (* [digest, requester] *)
  ApprovalLists,      (* sequences of approvers, as they spell their names *)
  Spelled,            (* a name as spelled |-> the name, whatever its case *)
  Modules,            (* modules somebody asks about *)
  MaxPapers,          (* bound on the documents in circulation *)
  MaxAsks             (* bound on the promotions asked for *)

ASSUME PolicyAssumption ==
  /\ \A d \in TenantDrafts : d.kind = "tenant" /\ d.environment \in {"production", "research"} /\ d.auto \in Int
  /\ \A d \in RetentionDrafts : d.kind = "retention"
  /\ \A names \in ApprovalLists : names \in Seq(DOMAIN Spelled)

VARIABLES
  papers,             (* the signed documents in circulation *)
  tenantRules,        (* TenantPolicyRegistry: tenant |-> document *)
  grants,             (* history: promotions the defaults allowed *)
  tierRefusals        (* rows of the refusal ledger *)

policyVars == <<papers, tenantRules, grants, tierRefusals>>

PoliciesInit ==
  /\ papers = {} /\ tenantRules = <<>> /\ grants = {} /\ tierRefusals = {}

-----------------------------------------------------------------------------
(* security/signing.py                                                     *)
SignBytes(key, bytes) == [key |-> key, bytes |-> bytes]
Authentic(signature, key, bytes) == signature = SignBytes(key, bytes)

(* TenantPolicyDocument: the tiers are a set, whatever was written         *)
Highest(s) == CHOOSE x \in s : \A y \in s : y <= x
PolicyCoherent(d) ==
  /\ d.tiers # {} /\ d.tiers \subseteq 1..4
  /\ d.environment = "production" => 4 \notin d.tiers /\ ~d.recursive /\ d.auto < 4
  /\ 0 <= d.auto /\ d.auto <= Highest(d.tiers)
  /\ d.review => d.auto = 0

TenantDocument(tenant, environment, tiers, recursive, auto, review) ==
  [kind |-> "tenant", tenant |-> tenant, environment |-> environment, tiers |-> tiers,
   recursive |-> recursive, auto |-> auto, review |-> review]
ResearchSeed(tenant) == TenantDocument(tenant, "research", 1..4, TRUE, 2, FALSE)
ProductionSeed(tenant) == TenantDocument(tenant, "production", 1..3, FALSE, 2, FALSE)
RegulatedSeed(tenant) == TenantDocument(tenant, "production", 1..3, FALSE, 0, TRUE)

AutoUpTo(d, tier) == tier <= d.auto
AutoEligible(d, tier) == ~d.review /\ tier <= d.auto /\ tier \in d.tiers

(* ProtectedModulesDocument: roots are trimmed as the document is made; an *)
(* empty list, an empty root or a root named twice is refused              *)
TrimmedRoots(list) == [i \in DOMAIN list |-> list[i].name]
RootsSound(roots) ==
  /\ roots # <<>> /\ \A i \in DOMAIN roots : roots[i] # <<>>
  /\ \A i, j \in DOMAIN roots : roots[i] = roots[j] => i = j
UnderRoot(root, module) ==
  /\ Len(root) <= Len(module) /\ SubSeq(module, 1, Len(root)) = root
CoveringRoots(roots, module) == {i \in DOMAIN roots : UnderRoot(roots[i], module)}
ModulesDocument(list) == [kind |-> "modules", roots |-> TrimmedRoots(list)]

(* RetentionPolicyDocument                                                 *)
EvidenceRecords == {"attestations", "admissions", "ledger", "tombstones"}
RetentionSound(d) ==
  /\ d.payload >= 1 /\ d.derived >= 1 /\ d.backup >= 1
  /\ EvidenceRecords \subseteq d.forever
RetentionSeed ==
  [kind |-> "retention", payload |-> 30, follows |-> TRUE, derived |-> 24, backup |-> 30,
   forever |-> EvidenceRecords]
NoDeadline == 0
PayloadDays(d, referenced) == IF referenced /\ d.follows THEN NoDeadline ELSE d.payload

(* admit_privileged: two approvals, of two people, neither the requester;  *)
(* the digest it is pinned at is in the request                            *)
SpelledApart(approvers) == approvers[1] # approvers[2]
TwoNames(approvers) == Spelled[approvers[1]] # Spelled[approvers[2]]
AdmissionDue(request, approvers) ==
  /\ Len(approvers) = 2 /\ TwoNames(approvers)
  /\ \A i \in DOMAIN approvers : Spelled[approvers[i]] # Spelled[request.requester]
AdmissionOf(request, approvers) == [kind |-> "admission", request |-> request, approvers |-> approvers]

-----------------------------------------------------------------------------
(* Canonical bytes: the roots of a deny-list are sorted, every field of    *)
(* the others is named                                                     *)
BytesOf(d) ==
  IF d.kind = "modules" THEN [kind |-> "modules", roots |-> {d.roots[i] : i \in DOMAIN d.roots}] ELSE d

Enveloped(d, key) ==
  [document |-> d, digest |-> BytesOf(d), signature |-> SignBytes(key, BytesOf(d)), key |-> key]

(* verify: a retention document and an admission carry no digest           *)
DigestMatches(p) == p.document.kind \in {"retention", "admission"} \/ p.digest = BytesOf(p.document)
PaperVerifies(p) == DigestMatches(p) /\ Authentic(p.signature, p.key, BytesOf(p.document))

Circulate(p) == papers' = papers \cup {p} /\ UNCHANGED <<tenantRules, grants, tierRefusals>>

SignTenantPolicy(d, key) == PolicyCoherent(d) /\ Circulate(Enveloped(d, key))
SignProtectedModules(list, key) ==
  RootsSound(TrimmedRoots(list)) /\ Circulate(Enveloped(ModulesDocument(list), key))
SignRetentionPolicy(d, key) == RetentionSound(d) /\ Circulate(Enveloped(d, key))
AdmitPrivileged(request, approvers, role, key) ==
  role = "evaluator" /\ AdmissionDue(request, approvers) /\ Circulate(Enveloped(AdmissionOf(request, approvers), key))

(* TenantPolicyRegistry, of what a deployment loads and verified: two      *)
(* documents of a tenant are refused, and nothing changes                  *)
LoadRegistry(loaded) ==
  /\ \A p \in loaded : p.document.kind = "tenant" /\ PaperVerifies(p)
  /\ Cardinality({p.document.tenant : p \in loaded}) = Cardinality(loaded)
  /\ tenantRules' = [t \in {p.document.tenant : p \in loaded} |->
                       (CHOOSE p \in loaded : p.document.tenant = t).document]
  /\ UNCHANGED <<papers, grants, tierRefusals>>

(* assert_auto_promotion_allowed: a tenant without a document is held to   *)
(* the production defaults; a refusal is on the ledger before it is raised *)
RulesFor(tenant) == IF tenant \in DOMAIN tenantRules THEN tenantRules[tenant] ELSE ProductionSeed(tenant)
AskAutoPromotion(tenant, tier) ==
  /\ Cardinality(grants) + Cardinality(tierRefusals) < MaxAsks
  /\ LET ask == [rules |-> RulesFor(tenant), tier |-> tier] IN
     IF AutoEligible(RulesFor(tenant), tier)
     THEN grants' = grants \cup {ask} /\ UNCHANGED tierRefusals
     ELSE tierRefusals' = tierRefusals \cup {ask} /\ UNCHANGED grants
  /\ UNCHANGED <<papers, tenantRules>>

Tenants == {d.tenant : d \in TenantDrafts}
Seeds == UNION {{ResearchSeed(t), ProductionSeed(t), RegulatedSeed(t)} : t \in Tenants}

PoliciesNext ==
  \/ /\ Cardinality(papers) < MaxPapers
     /\ \E key \in Signers :
          \/ \E d \in TenantDrafts \cup Seeds : SignTenantPolicy(d, key)
          \/ \E list \in RootLists : SignProtectedModules(list, key)
          \/ \E d \in RetentionDrafts \cup {RetentionSeed} : SignRetentionPolicy(d, key)
          \/ \E request \in AdmissionRequests, approvers \in ApprovalLists, role \in {"evaluator", "candidate"} :
               AdmitPrivileged(request, approvers, role, key)
  \/ \E loaded \in SUBSET {p \in papers : p.document.kind = "tenant"} : LoadRegistry(loaded)
  \/ \E tenant \in Tenants, tier \in 1..4 : AskAutoPromotion(tenant, tier)

-----------------------------------------------------------------------------
PoliciesTypes ==
  /\ \A p \in papers : p.key \in Signers /\ p.document.kind \in {"tenant", "modules", "retention", "admission"}
  /\ DOMAIN tenantRules \subseteq Tenants
  /\ \A g \in grants \cup tierRefusals : g.tier \in 1..4

(* What may come back of what was sent: each field of one of the papers    *)
Returned ==
  {[document |-> p.document, digest |-> q.digest, signature |-> r.signature, key |-> s.key] :
     p \in papers, q \in papers, r \in papers, s \in papers}
Enforceable == {p \in Returned : PaperVerifies(p)}

(* "bytes nobody vouches for are not a deny-list" (protected_modules.py),  *)
(* and the like of the others: whatever fields are exchanged on the way,   *)
(* what verifies was signed as it is by the holder of the key it carries;  *)
(* a deny-list that verifies, in any order of its roots, protects the same *)
(* modules as the one that was signed; an admission that verifies names    *)
(* two people and neither is the requester.                                *)
RulesAreSigned ==
  \A p \in Enforceable :
    /\ \E q \in papers : q.key = p.key /\ BytesOf(q.document) = BytesOf(p.document)
    /\ p.document.kind = "modules" =>
         \E q \in papers :
           /\ q.key = p.key /\ q.document.kind = "modules"
           /\ \A m \in Modules : (CoveringRoots(p.document.roots, m) # {}) <=> (CoveringRoots(q.document.roots, m) # {})
    /\ p.document.kind = "admission" =>
         LET people == <<p.document.request.requester, p.document.approvers[1], p.document.approvers[2]>> IN
         \A i, j \in 1..3 : Spelled[people[i]] = Spelled[people[j]] => i = j
    /\ p.document.kind = "retention" =>
         PayloadDays(p.document, FALSE) # NoDeadline /\ "tombstones" \in p.document.forever

(* The approval defaults (tenancy/policy.py, tenancy/audit.py): no tenant  *)
(* outside research promotes a tier of the highest risk by itself, one     *)
(* that reviews everything promotes nothing, one nobody signed a document  *)
(* for no tier above 2.                                                    *)
DefaultsHold ==
  /\ \A g \in grants :
       /\ g.rules.environment # "research" => g.tier < 4
       /\ g.tier \in g.rules.tiers /\ ~g.rules.review
       /\ (\A p \in papers : p.document # g.rules) => g.tier <= 2

PoliciesAreKept == RulesAreSigned /\ DefaultsHold

=============================================================================
