--------------------------- MODULE Services_proofs ---------------------------
(***************************************************************************)
(* Proofs about the services that MCSubsystems checks side by side, for    *)
(* every value of their constants: graduation, signed policies, governed   *)
(* memory, sealed holdouts, attested outcomes, the fleet and its           *)
(* convergence, deletion, the execution worker, the recursive claim, the   *)
(* plugin transport, selection, the release pointer and rollbacks.         *)
(* Each has a specification of its own here, its Init and its Next; none   *)
(* has fairness.                                                           *)
(***************************************************************************)
EXTENDS SignedPolicies, OutcomeAttestations, MemoryPlane, HoldoutHandles, LineageStore, FleetConvergence,
        ScaffoldRollback, Selection, PointerSwap, ExecutionWorker, RecursiveClaim, PluginTransport,
        Records_proofs, FiniteSetTheorems, SequenceTheorems, WellFoundedInduction, TLAPS

GraduationSpec == GraduationInit /\ [][GraduationNext]_graduationVars

-----------------------------------------------------------------------------
(* Graduation.  Whatever it is made of, a dossier warrants a tier.         *)
LEMMA TierIsOneOfFour ==
  ASSUME NEW d
  PROVE  AuthorityTier(d) \in 1..4
<1>1. \A c : TierOf(c) \in 1..4
  BY DEF TierOf, ClassTier
<1> DEFINE release == DossierRelease(d)
<1>2. release.classes = {d.artifact}
  BY DEF DossierRelease
<1>3. \E t \in 1..4 : /\ \E c \in release.classes : TierOf(c) = t
                      /\ \A c \in release.classes : TierOf(c) <= t
  BY <1>1, <1>2
<1>4. ResolveTier(release) \in 1..4
  BY <1>3 DEF ResolveTier
<1> QED BY <1>4 DEF AuthorityTier

(* "graduation demands risk comparable to production, not more"            *)
(* (graduation.py): no class that ever graduates has more authority than   *)
(* what production began with, however long the chain of precedents.       *)
THEOREM GraduationCorrect == GraduationSpec => []RiskNeverClimbs
<1>1. GraduationInit => RiskNeverClimbs
  BY TierIsOneOfFour DEF GraduationInit, RiskNeverClimbs
<1>2. RiskNeverClimbs /\ [GraduationNext]_graduationVars => RiskNeverClimbs'
  <2> SUFFICES ASSUME RiskNeverClimbs, [GraduationNext]_graduationVars
               PROVE  RiskNeverClimbs'
    OBVIOUS
  <2>1. CASE UNCHANGED graduationVars
    BY <2>1 DEF RiskNeverClimbs, graduationVars
  <2>2. ASSUME NEW d \in Dossiers, Graduate(d)
        PROVE  RiskNeverClimbs'
    <3>1. precedent' = precedent
      BY <2>2 DEF Graduate
    <3>2. PICK shown \in Showings :
            \/ Granted(d, shown) /\ production' = production \cup {d}
            \/ production' = production
      BY <2>2 DEF Graduate
    <3>3. CASE Granted(d, shown) /\ production' = production \cup {d}
      <4>1. Comparable(d)
        BY <3>3 DEF Granted, Questions, Question
      <4>2. PICK p \in production : AuthorityTier(d) <= AuthorityTier(p)
        BY <4>1 DEF Comparable
      <4>3. PICK q \in precedent : AuthorityTier(p) <= AuthorityTier(q)
        BY <4>2 DEF RiskNeverClimbs
      <4>4. AuthorityTier(d) <= AuthorityTier(q)
        <5>1. /\ AuthorityTier(d) \in 1..4
              /\ AuthorityTier(p) \in 1..4
              /\ AuthorityTier(q) \in 1..4
          BY TierIsOneOfFour
        <5> QED BY <4>2, <4>3, <5>1
      <4> QED BY <3>1, <3>3, <4>3, <4>4 DEF RiskNeverClimbs
    <3>4. CASE production' = production
      BY <3>1, <3>4 DEF RiskNeverClimbs
    <3> QED BY <3>2, <3>3, <3>4
  <2> QED BY <2>1, <2>2 DEF GraduationNext
<1> QED BY <1>1, <1>2, PTL DEF GraduationSpec

-----------------------------------------------------------------------------
(* Signed policies.  What is in circulation is an envelope over a document *)
(* that its kind's rules accept.                                           *)
PoliciesSpec == PoliciesInit /\ [][PoliciesNext]_policyVars

AcceptablePaper(d) ==
  /\ d.kind = "tenant" => /\ d.auto \in Int /\ d.environment \in {"production", "research"}
                          /\ PolicyCoherent(d)
  /\ d.kind = "retention" => RetentionSound(d)
  /\ d.kind = "admission" => /\ AdmissionDue(d.request, d.approvers)
                             /\ d.approvers \in Seq(DOMAIN Spelled)
PapersAsMade == \A p \in papers : p = Enveloped(p.document, p.key) /\ AcceptablePaper(p.document)
RulesFromPapers ==
  \A t \in DOMAIN tenantRules :
    \E p \in papers : p.document = tenantRules[t] /\ p.document.kind = "tenant"
PoliciesInv == PapersAsMade /\ RulesFromPapers /\ DefaultsHold

(* the fields of an envelope *)
LEMMA EnvelopeFields ==
  ASSUME NEW d, NEW key
  PROVE  /\ Enveloped(d, key).document = d /\ Enveloped(d, key).key = key
         /\ Enveloped(d, key).digest = BytesOf(d)
         /\ Enveloped(d, key).signature = SignBytes(key, BytesOf(d))
BY DEF Enveloped

(* a signature names its key and its bytes *)
LEMMA SignatureTells ==
  ASSUME NEW key, NEW bytes
  PROVE  SignBytes(key, bytes).key = key /\ SignBytes(key, bytes).bytes = bytes
BY DEF SignBytes

(* a paper put into circulation keeps the invariant *)
LEMMA CirculationKeeps ==
  ASSUME PoliciesInv, NEW d, NEW key, AcceptablePaper(d), Circulate(Enveloped(d, key))
  PROVE  PoliciesInv'
<1>1. papers' = papers \cup {Enveloped(d, key)} /\ UNCHANGED <<tenantRules, grants>>
  BY DEF Circulate
<1>2. PapersAsMade'
  <2> SUFFICES ASSUME NEW p \in papers'
               PROVE  p = Enveloped(p.document, p.key) /\ AcceptablePaper(p.document)
    BY DEF PapersAsMade
  <2>1. CASE p \in papers
    BY <2>1 DEF PoliciesInv, PapersAsMade
  <2>2. CASE p = Enveloped(d, key)
    <3>1. p.document = d /\ p.key = key
      BY <2>2, EnvelopeFields
    <3> QED BY <2>2, <3>1
  <2> QED BY <1>1, <2>1, <2>2
<1>3. RulesFromPapers'
  BY <1>1 DEF PoliciesInv, RulesFromPapers
<1>4. DefaultsHold'
  BY <1>1 DEF PoliciesInv, DefaultsHold
<1> QED BY <1>2, <1>3, <1>4 DEF PoliciesInv

(* the shipped defaults are documents like any other *)
LEMMA SeedsAcceptable ==
  ASSUME NEW d \in Seeds
  PROVE  d.kind = "tenant" /\ d.environment \in {"production", "research"} /\ d.auto \in Int
BY DEF Seeds, ResearchSeed, ProductionSeed, RegulatedSeed, TenantDocument

LEMMA SigningKeeps ==
  ASSUME PoliciesInv, NEW key \in Signers,
         \/ \E d \in TenantDrafts \cup Seeds : SignTenantPolicy(d, key)
         \/ \E list \in RootLists : SignProtectedModules(list, key)
         \/ \E d \in RetentionDrafts \cup {RetentionSeed} : SignRetentionPolicy(d, key)
         \/ \E admission \in AdmissionRequests, approvers \in ApprovalLists, role \in {"evaluator", "candidate"} :
              AdmitPrivileged(admission, approvers, role, key)
  PROVE  PoliciesInv'
<1>1. ASSUME NEW d \in TenantDrafts \cup Seeds, SignTenantPolicy(d, key)
      PROVE  PoliciesInv'
  <2>1. d.kind = "tenant" /\ d.environment \in {"production", "research"} /\ d.auto \in Int
    BY SeedsAcceptable, PolicyAssumption DEF PolicyAssumption
  <2>2. AcceptablePaper(d)
    BY <1>1, <2>1 DEF AcceptablePaper, SignTenantPolicy
  <2> QED BY <1>1, <2>2, CirculationKeeps DEF SignTenantPolicy
<1>2. ASSUME NEW list \in RootLists, SignProtectedModules(list, key)
      PROVE  PoliciesInv'
  <2>1. AcceptablePaper(ModulesDocument(list))
    BY DEF AcceptablePaper, ModulesDocument
  <2> QED BY <1>2, <2>1, CirculationKeeps DEF SignProtectedModules
<1>3. ASSUME NEW d \in RetentionDrafts \cup {RetentionSeed}, SignRetentionPolicy(d, key)
      PROVE  PoliciesInv'
  <2>1. d.kind = "retention"
    BY PolicyAssumption DEF PolicyAssumption, RetentionSeed
  <2>2. AcceptablePaper(d)
    BY <1>3, <2>1 DEF AcceptablePaper, SignRetentionPolicy
  <2> QED BY <1>3, <2>2, CirculationKeeps DEF SignRetentionPolicy
<1>4. ASSUME NEW admission \in AdmissionRequests, NEW approvers \in ApprovalLists,
             NEW role \in {"evaluator", "candidate"}, AdmitPrivileged(admission, approvers, role, key)
      PROVE  PoliciesInv'
  <2> DEFINE d == AdmissionOf(admission, approvers)
  <2>1. d.kind = "admission" /\ d.request = admission /\ d.approvers = approvers
    BY DEF AdmissionOf
  <2>2. AdmissionDue(admission, approvers) /\ Circulate(Enveloped(d, key))
    BY <1>4 DEF AdmitPrivileged
  <2>3. approvers \in Seq(DOMAIN Spelled)
    BY PolicyAssumption DEF PolicyAssumption
  <2>4. AcceptablePaper(d)
    BY <2>1, <2>2, <2>3 DEF AcceptablePaper
  <2> QED BY <2>2, <2>4, CirculationKeeps
<1> QED BY <1>1, <1>2, <1>3, <1>4

LEMMA RegistryKeeps ==
  ASSUME PoliciesInv, NEW loaded \in SUBSET {p \in papers : p.document.kind = "tenant"}, LoadRegistry(loaded)
  PROVE  PoliciesInv'
<1>1. UNCHANGED <<papers, grants>>
  BY DEF LoadRegistry
<1>2. RulesFromPapers'
  <2> SUFFICES ASSUME NEW t \in DOMAIN tenantRules'
               PROVE  \E p \in papers : p.document = tenantRules'[t] /\ p.document.kind = "tenant"
    BY <1>1 DEF RulesFromPapers
  <2> DEFINE chosen == CHOOSE p \in loaded : p.document.tenant = t
  <2>1. t \in {p.document.tenant : p \in loaded} /\ tenantRules'[t] = chosen.document
    BY DEF LoadRegistry
  <2>2. chosen \in loaded
    BY <2>1
  <2> QED BY <2>1, <2>2
<1> QED BY <1>1, <1>2 DEF PoliciesInv, PapersAsMade, DefaultsHold

(* a promotion is granted under a paper's rules, or under the seed's *)
LEMMA GrantsKeep ==
  ASSUME PoliciesInv, NEW tenant \in Tenants, NEW tier \in 1..4, AskAutoPromotion(tenant, tier)
  PROVE  PoliciesInv'
<1> DEFINE rules == RulesFor(tenant)
           ask == [rules |-> rules, tier |-> tier]
<1>1. UNCHANGED <<papers, tenantRules>>
  BY DEF AskAutoPromotion
<1>2. CASE AutoEligible(rules, tier)
  <2>1. grants' = grants \cup {ask}
    BY <1>2 DEF AskAutoPromotion
  <2>2. ~rules.review /\ tier <= rules.auto /\ tier \in rules.tiers
    BY <1>2 DEF AutoEligible
  <2>3. /\ rules.environment # "research" => tier < 4
        /\ (\A p \in papers : p.document # rules) => tier <= 2
    <3>1. CASE tenant \in DOMAIN tenantRules
      <4>1. PICK p \in papers : p.document = rules /\ p.document.kind = "tenant"
        BY <3>1 DEF PoliciesInv, RulesFromPapers, RulesFor
      <4>2. /\ rules.auto \in Int /\ rules.environment \in {"production", "research"}
            /\ PolicyCoherent(rules)
        BY <4>1 DEF PoliciesInv, PapersAsMade, AcceptablePaper
      <4> QED BY <2>2, <4>1, <4>2 DEF PolicyCoherent
    <3>2. CASE tenant \notin DOMAIN tenantRules
      <4>1. rules.auto = 2
        BY <3>2 DEF RulesFor, ProductionSeed, TenantDocument
      <4> QED BY <2>2, <4>1
    <3> QED BY <3>1, <3>2
  <2>4. DefaultsHold'
    <3> SUFFICES ASSUME NEW g \in grants'
                 PROVE  /\ g.rules.environment # "research" => g.tier < 4
                        /\ g.tier \in g.rules.tiers /\ ~g.rules.review
                        /\ (\A p \in papers : p.document # g.rules) => g.tier <= 2
      BY <1>1 DEF DefaultsHold
    <3>1. CASE g \in grants
      BY <3>1 DEF PoliciesInv, DefaultsHold
    <3>2. CASE g = ask
      <4>1. g.rules = rules /\ g.tier = tier
        BY <3>2
      <4> QED BY <2>2, <2>3, <4>1
    <3> QED BY <2>1, <3>1, <3>2
  <2> QED BY <1>1, <2>4 DEF PoliciesInv, PapersAsMade, RulesFromPapers
<1>3. CASE ~AutoEligible(rules, tier)
  <2>1. UNCHANGED grants
    BY <1>3 DEF AskAutoPromotion
  <2> QED BY <1>1, <2>1 DEF PoliciesInv, PapersAsMade, RulesFromPapers, DefaultsHold
<1> QED BY <1>2, <1>3

(* exchanging fields makes nothing new that verifies *)
LEMMA NothingIsForged ==
  ASSUME PapersAsMade
  PROVE  RulesAreSigned
<1> SUFFICES ASSUME NEW p \in Enforceable
             PROVE  /\ \E q \in papers : q.key = p.key /\ BytesOf(q.document) = BytesOf(p.document)
                    /\ p.document.kind = "modules" =>
                         \E q \in papers :
                           /\ q.key = p.key /\ q.document.kind = "modules"
                           /\ \A m \in Modules : (CoveringRoots(p.document.roots, m) # {})
                                                   <=> (CoveringRoots(q.document.roots, m) # {})
                    /\ p.document.kind = "admission" =>
                         LET people == <<p.document.request.requester, p.document.approvers[1],
                                         p.document.approvers[2]>> IN
                         \A i, j \in 1..3 : Spelled[people[i]] = Spelled[people[j]] => i = j
                    /\ p.document.kind = "retention" =>
                         PayloadDays(p.document, FALSE) # NoDeadline /\ "tombstones" \in p.document.forever
  BY DEF RulesAreSigned
<1>1. PICK p0 \in papers, q0 \in papers, r \in papers, s \in papers :
        p = [document |-> p0.document, digest |-> q0.digest, signature |-> r.signature, key |-> s.key]
  BY DEF Enforceable, Returned
<1>2. p.document = p0.document /\ p.signature = r.signature
  BY <1>1
<1>3. p.signature = SignBytes(p.key, BytesOf(p.document))
  BY DEF Enforceable, PaperVerifies, Authentic
<1>4. r.signature = SignBytes(r.key, BytesOf(r.document))
  BY EnvelopeFields DEF PapersAsMade
<1>5. r.key = p.key /\ BytesOf(r.document) = BytesOf(p.document)
  <2>1. SignBytes(p.key, BytesOf(p.document)) = SignBytes(r.key, BytesOf(r.document))
    BY <1>2, <1>3, <1>4
  <2> QED BY <2>1, SignatureTells
<1>6. AcceptablePaper(p.document)
  BY <1>2 DEF PapersAsMade
<1>7. ASSUME p.document.kind = "modules"
      PROVE  /\ r.document.kind = "modules"
             /\ \A m \in Modules : (CoveringRoots(p.document.roots, m) # {})
                                     <=> (CoveringRoots(r.document.roots, m) # {})
  <2> DEFINE mine == p.document.roots
             theirs == r.document.roots
             under(x) == {x[i] : i \in DOMAIN x}
  <2>1. BytesOf(p.document) = [kind |-> "modules", roots |-> under(mine)]
    BY <1>7 DEF BytesOf
  <2>2. r.document.kind = "modules"
    <3>1. CASE r.document.kind # "modules"
      <4>1. BytesOf(r.document) = r.document
        BY <3>1 DEF BytesOf
      <4>2. r.document = [kind |-> "modules", roots |-> under(mine)]
        BY <1>5, <2>1, <4>1
      <4> QED BY <3>1, <4>2
    <3> QED BY <3>1
  <2>3. BytesOf(r.document) = [kind |-> "modules", roots |-> under(theirs)]
    BY <2>2 DEF BytesOf
  <2>4. under(mine) = under(theirs)
    <3> DEFINE a == [kind |-> "modules", roots |-> under(mine)]
               b == [kind |-> "modules", roots |-> under(theirs)]
    <3>1. a = b
      BY <1>5, <2>1, <2>3
    <3>2. a.roots = under(mine) /\ b.roots = under(theirs)
      OBVIOUS
    <3> QED BY <3>1, <3>2
  <2>5. \A x, m : (CoveringRoots(x, m) # {}) <=> \E root \in under(x) : UnderRoot(root, m)
    BY DEF CoveringRoots
  <2> QED BY <2>2, <2>4, <2>5
<1>8. ASSUME p.document.kind = "admission"
      PROVE  LET people == <<p.document.request.requester, p.document.approvers[1],
                             p.document.approvers[2]>> IN
             \A i, j \in 1..3 : Spelled[people[i]] = Spelled[people[j]] => i = j
  <2> DEFINE names == p.document.approvers
             asker == p.document.request.requester
  <2>1. AdmissionDue(p.document.request, names) /\ names \in Seq(DOMAIN Spelled)
    BY <1>6, <1>8 DEF AcceptablePaper
  <2>2. Len(names) = 2 /\ DOMAIN names = 1..2
    BY <2>1 DEF AdmissionDue
  <2>3. /\ Spelled[names[1]] # Spelled[names[2]]
        /\ Spelled[names[1]] # Spelled[asker] /\ Spelled[names[2]] # Spelled[asker]
    BY <2>1, <2>2 DEF AdmissionDue, TwoNames
  <2> DEFINE people == <<asker, names[1], names[2]>>
  <2>4. people[1] = asker /\ people[2] = names[1] /\ people[3] = names[2]
    OBVIOUS
  <2> HIDE DEF people, names, asker
  <2>5. \A i, j \in 1..3 : Spelled[people[i]] = Spelled[people[j]] => i = j
    BY <2>3, <2>4
  <2> QED BY <2>5 DEF people, names, asker
<1>9. ASSUME p.document.kind = "retention"
      PROVE  PayloadDays(p.document, FALSE) # NoDeadline /\ "tombstones" \in p.document.forever
  <2>1. RetentionSound(p.document)
    BY <1>6, <1>9 DEF AcceptablePaper
  <2> QED BY <2>1 DEF RetentionSound, EvidenceRecords, PayloadDays, NoDeadline
<1> QED BY <1>5, <1>7, <1>8, <1>9

(* "bytes nobody vouches for are not a deny-list" (protected_modules.py):  *)
(* whatever documents are signed, by whomever and in any number, what      *)
(* verifies says what its key's holder signed, and no promotion is granted *)
(* beyond the approval defaults of tenancy/policy.py.                      *)
THEOREM PoliciesCorrect == PoliciesSpec => []PoliciesAreKept
<1>1. PoliciesInit => PoliciesInv
  BY DEF PoliciesInit, PoliciesInv, PapersAsMade, RulesFromPapers, DefaultsHold
<1>2. PoliciesInv /\ [PoliciesNext]_policyVars => PoliciesInv'
  <2> SUFFICES ASSUME PoliciesInv, [PoliciesNext]_policyVars
               PROVE  PoliciesInv'
    OBVIOUS
  <2>1. CASE UNCHANGED policyVars
    BY <2>1 DEF policyVars, PoliciesInv, PapersAsMade, RulesFromPapers, DefaultsHold
  <2>2. CASE PoliciesNext
    BY <2>2, SigningKeeps, RegistryKeeps, GrantsKeep DEF PoliciesNext
  <2> QED BY <2>1, <2>2
<1>3. PoliciesInv => PoliciesAreKept
  BY NothingIsForged DEF PoliciesInv, PoliciesAreKept
<1> QED BY <1>1, <1>2, <1>3, PTL DEF PoliciesSpec

-----------------------------------------------------------------------------
(* Governed memory.  A call is sound against the rows of any later moment: *)
(* what could contradict it, or escape it, was live when it looked or is   *)
(* in its `missed'.                                                        *)
MemorySpec == MemoryInit /\ [][MemoryNext]_memoryVars

Circulates(r) == r.status \in Live
Reverts(s, i, j) == s[i].event = "revoke" /\ i \in s[j].parents
Contradict(s, i, j) == Circulates(s[i]) /\ Circulates(s[j]) /\ s[i].statement # s[j].statement
Crossed(s, i, j) == i \in s[j].missed \/ j \in s[i].missed
LaterOrSeen(s, i, j) == s[i].revokedAt < j \/ j \in s[i].missed

(* what the invariant says of the rows alone; a suggestion was inserted    *)
(* after the revocation of what it cites, or that revocation missed it     *)
RowsSound(s) ==
  /\ \A i, j \in DOMAIN s : Contradict(s, i, j) => Crossed(s, i, j)
  /\ \A i, j \in DOMAIN s : Reverts(s, i, j) /\ Circulates(s[j]) => s[i].revokedAt < j \/ Crossed(s, i, j)
  /\ \A i, j \in DOMAIN s : Reverts(s, i, j) /\ s[j].status = "suggestion" => LaterOrSeen(s, i, j)
  /\ \A i \in DOMAIN s : \/ s[i].status = EventStatus[s[i].event]
                         \/ s[i].event = "none" /\ s[i].status = "quarantined"
                         \/ i \in s[i].missed
  /\ \A i \in DOMAIN s : s[i].revokedAt <= Len(s)

(* what it says of an open call *)
CallShape(tx) ==
  /\ tx.draft = <<>> \/ (tx.kind = "none" /\ Len(tx.draft) = 1)
  /\ tx.kind = "none" => tx.entry = 0 /\ tx.reach = {}
  /\ \A k \in DOMAIN tx.draft : /\ tx.draft[k].event = "none" /\ tx.draft[k].revokedAt = 0
                                  /\ tx.draft[k].status \in {"suggestion", "quarantined"}
DraftSound(tx, s) ==
  \A k \in DOMAIN tx.draft, i \in DOMAIN s :
    Circulates(tx.draft[k]) /\ Circulates(s[i]) /\ s[i].statement # tx.draft[k].statement => i \in tx.missed
NominationSound(tx, s) ==
  tx.kind = "nominate" =>
    /\ tx.entry \in DOMAIN s
    /\ \A i \in DOMAIN s : i # tx.entry /\ Circulates(s[i]) /\ s[i].statement # s[tx.entry].statement
                             => i \in tx.missed
    /\ \A i \in DOMAIN s : Reverts(s, i, tx.entry) => LaterOrSeen(s, i, tx.entry) \/ i \in tx.missed
RevocationSound(tx, s) ==
  tx.kind = "revoke" =>
    /\ tx.entry \in DOMAIN s
    /\ \A j \in DOMAIN s : tx.entry \in s[j].parents /\ Circulates(s[j]) => j \in tx.reach \cup tx.missed
SettledSound(tx, s) ==
  \A j \in tx.settled \ tx.missed : j \in DOMAIN s /\ s[j].status = EventStatus[KindFor(tx, j)]
CallSound(tx, s) ==
  CallShape(tx) /\ DraftSound(tx, s) /\ NominationSound(tx, s) /\ RevocationSound(tx, s) /\ SettledSound(tx, s)

MemoryInv ==
  /\ MemoryTypes /\ RowsSound(entries) /\ RevokedIsDeleted
  /\ \A t \in DOMAIN tombstones : tombstones[t].entry \in Ids
  /\ \A c \in Callers : CallSound(openCalls[c], entries)

LEMMA KindsOfEvent ==
  DOMAIN EventStatus = {"none", "nominate", "quarantine", "revoke", "supersede", "expire"}
BY DEF EventStatus

LEMMA KindForIsKind ==
  ASSUME NEW tx \in Calls, NEW j
  PROVE  /\ KindFor(tx, j) \in DOMAIN EventStatus
         /\ EventStatus[KindFor(tx, j)] \in {"suggestion", "active", "quarantined", "revoked", "expired"}
         /\ KindFor(tx, j) = "revoke" => tx.kind = "revoke" /\ j = tx.entry
         /\ EventStatus[KindFor(tx, j)] \in Live => tx.kind \in {"nominate", "none"} /\ j = tx.entry
         /\ EventStatus[KindFor(tx, j)] = "suggestion" => tx.kind = "none" /\ j = tx.entry
<1>1. tx.kind \in DOMAIN EventStatus
  BY DEF Calls
<1> QED
  BY <1>1, KindsOfEvent DEF KindFor, EventStatus, Live

(* What a commit makes of row r, number j of n: q                          *)
WrittenAs(tx, n, j, r, q) ==
  /\ q.statement = r.statement /\ q.parents = r.parents /\ tx.missed \subseteq q.missed
  /\ j \in tx.missed => r.missed \subseteq q.missed
  /\ q.event = KindFor(tx, j) \/ (j \in tx.missed /\ q.event = r.event)
  /\ q.revokedAt = IF KindFor(tx, j) = "revoke" THEN n ELSE r.revokedAt
  /\ q.status = IF j \in tx.settled THEN r.status ELSE EventStatus[KindFor(tx, j)]

LEMMA RowWritten ==
  ASSUME NEW tx \in Calls, NEW j \in Ids, NEW behind, behind \subseteq tx.missed, entries[j] \in EntryRows,
         Len(entries) \in Nat
  PROVE  WrittenBy(tx, j, behind) \in EntryRows /\ WrittenAs(tx, Len(entries), j, entries[j], WrittenBy(tx, j, behind))
<1> DEFINE r == entries[j]
           status == IF j \in tx.settled THEN r.status ELSE EventStatus[KindFor(tx, j)]
           event == IF j \in behind THEN r.event ELSE KindFor(tx, j)
           revokedAt == IF KindFor(tx, j) = "revoke" THEN Len(entries) ELSE r.revokedAt
           missed == tx.missed \cup (IF j \in tx.missed THEN r.missed ELSE {})
           q == [statement |-> r.statement, expired |-> r.expired, parents |-> r.parents,
                 supersedes |-> r.supersedes, status |-> status, event |-> event,
                 revokedAt |-> revokedAt, missed |-> missed]
<1>2. WrittenBy(tx, j, behind) = q
  BY DEF WrittenBy
<1>3. /\ status \in {"suggestion", "active", "quarantined", "revoked", "expired"}
      /\ event \in DOMAIN EventStatus /\ revokedAt \in Nat /\ missed \in SUBSET Nat
  BY KindForIsKind DEF EntryRows, Calls
<1>4. q \in EntryRows
  <2>1. /\ r.statement \in Statements /\ r.expired \in BOOLEAN /\ r.parents \in SUBSET Nat
        /\ r.supersedes \in SUBSET Nat
    BY DEF EntryRows
  <2> HIDE DEF status, event, revokedAt, missed, r
  <2> QED
    BY <1>3, <2>1 DEF EntryRows
<1>5. /\ q.statement = r.statement /\ q.parents = r.parents /\ q.missed = missed
      /\ q.event = event /\ q.revokedAt = revokedAt /\ q.status = status
  OBVIOUS
<1> HIDE DEF q
<1> QED
  BY <1>2, <1>4, <1>5 DEF WrittenAs

-----------------------------------------------------------------------------
(* A commit: rows s become rows t.                                         *)
RowsReached(tx) == tx.reach \cup {tx.entry}
CommitsTo(tx, s, t) ==
  /\ s \in Seq(EntryRows) /\ t \in Seq(EntryRows) /\ Len(t) = Len(s) + Len(tx.draft)
  /\ \A j \in DOMAIN s : IF j \in RowsReached(tx) THEN WrittenAs(tx, Len(s), j, s[j], t[j]) ELSE t[j] = s[j]
  /\ \A k \in DOMAIN tx.draft :
       /\ t[Len(s) + k].statement = tx.draft[k].statement /\ t[Len(s) + k].parents = tx.draft[k].parents
       /\ t[Len(s) + k].status = tx.draft[k].status /\ t[Len(s) + k].event = tx.draft[k].event
       /\ t[Len(s) + k].revokedAt = tx.draft[k].revokedAt /\ t[Len(s) + k].missed = tx.missed

LEMMA CommitDomain ==
  ASSUME NEW tx \in Calls, NEW s, NEW t, CommitsTo(tx, s, t), CallShape(tx)
  PROVE  /\ Len(s) \in Nat /\ DOMAIN s = 1..Len(s) /\ DOMAIN s \subseteq DOMAIN t
         /\ \A i \in DOMAIN t \ DOMAIN s :
              /\ i = Len(s) + 1 /\ tx.kind = "none" /\ tx.entry = 0 /\ tx.reach = {}
              /\ 1 \in DOMAIN tx.draft
              /\ t[i].statement = tx.draft[1].statement /\ t[i].status = tx.draft[1].status
              /\ t[i].event = "none" /\ t[i].revokedAt = 0 /\ t[i].missed = tx.missed
              /\ t[i].status \in {"suggestion", "quarantined"}
<1>1. /\ Len(s) \in Nat /\ DOMAIN s = 1..Len(s) /\ DOMAIN t = 1..(Len(s) + Len(tx.draft))
      /\ Len(tx.draft) \in Nat /\ DOMAIN tx.draft = 1..Len(tx.draft)
  BY DEF CommitsTo, Calls
<1>2. Len(tx.draft) \in {0, 1}
  <2>1. Len(<<>>) = 0
    OBVIOUS
  <2> QED
    BY <2>1 DEF CallShape
<1>3. DOMAIN s \subseteq DOMAIN t
  BY <1>1
<1>4. ASSUME NEW i \in DOMAIN t \ DOMAIN s
      PROVE  i = Len(s) + 1 /\ 1 \in DOMAIN tx.draft /\ tx.draft # <<>>
  <2>1. Len(<<>>) = 0 /\ Len(s) \in Int
    BY <1>1
  <2>3. i \in 1..(Len(s) + Len(tx.draft)) /\ i \notin 1..Len(s)
    BY <1>1
  <2>2. Len(tx.draft) = 1 /\ i = Len(s) + 1
    <3>1. CASE Len(tx.draft) = 0
      BY <2>1, <2>3, <3>1
    <3>2. CASE Len(tx.draft) = 1
      BY <2>1, <2>3, <3>2
    <3> QED
      BY <1>2, <2>3, <3>1, <3>2
  <2>4. 1 \in DOMAIN tx.draft
    BY <1>1, <2>2
  <2> QED
    BY <2>1, <2>2, <2>4
<1>5. ASSUME NEW i \in DOMAIN t \ DOMAIN s
      PROVE  tx.kind = "none" /\ tx.entry = 0 /\ tx.reach = {}
  BY <1>4 DEF CallShape
<1>6. ASSUME NEW i \in DOMAIN t \ DOMAIN s
      PROVE  /\ t[i].statement = tx.draft[1].statement /\ t[i].status = tx.draft[1].status
             /\ t[i].event = "none" /\ t[i].revokedAt = 0 /\ t[i].missed = tx.missed
             /\ t[i].status \in {"suggestion", "quarantined"}
  BY <1>4 DEF CommitsTo, CallShape
<1> QED
  BY <1>1, <1>3, <1>4, <1>5, <1>6

(* An old row that circulates after a commit did so before and has         *)
(* forgotten nothing, or it is the nominee.                                *)
IsNominee(tx, j) == tx.kind = "nominate" /\ j = tx.entry
LEMMA OldRow ==
  ASSUME NEW tx \in Calls, NEW s, NEW t, CommitsTo(tx, s, t), CallSound(tx, s), NEW j \in DOMAIN s
  PROVE  /\ t[j].statement = s[j].statement /\ t[j].parents = s[j].parents
         /\ j \in RowsReached(tx) => tx.missed \subseteq t[j].missed
         /\ j \in tx.missed => s[j].missed \subseteq t[j].missed
         /\ Circulates(t[j]) => \/ IsNominee(tx, j) /\ tx.missed \subseteq t[j].missed
                                \/ /\ Circulates(s[j]) /\ s[j].missed \subseteq t[j].missed
                                   /\ j \in RowsReached(tx) => j \in tx.missed
         /\ t[j].status = "suggestion" => s[j].status = "suggestion"
         /\ t[j].event = "revoke" /\ ~(tx.kind = "revoke" /\ j = tx.entry) =>
              /\ s[j].event = "revoke" /\ t[j].revokedAt = s[j].revokedAt /\ s[j].missed \subseteq t[j].missed
         /\ t[j].revokedAt = s[j].revokedAt \/ (t[j].revokedAt = Len(s) /\ tx.kind = "revoke" /\ j = tx.entry)
         /\ j \in RowsReached(tx) /\ j \notin tx.missed => t[j].status = EventStatus[t[j].event]
<1>1. CASE j \notin RowsReached(tx)
  <2>1. t[j] = s[j]
    BY <1>1 DEF CommitsTo
  <2> QED
    BY <1>1, <2>1
<1>2. CASE j \in RowsReached(tx)
  <2>1. WrittenAs(tx, Len(s), j, s[j], t[j])
    BY <1>2 DEF CommitsTo
  <2>2. /\ KindFor(tx, j) \in DOMAIN EventStatus
        /\ KindFor(tx, j) = "revoke" => tx.kind = "revoke" /\ j = tx.entry
        /\ EventStatus[KindFor(tx, j)] \in Live => tx.kind \in {"nominate", "none"} /\ j = tx.entry
        /\ EventStatus[KindFor(tx, j)] = "suggestion" => tx.kind = "none" /\ j = tx.entry
    BY KindForIsKind
  <2>3. tx.kind # "none"
    <3>1. Len(s) \in Nat /\ j \in 1..Len(s)
      BY DEF CommitsTo
    <3>2. j # 0
      BY <3>1
    <3> QED
      BY <1>2, <3>2 DEF CallSound, CallShape, RowsReached
  <2>4. j \in tx.settled \ tx.missed => s[j].status = EventStatus[KindFor(tx, j)]
    BY DEF CallSound, SettledSound
  <2>5. j \notin tx.missed => t[j].status = EventStatus[KindFor(tx, j)] /\ t[j].event = KindFor(tx, j)
    BY <2>1, <2>4 DEF WrittenAs
  <2>6. Circulates(t[j]) => \/ IsNominee(tx, j) /\ tx.missed \subseteq t[j].missed
                            \/ /\ Circulates(s[j]) /\ s[j].missed \subseteq t[j].missed
                               /\ j \in tx.missed
    <3> SUFFICES ASSUME Circulates(t[j]), ~IsNominee(tx, j)
                 PROVE  /\ Circulates(s[j]) /\ s[j].missed \subseteq t[j].missed
                        /\ j \in tx.missed
      BY <2>1 DEF WrittenAs
    <3>1. EventStatus[KindFor(tx, j)] \notin Live
      BY <2>2, <2>3 DEF IsNominee
    <3>2. j \in tx.missed /\ j \in tx.settled
      BY <2>1, <2>5, <3>1 DEF WrittenAs, Circulates
    <3> QED
      BY <2>1, <3>2 DEF WrittenAs, Circulates
  <2>7. t[j].status = "suggestion" => s[j].status = "suggestion"
    BY <2>1, <2>2, <2>3 DEF WrittenAs
  <2>8. t[j].event = "revoke" /\ ~(tx.kind = "revoke" /\ j = tx.entry) =>
          /\ s[j].event = "revoke" /\ t[j].revokedAt = s[j].revokedAt /\ s[j].missed \subseteq t[j].missed
    BY <2>1, <2>2 DEF WrittenAs
  <2>9. t[j].revokedAt = s[j].revokedAt \/ (t[j].revokedAt = Len(s) /\ tx.kind = "revoke" /\ j = tx.entry)
    BY <2>1, <2>2 DEF WrittenAs
  <2>10. /\ t[j].statement = s[j].statement /\ t[j].parents = s[j].parents
         /\ tx.missed \subseteq t[j].missed
         /\ j \in tx.missed => s[j].missed \subseteq t[j].missed
    BY <2>1 DEF WrittenAs
  <2>11. j \notin tx.missed => t[j].status = EventStatus[t[j].event]
    BY <2>5
  <2> QED
    BY <1>2, <2>6, <2>7, <2>8, <2>9, <2>10, <2>11, Zenon
<1> QED
  BY <1>1, <1>2

LEMMA RevokedInTime ==
  ASSUME NEW tx, NEW s, NEW t, CommitsTo(tx, s, t), RowsSound(s), NEW i \in DOMAIN s
  PROVE  s[i].revokedAt <= Len(s) /\ s[i].revokedAt \in Nat
<1>1. s[i] \in EntryRows
  BY DEF CommitsTo
<1>2. s[i].revokedAt \in Nat
  BY <1>1 DEF EntryRows
<1>3. s[i].revokedAt <= Len(s)
  BY DEF RowsSound
<1> QED
  BY <1>2, <1>3

LEMMA ContradictionsCommit ==
  ASSUME NEW tx \in Calls, NEW s, NEW t, CommitsTo(tx, s, t), CallSound(tx, s), RowsSound(s),
         NEW i \in DOMAIN t, NEW j \in DOMAIN t, Contradict(t, i, j)
  PROVE  Crossed(t, i, j)
<1>0. Circulates(t[i]) /\ Circulates(t[j]) /\ t[i].statement # t[j].statement
  BY DEF Contradict
(* one row is the nominee: the call asked for the other, or missed it *)
<1>1. ASSUME NEW a \in DOMAIN s, NEW b \in DOMAIN s, IsNominee(tx, b), tx.missed \subseteq t[b].missed,
             Circulates(t[a]), t[a].statement # t[b].statement
      PROVE  a \in t[b].missed
  <2>1. s[a].statement # s[b].statement /\ a # b
    BY <1>1, OldRow
  <2>2. ~IsNominee(tx, a)
    BY <1>1, <2>1 DEF IsNominee
  <2>3. Circulates(s[a])
    BY <1>1, <2>2, OldRow
  <2>4. a \in tx.missed
    BY <1>1, <2>1, <2>3 DEF CallSound, NominationSound, IsNominee
  <2> QED
    BY <1>1, <2>4
(* one row is new: its call had asked for the other, or missed it *)
<1>2. ASSUME NEW a \in DOMAIN s, NEW b \in DOMAIN t \ DOMAIN s,
             Circulates(t[a]), Circulates(t[b]), t[a].statement # t[b].statement
      PROVE  a \in t[b].missed
  <2>1. /\ tx.kind = "none" /\ 1 \in DOMAIN tx.draft /\ t[b].missed = tx.missed
        /\ t[b].statement = tx.draft[1].statement /\ t[b].status = tx.draft[1].status
    BY CommitDomain DEF CallSound
  <2>2. Circulates(s[a]) /\ s[a].statement = t[a].statement
    BY <1>2, <2>1, OldRow DEF IsNominee
  <2>3. Circulates(tx.draft[1]) /\ s[a].statement # tx.draft[1].statement
    BY <1>2, <2>1, <2>2 DEF Circulates
  <2>4. a \in tx.missed
    BY <2>1, <2>2, <2>3 DEF CallSound, DraftSound
  <2> QED
    BY <2>1, <2>4
<1>3. CASE i \in DOMAIN s /\ j \in DOMAIN s
  <2>1. CASE IsNominee(tx, i) /\ tx.missed \subseteq t[i].missed
    BY <1>0, <1>1, <1>3, <2>1 DEF Crossed
  <2>2. CASE IsNominee(tx, j) /\ tx.missed \subseteq t[j].missed
    BY <1>0, <1>1, <1>3, <2>2 DEF Crossed
  <2>3. CASE /\ Circulates(s[i]) /\ s[i].missed \subseteq t[i].missed
             /\ Circulates(s[j]) /\ s[j].missed \subseteq t[j].missed
    <3>1. s[i].statement # s[j].statement
      BY <1>0, <1>3, OldRow
    <3>2. Crossed(s, i, j)
      BY <1>3, <2>3, <3>1 DEF RowsSound, Contradict
    <3> QED
      BY <2>3, <3>2 DEF Crossed
  <2> QED
    BY <1>0, <1>3, <2>1, <2>2, <2>3, OldRow
<1>4. CASE i \in DOMAIN s /\ j \notin DOMAIN s
  BY <1>0, <1>2, <1>4 DEF Crossed
<1>5. CASE i \notin DOMAIN s /\ j \in DOMAIN s
  BY <1>0, <1>2, <1>5 DEF Crossed
<1>6. CASE i \notin DOMAIN s /\ j \notin DOMAIN s
  <2>1. i = j
    BY <1>6, CommitDomain DEF CallSound
  <2> QED
    BY <1>0, <2>1
<1> QED
  BY <1>3, <1>4, <1>5, <1>6

LEMMA RevocationsCommit ==
  ASSUME NEW tx \in Calls, NEW s, NEW t, CommitsTo(tx, s, t), CallSound(tx, s), RowsSound(s),
         NEW i \in DOMAIN t, NEW j \in DOMAIN t, Reverts(t, i, j)
  PROVE  /\ Circulates(t[j]) => t[i].revokedAt < j \/ Crossed(t, i, j)
         /\ t[j].status = "suggestion" => LaterOrSeen(t, i, j)
<1>0. t[i].event = "revoke" /\ i \in t[j].parents
  BY DEF Reverts
<1>1. i \in DOMAIN s
  <2>1. "none" # "revoke"
    OBVIOUS
  <2> QED
    BY <1>0, <2>1, CommitDomain DEF CallSound
<1>2. t[j].status = "suggestion" => Circulates(t[j])
  BY DEF Circulates, Live
<1>3. CASE j \notin DOMAIN s
  <2>1. j = Len(s) + 1 /\ Len(s) \in Nat
    BY <1>3, CommitDomain DEF CallSound
  <2>2. s[i].revokedAt <= Len(s) /\ s[i].revokedAt \in Nat
    BY <1>1, RevokedInTime
  <2>3. t[i].revokedAt <= Len(s) /\ t[i].revokedAt \in Nat
    BY <1>1, <2>1, <2>2, OldRow
  <2>4. t[i].revokedAt < j
    BY <2>1, <2>3
  <2> QED
    BY <2>4 DEF LaterOrSeen
<1>4. CASE j \in DOMAIN s /\ tx.kind = "revoke" /\ i = tx.entry
  <2> SUFFICES ASSUME Circulates(t[j])
               PROVE  j \in t[i].missed
    BY <1>2 DEF Crossed, LaterOrSeen
  <2>1. ~IsNominee(tx, j)
    BY <1>4 DEF IsNominee
  <2>2. Circulates(s[j]) /\ (j \in RowsReached(tx) => j \in tx.missed)
    BY <1>4, <2>1, OldRow
  <2>3. i \in s[j].parents
    BY <1>0, <1>4, OldRow
  <2>4. j \in tx.reach \cup tx.missed
    BY <1>4, <2>2, <2>3 DEF CallSound, RevocationSound
  <2>5. j \in tx.missed
    BY <2>2, <2>4 DEF RowsReached
  <2>6. tx.missed \subseteq t[i].missed
    BY <1>1, <1>4, OldRow DEF RowsReached
  <2> QED
    BY <2>5, <2>6
<1>5. CASE j \in DOMAIN s /\ ~(tx.kind = "revoke" /\ i = tx.entry)
  <2>1. s[i].event = "revoke" /\ t[i].revokedAt = s[i].revokedAt /\ s[i].missed \subseteq t[i].missed
    BY <1>0, <1>1, <1>5, OldRow
  <2>2. Reverts(s, i, j)
    BY <1>0, <1>5, <2>1, OldRow DEF Reverts
  <2>3. ASSUME Circulates(t[j]) PROVE t[i].revokedAt < j \/ Crossed(t, i, j)
    <3>1. CASE IsNominee(tx, j) /\ tx.missed \subseteq t[j].missed
      <4>1. LaterOrSeen(s, i, j) \/ i \in tx.missed
        BY <1>1, <2>2, <3>1 DEF CallSound, NominationSound, IsNominee
      <4> QED
        BY <2>1, <3>1, <4>1 DEF LaterOrSeen, Crossed
    <3>2. CASE Circulates(s[j]) /\ s[j].missed \subseteq t[j].missed
      <4>1. s[i].revokedAt < j \/ Crossed(s, i, j)
        BY <1>1, <1>5, <2>2, <3>2 DEF RowsSound
      <4> QED
        BY <2>1, <3>2, <4>1 DEF Crossed
    <3> QED
      BY <1>5, <2>3, <3>1, <3>2, OldRow
  <2>4. ASSUME t[j].status = "suggestion" PROVE LaterOrSeen(t, i, j)
    <3>1. s[j].status = "suggestion"
      BY <1>5, <2>4, OldRow
    <3>2. LaterOrSeen(s, i, j)
      BY <1>1, <1>5, <2>2, <3>1 DEF RowsSound
    <3> QED
      BY <2>1, <3>2 DEF LaterOrSeen
  <2> QED
    BY <2>3, <2>4
<1> QED
  BY <1>3, <1>4, <1>5

LEMMA RowsCommit ==
  ASSUME NEW tx \in Calls, NEW s, NEW t, CommitsTo(tx, s, t), CallSound(tx, s), RowsSound(s)
  PROVE  RowsSound(t)
<1>1. ASSUME NEW i \in DOMAIN t
      PROVE  /\ \/ t[i].status = EventStatus[t[i].event]
                \/ t[i].event = "none" /\ t[i].status = "quarantined"
                \/ i \in t[i].missed
             /\ t[i].revokedAt <= Len(t)
  <2>0. Len(t) \in Nat /\ Len(s) \in Nat /\ Len(s) <= Len(t)
    <3>1. Len(t) = Len(s) + Len(tx.draft) /\ Len(s) \in Nat /\ Len(tx.draft) \in Nat
      BY DEF CommitsTo, Calls
    <3> QED
      BY <3>1
  <2>1. CASE i \notin DOMAIN s
    <3>1. t[i].event = "none" /\ t[i].status \in {"suggestion", "quarantined"} /\ t[i].revokedAt = 0
      BY <2>1, CommitDomain DEF CallSound
    <3>2. EventStatus["none"] = "suggestion"
      BY DEF EventStatus
    <3> QED
      BY <2>0, <3>1, <3>2
  <2>2. CASE i \in DOMAIN s
    <3>1. s[i].revokedAt <= Len(s) /\ s[i].revokedAt \in Nat
      BY <2>2, RevokedInTime
    <3>2. t[i].revokedAt <= Len(t)
      BY <2>0, <2>2, <3>1, OldRow
    <3>3. CASE i \notin RowsReached(tx)
      <4>1. t[i] = s[i]
        BY <2>2, <3>3 DEF CommitsTo
      <4> QED
        BY <2>2, <3>2, <4>1 DEF RowsSound
    <3>4. CASE i \in RowsReached(tx)
      <4>1. i \in tx.missed => i \in t[i].missed
        BY <2>2, <3>4, OldRow
      <4>2. i \notin tx.missed => t[i].status = EventStatus[t[i].event]
        BY <2>2, <3>4, OldRow
      <4> QED
        BY <3>2, <4>1, <4>2
    <3> QED
      BY <3>3, <3>4
  <2> QED
    BY <2>1, <2>2
<1>2. \A i, j \in DOMAIN t : Contradict(t, i, j) => Crossed(t, i, j)
  BY ContradictionsCommit
<1>3. \A i, j \in DOMAIN t : Reverts(t, i, j) /\ Circulates(t[j]) => t[i].revokedAt < j \/ Crossed(t, i, j)
  BY RevocationsCommit
<1>4. \A i, j \in DOMAIN t : Reverts(t, i, j) /\ t[j].status = "suggestion" => LaterOrSeen(t, i, j)
  BY RevocationsCommit
<1> QED
  BY <1>1, <1>2, <1>3, <1>4 DEF RowsSound

(* What one call commits, another has missed.                              *)
Wrote(tx, s) == (RowsReached(tx) \cap DOMAIN s) \cup {Len(s) + k : k \in DOMAIN tx.draft}
LEMMA OthersStaySound ==
  ASSUME NEW tx \in Calls, NEW s, NEW t, CommitsTo(tx, s, t), CallSound(tx, s),
         NEW other \in Calls, NEW later, CallSound(other, s),
         /\ later.kind = other.kind /\ later.entry = other.entry /\ later.reach = other.reach
         /\ later.draft = other.draft /\ later.settled = other.settled
         /\ later.missed = other.missed \cup Wrote(tx, s)
  PROVE  CallSound(later, t)
<1>1. ASSUME NEW i \in DOMAIN t, i \notin Wrote(tx, s)
      PROVE  i \in DOMAIN s /\ t[i] = s[i]
  <2>1. i \in DOMAIN s
    BY <1>1, CommitDomain DEF CallSound, Wrote
  <2>2. i \notin RowsReached(tx)
    BY <1>1, <2>1 DEF Wrote
  <2> QED
    BY <2>1, <2>2 DEF CommitsTo
<1>2. DOMAIN s \subseteq DOMAIN t /\ \A i \in DOMAIN s : t[i].statement = s[i].statement /\ t[i].parents = s[i].parents
  BY CommitDomain, OldRow DEF CallSound
<1>3. CallShape(later)
  BY DEF CallSound, CallShape
<1>4. DraftSound(later, t)
  <2> SUFFICES ASSUME NEW k \in DOMAIN other.draft, NEW i \in DOMAIN t, i \notin Wrote(tx, s),
                      Circulates(other.draft[k]), Circulates(t[i]), t[i].statement # other.draft[k].statement
               PROVE  i \in other.missed
    BY DEF DraftSound
  <2> QED
    BY <1>1 DEF CallSound, DraftSound
<1>5. NominationSound(later, t)
  <2> SUFFICES ASSUME other.kind = "nominate" PROVE NominationSound(later, t)
    BY DEF NominationSound
  <2>1. other.entry \in DOMAIN s
    BY DEF CallSound, NominationSound
  <2>2. ASSUME NEW i \in DOMAIN t, i # other.entry, Circulates(t[i]), t[i].statement # t[other.entry].statement
        PROVE  i \in later.missed
    <3>1. CASE i \in Wrote(tx, s)
      BY <3>1
    <3>2. CASE i \notin Wrote(tx, s)
      BY <1>1, <1>2, <2>1, <2>2, <3>2 DEF CallSound, NominationSound
    <3> QED
      BY <3>1, <3>2
  <2>3. ASSUME NEW i \in DOMAIN t, Reverts(t, i, other.entry)
        PROVE  LaterOrSeen(t, i, other.entry) \/ i \in later.missed
    <3>1. CASE i \in Wrote(tx, s)
      BY <3>1
    <3>2. CASE i \notin Wrote(tx, s)
      <4>1. i \in DOMAIN s /\ t[i] = s[i]
        BY <1>1, <3>2
      <4>2. Reverts(s, i, other.entry)
        BY <1>2, <2>1, <2>3, <4>1 DEF Reverts
      <4>3. LaterOrSeen(s, i, other.entry) \/ i \in other.missed
        BY <4>1, <4>2 DEF CallSound, NominationSound
      <4> QED
        BY <4>1, <4>3 DEF LaterOrSeen
    <3> QED
      BY <3>1, <3>2
  <2> QED
    BY <1>2, <2>1, <2>2, <2>3 DEF NominationSound
<1>6. RevocationSound(later, t)
  <2> SUFFICES ASSUME other.kind = "revoke" PROVE RevocationSound(later, t)
    BY DEF RevocationSound
  <2>1. other.entry \in DOMAIN s
    BY DEF CallSound, RevocationSound
  <2>2. ASSUME NEW j \in DOMAIN t, other.entry \in t[j].parents, Circulates(t[j])
        PROVE  j \in later.reach \cup later.missed
    <3>1. CASE j \in Wrote(tx, s)
      BY <3>1
    <3>2. CASE j \notin Wrote(tx, s)
      BY <1>1, <2>2, <3>2 DEF CallSound, RevocationSound
    <3> QED
      BY <3>1, <3>2
  <2> QED
    BY <1>2, <2>1, <2>2 DEF RevocationSound
<1>7. SettledSound(later, t)
  <2> SUFFICES ASSUME NEW j \in other.settled, j \notin other.missed, j \notin Wrote(tx, s)
               PROVE  j \in DOMAIN t /\ t[j].status = EventStatus[KindFor(later, j)]
    BY DEF SettledSound
  <2>1. j \in DOMAIN s /\ s[j].status = EventStatus[KindFor(other, j)]
    BY DEF CallSound, SettledSound
  <2>2. KindFor(later, j) = KindFor(other, j)
    BY DEF KindFor
  <2>3. t[j] = s[j]
    BY <1>1, <1>2, <2>1
  <2> QED
    BY <1>2, <2>1, <2>2, <2>3
<1> QED
  BY <1>3, <1>4, <1>5, <1>6, <1>7 DEF CallSound

-----------------------------------------------------------------------------
LEMMA MemoryFacts ==
  ASSUME MemoryInv
  PROVE  /\ entries \in Seq(EntryRows) /\ Len(entries) \in Nat /\ Ids = 1..Len(entries)
         /\ \A i \in Ids : entries[i] \in EntryRows
         /\ \A c \in Callers : openCalls[c] \in Calls /\ CallSound(openCalls[c], entries)
         /\ RowsSound(entries)
  BY DEF MemoryInv, MemoryTypes, Ids

LEMMA NoCallSound ==
  ASSUME NEW s
  PROVE  NoCall \in Calls /\ CallSound(NoCall, s)
<1>1. /\ NoCall.kind = "none" /\ NoCall.entry = 0 /\ NoCall.reach = {} /\ NoCall.draft = <<>>
      /\ NoCall.settled = {} /\ NoCall.missed = {} /\ DOMAIN <<>> = {}
  BY DEF NoCall, CallOf
<1>2. NoCall \in Calls
  BY KindsOfEvent DEF NoCall, CallOf, Calls
<1> HIDE DEF NoCall
<1> QED
  BY <1>1, <1>2 DEF CallSound, CallShape, DraftSound, NominationSound, RevocationSound, SettledSound

LEMMA CallTyped ==
  ASSUME NEW k \in DOMAIN EventStatus, NEW e \in Nat, NEW r \in SUBSET Nat, NEW x \in SUBSET Nat,
         NEW d \in Seq(EntryRows)
  PROVE  [kind |-> k, entry |-> e, reach |-> r, draft |-> d, settled |-> x, missed |-> {}] \in Calls
  BY DEF Calls

(* A step that opens or drops one call and leaves the rest.                *)
LEMMA OpeningKeeps ==
  ASSUME MemoryInv, NEW c \in Callers, NEW tx \in Calls, CallSound(tx, entries),
         openCalls' = [openCalls EXCEPT ![c] = tx], callsMade' \in Nat,
         UNCHANGED <<entries, tombstones, payloads, derived>>
  PROVE  MemoryInv'
<1>1. \A d \in Callers : openCalls'[d] = IF d = c THEN tx ELSE openCalls[d]
  BY DEF MemoryInv, MemoryTypes
<1>2. openCalls' \in [Callers -> Calls]
  BY <1>1 DEF MemoryInv, MemoryTypes
<1>3. \A d \in Callers : CallSound(openCalls'[d], entries)
  BY <1>1, MemoryFacts
<1> QED
  BY <1>2, <1>3 DEF MemoryInv, MemoryTypes, RevokedIsDeleted, Ids

(* What a call with an event has looked at.                                *)
LEMMA LookKeeps ==
  ASSUME MemoryInv, NEW c \in Callers, NEW what \in DOMAIN EventStatus, NEW entry \in Ids \cup {0}, NEW reach,
         reach \subseteq Ids, Look(c, what, entry, reach), what # "none",
         what = "nominate" => entry \in Ids /\ HygieneClear(entry),
         what = "revoke" => entry \in Ids /\ DependentLessons(entry) = reach
  PROVE  MemoryInv'
<1> DEFINE plain == CallOf(what, entry, reach, {}, <<>>)
           settled == {j \in Touched(plain) : entries[j].status = EventStatus[KindFor(plain, j)]}
           tx == CallOf(what, entry, reach, settled, <<>>)
<1>1. Open(c, tx)
  BY DEF Look
<1>2. /\ plain.kind = what /\ plain.entry = entry
      /\ tx = [kind |-> what, entry |-> entry, reach |-> reach, draft |-> <<>>, settled |-> settled, missed |-> {}]
  BY DEF CallOf
<1>3. /\ tx.kind = what /\ tx.entry = entry /\ tx.reach = reach /\ tx.draft = <<>>
      /\ tx.settled = settled /\ tx.missed = {} /\ DOMAIN <<>> = {}
  <2> HIDE DEF settled
  <2> QED
    BY DEF CallOf
<1>4. settled \subseteq Ids /\ \A j \in settled : entries[j].status = EventStatus[KindFor(plain, j)]
  BY DEF Touched
<1>5. Ids \subseteq Nat /\ entry \in Nat
  BY MemoryFacts
<1>6. tx \in Calls
  <2>1. settled \in SUBSET Nat /\ reach \in SUBSET Nat
    BY <1>4, <1>5
  <2>2. <<>> \in Seq(EntryRows)
    OBVIOUS
  <2> HIDE DEF settled, tx, plain
  <2> QED
    BY <1>2, <1>5, <2>1, <2>2, CallTyped
<1>7. \A j : KindFor(tx, j) = KindFor(plain, j)
  BY <1>2, <1>3 DEF KindFor
<1> HIDE DEF tx, plain, settled
<1>8. CallShape(tx) /\ DraftSound(tx, entries)
  BY <1>3 DEF CallShape, DraftSound
<1>9. SettledSound(tx, entries)
  BY <1>3, <1>4, <1>7 DEF SettledSound, Ids
<1>10. NominationSound(tx, entries)
  <2> SUFFICES ASSUME what = "nominate"
               PROVE  NominationSound(tx, entries)
    BY <1>3 DEF NominationSound
  <2>1. entry \in DOMAIN entries /\ entries[entry].status = "suggestion"
    BY DEF HygieneClear, Ids
  <2>2. \A i \in DOMAIN entries : i # entry /\ Circulates(entries[i]) => entries[i].statement = entries[entry].statement
    BY DEF HygieneClear, Conflicts, Circulates, IsLive, Ids
  <2>3. \A i \in DOMAIN entries : Reverts(entries, i, entry) => LaterOrSeen(entries, i, entry)
    BY <2>1, MemoryFacts DEF RowsSound
  <2> QED
    BY <1>3, <2>1, <2>2, <2>3 DEF NominationSound
<1>11. RevocationSound(tx, entries)
  BY <1>3 DEF RevocationSound, DependentLessons, Circulates, IsLive, Ids
<1>12. CallSound(tx, entries)
  BY <1>8, <1>9, <1>10, <1>11 DEF CallSound
<1>13. /\ openCalls' = [openCalls EXCEPT ![c] = tx] /\ callsMade' \in Nat
       /\ UNCHANGED <<entries, tombstones, payloads, derived>>
  BY <1>1 DEF Open, MemoryInv, MemoryTypes
<1> QED
  BY <1>6, <1>12, <1>13, OpeningKeeps

LEMMA ProposalKeeps ==
  ASSUME MemoryInv, NEW c \in Callers, ProposeEntry(c)
  PROVE  MemoryInv'
<1>1. PICK statement \in Statements, unfit \in BOOLEAN, parents \in SUBSET Ids, supersedes \in SUBSET (Ids \cup {0}) :
        Open(c, CallOf("none", 0, {}, {}, <<
            [statement |-> statement, expired |-> FALSE, parents |-> parents, supersedes |-> supersedes,
             status |-> IF Quarantined(unfit, statement) THEN "quarantined" ELSE "suggestion",
             event |-> "none", revokedAt |-> 0, missed |-> {}] >>))
  BY DEF ProposeEntry
<1> DEFINE status == IF Quarantined(unfit, statement) THEN "quarantined" ELSE "suggestion"
           row == [statement |-> statement, expired |-> FALSE, parents |-> parents, supersedes |-> supersedes,
                   status |-> status, event |-> "none", revokedAt |-> 0, missed |-> {}]
           tx == CallOf("none", 0, {}, {}, <<row>>)
<1>2. Open(c, tx)
  BY <1>1
<1>3. tx = [kind |-> "none", entry |-> 0, reach |-> {}, draft |-> <<row>>, settled |-> {}, missed |-> {}]
  BY DEF CallOf
<1>4. /\ tx.kind = "none" /\ tx.entry = 0 /\ tx.reach = {} /\ tx.draft = <<row>>
      /\ tx.settled = {} /\ tx.missed = {}
  <2> HIDE DEF row
  <2> QED
    BY DEF CallOf
<1>5. /\ row.statement = statement /\ row.status = status /\ row.event = "none" /\ row.revokedAt = 0
      /\ status \in {"quarantined", "suggestion"}
  OBVIOUS
<1>6. row \in EntryRows
  <2>1. parents \in SUBSET Nat /\ supersedes \in SUBSET Nat
    BY MemoryFacts
  <2>2. "none" \in DOMAIN EventStatus
    BY KindsOfEvent
  <2> HIDE DEF status
  <2> QED
    BY <1>5, <2>1, <2>2 DEF EntryRows
<1>7. status = "suggestion" => \A i \in Ids : IsLive(i) => entries[i].statement = statement
  <2>1. 0 \notin Ids
    BY MemoryFacts
  <2> QED
    BY <2>1 DEF Quarantined, Conflicts
<1> HIDE DEF row, status
<1>8. <<row>> \in Seq(EntryRows) /\ DOMAIN <<row>> = {1} /\ Len(<<row>>) = 1 /\ <<row>>[1] = row
  BY <1>6
<1>9. tx \in Calls
  <2>1. "none" \in DOMAIN EventStatus /\ 0 \in Nat /\ {} \in SUBSET Nat
    BY KindsOfEvent
  <2> HIDE DEF tx
  <2> QED
    BY <1>3, <1>8, <2>1, CallTyped
<1> HIDE DEF tx
<1>10. CallShape(tx)
  BY <1>4, <1>5, <1>8 DEF CallShape
<1>11. DraftSound(tx, entries)
  <2> SUFFICES ASSUME NEW i \in DOMAIN entries, Circulates(row), Circulates(entries[i]),
                      entries[i].statement # row.statement
               PROVE  FALSE
    BY <1>4, <1>8 DEF DraftSound
  <2>1. status = "suggestion"
    BY <1>5 DEF Circulates, Live
  <2> QED
    BY <1>5, <1>7, <2>1 DEF Circulates, IsLive, Ids
<1>12. NominationSound(tx, entries) /\ RevocationSound(tx, entries) /\ SettledSound(tx, entries)
  BY <1>4 DEF NominationSound, RevocationSound, SettledSound
<1>13. CallSound(tx, entries)
  BY <1>10, <1>11, <1>12 DEF CallSound
<1>14. /\ openCalls' = [openCalls EXCEPT ![c] = tx] /\ callsMade' \in Nat
       /\ UNCHANGED <<entries, tombstones, payloads, derived>>
  BY <1>2 DEF Open, MemoryInv, MemoryTypes
<1> QED
  BY <1>9, <1>13, <1>14, OpeningKeeps

(* The rows after a commit.                                                *)
LEMMA CommitShape ==
  ASSUME MemoryInv, NEW c \in Callers, CommitCall(c)
  PROVE  CommitsTo(openCalls[c], entries, entries')
<1> DEFINE tx == openCalls[c]
<1>1. PICK behind \in SUBSET (Touched(tx) \cap tx.missed) :
        entries' = [j \in Ids |-> IF j \in Touched(tx) THEN WrittenBy(tx, j, behind) ELSE entries[j]]
                   \o DraftRows(tx)
  BY DEF CommitCall
<1>2. tx \in Calls /\ CallSound(tx, entries)
  BY MemoryFacts
<1> HIDE DEF tx
<1> DEFINE row(j) == IF j \in Touched(tx) THEN WrittenBy(tx, j, behind) ELSE entries[j]
           u == [j \in Ids |-> row(j)]
           v == DraftRows(tx)
<1>3. ASSUME NEW j \in Ids
      PROVE  /\ row(j) \in EntryRows
             /\ IF j \in RowsReached(tx) THEN WrittenAs(tx, Len(entries), j, entries[j], row(j))
                                        ELSE row(j) = entries[j]
  <2>1. j \in Touched(tx) <=> j \in RowsReached(tx)
    BY DEF Touched, RowsReached
  <2>2. entries[j] \in EntryRows /\ Len(entries) \in Nat
    BY MemoryFacts
  <2>3. /\ WrittenBy(tx, j, behind) \in EntryRows
        /\ WrittenAs(tx, Len(entries), j, entries[j], WrittenBy(tx, j, behind))
    BY <1>1, <1>2, <2>2, RowWritten
  <2> QED
    BY <2>1, <2>2, <2>3
<1> HIDE DEF row
<1>4. u \in Seq(EntryRows) /\ Len(u) = Len(entries) /\ \A j \in Ids : u[j] = row(j)
  BY <1>3, MemoryFacts
<1>5. ASSUME NEW k \in DOMAIN tx.draft
      PROVE  /\ v[k] \in EntryRows /\ v[k].statement = tx.draft[k].statement /\ v[k].parents = tx.draft[k].parents
             /\ v[k].status = tx.draft[k].status /\ v[k].event = tx.draft[k].event
             /\ v[k].revokedAt = tx.draft[k].revokedAt /\ v[k].missed = tx.missed
  <2>1. PICK d \in EntryRows : d = tx.draft[k]
    BY <1>2 DEF Calls
  <2>2. PICK m \in SUBSET Nat : m = tx.missed
    BY <1>2 DEF Calls
  <2>3. v[k] = [d EXCEPT !.missed = m]
    BY <2>1, <2>2 DEF DraftRows
  <2>4. [d EXCEPT !.missed = m] =
          [statement |-> d.statement, expired |-> d.expired, parents |-> d.parents, supersedes |-> d.supersedes,
           status |-> d.status, event |-> d.event, revokedAt |-> d.revokedAt, missed |-> m]
    BY DEF EntryRows
  <2> QED
    BY <2>1, <2>2, <2>3, <2>4 DEF EntryRows
<1>6. v \in Seq(EntryRows) /\ Len(v) = Len(tx.draft) /\ DOMAIN tx.draft = 1..Len(v) /\ Len(v) \in Nat
  <2>1. tx.draft \in Seq(EntryRows) /\ DOMAIN tx.draft = 1..Len(tx.draft) /\ Len(tx.draft) \in Nat
    BY <1>2 DEF Calls
  <2>2. v = [k \in DOMAIN tx.draft |-> v[k]]
    BY DEF DraftRows
  <2> HIDE DEF v
  <2> QED
    BY <1>5, <2>1, <2>2
<1> HIDE DEF u, v
<1>7. entries' = u \o v
  BY <1>1 DEF u, v, row
<1>8. /\ entries' \in Seq(EntryRows) /\ Len(entries') = Len(u) + Len(v)
      /\ \A i \in 1..(Len(u) + Len(v)) : entries'[i] = IF i <= Len(u) THEN u[i] ELSE v[i - Len(u)]
  <2>1. u \in Seq(EntryRows) /\ v \in Seq(EntryRows)
    BY <1>4, <1>6
  <2>2. /\ u \o v \in Seq(EntryRows) /\ Len(u \o v) = Len(u) + Len(v)
        /\ \A i \in 1..(Len(u) + Len(v)) : (u \o v)[i] = IF i <= Len(u) THEN u[i] ELSE v[i - Len(u)]
    BY <2>1, ConcatProperties, Zenon
  <2> QED
    BY <1>7, <2>2, Zenon
<1>9. ASSUME NEW j \in Ids PROVE entries'[j] = row(j)
  <2>1. j \in 1..(Len(u) + Len(v)) /\ j <= Len(u)
    BY <1>4, <1>6, MemoryFacts
  <2> QED
    BY <1>4, <1>8, <2>1
<1>10. ASSUME NEW k \in DOMAIN tx.draft PROVE entries'[Len(entries) + k] = v[k]
  <2>1. /\ Len(entries) + k \in 1..(Len(u) + Len(v)) /\ ~(Len(entries) + k <= Len(u))
        /\ Len(entries) + k - Len(u) = k
    BY <1>4, <1>6, MemoryFacts
  <2>3. PICK i \in 1..(Len(u) + Len(v)) : i = Len(entries) + k
    BY <2>1
  <2>4. ~(i <= Len(u)) /\ i - Len(u) = k
    <3>1. Len(u) = Len(entries) /\ Len(entries) \in Nat /\ k \in Nat /\ k >= 1
      BY <1>4, <1>6, MemoryFacts
    <3> QED
      BY <2>3, <3>1
  <2>5. entries'[i] = v[i - Len(u)]
    BY <1>8, <2>4, Zenon
  <2> QED
    BY <2>3, <2>4, <2>5
<1>11. CommitsTo(tx, entries, entries')
  <2>1. entries \in Seq(EntryRows) /\ DOMAIN entries = Ids
    BY MemoryFacts DEF Ids
  <2>2. Len(entries') = Len(entries) + Len(tx.draft)
    BY <1>4, <1>6, <1>8
  <2>3. \A j \in DOMAIN entries : IF j \in RowsReached(tx) THEN WrittenAs(tx, Len(entries), j, entries[j], entries'[j])
                                                      ELSE entries'[j] = entries[j]
    BY <1>3, <1>9, <2>1
  <2>4. \A k \in DOMAIN tx.draft :
          /\ entries'[Len(entries) + k].statement = tx.draft[k].statement
          /\ entries'[Len(entries) + k].parents = tx.draft[k].parents
          /\ entries'[Len(entries) + k].status = tx.draft[k].status
          /\ entries'[Len(entries) + k].event = tx.draft[k].event
          /\ entries'[Len(entries) + k].revokedAt = tx.draft[k].revokedAt
          /\ entries'[Len(entries) + k].missed = tx.missed
    BY <1>5, <1>10
  <2> QED
    BY <1>8, <2>1, <2>2, <2>3, <2>4 DEF CommitsTo
<1> QED
  BY <1>11 DEF tx

LEMMA TombstonesCommit ==
  ASSUME MemoryInv, NEW c \in Callers, CommitCall(c)
  PROVE  /\ tombstones' \in Seq(Tombstones) /\ DOMAIN tombstones \subseteq DOMAIN tombstones'
         /\ \A x \in DOMAIN tombstones : tombstones'[x] = tombstones[x]
         /\ \A x \in DOMAIN tombstones' \ DOMAIN tombstones :
              /\ openCalls[c].kind = "revoke" /\ tombstones'[x].entry = openCalls[c].entry
              /\ ~tombstones'[x].access /\ ~tombstones'[x].purged
         /\ openCalls[c].kind = "revoke" => \E x \in DOMAIN tombstones' : tombstones'[x].entry = openCalls[c].entry
<1> DEFINE tx == openCalls[c]
           t == [entry |-> tx.entry, access |-> FALSE, purged |-> FALSE]
<1>1. tombstones' = IF tx.kind # "revoke" THEN tombstones ELSE Append(tombstones, t)
  BY DEF CommitCall, RequestDeletion
<1>2. tx.entry \in Nat /\ tombstones \in Seq(Tombstones)
  BY MemoryFacts DEF Calls, MemoryInv, MemoryTypes
<1>3. t \in Tombstones /\ t.entry = tx.entry /\ ~t.access /\ ~t.purged
  BY <1>2 DEF Tombstones
<1> HIDE DEF t, tx
<1>4. CASE tx.kind # "revoke"
  BY <1>1, <1>2, <1>4 DEF tx
<1>5. CASE tx.kind = "revoke"
  <2>1. tombstones' = Append(tombstones, t)
    BY <1>1, <1>5
  <2>2. /\ tombstones' \in Seq(Tombstones) /\ Len(tombstones) \in Nat /\ DOMAIN tombstones = 1..Len(tombstones)
        /\ DOMAIN tombstones' = 1..(Len(tombstones) + 1) /\ tombstones'[Len(tombstones) + 1] = t
        /\ \A x \in 1..Len(tombstones) : tombstones'[x] = tombstones[x]
    BY <1>2, <1>3, <2>1
  <2>3. \A x \in DOMAIN tombstones' \ DOMAIN tombstones : x = Len(tombstones) + 1
    BY <2>2
  <2>4. Len(tombstones) + 1 \in DOMAIN tombstones' /\ DOMAIN tombstones \subseteq DOMAIN tombstones'
    BY <2>2
  <2> QED
    BY <1>3, <1>5, <2>2, <2>3, <2>4 DEF tx
<1> QED
  BY <1>4, <1>5

LEMMA MemoryCommitKeeps ==
  ASSUME MemoryInv, NEW c \in Callers, CommitCall(c)
  PROVE  MemoryInv'
<1> DEFINE tx == openCalls[c]
           wrote == Touched(tx) \cup {Len(entries) + k : k \in DOMAIN tx.draft}
<1>1. tx \in Calls /\ CallSound(tx, entries) /\ RowsSound(entries) /\ CommitsTo(tx, entries, entries')
  BY MemoryFacts, CommitShape
<1>2. /\ payloads' = payloads \cup {Len(entries) + k : k \in DOMAIN tx.draft}
      /\ openCalls' = [d \in Callers |-> IF d = c THEN NoCall
                                     ELSE IF openCalls[d] = NoCall THEN NoCall
                                     ELSE [openCalls[d] EXCEPT !.missed = @ \cup wrote]]
      /\ derived' = derived /\ callsMade' = callsMade
  BY DEF CommitCall
<1>3. wrote = Wrote(tx, entries) /\ wrote \subseteq Nat
  <2>1. wrote = Wrote(tx, entries)
    BY DEF Wrote, Touched, RowsReached, Ids
  <2>2. Touched(tx) \subseteq Nat /\ DOMAIN tx.draft \subseteq Nat /\ Len(entries) \in Nat
    BY <1>1, MemoryFacts DEF Touched, Calls
  <2> QED
    BY <2>1, <2>2
<1> HIDE DEF tx, wrote
<1>4. RowsSound(entries')
  BY <1>1, RowsCommit
<1>5. ASSUME NEW d \in Callers
      PROVE  openCalls'[d] \in Calls /\ CallSound(openCalls'[d], entries')
  <2>1. CASE d = c \/ openCalls[d] = NoCall
    <3>1. openCalls'[d] = NoCall
      BY <1>2, <2>1
    <3> QED
      BY <3>1, NoCallSound
  <2>2. CASE d # c /\ openCalls[d] # NoCall
    <3> DEFINE other == openCalls[d]
               later == [other EXCEPT !.missed = @ \cup wrote]
    <3>1. openCalls'[d] = later
      BY <1>2, <2>2
    <3>2. other \in Calls /\ CallSound(other, entries)
      BY MemoryFacts
    <3> HIDE DEF other
    <3>3. later = [kind |-> other.kind, entry |-> other.entry, reach |-> other.reach, draft |-> other.draft,
                   settled |-> other.settled, missed |-> other.missed \cup wrote]
      <4>1. ASSUME NEW o \in Calls, NEW m
            PROVE  [o EXCEPT !.missed = m] =
                     [kind |-> o.kind, entry |-> o.entry, reach |-> o.reach, draft |-> o.draft,
                      settled |-> o.settled, missed |-> m]
        BY DEF Calls
      <4>2. later = [other EXCEPT !.missed = other.missed \cup wrote]
        OBVIOUS
      <4> HIDE DEF later
      <4> QED
        BY <3>2, <4>1, <4>2
    <3>4. later \in Calls
      <4>1. other.missed \cup wrote \in SUBSET Nat
        BY <1>3, <3>2 DEF Calls
      <4> HIDE DEF later
      <4> QED
        BY <3>2, <3>3, <4>1 DEF Calls
    <3>5. /\ later.kind = other.kind /\ later.entry = other.entry /\ later.reach = other.reach
          /\ later.draft = other.draft /\ later.settled = other.settled
          /\ later.missed = other.missed \cup Wrote(tx, entries)
      <4> HIDE DEF later
      <4> QED
        BY <1>3, <3>3
    <3> HIDE DEF later
    <3>6. CallSound(later, entries')
      BY <1>1, <3>2, <3>5, OthersStaySound
    <3> QED
      BY <3>1, <3>4, <3>6
  <2> QED
    BY <2>1, <2>2
<1>6. openCalls' \in [Callers -> Calls]
  BY <1>2, <1>5
<1>7. Ids \subseteq Ids' /\ Ids = 1..Len(entries) /\ {Len(entries) + k : k \in DOMAIN tx.draft} \subseteq Ids' \ Ids
  <2>1. /\ Ids = 1..Len(entries) /\ Len(entries) \in Nat /\ Ids' = 1..(Len(entries) + Len(tx.draft))
        /\ DOMAIN tx.draft = 1..Len(tx.draft) /\ Len(tx.draft) \in Nat
    BY <1>1, MemoryFacts DEF CommitsTo, Calls, Ids
  <2> QED
    BY <2>1
<1>8. entries' \in Seq(EntryRows) /\ payloads' \subseteq Ids' /\ derived' \subseteq Ids' /\ callsMade' \in Nat
  BY <1>1, <1>2, <1>7 DEF CommitsTo, MemoryInv, MemoryTypes
<1>9. /\ tombstones' \in Seq(Tombstones) /\ DOMAIN tombstones \subseteq DOMAIN tombstones'
      /\ \A x \in DOMAIN tombstones : tombstones'[x] = tombstones[x]
      /\ \A x \in DOMAIN tombstones' \ DOMAIN tombstones :
           /\ tx.kind = "revoke" /\ tombstones'[x].entry = tx.entry
           /\ ~tombstones'[x].access /\ ~tombstones'[x].purged
      /\ tx.kind = "revoke" => \E x \in DOMAIN tombstones' : tombstones'[x].entry = tx.entry
  BY TombstonesCommit DEF tx
<1>10. tx.kind = "revoke" => tx.entry \in Ids
  BY <1>1 DEF CallSound, RevocationSound, Ids
<1>11. \A x \in DOMAIN tombstones' : tombstones'[x].entry \in Ids
  BY <1>9, <1>10 DEF MemoryInv
<1>12. \A x \in DOMAIN tombstones' :
         /\ tombstones'[x].access => tombstones'[x].entry \notin payloads'
         /\ tombstones'[x].purged => tombstones'[x].access
  <2> SUFFICES ASSUME NEW x \in DOMAIN tombstones'
               PROVE  /\ tombstones'[x].access => tombstones'[x].entry \notin payloads'
                      /\ tombstones'[x].purged => tombstones'[x].access
    OBVIOUS
  <2>1. CASE x \in DOMAIN tombstones
    BY <1>2, <1>7, <1>9, <1>11, <2>1 DEF MemoryInv, RevokedIsDeleted
  <2>2. CASE x \notin DOMAIN tombstones
    BY <1>9, <2>2
  <2> QED
    BY <2>1, <2>2
<1>13. ASSUME NEW i \in Ids', entries'[i].revokedAt > 0
       PROVE  \E x \in DOMAIN tombstones' : tombstones'[x].entry = i
  <2>1. CASE i \in DOMAIN entries
    <3>1. CASE tx.kind = "revoke" /\ i = tx.entry
      BY <1>9, <3>1
    <3>2. CASE ~(tx.kind = "revoke" /\ i = tx.entry)
      <4>1. entries'[i].revokedAt = entries[i].revokedAt
        BY <1>1, <2>1, <3>2, OldRow
      <4>2. PICK x \in DOMAIN tombstones : tombstones[x].entry = i
        BY <1>13, <2>1, <4>1 DEF MemoryInv, RevokedIsDeleted, Ids
      <4> QED
        BY <1>9, <4>2
    <3> QED
      BY <3>1, <3>2
  <2>2. CASE i \notin DOMAIN entries
    <3>1. entries'[i].revokedAt = 0
      BY <1>1, <2>2, CommitDomain DEF Ids, CallSound
    <3> QED
      BY <1>13, <3>1
  <2> QED
    BY <2>1, <2>2
<1>14. RevokedIsDeleted'
  <2>1. \A i \in Ids' : entries'[i].revokedAt > 0 => \E x \in DOMAIN tombstones' : tombstones'[x].entry = i
    BY <1>13
  <2> QED
    BY <1>12, <2>1, Zenon DEF RevokedIsDeleted
<1> QED
  BY <1>4, <1>5, <1>6, <1>7, <1>8, <1>9, <1>11, <1>14 DEF MemoryInv, MemoryTypes


LEMMA RollBackKeeps ==
  ASSUME MemoryInv, NEW c \in Callers, RollBackCall(c)
  PROVE  MemoryInv'
<1>1. /\ openCalls' = [openCalls EXCEPT ![c] = NoCall] /\ callsMade' \in Nat
      /\ UNCHANGED <<entries, tombstones, payloads, derived>>
  BY DEF RollBackCall, MemoryInv, MemoryTypes
<1> QED
  BY <1>1, NoCallSound, OpeningKeeps

LEMMA ExpiryKeeps ==
  ASSUME MemoryInv, NEW c \in Callers, ExpireStale(c)
  PROVE  MemoryInv'
<1> DEFINE stale == {i \in Ids : IsLive(i) /\ entries[i].expired}
<1>1. Look(c, "expire", 0, stale) /\ stale \subseteq Ids /\ "expire" \in DOMAIN EventStatus
  BY KindsOfEvent DEF ExpireStale
<1> HIDE DEF stale
<1> QED
  BY <1>1, LookKeeps

LEMMA EntryCallsKeep ==
  ASSUME MemoryInv, NEW c \in Callers, NEW i \in Ids,
         PromoteEntry(c, i) \/ QuarantineEntry(c, i) \/ RevokeEntry(c, i)
  PROVE  MemoryInv'
<1>1. CASE PromoteEntry(c, i)
  <2>1. /\ Look(c, "nominate", i, entries[i].supersedes) /\ entries[i].supersedes \subseteq Ids
        /\ HygieneClear(i) /\ "nominate" \in DOMAIN EventStatus
    BY <1>1, KindsOfEvent DEF PromoteEntry
  <2> QED
    BY <2>1, LookKeeps
<1>2. CASE QuarantineEntry(c, i)
  BY <1>2, KindsOfEvent, LookKeeps DEF QuarantineEntry
<1>3. CASE RevokeEntry(c, i)
  <2>1. /\ Look(c, "revoke", i, DependentLessons(i)) /\ "revoke" \in DOMAIN EventStatus
        /\ DependentLessons(i) \subseteq Ids
    BY <1>3, KindsOfEvent DEF RevokeEntry, DependentLessons
  <2> QED
    BY <2>1, LookKeeps
<1> QED
  BY <1>1, <1>2, <1>3

(* Rows that differ in nothing the invariant reads.                        *)
Alike(s, t) ==
  /\ DOMAIN t = DOMAIN s /\ Len(t) = Len(s)
  /\ \A i \in DOMAIN s : /\ t[i].statement = s[i].statement /\ t[i].parents = s[i].parents
                         /\ t[i].status = s[i].status /\ t[i].event = s[i].event
                         /\ t[i].revokedAt = s[i].revokedAt /\ t[i].missed = s[i].missed

LEMMA AlikeRowsSound ==
  ASSUME NEW s, NEW t, Alike(s, t), RowsSound(s)
  PROVE  RowsSound(t)
<1>1. ASSUME NEW i \in DOMAIN t, NEW j \in DOMAIN t
      PROVE  /\ Contradict(t, i, j) = Contradict(s, i, j) /\ Crossed(t, i, j) = Crossed(s, i, j)
             /\ Reverts(t, i, j) = Reverts(s, i, j) /\ LaterOrSeen(t, i, j) = LaterOrSeen(s, i, j)
             /\ Circulates(t[j]) = Circulates(s[j])
  BY DEF Alike, Contradict, Crossed, Reverts, LaterOrSeen, Circulates
<1>2. /\ \A i, j \in DOMAIN t : Contradict(t, i, j) => Crossed(t, i, j)
      /\ \A i, j \in DOMAIN t : Reverts(t, i, j) /\ Circulates(t[j]) => t[i].revokedAt < j \/ Crossed(t, i, j)
      /\ \A i, j \in DOMAIN t : Reverts(t, i, j) /\ t[j].status = "suggestion" => LaterOrSeen(t, i, j)
  BY <1>1 DEF RowsSound, Alike
<1>3. \A i \in DOMAIN t : /\ \/ t[i].status = EventStatus[t[i].event]
                             \/ t[i].event = "none" /\ t[i].status = "quarantined"
                             \/ i \in t[i].missed
                          /\ t[i].revokedAt <= Len(t)
  BY DEF RowsSound, Alike
<1> QED
  BY <1>2, <1>3 DEF RowsSound

LEMMA AlikeCallSound ==
  ASSUME NEW s, NEW t, NEW tx, Alike(s, t), CallSound(tx, s)
  PROVE  CallSound(tx, t)
<1>1. DOMAIN t = DOMAIN s /\ \A i \in DOMAIN s : Circulates(t[i]) = Circulates(s[i]) /\ t[i].statement = s[i].statement
  BY DEF Alike, Circulates
<1>2. CallShape(tx) /\ DraftSound(tx, t)
  BY <1>1 DEF CallSound, DraftSound
<1>3. NominationSound(tx, t)
  <2> SUFFICES ASSUME tx.kind = "nominate"
               PROVE  NominationSound(tx, t)
    BY DEF NominationSound
  <2>1. tx.entry \in DOMAIN t
    BY <1>1 DEF CallSound, NominationSound
  <2>2. \A i \in DOMAIN t : Reverts(t, i, tx.entry) => LaterOrSeen(t, i, tx.entry) \/ i \in tx.missed
    BY <1>1, <2>1 DEF CallSound, NominationSound, Reverts, LaterOrSeen, Alike
  <2>3. \A i \in DOMAIN t : i # tx.entry /\ Circulates(t[i]) /\ t[i].statement # t[tx.entry].statement
                             => i \in tx.missed
    BY <1>1, <2>1 DEF CallSound, NominationSound
  <2> QED
    BY <2>1, <2>2, <2>3 DEF NominationSound
<1>4. RevocationSound(tx, t)
  BY <1>1 DEF CallSound, RevocationSound, Alike
<1>5. SettledSound(tx, t)
  BY DEF CallSound, SettledSound, Alike
<1> QED
  BY <1>2, <1>3, <1>4, <1>5 DEF CallSound

LEMMA TtlKeeps ==
  ASSUME MemoryInv, NEW i \in Ids, TtlPasses(i)
  PROVE  MemoryInv'
<1>1. /\ entries' = [entries EXCEPT ![i].expired = TRUE]
      /\ UNCHANGED <<tombstones, payloads, derived, openCalls, callsMade>>
  BY DEF TtlPasses
<1>2. \A r \in EntryRows :
        LET q == [r EXCEPT !.expired = TRUE]
        IN  /\ q \in EntryRows /\ q.statement = r.statement /\ q.parents = r.parents /\ q.status = r.status
            /\ q.event = r.event /\ q.revokedAt = r.revokedAt /\ q.missed = r.missed
  BY DEF EntryRows
<1>3. entries \in Seq(EntryRows) /\ DOMAIN entries = Ids /\ entries[i] \in EntryRows
  BY MemoryFacts DEF Ids
<1>4. PICK r \in EntryRows : r = entries[i]
  BY <1>3
<1>5. PICK q \in EntryRows :
        /\ q = [r EXCEPT !.expired = TRUE] /\ q.statement = r.statement /\ q.parents = r.parents
        /\ q.status = r.status /\ q.event = r.event /\ q.revokedAt = r.revokedAt /\ q.missed = r.missed
  BY <1>2
<1>6. entries' = [entries EXCEPT ![i] = q]
  BY <1>1, <1>4, <1>5
<1>7. entries' \in Seq(EntryRows) /\ Alike(entries, entries')
  BY <1>3, <1>4, <1>5, <1>6 DEF Alike
<1>8. RowsSound(entries') /\ \A c \in Callers : CallSound(openCalls'[c], entries')
  BY <1>1, <1>7, AlikeRowsSound, AlikeCallSound DEF MemoryInv
<1>9. Ids' = Ids /\ \A j \in Ids : entries'[j].revokedAt = entries[j].revokedAt
  BY <1>7 DEF Alike, Ids
<1>10. MemoryTypes' /\ \A t \in DOMAIN tombstones' : tombstones'[t].entry \in Ids'
  BY <1>1, <1>7, <1>9 DEF MemoryInv, MemoryTypes
<1>11. RevokedIsDeleted'
  BY <1>1, <1>9 DEF MemoryInv, RevokedIsDeleted
<1> QED
  BY <1>8, <1>10, <1>11 DEF MemoryInv

LEMMA RegisteringKeeps ==
  ASSUME MemoryInv, NEW i \in Ids, RegisterDerivedData(i)
  PROVE  MemoryInv'
<1>1. /\ derived' = derived \cup {i} /\ callsMade' = callsMade + 1
      /\ UNCHANGED <<entries, tombstones, payloads, openCalls>>
  BY DEF RegisterDerivedData
<1>2. MemoryTypes'
  BY <1>1 DEF MemoryInv, MemoryTypes, Ids
<1> QED
  BY <1>1, <1>2 DEF MemoryInv, RevokedIsDeleted, Ids

(* A sweep keeps what each tombstone says and leaves the entries alone.    *)
LEMMA SweepStep ==
  ASSUME MemoryInv, UNCHANGED <<entries, openCalls, callsMade>>,
         payloads' \subseteq payloads, derived' \subseteq derived,
         tombstones' \in Seq(Tombstones), DOMAIN tombstones' = DOMAIN tombstones,
         \A t \in DOMAIN tombstones :
           /\ tombstones'[t].entry = tombstones[t].entry
           /\ tombstones'[t].access => tombstones'[t].entry \notin payloads'
           /\ tombstones'[t].purged => tombstones'[t].access
  PROVE  MemoryInv'
<1>1. Ids' = Ids
  BY DEF Ids
<1>2. MemoryTypes' /\ \A t \in DOMAIN tombstones' : tombstones'[t].entry \in Ids'
  BY <1>1 DEF MemoryInv, MemoryTypes
<1>3. RevokedIsDeleted'
  <2>1. \A i \in Ids : entries[i].revokedAt > 0 => \E t \in DOMAIN tombstones : tombstones'[t].entry = i
    BY DEF MemoryInv, RevokedIsDeleted
  <2> QED
    BY <1>1, <2>1 DEF RevokedIsDeleted
<1> QED
  BY <1>2, <1>3 DEF MemoryInv

LEMMA AccessSweepKeeps ==
  ASSUME MemoryInv, NEW n \in DOMAIN tombstones, AccessSweep(n)
  PROVE  MemoryInv'
<1> DEFINE due == {t \in 1..n : ~tombstones[t].access}
           Row(t) == [tombstones[t] EXCEPT !.access = @ \/ t \in due]
<1>1. /\ tombstones' = [t \in DOMAIN tombstones |-> Row(t)]
      /\ payloads' = payloads \ {tombstones[t].entry : t \in due}
      /\ derived' = derived /\ UNCHANGED <<entries, openCalls, callsMade>>
  BY DEF AccessSweep, RevokeAccess
<1>2. /\ tombstones \in Seq(Tombstones) /\ DOMAIN tombstones = 1..Len(tombstones)
      /\ \A t \in DOMAIN tombstones : tombstones[t] \in Tombstones
  BY DEF MemoryInv, MemoryTypes
<1> HIDE DEF due
<1>3. \A t \in DOMAIN tombstones :
        /\ Row(t) \in Tombstones /\ Row(t).entry = tombstones[t].entry
        /\ Row(t).purged <=> tombstones[t].purged
        /\ Row(t).access <=> (tombstones[t].access \/ t \in due)
  <2> SUFFICES ASSUME NEW t \in DOMAIN tombstones
               PROVE  /\ Row(t) \in Tombstones /\ Row(t).entry = tombstones[t].entry
                      /\ Row(t).purged <=> tombstones[t].purged
                      /\ Row(t).access <=> (tombstones[t].access \/ t \in due)
    OBVIOUS
  <2> DEFINE reached == t \in due
  <2>1. reached \in BOOLEAN
    OBVIOUS
  <2>2. Row(t) = [tombstones[t] EXCEPT !.access = @ \/ reached]
    OBVIOUS
  <2>4. tombstones[t] \in Tombstones
    BY <1>2
  <2> HIDE DEF reached, Row
  <2>3. /\ Row(t) \in Tombstones /\ Row(t).entry = tombstones[t].entry
        /\ Row(t).purged <=> tombstones[t].purged
        /\ Row(t).access <=> (tombstones[t].access \/ reached)
    BY <2>1, <2>2, <2>4 DEF Tombstones
  <2> QED BY <2>3 DEF reached
<1> HIDE DEF Row
<1>4. tombstones' \in Seq(Tombstones) /\ DOMAIN tombstones' = DOMAIN tombstones
  BY <1>1, <1>2, <1>3
<1>5. \A t \in DOMAIN tombstones :
        /\ tombstones'[t].entry = tombstones[t].entry
        /\ tombstones'[t].access => tombstones'[t].entry \notin payloads'
        /\ tombstones'[t].purged => tombstones'[t].access
  BY <1>1, <1>3 DEF MemoryInv, RevokedIsDeleted
<1> QED BY <1>1, <1>4, <1>5, SweepStep

LEMMA PurgeSweepKeeps ==
  ASSUME MemoryInv, NEW n \in DOMAIN tombstones, PurgeSweep(n)
  PROVE  MemoryInv'
<1> DEFINE Row(t) == [tombstones[t] EXCEPT !.purged = @ \/ t \in DueForPurge(n)]
<1>1. /\ tombstones' = [t \in DOMAIN tombstones |-> Row(t)]
      /\ derived' \subseteq derived /\ payloads' = payloads /\ UNCHANGED <<entries, openCalls, callsMade>>
  BY DEF PurgeSweep
<1>2. /\ tombstones \in Seq(Tombstones) /\ DOMAIN tombstones = 1..Len(tombstones)
      /\ \A t \in DOMAIN tombstones : tombstones[t] \in Tombstones
  BY DEF MemoryInv, MemoryTypes
<1>3. \A t \in DOMAIN tombstones :
        /\ Row(t) \in Tombstones /\ Row(t).entry = tombstones[t].entry
        /\ Row(t).access <=> tombstones[t].access
        /\ Row(t).purged <=> (tombstones[t].purged \/ t \in DueForPurge(n))
  <2> SUFFICES ASSUME NEW t \in DOMAIN tombstones
               PROVE  /\ Row(t) \in Tombstones /\ Row(t).entry = tombstones[t].entry
                      /\ Row(t).access <=> tombstones[t].access
                      /\ Row(t).purged <=> (tombstones[t].purged \/ t \in DueForPurge(n))
    OBVIOUS
  <2> DEFINE reached == t \in DueForPurge(n)
  <2>1. reached \in BOOLEAN
    OBVIOUS
  <2>2. Row(t) = [tombstones[t] EXCEPT !.purged = @ \/ reached]
    OBVIOUS
  <2>4. tombstones[t] \in Tombstones
    BY <1>2
  <2> HIDE DEF reached, Row
  <2>3. /\ Row(t) \in Tombstones /\ Row(t).entry = tombstones[t].entry
        /\ Row(t).access <=> tombstones[t].access
        /\ Row(t).purged <=> (tombstones[t].purged \/ reached)
    BY <2>1, <2>2, <2>4 DEF Tombstones
  <2> QED BY <2>3 DEF reached
<1> HIDE DEF Row
<1>4. tombstones' \in Seq(Tombstones) /\ DOMAIN tombstones' = DOMAIN tombstones
  BY <1>1, <1>2, <1>3
<1>5. \A t \in DOMAIN tombstones :
        /\ tombstones'[t].entry = tombstones[t].entry
        /\ tombstones'[t].access => tombstones'[t].entry \notin payloads'
        /\ tombstones'[t].purged => tombstones'[t].access
  BY <1>1, <1>3 DEF MemoryInv, RevokedIsDeleted, DueForPurge
<1> QED BY <1>1, <1>4, <1>5, SweepStep

(* What circulates can be believed and what was revoked does not come back *)
(* (memory/service.py, lineage/deletion.py) but where calls overlapped:    *)
(* any number of callers, entries and webs of evidence, their calls open   *)
(* for as long as they like, committing or rolling back in any order, with *)
(* the sweeps between them.                                                *)
THEOREM MemoryCorrect == MemorySpec => []MemoryIsSound
<1>1. MemoryInit => MemoryInv
  <2> SUFFICES ASSUME MemoryInit
               PROVE  MemoryInv
    OBVIOUS
  <2>1. \A c \in Callers : openCalls[c] \in Calls /\ CallSound(openCalls[c], entries)
    BY NoCallSound DEF MemoryInit
  <2>2. MemoryTypes /\ Ids = {} /\ DOMAIN tombstones = {}
    BY <2>1 DEF MemoryInit, MemoryTypes, Ids
  <2>3. RowsSound(entries)
    BY <2>2 DEF RowsSound, Ids
  <2> QED
    BY <2>1, <2>2, <2>3 DEF MemoryInv, RevokedIsDeleted
<1>2. MemoryInv /\ [MemoryNext]_memoryVars => MemoryInv'
  <2> SUFFICES ASSUME MemoryInv, [MemoryNext]_memoryVars
               PROVE  MemoryInv'
    OBVIOUS
  <2>1. CASE UNCHANGED memoryVars
    BY <2>1 DEF memoryVars, MemoryInv, MemoryTypes, RevokedIsDeleted, Ids
  <2>2. CASE MemoryNext
    <3>1. ASSUME NEW c \in Callers,
                 ProposeEntry(c) \/ ExpireStale(c) \/ CommitCall(c) \/ RollBackCall(c)
                   \/ \E i \in Ids : PromoteEntry(c, i) \/ QuarantineEntry(c, i) \/ RevokeEntry(c, i)
          PROVE  MemoryInv'
      BY <3>1, ProposalKeeps, ExpiryKeeps, MemoryCommitKeeps, RollBackKeeps, EntryCallsKeep
    <3>2. ASSUME NEW i \in Ids, TtlPasses(i) \/ RegisterDerivedData(i)
          PROVE  MemoryInv'
      BY <3>2, TtlKeeps, RegisteringKeeps
    <3>3. ASSUME NEW n \in DOMAIN tombstones, AccessSweep(n) \/ PurgeSweep(n)
          PROVE  MemoryInv'
      BY <3>3, AccessSweepKeeps, PurgeSweepKeeps
    <3> QED
      BY <2>2, <3>1, <3>2, <3>3 DEF MemoryNext
  <2> QED
    BY <2>1, <2>2
<1>3. MemoryInv => MemoryIsSound
  BY DEF MemoryInv, RowsSound, MemoryIsSound, ContradictionsOverlapped, RevocationReachesLessons,
         RowsFollowEvents, Contradict, Reverts, Circulates, Crossed, Overlapped, IsLive, Ids
<1> QED
  BY <1>1, <1>2, <1>3, PTL DEF MemorySpec

-----------------------------------------------------------------------------
(* Sealed holdouts.  Tokens are numbered as they are minted, and a handle  *)
(* is used, and named as a parent, only once it is there.                  *)
HandleSpec == HandleInit /\ [][HandleNext]_handleVars

HandleLinks ==
  /\ \A h \in DOMAIN handles : handles[h].token <= minted /\ handles[h].parent <= Len(handles)
  /\ \A i \in DOMAIN ledger : ledger[i].handle \in DOMAIN handles
HandleInv == HandleTypes /\ HandleLinks /\ HoldoutAccessIsEarned

(* who is not denied is an evaluator of the tenant *)
LEMMA NotDenied ==
  ASSUME NEW p \in Principals
  PROVE  /\ MutationDenial(p) \in {"role_not_evaluator", "tenant_mismatch", "none"}
         /\ MutationDenial(p) = "none" => p.role = "evaluator" /\ p.tenant = "own"
BY DEF MutationDenial, HasHoldoutAccess

LEMMA HandleFacts ==
  ASSUME HandleInv
  PROVE  /\ handles \in Seq(HandleRows) /\ DOMAIN handles = 1..Len(handles) /\ Len(handles) \in Nat
         /\ \A h \in DOMAIN handles : /\ handles[h] \in HandleRows /\ handles[h].token \in Nat
                                      /\ handles[h].spent \in Nat /\ handles[h].parent \in Nat
         /\ ledger \in Seq(LedgerRows) /\ DOMAIN ledger = 1..Len(ledger) /\ Len(ledger) \in Nat
         /\ minted \in Nat /\ known \subseteq 1..minted
<1>1. handles \in Seq(HandleRows) /\ ledger \in Seq(LedgerRows)
  BY DEF HandleInv, HandleTypes
<1>2. \A h \in DOMAIN handles : handles[h] \in HandleRows
  BY <1>1
<1> QED BY <1>1, <1>2 DEF HandleInv, HandleTypes, HandleRows

(* one row in the place of another *)
LEMMA RowReplaced ==
  ASSUME NEW S, NEW s \in Seq(S), NEW i \in DOMAIN s, NEW x \in S
  PROVE  /\ [s EXCEPT ![i] = x] \in Seq(S) /\ Len([s EXCEPT ![i] = x]) = Len(s)
         /\ DOMAIN [s EXCEPT ![i] = x] = DOMAIN s
         /\ \A j \in DOMAIN s : [s EXCEPT ![i] = x][j] = IF j = i THEN x ELSE s[j]
OBVIOUS

(* one more row on the ledger *)
LEMMA LedgerGrows ==
  ASSUME HandleInv, NEW row \in LedgerRows, ledger' = Append(ledger, row)
  PROVE  /\ ledger' \in Seq(LedgerRows) /\ Len(ledger') = Len(ledger) + 1
         /\ DOMAIN ledger' = DOMAIN ledger \cup {Len(ledger) + 1}
         /\ ledger'[Len(ledger) + 1] = row
         /\ \A i \in DOMAIN ledger : ledger'[i] = ledger[i] /\ i <= Len(ledger)
BY HandleFacts

LEMMA ChargedIsNat ==
  ASSUME HandleInv, NEW h
  PROVE  /\ IsFiniteSet({i \in DOMAIN ledger : ledger[i].handle = h /\ ledger[i].denial = "none"})
         /\ Charged(h) \in Nat
<1>1. IsFiniteSet(DOMAIN ledger)
  <2>1. DOMAIN ledger = 1..Len(ledger) /\ Len(ledger) \in Int /\ 1 \in Int
    BY HandleFacts
  <2> QED BY <2>1, FS_Interval
<1>2. IsFiniteSet({i \in DOMAIN ledger : ledger[i].handle = h /\ ledger[i].denial = "none"})
  BY <1>1, FS_Subset
<1> QED BY <1>2, FS_CardinalityType DEF Charged

(* it charges its handle when it grants, and no other *)
LEMMA ChargedAfter ==
  ASSUME HandleInv, NEW row \in LedgerRows, ledger' = Append(ledger, row), NEW h
  PROVE  Charged(h)' = IF row.handle = h /\ row.denial = "none" THEN Charged(h) + 1 ELSE Charged(h)
<1> DEFINE n == Len(ledger)
           before == {i \in DOMAIN ledger : ledger[i].handle = h /\ ledger[i].denial = "none"}
           after == {i \in DOMAIN ledger' : ledger'[i].handle = h /\ ledger'[i].denial = "none"}
<1>1. /\ DOMAIN ledger' = DOMAIN ledger \cup {n + 1} /\ ledger'[n + 1] = row
      /\ \A i \in DOMAIN ledger : ledger'[i] = ledger[i] /\ i <= n
  BY LedgerGrows
<1>2. IsFiniteSet(before) /\ n + 1 \notin before
  <2>1. IsFiniteSet(before)
    BY ChargedIsNat
  <2>2. n \in Nat
    BY HandleFacts
  <2> QED BY <1>1, <2>1, <2>2
<1>3. Charged(h) = Cardinality(before) /\ Charged(h)' = Cardinality(after)
  BY DEF Charged
<1>4. CASE row.handle = h /\ row.denial = "none"
  <2>1. after = before \cup {n + 1}
    BY <1>1, <1>4
  <2> HIDE DEF n, before, after
  <2> QED BY <1>2, <1>3, <1>4, <2>1, FS_AddElement, ZenonT(60), SMTT(30)
<1>5. CASE ~(row.handle = h /\ row.denial = "none")
  <2>1. after = before
    BY <1>1, <1>5
  <2> HIDE DEF before, after
  <2> QED BY <1>3, <1>5, <2>1
<1> QED BY <1>4, <1>5

(* what is billed to a handle depends on the ledger alone *)
LEMMA ChargedStays ==
  ASSUME UNCHANGED ledger, NEW h
  PROVE  Charged(h)' = Charged(h)
BY DEF Charged

(* a denial: a row that costs nothing, on a handle whose token was shown *)
LEMMA DenialKeeps ==
  ASSUME HandleInv, NEW p \in Principals, NEW t \in known, NEW h \in HandlesOf(t),
         NEW denial \in {"role_not_evaluator", "tenant_mismatch", "handle_revoked",
                         "handle_expired", "alpha_budget_exhausted"},
         Deny(p, h, denial),
         UNCHANGED <<partitions, handles, minted, known, disclosed, derive, evaluating, evidence>>
  PROVE  HandleInv'
<1> DEFINE row == LedgerRow(p, h, denial, 0)
           n == Len(ledger)
<1>1. h \in DOMAIN handles /\ handles[h].token = t
  BY DEF HandlesOf
<1>2. /\ row \in LedgerRows /\ row.handle = h /\ row.denial = denial
  <2>1. AlphaRemaining(h) - 0 \in Int
    BY <1>1, HandleFacts, HandleAssumption DEF AlphaRemaining, HandleAssumption
  <2> QED BY <1>1, <2>1, HandleFacts DEF LedgerRow, LedgerRows
<1>3. ledger' = Append(ledger, row)
  BY DEF Deny
<1> HIDE DEF row
<1>4. /\ ledger' \in Seq(LedgerRows) /\ Len(ledger') = n + 1
      /\ DOMAIN ledger' = DOMAIN ledger \cup {n + 1} /\ ledger'[n + 1] = row
      /\ \A i \in DOMAIN ledger : ledger'[i] = ledger[i] /\ i <= n
  BY <1>2, <1>3, LedgerGrows
<1>5. \A g : Charged(g)' = Charged(g)
  BY <1>2, <1>3, ChargedAfter
<1>6. HandleTypes'
  BY <1>4, HandleFacts DEF HandleInv, HandleTypes
<1>7. HandleLinks'
  BY <1>1, <1>2, <1>4 DEF HandleInv, HandleLinks
<1>8. LedgerMatchesBudget'
  <2>1. \A d \in disclosed : d[2] \in DOMAIN ledger' /\ ledger'[d[2]] = ledger[d[2]]
    BY <1>4 DEF HandleInv, HoldoutAccessIsEarned, LedgerMatchesBudget
  <2> QED BY <1>5, <2>1 DEF HandleInv, HoldoutAccessIsEarned, LedgerMatchesBudget
<1>9. HandoffRetiresParent'
  <2>1. ASSUME NEW i \in DOMAIN ledger', NEW j \in DOMAIN ledger',
               ledger'[i].handle = handles[ledger'[j].handle].parent
        PROVE  i < j
    <3>1. CASE i \in DOMAIN ledger /\ j \in DOMAIN ledger
      BY <1>4, <2>1, <3>1 DEF HandleInv, HoldoutAccessIsEarned, HandoffRetiresParent
    <3>2. CASE i \in DOMAIN ledger /\ j = n + 1
      BY <1>4, <3>2, HandleFacts
    <3>3. CASE i = n + 1
      <4>1. handles[ledger'[j].handle].parent = h /\ ledger'[j].handle \in DOMAIN handles
        BY <1>1, <1>2, <1>4, <2>1, <3>3 DEF HandleInv, HandleLinks
      <4>2. handles[h].token \notin known
        BY <1>1, <4>1 DEF HandleInv, HoldoutAccessIsEarned, HandoffRetiresParent
      <4> QED BY <1>1, <4>2
    <3> QED BY <1>4, <3>1, <3>2, <3>3
  <2> QED BY <2>1 DEF HandleInv, HoldoutAccessIsEarned, HandoffRetiresParent
<1> QED BY <1>6, <1>7, <1>8, <1>9 DEF HandleInv, HoldoutAccessIsEarned

(* a step that leaves the ledger and every budget as they are, and shows    *)
(* nobody a token of a retired parent                                      *)
LEMMA HandleStep ==
  ASSUME HandleInv, UNCHANGED <<ledger, disclosed>>, partitions' \subseteq {"holdout"},
         handles' \in Seq(HandleRows), Len(handles') = Len(handles),
         \A h \in DOMAIN handles : /\ handles'[h].spent = handles[h].spent
                                   /\ handles'[h].parent = handles[h].parent
                                   /\ handles'[h].token <= minted',
         minted' \in Nat, known' \subseteq 1..minted', derive' \in 0..Len(handles),
         \A h \in DOMAIN handles :
           h = derive' \/ (\E g \in DOMAIN handles : handles[g].parent = h) => handles'[h].token \notin known',
         evaluating' \in {0, evaluating}, evidence' \subseteq evidence \cup ({evaluating} \ {0})
  PROVE  HandleInv'
<1>1. DOMAIN handles' = DOMAIN handles
  BY HandleFacts
<1>2. HandleTypes'
  BY HandleFacts DEF HandleInv, HandleTypes
<1>3. HandleLinks'
  BY <1>1 DEF HandleInv, HandleLinks
<1>4. LedgerMatchesBudget'
  <2>1. \A h \in DOMAIN handles : /\ handles'[h].spent = Charged(h)' * AlphaPerQuery
                                  /\ handles'[h].spent <= AlphaTotal
    BY ChargedStays DEF HandleInv, HoldoutAccessIsEarned, LedgerMatchesBudget
  <2> QED BY <1>1, <2>1 DEF HandleInv, HoldoutAccessIsEarned, LedgerMatchesBudget
<1>5. HandoffRetiresParent'
  <2>1. \A h \in DOMAIN handles' :
          h = derive' \/ (\E g \in DOMAIN handles' : handles'[g].parent = h) => handles'[h].token \notin known'
    BY <1>1
  <2>2. \A i, j \in DOMAIN ledger : ledger[i].handle = handles'[ledger[j].handle].parent => i < j
    BY DEF HandleInv, HandleLinks, HoldoutAccessIsEarned, HandoffRetiresParent
  <2> QED BY <2>1, <2>2 DEF HandoffRetiresParent
<1> QED BY <1>2, <1>3, <1>4, <1>5 DEF HandleInv, HoldoutAccessIsEarned

(* a granted resolution: the charge, the row and the disclosure at once *)
LEMMA GrantKeeps ==
  ASSUME HandleInv, NEW p \in Principals, NEW t \in known, NEW h \in HandlesOf(t), Denial(p, h) = "none",
         NEW billed \in HandleRows, billed.token = handles[h].token, billed.parent = handles[h].parent,
         billed.spent = handles[h].spent + AlphaPerQuery, handles' = [handles EXCEPT ![h] = billed],
         ledger' = Append(ledger, LedgerRow(p, h, "none", AlphaPerQuery)),
         disclosed' = disclosed \cup {<<p, Len(ledger')>>}, evaluating' \in {evaluating, Len(ledger')},
         UNCHANGED <<partitions, minted, known, derive, evidence>>
  PROVE  HandleInv'
<1> DEFINE row == LedgerRow(p, h, "none", AlphaPerQuery)
<1>0. PICK n \in Nat : n = Len(ledger)
  BY HandleFacts
<1>1. /\ h \in DOMAIN handles /\ handles[h].token = t /\ handles[h] \in HandleRows
      /\ AlphaTotal \in Nat /\ AlphaPerQuery \in Nat
  BY HandleFacts, HandleAssumption DEF HandlesOf, HandleAssumption
<1>2. MutationDenial(p) = "none" /\ AlphaPerQuery <= AlphaTotal - handles[h].spent
  <2>1. MutationDenial(p) = "none" /\ ~(AlphaRemaining(h) < AlphaPerQuery)
    BY DEF Denial
  <2> QED BY <1>1, <2>1, HandleFacts DEF AlphaRemaining
<1>3. row \in LedgerRows /\ row.handle = h /\ row.denial = "none" /\ row.caller = p
  <2>1. AlphaRemaining(h) - AlphaPerQuery \in Int
    BY <1>1, HandleFacts DEF AlphaRemaining
  <2> QED BY <1>1, <2>1, HandleFacts DEF LedgerRow, LedgerRows
<1>4. billed.token = t
  BY <1>1
<1>5. ledger' = Append(ledger, row)
  OBVIOUS
<1> HIDE DEF row
<1>6. /\ ledger' \in Seq(LedgerRows) /\ Len(ledger') = n + 1
      /\ DOMAIN ledger' = DOMAIN ledger \cup {n + 1} /\ ledger'[n + 1] = row
      /\ \A i \in DOMAIN ledger : ledger'[i] = ledger[i] /\ i <= n
  BY <1>0, <1>3, <1>5, LedgerGrows
<1>7. /\ handles' \in Seq(HandleRows) /\ Len(handles') = Len(handles) /\ DOMAIN handles' = DOMAIN handles
      /\ \A g \in DOMAIN handles : handles'[g] = IF g = h THEN billed ELSE handles[g]
  <2>1. handles \in Seq(HandleRows) /\ h \in DOMAIN handles
    BY <1>1, HandleFacts
  <2> QED BY <2>1, RowReplaced
<1>8. \A g \in DOMAIN handles : handles'[g].token = handles[g].token /\ handles'[g].parent = handles[g].parent
  BY <1>1, <1>4, <1>7
<1>9. \A g : Charged(g)' = IF g = h THEN Charged(g) + 1 ELSE Charged(g)
  BY <1>3, <1>5, ChargedAfter
<1>10. HandleTypes'
  <2>1. disclosed' \subseteq Principals \X Nat
    BY <1>6 DEF HandleInv, HandleTypes
  <2>2. evaluating' \in 0..Len(ledger') /\ evidence' \subseteq 1..Len(ledger')
    BY <1>0, <1>6 DEF HandleInv, HandleTypes
  <2> QED BY <1>6, <1>7, <2>1, <2>2 DEF HandleInv, HandleTypes
<1>11. HandleLinks'
  BY <1>1, <1>3, <1>6, <1>7, <1>8 DEF HandleInv, HandleLinks
<1>12. LedgerMatchesBudget'
  <2>1. ASSUME NEW g \in DOMAIN handles
        PROVE  handles'[g].spent = Charged(g)' * AlphaPerQuery /\ handles'[g].spent <= AlphaTotal
    <3>1. /\ handles[g].spent = Charged(g) * AlphaPerQuery /\ handles[g].spent <= AlphaTotal
          /\ Charged(g) \in Nat /\ handles[g].spent \in Nat
      BY <2>1, ChargedIsNat, HandleFacts DEF HandleInv, HoldoutAccessIsEarned, LedgerMatchesBudget
    <3>2. CASE g = h
      <4>1. handles'[g].spent = handles[g].spent + AlphaPerQuery /\ Charged(g)' = Charged(g) + 1
        BY <1>4, <1>7, <1>9, <2>1, <3>2
      <4>2. (Charged(g) + 1) * AlphaPerQuery = Charged(g) * AlphaPerQuery + AlphaPerQuery
        BY <1>1, <3>1
      <4> QED BY <1>1, <1>2, <3>1, <3>2, <4>1, <4>2
    <3>3. CASE g # h
      BY <1>7, <1>9, <2>1, <3>1, <3>3
    <3> QED BY <3>2, <3>3
  <2>2. ASSUME NEW d \in disclosed'
        PROVE  /\ d[2] \in DOMAIN ledger' /\ ledger'[d[2]].denial = "none" /\ ledger'[d[2]].caller = d[1]
               /\ d[1].role = "evaluator" /\ d[1].tenant = "own"
    <3>1. CASE d \in disclosed
      BY <1>6, <3>1 DEF HandleInv, HoldoutAccessIsEarned, LedgerMatchesBudget
    <3>2. CASE d = <<p, n + 1>>
      <4>1. d[1] = p /\ d[2] = n + 1
        BY <3>2
      <4> QED BY <1>2, <1>3, <1>6, <4>1, NotDenied
    <3> QED BY <1>6, <2>2, <3>1, <3>2
  <2>3. evidence' \cup ({evaluating'} \ {0}) \subseteq {d[2] : d \in disclosed'}
    <3>1. evidence \cup ({evaluating} \ {0}) \subseteq {d[2] : d \in disclosed}
      BY DEF HandleInv, HoldoutAccessIsEarned, LedgerMatchesBudget
    <3>2. n + 1 \in {d[2] : d \in disclosed'}
      <4>1. <<p, n + 1>> \in disclosed' /\ <<p, n + 1>>[2] = n + 1
        BY <1>6
      <4> QED BY <4>1
    <3> QED BY <1>6, <3>1, <3>2
  <2> QED BY <1>7, <2>1, <2>2, <2>3 DEF LedgerMatchesBudget
<1>13. HandoffRetiresParent'
  <2>1. \A g \in DOMAIN handles' :
          g = derive \/ (\E c \in DOMAIN handles' : handles'[c].parent = g) => handles'[g].token \notin known
    BY <1>7, <1>8 DEF HandleInv, HoldoutAccessIsEarned, HandoffRetiresParent
  <2>2. ASSUME NEW i \in DOMAIN ledger', NEW j \in DOMAIN ledger',
               ledger'[i].handle = handles'[ledger'[j].handle].parent
        PROVE  i < j
    <3>1. /\ ledger'[j].handle \in DOMAIN handles
          /\ ledger'[i].handle = handles[ledger'[j].handle].parent
      BY <1>1, <1>3, <1>6, <1>8, <2>2 DEF HandleInv, HandleLinks
    <3>2. CASE i \in DOMAIN ledger /\ j \in DOMAIN ledger
      BY <1>6, <3>1, <3>2 DEF HandleInv, HoldoutAccessIsEarned, HandoffRetiresParent
    <3>3. CASE i \in DOMAIN ledger /\ j = n + 1
      BY <1>6, <3>3, HandleFacts
    <3>4. CASE i = n + 1
      <4>1. handles[ledger'[j].handle].parent = h
        BY <1>3, <1>6, <3>1, <3>4
      <4>2. handles[h].token \notin known
        BY <1>1, <3>1, <4>1 DEF HandleInv, HoldoutAccessIsEarned, HandoffRetiresParent
      <4> QED BY <1>1, <4>2
    <3> QED BY <1>6, <3>2, <3>3, <3>4
  <2> QED BY <2>1, <2>2 DEF HandoffRetiresParent
<1> QED BY <1>10, <1>11, <1>12, <1>13 DEF HandleInv, HoldoutAccessIsEarned

(* a new handle: nothing is billed to it, and its token is nobody's yet *)
LEMMA InsertKeeps ==
  ASSUME HandleInv, NEW parent \in {0, derive}, Insert(parent), derive' \in {0, derive},
         parent = 0 => derive' = derive, parent # 0 => derive' = 0,
         UNCHANGED <<partitions, ledger, disclosed, evaluating, evidence>>
  PROVE  HandleInv'
<1> DEFINE row == NewHandle(parent)
<1>0. PICK n \in Nat : n = Len(handles)
  BY HandleFacts
<1>1. /\ handles' = Append(handles, row) /\ minted' = minted + 1 /\ known' = known \cup {minted + 1}
      /\ derive \in 0..n
  BY <1>0 DEF Insert, HandleInv, HandleTypes
<1>2. /\ row \in HandleRows /\ row.token = minted + 1 /\ row.spent = 0 /\ row.parent = parent
      /\ parent \in 0..n
  BY <1>1, HandleFacts DEF NewHandle, HandleRows
<1> HIDE DEF row
<1>3. /\ handles' \in Seq(HandleRows) /\ Len(handles') = n + 1 /\ handles'[n + 1] = row
      /\ DOMAIN handles' = DOMAIN handles \cup {n + 1}
      /\ \A h \in DOMAIN handles : handles'[h] = handles[h] /\ h <= n
  BY <1>0, <1>1, <1>2, HandleFacts
<1>4. HandleTypes'
  BY <1>1, <1>2, <1>3, HandleFacts, SMTT(30), ZenonT(60) DEF HandleInv, HandleTypes
<1>5. HandleLinks'
  <2>1. \A h \in DOMAIN handles' : handles'[h].token <= minted' /\ handles'[h].parent <= Len(handles')
    <3>1. \A h \in DOMAIN handles : /\ handles[h].token <= minted /\ handles[h].parent <= n
                                    /\ handles[h].token \in Nat /\ handles[h].parent \in Nat
      BY <1>0, HandleFacts DEF HandleInv, HandleLinks
    <3> QED BY <1>1, <1>2, <1>3, <3>1, HandleFacts
  <2> QED BY <1>3, <2>1 DEF HandleInv, HandleLinks
<1>6. LedgerMatchesBudget'
  <2>1. Charged(n + 1) = 0
    <3>1. {i \in DOMAIN ledger : ledger[i].handle = n + 1 /\ ledger[i].denial = "none"} = {}
      BY <1>3, HandleFacts DEF HandleInv, HandleLinks
    <3> QED BY <3>1, FS_EmptySet DEF Charged
  <2>2. \A h : Charged(h)' = Charged(h)
    BY ChargedStays
  <2>3. 0 * AlphaPerQuery = 0 /\ 0 <= AlphaTotal
    BY HandleAssumption DEF HandleAssumption
  <2>4. \A h \in DOMAIN handles' : handles'[h].spent = Charged(h)' * AlphaPerQuery /\ handles'[h].spent <= AlphaTotal
    <3> SUFFICES ASSUME NEW h \in DOMAIN handles'
                 PROVE  handles'[h].spent = Charged(h) * AlphaPerQuery /\ handles'[h].spent <= AlphaTotal
      BY <2>2
    <3>1. CASE h \in DOMAIN handles
      BY <1>3, <3>1 DEF HandleInv, HoldoutAccessIsEarned, LedgerMatchesBudget
    <3>2. CASE h = n + 1
      BY <1>2, <1>3, <2>1, <2>3, <3>2
    <3> QED BY <1>3, <3>1, <3>2
  <2> QED BY <2>4 DEF HandleInv, HoldoutAccessIsEarned, LedgerMatchesBudget
<1>7. HandoffRetiresParent'
  <2>1. ASSUME NEW h \in DOMAIN handles',
               h = derive' \/ (\E g \in DOMAIN handles' : handles'[g].parent = h)
        PROVE  handles'[h].token \notin known'
    <3>1. h \in DOMAIN handles /\ (h = derive \/ \E g \in DOMAIN handles : handles[g].parent = h)
      <4>1. \A g \in DOMAIN handles : handles[g].parent <= n /\ handles[g].parent \in Nat
        BY <1>0, HandleFacts DEF HandleInv, HandleLinks
      <4>2. h # n + 1
        BY <1>1, <1>2, <1>3, <2>1, <4>1
      <4>3. h # 0
        BY <1>3, <2>1, <4>2, HandleFacts
      <4> QED BY <1>2, <1>3, <2>1, <4>2, <4>3
    <3>2. handles[h].token \notin known
      BY <3>1 DEF HandleInv, HoldoutAccessIsEarned, HandoffRetiresParent
    <3>3. handles[h].token # minted + 1
      <4>1. handles[h].token <= minted /\ handles[h].token \in Nat /\ minted \in Nat
        BY <3>1, HandleFacts DEF HandleInv, HandleLinks
      <4> QED BY <4>1
    <3> QED BY <1>1, <1>3, <3>1, <3>2, <3>3
  <2>2. \A i, j \in DOMAIN ledger : ledger[i].handle = handles'[ledger[j].handle].parent => i < j
    BY <1>3 DEF HandleInv, HandleLinks, HoldoutAccessIsEarned, HandoffRetiresParent
  <2> QED BY <2>1, <2>2 DEF HandoffRetiresParent
<1> QED BY <1>4, <1>5, <1>6, <1>7 DEF HandleInv, HoldoutAccessIsEarned

(* what the updates make of a handle's row *)
LEMMA RowRevoked ==
  ASSUME NEW row \in HandleRows
  PROVE  /\ [row EXCEPT !.revoked = TRUE] \in HandleRows
         /\ [row EXCEPT !.revoked = TRUE].token = row.token
         /\ [row EXCEPT !.revoked = TRUE].spent = row.spent
         /\ [row EXCEPT !.revoked = TRUE].parent = row.parent
BY DEF HandleRows

LEMMA RowExpired ==
  ASSUME NEW row \in HandleRows
  PROVE  /\ [row EXCEPT !.expired = TRUE] \in HandleRows
         /\ [row EXCEPT !.expired = TRUE].token = row.token
         /\ [row EXCEPT !.expired = TRUE].spent = row.spent
         /\ [row EXCEPT !.expired = TRUE].parent = row.parent
BY DEF HandleRows

LEMMA RowCharged ==
  ASSUME NEW row \in HandleRows, AlphaPerQuery \in Nat
  PROVE  /\ [row EXCEPT !.spent = @ + AlphaPerQuery] \in HandleRows
         /\ [row EXCEPT !.spent = @ + AlphaPerQuery].token = row.token
         /\ [row EXCEPT !.spent = @ + AlphaPerQuery].spent = row.spent + AlphaPerQuery
         /\ [row EXCEPT !.spent = @ + AlphaPerQuery].parent = row.parent
BY DEF HandleRows

LEMMA RowRotated ==
  ASSUME NEW h, handles[h] \in HandleRows, minted \in Nat
  PROVE  /\ Rotated(h) \in HandleRows /\ Rotated(h).token = minted + 1
         /\ Rotated(h).spent = handles[h].spent /\ Rotated(h).parent = handles[h].parent
<1>1. PICK row \in HandleRows : row = handles[h]
  OBVIOUS
<1>2. PICK token \in Nat : token = minted + 1
  OBVIOUS
<1> DEFINE fresh == [row EXCEPT !.token = token]
           unexpired == [fresh EXCEPT !.expired = FALSE]
           renewed == [unexpired EXCEPT !.revoked = FALSE]
<1>3. fresh \in HandleRows /\ fresh.token = token /\ fresh.spent = row.spent /\ fresh.parent = row.parent
  BY DEF HandleRows
<1> HIDE DEF fresh
<1>4. /\ unexpired \in HandleRows /\ unexpired.token = token
      /\ unexpired.spent = row.spent /\ unexpired.parent = row.parent
  BY <1>3 DEF HandleRows
<1> HIDE DEF unexpired
<1>5. /\ renewed \in HandleRows /\ renewed.token = token
      /\ renewed.spent = row.spent /\ renewed.parent = row.parent
  BY <1>4 DEF HandleRows
<1>6. Rotated(h) = renewed
  BY <1>1, <1>2 DEF Rotated, unexpired, fresh
<1> HIDE DEF renewed
<1> QED BY <1>1, <1>2, <1>5, <1>6

(* one handle changes, neither its budget nor its parent *)
LEMMA OneHandleKeeps ==
  ASSUME HandleInv, UNCHANGED <<ledger, disclosed, partitions, evaluating, evidence>>,
         NEW h \in DOMAIN handles, NEW row \in HandleRows, handles' = [handles EXCEPT ![h] = row],
         row.spent = handles[h].spent, row.parent = handles[h].parent,
         \/ row.token = handles[h].token /\ UNCHANGED <<minted, known, derive>>
         \/ /\ row.token = minted + 1 /\ minted' = minted + 1
            /\ \/ known' = known \cup {minted + 1} /\ handles[h].token \in known /\ UNCHANGED derive
               \/ known' = known /\ handles[h].token \in known /\ derive' = h
  PROVE  HandleInv'
<1>1. /\ handles' \in Seq(HandleRows) /\ Len(handles') = Len(handles)
      /\ \A g \in DOMAIN handles : handles'[g] = IF g = h THEN row ELSE handles[g]
  <2>1. handles \in Seq(HandleRows)
    BY HandleFacts
  <2> QED BY <2>1, RowReplaced
<1>2. minted \in Nat /\ known \subseteq 1..minted /\ minted' \in Nat /\ known' \subseteq 1..minted'
  BY HandleFacts
<1>3. \A g \in DOMAIN handles : handles[g].token <= minted /\ handles[g].token \in Nat
  BY HandleFacts DEF HandleInv, HandleLinks
<1>4. \A g \in DOMAIN handles : /\ handles'[g].spent = handles[g].spent
                                /\ handles'[g].parent = handles[g].parent
                                /\ handles'[g].token <= minted'
  BY <1>1, <1>2, <1>3
<1>5. derive' \in 0..Len(handles)
  BY HandleFacts DEF HandleInv, HandleTypes
<1>6. ASSUME NEW g \in DOMAIN handles,
             g = derive' \/ (\E c \in DOMAIN handles : handles[c].parent = g)
      PROVE  handles'[g].token \notin known'
  <2>1. CASE row.token = handles[h].token /\ UNCHANGED <<minted, known, derive>>
    BY <1>1, <1>6, <2>1 DEF HandleInv, HoldoutAccessIsEarned, HandoffRetiresParent
  <2>2. CASE /\ row.token = minted + 1 /\ minted' = minted + 1
             /\ known' = known \cup {minted + 1} /\ handles[h].token \in known /\ UNCHANGED derive
    <3>1. handles[g].token \notin known
      BY <1>6, <2>2 DEF HandleInv, HoldoutAccessIsEarned, HandoffRetiresParent
    <3>2. g # h /\ handles[g].token # minted + 1
      BY <1>2, <1>3, <2>2, <3>1
    <3> QED BY <1>1, <2>2, <3>1, <3>2
  <2>3. CASE /\ row.token = minted + 1 /\ minted' = minted + 1
             /\ known' = known /\ handles[h].token \in known /\ derive' = h
    <3>1. CASE g = h
      BY <1>1, <1>2, <2>3, <3>1
    <3>2. CASE g # h
      <4>1. handles[g].token \notin known
        BY <1>6, <2>3, <3>2 DEF HandleInv, HoldoutAccessIsEarned, HandoffRetiresParent
      <4> QED BY <1>1, <2>3, <3>2, <4>1
    <3> QED BY <3>1, <3>2
  <2> QED BY <2>1, <2>2, <2>3
<1>7. partitions' \subseteq {"holdout"}
  BY DEF HandleInv, HandleTypes
<1> QED BY <1>1, <1>2, <1>4, <1>5, <1>6, <1>7, HandleStep

LEMMA ResolutionKeeps ==
  ASSUME HandleInv, NEW p \in Principals, NEW t \in known, NEW evaluate \in BOOLEAN, Resolve(p, t, evaluate)
  PROVE  HandleInv'
<1>0. UNCHANGED <<partitions, minted, known, derive, evidence>>
  BY DEF Resolve
<1>1. PICK h \in HandlesOf(t) :
        \/ /\ Denial(p, h) # "none" /\ Deny(p, h, Denial(p, h))
           /\ UNCHANGED <<handles, disclosed, evaluating>>
        \/ /\ Denial(p, h) = "none"
           /\ handles' = [handles EXCEPT ![h] = [handles[h] EXCEPT !.spent = @ + AlphaPerQuery]]
           /\ ledger' = Append(ledger, LedgerRow(p, h, "none", AlphaPerQuery))
           /\ disclosed' = disclosed \cup {<<p, Len(ledger')>>}
           /\ evaluating' = IF evaluate THEN Len(ledger') ELSE evaluating
  BY DEF Resolve
<1>2. h \in DOMAIN handles /\ AlphaPerQuery \in Nat
  BY HandleAssumption DEF HandlesOf, HandleAssumption
<1>3. CASE /\ Denial(p, h) # "none" /\ Deny(p, h, Denial(p, h))
           /\ UNCHANGED <<handles, disclosed, evaluating>>
  <2>1. Denial(p, h) \in {"role_not_evaluator", "tenant_mismatch", "handle_revoked",
                          "handle_expired", "alpha_budget_exhausted"}
    BY <1>3, NotDenied DEF Denial
  <2> QED BY <1>0, <1>3, <2>1, DenialKeeps
<1>4. CASE /\ Denial(p, h) = "none"
           /\ handles' = [handles EXCEPT ![h] = [handles[h] EXCEPT !.spent = @ + AlphaPerQuery]]
           /\ ledger' = Append(ledger, LedgerRow(p, h, "none", AlphaPerQuery))
           /\ disclosed' = disclosed \cup {<<p, Len(ledger')>>}
           /\ evaluating' = IF evaluate THEN Len(ledger') ELSE evaluating
  <2> DEFINE billed == [handles[h] EXCEPT !.spent = @ + AlphaPerQuery]
  <2>1. /\ billed \in HandleRows /\ billed.token = handles[h].token /\ billed.parent = handles[h].parent
        /\ billed.spent = handles[h].spent + AlphaPerQuery
    BY <1>2, HandleFacts, RowCharged
  <2>2. handles' = [handles EXCEPT ![h] = billed]
    BY <1>4
  <2>3. evaluating' \in {evaluating, Len(ledger')}
    BY <1>4
  <2> HIDE DEF billed
  <2> QED BY <1>0, <1>4, <2>1, <2>2, <2>3, GrantKeeps
<1> QED BY <1>1, <1>3, <1>4

LEMMA RotationKeeps ==
  ASSUME HandleInv, NEW p \in Principals, NEW t \in known, RotateHandle(p, t)
  PROVE  HandleInv'
<1>0. UNCHANGED <<partitions, disclosed, derive, evaluating, evidence>>
  BY DEF RotateHandle
<1>1. PICK h \in HandlesOf(t) :
        \/ /\ MutationDenial(p) # "none" /\ Deny(p, h, MutationDenial(p))
           /\ UNCHANGED <<handles, minted, known>>
        \/ /\ handles' = [handles EXCEPT ![h] = Rotated(h)]
           /\ minted' = minted + 1 /\ known' = known \cup {minted'} /\ UNCHANGED ledger
  BY DEF RotateHandle
<1>2. h \in DOMAIN handles /\ handles[h].token = t
  BY DEF HandlesOf
<1>3. CASE /\ MutationDenial(p) # "none" /\ Deny(p, h, MutationDenial(p))
           /\ UNCHANGED <<handles, minted, known>>
  <2>1. MutationDenial(p) \in {"role_not_evaluator", "tenant_mismatch", "handle_revoked",
                               "handle_expired", "alpha_budget_exhausted"}
    BY <1>3, NotDenied
  <2> QED BY <1>0, <1>3, <2>1, DenialKeeps
<1>4. CASE /\ handles' = [handles EXCEPT ![h] = Rotated(h)]
           /\ minted' = minted + 1 /\ known' = known \cup {minted'} /\ UNCHANGED ledger
  <2>1. /\ Rotated(h) \in HandleRows /\ Rotated(h).token = minted + 1
        /\ Rotated(h).spent = handles[h].spent /\ Rotated(h).parent = handles[h].parent
    BY <1>2, HandleFacts, RowRotated
  <2> QED BY <1>0, <1>2, <1>4, <2>1, OneHandleKeeps
<1> QED BY <1>1, <1>3, <1>4

LEMMA RevocationOfHandleKeeps ==
  ASSUME HandleInv, NEW p \in Principals, NEW t \in known, RevokeHandle(p, t)
  PROVE  HandleInv'
<1>0. UNCHANGED <<partitions, minted, known, disclosed, derive, evaluating, evidence>>
  BY DEF RevokeHandle
<1>1. PICK h \in HandlesOf(t) :
        \/ /\ MutationDenial(p) # "none" /\ Deny(p, h, MutationDenial(p)) /\ UNCHANGED handles
        \/ /\ handles' = [handles EXCEPT ![h] = [handles[h] EXCEPT !.revoked = TRUE]] /\ UNCHANGED ledger
  BY DEF RevokeHandle
<1>2. h \in DOMAIN handles
  BY DEF HandlesOf
<1>3. CASE /\ MutationDenial(p) # "none" /\ Deny(p, h, MutationDenial(p)) /\ UNCHANGED handles
  <2>1. MutationDenial(p) \in {"role_not_evaluator", "tenant_mismatch", "handle_revoked",
                               "handle_expired", "alpha_budget_exhausted"}
    BY <1>3, NotDenied
  <2> QED BY <1>0, <1>3, <2>1, DenialKeeps
<1>4. CASE handles' = [handles EXCEPT ![h] = [handles[h] EXCEPT !.revoked = TRUE]] /\ UNCHANGED ledger
  <2> DEFINE row == [handles[h] EXCEPT !.revoked = TRUE]
  <2>1. /\ row \in HandleRows /\ row.token = handles[h].token
        /\ row.spent = handles[h].spent /\ row.parent = handles[h].parent
    BY <1>2, HandleFacts, RowRevoked
  <2>2. handles' = [handles EXCEPT ![h] = row]
    BY <1>4
  <2> HIDE DEF row
  <2> QED BY <1>0, <1>2, <1>4, <2>1, <2>2, OneHandleKeeps
<1> QED BY <1>1, <1>3, <1>4

LEMMA HandleExpiryKeeps ==
  ASSUME HandleInv, HandleExpires
  PROVE  HandleInv'
<1>1. PICK h \in DOMAIN handles : handles' = [handles EXCEPT ![h] = [handles[h] EXCEPT !.expired = TRUE]]
  BY DEF HandleExpires
<1>2. UNCHANGED <<partitions, minted, known, ledger, disclosed, derive, evaluating, evidence>>
  BY DEF HandleExpires
<1> DEFINE row == [handles[h] EXCEPT !.expired = TRUE]
<1>3. /\ row \in HandleRows /\ row.token = handles[h].token
      /\ row.spent = handles[h].spent /\ row.parent = handles[h].parent
  BY HandleFacts, RowExpired
<1>4. handles' = [handles EXCEPT ![h] = row]
  BY <1>1
<1> HIDE DEF row
<1> QED BY <1>2, <1>3, <1>4, OneHandleKeeps

(* the two transactions of the handoff, and its failure between them *)
LEMMA HandoffKeeps ==
  ASSUME HandleInv,
         \/ \E p \in Principals, t \in known : DeriveRotate(p, t)
         \/ DeriveIssue \/ DeriveFails
  PROVE  HandleInv'
<1>1. ASSUME NEW p \in Principals, NEW t \in known, DeriveRotate(p, t)
      PROVE  HandleInv'
  <2>1. PICK h \in HandlesOf(t) : handles' = [handles EXCEPT ![h] = Rotated(h)] /\ derive' = h
    BY <1>1 DEF DeriveRotate
  <2>2. /\ minted' = minted + 1 /\ known' = known
        /\ UNCHANGED <<partitions, ledger, disclosed, evaluating, evidence>>
    BY <1>1 DEF DeriveRotate
  <2>3. h \in DOMAIN handles /\ handles[h].token \in known
    BY DEF HandlesOf
  <2>4. /\ Rotated(h) \in HandleRows /\ Rotated(h).token = minted + 1
        /\ Rotated(h).spent = handles[h].spent /\ Rotated(h).parent = handles[h].parent
    BY <2>3, HandleFacts, RowRotated
  <2> QED BY <2>1, <2>2, <2>3, <2>4, OneHandleKeeps
<1>2. CASE DeriveIssue
  <2>1. derive # 0 /\ Insert(derive) /\ derive' = 0
        /\ UNCHANGED <<partitions, ledger, disclosed, evaluating, evidence>>
    BY <1>2 DEF DeriveIssue
  <2> QED BY <2>1, InsertKeeps
<1>3. CASE DeriveFails
  <2>1. derive' = 0
        /\ UNCHANGED <<partitions, handles, minted, known, ledger, disclosed, evaluating, evidence>>
    BY <1>3 DEF DeriveFails
  <2>2. /\ partitions' \subseteq {"holdout"} /\ derive' \in 0..Len(handles)
        /\ evaluating' \in {0, evaluating} /\ evidence' \subseteq evidence \cup ({evaluating} \ {0})
    BY <2>1, HandleFacts DEF HandleInv, HandleTypes
  <2>3. \A h \in DOMAIN handles :
          h = derive' \/ (\E g \in DOMAIN handles : handles[g].parent = h) => handles'[h].token \notin known'
    BY <2>1, HandleFacts DEF HandleInv, HoldoutAccessIsEarned, HandoffRetiresParent
  <2>4. \A h \in DOMAIN handles : handles'[h].token <= minted'
    BY <2>1 DEF HandleInv, HandleLinks
  <2> QED BY <2>1, <2>2, <2>3, <2>4, HandleFacts, HandleStep
<1> QED BY <1>1, <1>2, <1>3

(* what touches neither a handle nor the ledger *)
LEMMA AsideKeeps ==
  ASSUME HandleInv, UNCHANGED <<handles, minted, known, ledger, disclosed, derive>>,
         partitions' \subseteq {"holdout"},
         evaluating' \in {0, evaluating}, evidence' \subseteq evidence \cup ({evaluating} \ {0})
  PROVE  HandleInv'
<1>1. \A h \in DOMAIN handles :
        h = derive' \/ (\E g \in DOMAIN handles : handles[g].parent = h) => handles'[h].token \notin known'
  BY DEF HandleInv, HoldoutAccessIsEarned, HandoffRetiresParent
<1>2. derive' \in 0..Len(handles) /\ \A h \in DOMAIN handles : handles'[h].token <= minted'
  BY DEF HandleInv, HandleLinks, HandleTypes
<1> QED BY <1>1, <1>2, HandleFacts, HandleStep

(* "The ledger can never disagree with the budget it reports"              *)
(* (datasets/service.py, resolve) and "the two generations can never       *)
(* resolve through the same live capability" (campaign/generation2.py):    *)
(* for any callers, budgets and interleaving of resolutions, rotations,    *)
(* revocations and handoffs that fail half way.                            *)
THEOREM HoldoutCorrect == HandleSpec => []HoldoutAccessIsEarned
<1>1. HandleInit => HandleInv
  <2> SUFFICES ASSUME HandleInit
               PROVE  HandleInv
    OBVIOUS
  <2>1. HandleTypes
    BY DEF HandleInit, HandleTypes
  <2>2. HandleLinks /\ HandoffRetiresParent
    BY DEF HandleInit, HandleLinks, HandoffRetiresParent
  <2>3. LedgerMatchesBudget
    BY DEF HandleInit, LedgerMatchesBudget
  <2> QED BY <2>1, <2>2, <2>3 DEF HandleInv, HoldoutAccessIsEarned
<1>2. HandleInv /\ [HandleNext]_handleVars => HandleInv'
  <2> SUFFICES ASSUME HandleInv, [HandleNext]_handleVars
               PROVE  HandleInv'
    OBVIOUS
  <2>1. partitions \subseteq {"holdout"}
    BY DEF HandleInv, HandleTypes
  <2>2. CASE UNCHANGED handleVars
    BY <2>1, <2>2, AsideKeeps DEF handleVars
  <2>3. ASSUME NEW p \in Principals, CreatePartition(p, "holdout")
        PROVE  HandleInv'
    BY <2>1, <2>3, AsideKeeps DEF CreatePartition
  <2>4. ASSUME NEW p \in Principals, IssueHandle(p)
        PROVE  HandleInv'
    BY <2>4, InsertKeeps DEF IssueHandle
  <2>5. ASSUME NEW p \in Principals, ReadPartitions(p)
        PROVE  HandleInv'
    BY <2>1, <2>5, AsideKeeps DEF ReadPartitions, IsSealed
  <2>6. CASE EvaluationEnds
    BY <2>1, <2>6, AsideKeeps DEF EvaluationEnds
  <2> QED BY <2>2, <2>3, <2>4, <2>5, <2>6, ResolutionKeeps, RotationKeeps, RevocationOfHandleKeeps,
             HandleExpiryKeeps, HandoffKeeps DEF HandleNext
<1>3. HandleInv => HoldoutAccessIsEarned
  BY DEF HandleInv
<1> QED BY <1>1, <1>2, <1>3, PTL DEF HandleSpec

-----------------------------------------------------------------------------
(* Attested outcomes.  What an attestation says was so when it was signed, *)
(* by a verifier that may sign.                                            *)
OutcomesSpec == OutcomesInit /\ [][OutcomesNext]_outcomeVars

AttestedAs(x) ==
  /\ x.body = [trace |-> x.body.trace, tasks |-> x.body.tasks, grader |-> x.body.grader,
               result |-> x.body.result, signedAt |-> x.body.signedAt, subject |-> x.body.subject]
  /\ x.signature = SignBytes(x.key, AttestationPayload(x.body))
  /\ \E v \in Verifiers : MaySign(v) /\ v.key = x.key /\ v.role = x.body.subject
  /\ x.body.grader = Bundle(x.endedOn) /\ (x.body.result <=> TestsPass(x.ranOn))
OutcomesInv ==
  /\ DOMAIN outcomes = 1..Len(outcomes) /\ Len(outcomes) \in Nat
  /\ \A i \in DOMAIN outcomes : AttestedAs(outcomes[i])
  /\ lastTests # <<>> => (lastTests[1].passed <=> TestsPass(lastTests[1].files))

(* the six fields are all there is to an attestation, and all are signed *)
LEMMA PayloadIsWhole ==
  ASSUME NEW x, NEW y, AttestationPayload(x) = AttestationPayload(y)
  PROVE  /\ x.trace = y.trace /\ x.tasks = y.tasks /\ x.grader = y.grader
         /\ x.result = y.result /\ x.signedAt = y.signedAt /\ x.subject = y.subject
<1>1. \A z : /\ AttestationPayload(z).trace = z.trace /\ AttestationPayload(z).tasks = z.tasks
             /\ AttestationPayload(z).grader = z.grader /\ AttestationPayload(z).result = z.result
             /\ AttestationPayload(z).signedAt = z.signedAt /\ AttestationPayload(z).subject = z.subject
  BY DEF AttestationPayload
<1> QED BY <1>1

LEMMA SplicesFail ==
  ASSUME OutcomesInv
  PROVE  AttestedAsGraded
<1> SUFFICES ASSUME NEW i \in DOMAIN outcomes, NEW j \in DOMAIN outcomes
             PROVE  /\ \A S \in SUBSET DOMAIN outcomes[i].body :
                         LET body == Spliced(outcomes[i].body, outcomes[j].body, S) IN
                         OutcomeVerifies(body, outcomes[i].key, outcomes[i].signature) =>
                           /\ body = outcomes[i].body
                           /\ \E v \in Verifiers : /\ v.key = Published /\ v.role = "evaluator"
                                                   /\ v.role = body.subject
                    /\ LET x == outcomes[i] IN
                       x.ranOn = x.endedOn /\ x.body.grader = "strict" /\ x.body.result => x.ranOn["code"] = "fixed"
  BY DEF AttestedAsGraded
<1>1. AttestedAs(outcomes[i])
  BY DEF OutcomesInv
<1>2. ASSUME NEW S \in SUBSET DOMAIN outcomes[i].body,
             OutcomeVerifies(Spliced(outcomes[i].body, outcomes[j].body, S), outcomes[i].key, outcomes[i].signature)
      PROVE  /\ Spliced(outcomes[i].body, outcomes[j].body, S) = outcomes[i].body
             /\ \E v \in Verifiers :
                  /\ v.key = Published /\ v.role = "evaluator"
                  /\ v.role = Spliced(outcomes[i].body, outcomes[j].body, S).subject
  <2> DEFINE mine == outcomes[i].body
             body == Spliced(mine, outcomes[j].body, S)
  <2>1. outcomes[i].key = Published /\ outcomes[i].signature = SignBytes(Published, AttestationPayload(body))
    BY <1>2 DEF OutcomeVerifies, Authentic
  <2>2. outcomes[i].signature = SignBytes(Published, AttestationPayload(mine))
    BY <1>1, <2>1 DEF AttestedAs
  <2>3. AttestationPayload(body) = AttestationPayload(mine)
    <3> DEFINE ours == AttestationPayload(mine)
               theirs == AttestationPayload(body)
    <3>1. SignBytes(Published, theirs) = SignBytes(Published, ours)
      BY <2>1, <2>2
    <3> HIDE DEF ours, theirs
    <3>2. theirs = ours
      BY <3>1, SignatureTells
    <3> QED BY <3>2 DEF ours, theirs
  <2>4. /\ body.trace = mine.trace /\ body.tasks = mine.tasks /\ body.grader = mine.grader
        /\ body.result = mine.result /\ body.signedAt = mine.signedAt /\ body.subject = mine.subject
    BY <2>3, PayloadIsWhole
  <2>5. mine = [trace |-> mine.trace, tasks |-> mine.tasks, grader |-> mine.grader,
                result |-> mine.result, signedAt |-> mine.signedAt, subject |-> mine.subject]
    BY <1>1 DEF AttestedAs
  <2>6. DOMAIN mine = {"trace", "tasks", "grader", "result", "signedAt", "subject"}
    BY <2>5
  <2>7. body = [f \in DOMAIN mine |-> body[f]]
    BY DEF Spliced
  <2>8. body = mine
    <3> HIDE DEF body, mine
    <3>1. \A f \in DOMAIN mine : body[f] = mine[f]
      BY <2>4, <2>6
    <3>2. mine = [f \in DOMAIN mine |-> mine[f]]
      BY <2>5
    <3> QED BY <2>7, <3>1, <3>2
  <2>9. PICK v \in Verifiers : MaySign(v) /\ v.key = Published /\ v.role = mine.subject
    BY <1>1, <2>1 DEF AttestedAs
  <2> QED BY <2>8, <2>9 DEF MaySign
<1>3. outcomes[i].ranOn = outcomes[i].endedOn /\ outcomes[i].body.grader = "strict" /\ outcomes[i].body.result
        => outcomes[i].ranOn["code"] = "fixed"
  BY <1>1 DEF AttestedAs, Bundle, TestsPass
<1> QED BY <1>2, <1>3

LEMMA AttestationKeeps ==
  ASSUME OutcomesInv, NEW verifier \in Verifiers, AttestOutcome(verifier)
  PROVE  OutcomesInv'
<1> DEFINE run == Len(agentRuns)
           body == [trace |-> run, tasks |-> TaskSet(agentRuns[run].task),
                    grader |-> Bundle(workspace), result |-> lastTests[1].passed,
                    signedAt |-> Len(outcomes), subject |-> verifier.role]
           made == [body |-> body, key |-> verifier.key,
                    signature |-> SignBytes(verifier.key, AttestationPayload(body)),
                    ranOn |-> lastTests[1].files, endedOn |-> workspace]
<1>1. outcomes' = Append(outcomes, made) /\ MaySign(verifier) /\ lastTests # <<>> /\ UNCHANGED lastTests
  BY DEF AttestOutcome
<1>2. /\ made.body = body /\ made.key = verifier.key /\ made.ranOn = lastTests[1].files
      /\ made.endedOn = workspace /\ made.signature = SignBytes(verifier.key, AttestationPayload(body))
  OBVIOUS
<1>3. /\ body.grader = Bundle(workspace) /\ body.result = lastTests[1].passed /\ body.subject = verifier.role
      /\ body = [trace |-> body.trace, tasks |-> body.tasks, grader |-> body.grader,
                 result |-> body.result, signedAt |-> body.signedAt, subject |-> body.subject]
  OBVIOUS
<1>4. lastTests[1].passed <=> TestsPass(lastTests[1].files)
  BY <1>1 DEF OutcomesInv
<1> HIDE DEF body, made
<1>5. AttestedAs(made)
  BY <1>1, <1>2, <1>3, <1>4 DEF AttestedAs
<1>6. /\ Len(outcomes') = Len(outcomes) + 1 /\ DOMAIN outcomes' = 1..(Len(outcomes) + 1)
      /\ outcomes'[Len(outcomes) + 1] = made /\ \A i \in DOMAIN outcomes : outcomes'[i] = outcomes[i]
  BY <1>1 DEF OutcomesInv
<1>7. \A i \in DOMAIN outcomes' : AttestedAs(outcomes'[i])
  BY <1>5, <1>6 DEF OutcomesInv
<1>8. (\A i \in DOMAIN outcomes : AttestedAs(outcomes[i]))'
  BY <1>7
<1> QED BY <1>1, <1>6, <1>8 DEF OutcomesInv

(* "Change any one and the signature fails" (sdk/attestation.py): however  *)
(* many runs and attestations there are, and whatever fields of two of     *)
(* them are put together, what verifies is what an evaluator signed, of    *)
(* the tests and the grader it saw.                                        *)
THEOREM AttestationCorrect == OutcomesSpec => []AttestedAsGraded
<1>1. OutcomesInit => OutcomesInv
  BY DEF OutcomesInit, OutcomesInv
<1>2. OutcomesInv /\ [OutcomesNext]_outcomeVars => OutcomesInv'
  <2> SUFFICES ASSUME OutcomesInv, [OutcomesNext]_outcomeVars
               PROVE  OutcomesInv'
    OBVIOUS
  <2>1. ASSUME UNCHANGED <<outcomes, lastTests>>
        PROVE  OutcomesInv'
    BY <2>1 DEF OutcomesInv, AttestedAs
  <2>2. CASE VerifyRun
    <3>1. lastTests' = <<[passed |-> TestsPass(workspace), files |-> workspace]>> /\ UNCHANGED outcomes
      BY <2>2 DEF VerifyRun
    <3>2. lastTests'[1].passed <=> TestsPass(lastTests'[1].files)
      <4>1. lastTests'[1].passed = TestsPass(workspace) /\ lastTests'[1].files = workspace
        BY <3>1
      <4> QED BY <4>1
    <3> QED BY <3>1, <3>2 DEF OutcomesInv, AttestedAs
  <2>3. ASSUME NEW verifier \in Verifiers, AttestOutcome(verifier)
        PROVE  OutcomesInv'
    BY <2>3, AttestationKeeps
  <2>4. (\E task \in DOMAIN Plans : BeginRun(task)) \/ RunStep \/ EndRun \/ UNCHANGED outcomeVars
          => UNCHANGED <<outcomes, lastTests>>
    BY DEF BeginRun, RunStep, EndRun, outcomeVars
  <2> QED BY <2>1, <2>2, <2>3, <2>4 DEF OutcomesNext
<1>3. OutcomesInv => AttestedAsGraded
  BY SplicesFail
<1> QED BY <1>1, <1>2, <1>3, PTL DEF OutcomesSpec

-----------------------------------------------------------------------------
(* The fleet.  Pins are only ever added, and who wrote is pinned.          *)
FleetSpec == FleetInit /\ [][FleetNext]_fleetVars

FleetInv ==
  /\ \A r \in digestReports : r.session \in PinnedSessions /\ pinnedTo[r.session].digest = r.digest
  /\ \A at \in DOMAIN fleetMemory : fleetMemory[at] \in PinnedSessions /\ pinnedTo[fleetMemory[at]].arm = at[1]

LEMMA PinsStay ==
  ASSUME FleetNext
  PROVE  \A s \in PinnedSessions : s \in PinnedSessions' /\ pinnedTo'[s] = pinnedTo[s]
<1>1. CASE PinSession
  <2>1. PICK s \in Sessions, d \in Digests, arm \in SessionArms : pinnedTo' = PinnedBy(s, d, arm)
    BY <1>1 DEF PinSession
  <2>2. CASE s \in PinnedSessions
    BY <2>1, <2>2 DEF PinnedBy, PinnedSessions
  <2>3. CASE s \notin PinnedSessions
    <3>1. pinnedTo' = PutIn(pinnedTo, s, [digest |-> d, arm |-> arm])
      BY <2>1, <2>3 DEF PinnedBy
    <3> DEFINE pin == [digest |-> d, arm |-> arm]
    <3>2. pinnedTo' = PutIn(pinnedTo, s, pin)
      BY <3>1
    <3> HIDE DEF pin
    <3>3. \A j \in DOMAIN pinnedTo : j # s => j \in DOMAIN pinnedTo' /\ pinnedTo'[j] = pinnedTo[j]
      BY <3>2 DEF PutIn
    <3> QED BY <2>3, <3>3 DEF PinnedSessions
  <2> QED BY <2>2, <2>3
<1>2. ~PinSession => UNCHANGED pinnedTo
  BY DEF FleetNext, SetActive, Invalidate, Pass, ResolvePending, NewWrapper, ReportDigest, WriteState
<1> QED BY <1>1, <1>2 DEF PinnedSessions

(* What was reported is what is served, for good (release/fleet.py,        *)
(* report_digest and pin_session), and an arm's memory was written by      *)
(* sessions of that arm (write_state), through any number of wrappers,     *)
(* pins and invalidations.                                                 *)
THEOREM FleetCorrect ==
  FleetSpec => [](/\ \A r \in digestReports : r.session \in PinnedSessions /\ pinnedTo[r.session].digest = r.digest
                  /\ MemoryStaysApart)
<1>1. FleetInit => FleetInv
  BY DEF FleetInit, FleetInv
<1>2. FleetInv /\ [FleetNext]_fleetVars => FleetInv'
  <2> SUFFICES ASSUME FleetInv, [FleetNext]_fleetVars
               PROVE  FleetInv'
    OBVIOUS
  <2>1. CASE UNCHANGED fleetVars
    BY <2>1 DEF fleetVars, FleetInv, PinnedSessions
  <2>2. CASE FleetNext
    <3>1. \A r \in digestReports : r.session \in PinnedSessions' /\ pinnedTo'[r.session].digest = r.digest
      BY <2>2, PinsStay DEF FleetInv
    <3>2. \A at \in DOMAIN fleetMemory :
            fleetMemory[at] \in PinnedSessions' /\ pinnedTo'[fleetMemory[at]].arm = at[1]
      BY <2>2, PinsStay DEF FleetInv
    <3>3. CASE ReportDigest
      <4>1. PICK s \in PinnedSessions, d \in Digests :
              Truthful(s, d) /\ digestReports' = digestReports \cup {[session |-> s, digest |-> d]}
        BY <3>3 DEF ReportDigest
      <4>2. UNCHANGED <<pinnedTo, fleetMemory>>
        BY <3>3 DEF ReportDigest
      <4> QED BY <3>1, <3>2, <4>1, <4>2 DEF FleetInv, Truthful, PinnedSessions
    <3>4. CASE WriteState
      <4>1. PICK s \in Sessions, namespace \in SessionArms, key \in StateKeys :
              /\ FleetMayWrite(s, namespace)
              /\ fleetMemory' = PutIn(fleetMemory, <<namespace, key>>, s)
        BY <3>4 DEF WriteState
      <4>2. UNCHANGED <<pinnedTo, digestReports>>
        BY <3>4 DEF WriteState
      <4> DEFINE here == <<namespace, key>>
      <4>3. here[1] = namespace
        OBVIOUS
      <4>4. fleetMemory' = PutIn(fleetMemory, here, s)
        BY <4>1
      <4> HIDE DEF here
      <4>6. /\ DOMAIN fleetMemory' = DOMAIN fleetMemory \cup {here} /\ fleetMemory'[here] = s
            /\ \A at \in DOMAIN fleetMemory : at # here => fleetMemory'[at] = fleetMemory[at]
        BY <4>4 DEF PutIn
      <4>5. ASSUME NEW at \in DOMAIN fleetMemory'
            PROVE  fleetMemory'[at] \in PinnedSessions' /\ pinnedTo'[fleetMemory'[at]].arm = at[1]
        <5>1. CASE at = here
          BY <4>1, <4>2, <4>3, <4>6, <5>1 DEF FleetMayWrite, PinnedSessions
        <5>2. CASE at # here
          BY <3>2, <4>5, <4>6, <5>2
        <5> QED BY <5>1, <5>2
      <4> QED BY <3>1, <4>2, <4>5 DEF FleetInv
    <3>5. ~ReportDigest /\ ~WriteState => UNCHANGED <<digestReports, fleetMemory>>
      BY <2>2 DEF FleetNext, SetActive, Invalidate, Pass, ResolvePending, PinSession, NewWrapper
    <3> QED BY <3>1, <3>2, <3>3, <3>4, <3>5 DEF FleetInv
  <2> QED BY <2>1, <2>2
<1>3. FleetInv => /\ \A r \in digestReports : r.session \in PinnedSessions /\ pinnedTo[r.session].digest = r.digest
                  /\ MemoryStaysApart
  BY DEF FleetInv, MemoryStaysApart
<1> QED BY <1>1, <1>2, <1>3, PTL DEF FleetSpec

-----------------------------------------------------------------------------
(* Deletion and its tiers.  Nothing is dated later than now, and nothing   *)
(* that happened is dated Never.                                           *)
DeletionSpec == DeletionInit /\ [][DeletionNext]_deletionVars

RequestRows == [at : Nat, revoked : Nat, purged : Nat]
Dated ==
  /\ now \in Nat /\ now >= 1
  /\ kept \in Nat /\ kept <= now /\ recorded \in Nat /\ recorded <= now /\ swept \in Nat /\ swept <= now
  /\ requestsMade \in Seq(RequestRows)
  /\ \A i \in DOMAIN requestsMade :
       /\ 1 <= requestsMade[i].at /\ requestsMade[i].at <= now
       /\ requestsMade[i].revoked <= now /\ requestsMade[i].purged <= now
  /\ copy \in [held : BOOLEAN, due : Nat, marked : Nat] /\ copy.marked <= now
DeletionInv == Dated /\ CopiesAreCovered /\ DeadlinesFollow

LEMMA DeletionFacts ==
  ASSUME DeletionInv
  PROVE  /\ now \in Nat /\ now >= 1 /\ kept \in Nat /\ recorded \in Nat /\ swept \in Nat /\ swept <= now
         /\ requestsMade \in Seq(RequestRows) /\ DOMAIN requestsMade = 1..Len(requestsMade)
         /\ Len(requestsMade) \in Nat
         /\ \A i \in DOMAIN requestsMade :
              /\ requestsMade[i] \in RequestRows
              /\ requestsMade[i].at \in Nat /\ requestsMade[i].revoked \in Nat /\ requestsMade[i].purged \in Nat
              /\ 1 <= requestsMade[i].at /\ requestsMade[i].at <= now
              /\ requestsMade[i].revoked <= now /\ requestsMade[i].purged <= now
         /\ copy \in [held : BOOLEAN, due : Nat, marked : Nat]
         /\ AccessSla \in Nat /\ DerivedSetting \in Nat /\ PrimaryDays \in Nat /\ BackupWindows \subseteq Nat
<1>1. requestsMade \in Seq(RequestRows)
  BY DEF DeletionInv, Dated
<1>2. \A i \in DOMAIN requestsMade : requestsMade[i] \in RequestRows
  BY <1>1
<1> QED BY <1>1, <1>2, DeletionAssumption DEF DeletionAssumption, DeletionInv, Dated, RequestRows

(* a deadline is a number, later than Never *)
LEMMA DeadlineIsLate ==
  ASSUME DeletionInv, NEW i \in DOMAIN requestsMade, NEW window \in BackupWindows
  PROVE  /\ Deadline(requestsMade[i].at, window) \in Nat /\ Deadline(requestsMade[i].at, window) >= 1
BY DeletionFacts, SMTT(30), ZenonT(60) DEF Deadline

(* The copy, as CopiesAreCovered has it *)
CopyCovered ==
  copy.held =>
    \/ ~Tombstoned /\ copy.due = Never
    \/ Audited
    \/ /\ swept < copy.due \/ swept <= copy.marked
       /\ \E i \in DOMAIN requestsMade, window \in BackupWindows : copy.due = Deadline(requestsMade[i].at, window)
LEMMA CoveredParts ==
  CopiesAreCovered <=>
    /\ \A i \in DOMAIN requestsMade :
         requestsMade[i].revoked # Never => (kept = Never \/ kept >= requestsMade[i].revoked)
    /\ CopyCovered
BY DEF CopiesAreCovered, CopyCovered

(* the copy stays covered while nobody touches it, and requests only come *)
LEMMA CopyStaysCovered ==
  ASSUME DeletionInv, UNCHANGED <<copy, swept, place>>,
         DOMAIN requestsMade \subseteq DOMAIN requestsMade', requestsMade # <<>> => requestsMade' # <<>>,
         \A i \in DOMAIN requestsMade : requestsMade'[i].at = requestsMade[i].at
  PROVE  CopyCovered'
<1>1. CopyCovered
  BY CoveredParts DEF DeletionInv
<1>2. ASSUME NEW i \in DOMAIN requestsMade, NEW window \in BackupWindows,
             copy.due = Deadline(requestsMade[i].at, window)
      PROVE  i \in DOMAIN requestsMade' /\ (copy.due = Deadline(requestsMade[i].at, window))'
  BY <1>2 DEF Deadline
<1>3. ASSUME copy.held, ~Tombstoned /\ copy.due = Never
      PROVE  (~Tombstoned /\ copy.due = Never)' \/ Audited'
  BY <1>3 DEF Audited, Tombstoned
<1>4. Audited => Audited'
  BY DEF Audited, Tombstoned
<1> QED BY <1>1, <1>2, <1>3, <1>4 DEF CopyCovered

(* a step that neither makes requests nor changes them *)
LEMMA RequestsStay ==
  ASSUME DeletionInv, UNCHANGED <<requestsMade, place>>, now' \in Nat, now <= now',
         kept' \in {kept, now'}, recorded' \in {recorded, now'}, swept' \in Nat, swept' <= now',
         copy' \in [held : BOOLEAN, due : Nat, marked : Nat], copy'.marked <= now', CopyCovered'
  PROVE  DeletionInv'
<1>1. Dated'
  BY DeletionFacts, SMTT(30), ZenonT(60) DEF DeletionInv, Dated
<1>2. CopiesAreCovered'
  <2>1. \A i \in DOMAIN requestsMade :
          requestsMade[i].revoked # Never => (kept' = Never \/ kept' >= requestsMade[i].revoked)
    <3> SUFFICES ASSUME NEW i \in DOMAIN requestsMade, requestsMade[i].revoked # Never
                 PROVE  kept' = Never \/ kept' >= requestsMade[i].revoked
      OBVIOUS
    <3>1. kept = Never \/ kept >= requestsMade[i].revoked
      BY DEF DeletionInv, CopiesAreCovered
    <3>2. requestsMade[i].revoked <= now' /\ requestsMade[i].revoked \in Nat
      BY DeletionFacts, SMTT(30), ZenonT(60)
    <3> QED BY <3>1, <3>2
  <2> QED BY <2>1 DEF CopiesAreCovered, CopyCovered
<1>3. DeadlinesFollow'
  <2> SUFFICES ASSUME NEW i \in DOMAIN requestsMade
               PROVE  LET r == requestsMade[i] IN
                      /\ r.revoked # Never => r.revoked >= r.at + AccessSla
                      /\ r.purged # Never => r.revoked # Never /\ r.purged >= r.revoked + DerivedSetting
                      /\ r.purged # Never => recorded' = Never \/ recorded' >= r.purged
    BY DEF DeadlinesFollow
  <2>1. requestsMade[i].purged <= now' /\ requestsMade[i].purged \in Nat
    BY DeletionFacts, SMTT(30), ZenonT(60)
  <2> QED BY <2>1 DEF DeletionInv, DeadlinesFollow
<1> QED BY <1>1, <1>2, <1>3 DEF DeletionInv

(* the calls that leave the requests and the copy alone *)
LEMMA PlainStepsKeep ==
  ASSUME DeletionInv, Tick \/ StorePayload \/ RecordDerived \/ Restore
  PROVE  DeletionInv'
<1>1. /\ UNCHANGED <<requestsMade, copy, swept, place>>
      /\ now' \in Nat /\ now <= now' /\ kept' \in {kept, now'} /\ recorded' \in {recorded, now'}
  BY DeletionFacts DEF Tick, StorePayload, RecordDerived, Restore
<1>2. CopyCovered'
  BY <1>1, CopyStaysCovered
<1>3. swept' \in Nat /\ swept' <= now'
  BY <1>1, DeletionFacts
<1>4. copy' \in [held : BOOLEAN, due : Nat, marked : Nat] /\ copy'.marked <= now'
  <2>1. copy.marked <= now /\ copy.marked \in Nat
    BY DEF DeletionInv, Dated
  <2> QED BY <1>1, <2>1, DeletionFacts
<1> QED BY <1>1, <1>2, <1>3, <1>4, RequestsStay

(* a request is one more, and starts its deadlines now *)
LEMMA AskingKeeps ==
  ASSUME DeletionInv, AskForDeletion
  PROVE  DeletionInv'
<1> DEFINE row == [at |-> now, revoked |-> Never, purged |-> Never]
<1>0. PICK n \in Nat : n = Len(requestsMade)
  BY DeletionFacts
<1>1. requestsMade' = Append(requestsMade, row) /\ UNCHANGED <<now, kept, recorded, place, copy, swept>>
  BY DEF AskForDeletion
<1>2. row \in RequestRows /\ row.at = now /\ row.revoked = 0 /\ row.purged = 0
  BY DeletionFacts DEF RequestRows, Never
<1> HIDE DEF row
<1>3. /\ requestsMade' \in Seq(RequestRows) /\ requestsMade' # <<>>
      /\ DOMAIN requestsMade' = DOMAIN requestsMade \cup {n + 1} /\ requestsMade'[n + 1] = row
      /\ \A i \in DOMAIN requestsMade : requestsMade'[i] = requestsMade[i]
  BY <1>0, <1>1, <1>2, DeletionFacts
<1>4. Dated'
  BY <1>1, <1>2, <1>3, DeletionFacts DEF DeletionInv, Dated
<1>5. CopyCovered'
  BY <1>1, <1>3, CopyStaysCovered
<1>6. CopiesAreCovered'
  <2>1. \A i \in DOMAIN requestsMade' :
          requestsMade'[i].revoked # Never => (kept = Never \/ kept >= requestsMade'[i].revoked)
    BY <1>2, <1>3 DEF DeletionInv, CopiesAreCovered, Never
  <2> QED BY <1>1, <1>5, <2>1 DEF CopiesAreCovered, CopyCovered
<1>7. DeadlinesFollow'
  BY <1>1, <1>2, <1>3 DEF DeletionInv, DeadlinesFollow, Never
<1> QED BY <1>4, <1>6, <1>7 DEF DeletionInv

(* what a sweep makes of a request *)
LEMMA RequestSwept ==
  ASSUME NEW row \in RequestRows, NEW time \in Nat
  PROVE  /\ [row EXCEPT !.revoked = time] \in RequestRows /\ [row EXCEPT !.revoked = time].at = row.at
         /\ [row EXCEPT !.revoked = time].purged = row.purged /\ [row EXCEPT !.revoked = time].revoked = time
         /\ [row EXCEPT !.purged = time] \in RequestRows /\ [row EXCEPT !.purged = time].at = row.at
         /\ [row EXCEPT !.purged = time].revoked = row.revoked /\ [row EXCEPT !.purged = time].purged = time
BY DEF RequestRows

LEMMA AccessEndsInTime ==
  ASSUME DeletionInv, SweepAccess
  PROVE  DeletionInv'
<1> DEFINE Row(i) == IF i \in Overdue THEN [requestsMade[i] EXCEPT !.revoked = now] ELSE requestsMade[i]
<1>1. /\ requestsMade' = [i \in DOMAIN requestsMade |-> Row(i)] /\ kept' = Never
      /\ UNCHANGED <<now, recorded, place, copy, swept>>
  BY DEF SweepAccess
<1>2. ASSUME NEW i \in DOMAIN requestsMade
      PROVE  /\ Row(i) \in RequestRows /\ Row(i).at = requestsMade[i].at
             /\ Row(i).purged = requestsMade[i].purged
             /\ \/ Row(i).revoked = requestsMade[i].revoked
                \/ /\ Row(i).revoked = now /\ requestsMade[i].revoked = Never
                   /\ requestsMade[i].at + AccessSla <= now
  <2>1. CASE i \in Overdue
    BY <1>2, <2>1, DeletionFacts, RequestSwept, ZenonT(60), SMTT(30) DEF Overdue
  <2>2. CASE i \notin Overdue
    BY <1>2, <2>2, DeletionFacts
  <2> QED BY <2>1, <2>2
<1> HIDE DEF Row
<1>3. /\ requestsMade' \in Seq(RequestRows) /\ DOMAIN requestsMade' = DOMAIN requestsMade
      /\ \A i \in DOMAIN requestsMade : requestsMade'[i] = Row(i)
  BY <1>1, <1>2, DeletionFacts
<1>4. Dated'
  <2>1. ASSUME NEW i \in DOMAIN requestsMade
        PROVE  /\ 1 <= requestsMade'[i].at /\ requestsMade'[i].at <= now
               /\ requestsMade'[i].revoked <= now /\ requestsMade'[i].purged <= now
    <3>1. now <= now
      BY DeletionFacts
    <3> QED BY <1>2, <1>3, <2>1, <3>1, DeletionFacts
  <2>2. /\ now \in Nat /\ now >= 1 /\ kept' \in Nat /\ kept' <= now /\ recorded' \in Nat /\ recorded' <= now
        /\ swept \in Nat /\ swept <= now
        /\ copy \in [held : BOOLEAN, due : Nat, marked : Nat] /\ copy.marked <= now
    BY <1>1 DEF DeletionInv, Dated, Never
  <2> QED BY <1>1, <1>3, <2>1, <2>2 DEF Dated
<1>5. CopiesAreCovered'
  <2>1. CopyCovered'
    <3>1. requestsMade # <<>> => requestsMade' # <<>>
      BY <1>3, DeletionFacts
    <3> QED BY <1>1, <1>2, <1>3, <3>1, CopyStaysCovered
  <2> QED BY <1>1, <2>1 DEF CopiesAreCovered, CopyCovered
<1>6. DeadlinesFollow'
  <2> SUFFICES ASSUME NEW i \in DOMAIN requestsMade
               PROVE  LET r == requestsMade'[i] IN
                      /\ r.revoked # Never => r.revoked >= r.at + AccessSla
                      /\ r.purged # Never => r.revoked # Never /\ r.purged >= r.revoked + DerivedSetting
                      /\ r.purged # Never => recorded = Never \/ recorded >= r.purged
    BY <1>1, <1>3 DEF DeadlinesFollow
  <2>1. LET r == requestsMade[i] IN
        /\ r.revoked # Never => r.revoked >= r.at + AccessSla
        /\ r.purged # Never => r.revoked # Never /\ r.purged >= r.revoked + DerivedSetting
        /\ r.purged # Never => recorded = Never \/ recorded >= r.purged
    BY DEF DeletionInv, DeadlinesFollow
  <2> QED BY <1>2, <1>3, <2>1, DeletionFacts DEF Never
<1> QED BY <1>4, <1>5, <1>6 DEF DeletionInv

LEMMA DerivedEndsInTime ==
  ASSUME DeletionInv, SweepDerived
  PROVE  DeletionInv'
<1> DEFINE Row(i) == IF i \in Purgeable THEN [requestsMade[i] EXCEPT !.purged = now] ELSE requestsMade[i]
<1>1. /\ requestsMade' = [i \in DOMAIN requestsMade |-> Row(i)] /\ recorded' = Never
      /\ UNCHANGED <<now, kept, place, copy, swept>>
  BY DEF SweepDerived
<1>2. ASSUME NEW i \in DOMAIN requestsMade
      PROVE  /\ Row(i) \in RequestRows /\ Row(i).at = requestsMade[i].at
             /\ Row(i).revoked = requestsMade[i].revoked
             /\ \/ Row(i).purged = requestsMade[i].purged
                \/ /\ Row(i).purged = now /\ requestsMade[i].revoked # Never
                   /\ requestsMade[i].revoked + DerivedSetting <= now
  <2>1. CASE i \in Purgeable
    BY <1>2, <2>1, DeletionFacts, RequestSwept, ZenonT(60), SMTT(30) DEF Purgeable
  <2>2. CASE i \notin Purgeable
    BY <1>2, <2>2, DeletionFacts
  <2> QED BY <2>1, <2>2
<1> HIDE DEF Row
<1>3. /\ requestsMade' \in Seq(RequestRows) /\ DOMAIN requestsMade' = DOMAIN requestsMade
      /\ \A i \in DOMAIN requestsMade : requestsMade'[i] = Row(i)
  BY <1>1, <1>2, DeletionFacts
<1>4. Dated'
  <2>1. ASSUME NEW i \in DOMAIN requestsMade
        PROVE  /\ 1 <= requestsMade'[i].at /\ requestsMade'[i].at <= now
               /\ requestsMade'[i].revoked <= now /\ requestsMade'[i].purged <= now
    <3>1. now <= now
      BY DeletionFacts
    <3> QED BY <1>2, <1>3, <2>1, <3>1, DeletionFacts
  <2>2. /\ now \in Nat /\ now >= 1 /\ kept' \in Nat /\ kept' <= now /\ recorded' \in Nat /\ recorded' <= now
        /\ swept \in Nat /\ swept <= now
        /\ copy \in [held : BOOLEAN, due : Nat, marked : Nat] /\ copy.marked <= now
    BY <1>1 DEF DeletionInv, Dated, Never
  <2> QED BY <1>1, <1>3, <2>1, <2>2 DEF Dated
<1>5. CopiesAreCovered'
  <2>1. CopyCovered'
    <3>1. requestsMade # <<>> => requestsMade' # <<>>
      BY <1>3, DeletionFacts
    <3> QED BY <1>1, <1>2, <1>3, <3>1, CopyStaysCovered
  <2>2. \A i \in DOMAIN requestsMade :
          requestsMade'[i].revoked # Never => (kept = Never \/ kept >= requestsMade'[i].revoked)
    BY <1>2, <1>3 DEF DeletionInv, CopiesAreCovered
  <2> QED BY <1>1, <1>3, <2>1, <2>2 DEF CopiesAreCovered, CopyCovered
<1>6. DeadlinesFollow'
  <2> SUFFICES ASSUME NEW i \in DOMAIN requestsMade
               PROVE  LET r == requestsMade'[i] IN
                      /\ r.revoked # Never => r.revoked >= r.at + AccessSla
                      /\ r.purged # Never => r.revoked # Never /\ r.purged >= r.revoked + DerivedSetting
    BY <1>1, <1>3 DEF DeadlinesFollow
  <2>1. LET r == requestsMade[i] IN
        /\ r.revoked # Never => r.revoked >= r.at + AccessSla
        /\ r.purged # Never => r.revoked # Never /\ r.purged >= r.revoked + DerivedSetting
    BY DEF DeletionInv, DeadlinesFollow
  <2> QED BY <1>2, <1>3, <2>1, DeletionFacts
<1> QED BY <1>4, <1>5, <1>6 DEF DeletionInv

(* the calls about the copy *)
LEMMA CopyStepsKeep ==
  ASSUME DeletionInv, BackUp \/ ScheduleAgeOut \/ SweepAgeOut
  PROVE  DeletionInv'
<1> DEFINE Copies == [held : BOOLEAN, due : Nat, marked : Nat]
<1>0. UNCHANGED <<now, kept, requestsMade, recorded, place>>
  BY DEF BackUp, ScheduleAgeOut, SweepAgeOut
<1>1. ASSUME copy' \in Copies, copy'.marked <= now, swept' \in Nat, swept' <= now, CopyCovered'
      PROVE  DeletionInv'
  BY <1>0, <1>1, DeletionFacts, RequestsStay
<1>2. copy \in Copies /\ copy.marked <= now /\ swept \in Nat /\ swept <= now
  BY DEF DeletionInv, Dated
<1>3. CASE BackUp
  <2>1. copy' = [held |-> TRUE, due |-> Never, marked |-> Never] /\ UNCHANGED swept
    BY <1>3 DEF BackUp, NoCopy
  <2>2. copy' \in Copies /\ copy'.marked <= now
    BY <2>1, DeletionFacts DEF Never
  <2>3. CopyCovered'
    BY <2>1 DEF CopyCovered, Audited
  <2> QED BY <1>1, <1>2, <2>1, <2>2, <2>3
<1>4. CASE ScheduleAgeOut
  <2>1. PICK i \in DOMAIN requestsMade, window \in BackupWindows :
          copy' = [copy EXCEPT !.due = Deadline(requestsMade[i].at, window), !.marked = now]
    BY <1>4 DEF ScheduleAgeOut
  <2>2. PICK due \in Nat : due = Deadline(requestsMade[i].at, window)
    BY DeadlineIsLate
  <2>3. copy' \in Copies /\ copy'.due = due /\ copy'.marked = now
    BY <1>2, <2>1, <2>2, DeletionFacts
  <2>4. UNCHANGED swept
    BY <1>4 DEF ScheduleAgeOut
  <2>6. (copy.due = Deadline(requestsMade[i].at, window))'
    BY <1>0, <2>2, <2>3 DEF Deadline
  <2>7. CopyCovered'
    BY <1>0, <1>2, <2>3, <2>4, <2>6 DEF CopyCovered
  <2> QED BY <1>1, <1>2, <2>3, <2>4, <2>7, DeletionFacts
<1>5. CASE SweepAgeOut
  <2>1. swept' = now /\ copy' = IF PastDue THEN NoCopy ELSE copy
    BY <1>5 DEF SweepAgeOut
  <2>2. CASE PastDue
    <3>1. copy' \in Copies /\ copy'.marked <= now /\ copy'.held = FALSE
      BY <2>1, <2>2, DeletionFacts DEF NoCopy, Never
    <3> QED BY <1>1, <2>1, <3>1, DeletionFacts DEF CopyCovered
  <2>3. CASE ~PastDue
    <3>0. copy.due \in Nat /\ now \in Nat
      BY <1>2, DeletionFacts
    <3>1. copy' = copy /\ (copy.due = Never \/ now < copy.due)
      BY <2>1, <2>3, <3>0 DEF PastDue
    <3>2. CopyCovered
      BY CoveredParts DEF DeletionInv
    <3>3. ASSUME NEW i \in DOMAIN requestsMade, NEW window \in BackupWindows,
                 copy.due = Deadline(requestsMade[i].at, window)
          PROVE  (swept < copy.due /\ copy.due = Deadline(requestsMade[i].at, window))'
      <4>1. copy.due # Never
        BY <3>3, DeadlineIsLate DEF Never
      <4> QED BY <1>0, <2>1, <3>1, <3>3, <4>1 DEF Deadline
    <3>4. CopyCovered'
      BY <1>0, <3>1, <3>2, <3>3 DEF CopyCovered, Audited, Tombstoned
    <3> QED BY <1>1, <1>2, <2>1, <3>1, <3>4, DeletionFacts
  <2> QED BY <2>2, <2>3
<1> QED BY <1>3, <1>4, <1>5

(* A deleted payload cannot resurface from any tier, and each deadline is  *)
(* kept from the event that starts it (lineage/backup.py, purge.py): for   *)
(* any service levels and windows, in any order of calls.                  *)
THEOREM DeletionCorrect == DeletionSpec => [](CopiesAreCovered /\ DeadlinesFollow)
<1>1. DeletionInit => DeletionInv
  <2> SUFFICES ASSUME DeletionInit
               PROVE  DeletionInv
    OBVIOUS
  <2>1. Dated
    BY DEF DeletionInit, Dated, Never, NoCopy
  <2>2. CopiesAreCovered /\ DeadlinesFollow
    BY DEF DeletionInit, CopiesAreCovered, DeadlinesFollow, NoCopy
  <2> QED BY <2>1, <2>2 DEF DeletionInv
<1>2. DeletionInv /\ [DeletionNext]_deletionVars => DeletionInv'
  <2> SUFFICES ASSUME DeletionInv, [DeletionNext]_deletionVars
               PROVE  DeletionInv'
    OBVIOUS
  <2>1. CASE UNCHANGED deletionVars
    <3>1. UNCHANGED <<now, kept, requestsMade, recorded, place, copy, swept>>
      BY <2>1 DEF deletionVars
    <3>2. CopyCovered'
      BY <3>1, CopyStaysCovered
    <3> QED BY <3>1, <3>2, DeletionFacts, RequestsStay DEF DeletionInv, Dated
  <2>2. CASE DeletionNext
    BY <2>2, PlainStepsKeep, AskingKeeps, AccessEndsInTime, DerivedEndsInTime, CopyStepsKeep DEF DeletionNext
  <2> QED BY <2>1, <2>2
<1>3. DeletionInv => CopiesAreCovered /\ DeadlinesFollow
  BY DEF DeletionInv
<1> QED BY <1>1, <1>2, <1>3, PTL DEF DeletionSpec

-----------------------------------------------------------------------------
(* Runs of a worker                                                        *)

WorkerSpec == WorkerInit /\ [][WorkerNext]_workerVars

ReportRecords ==
  [outcome : {"refused", "failed", "completed", "capture_partial_failure"}, verdict : {"pass", "fail"},
   exit : {"none", "running", "exit0", "exit1", "signal", "killed"}, timedOut : BOOLEAN, denials : Nat,
   missing : Int, late : BOOLEAN]

(* What each step of the worker finds: where the candidate and what it     *)
(* started may still be, what the proxy does, and which workspaces are     *)
(* there.  Only the run in progress has descendants that hold its pipes.   *)
StepsInOrder ==
  /\ candidate.late => timedOut
  /\ step # "idle" => Run \in 1..MaxRuns
  /\ workspaces \subseteq unremoved \cup {Run}
  /\ step \in {"idle", "attest"} => workspaces \subseteq unremoved /\ proxy = "none"
  /\ step \in {"idle", "staged", "bound", "killed", "capturing", "attest"} => candidate.state # "running"
  /\ step = "staged" => proxy = "none"
  /\ \A k \in children : k.pipes => k.run = Run /\ step \in {"collecting", "killed", "stopped"}

(* The outputs are counted once each. *)
CapturedOnce ==
  /\ step \notin {"idle", "stopped"} => captured.ok + captured.failed <= request.outputs
  /\ step = "attest" => captured.ok + captured.failed = request.outputs

(* What the reports say is what the runs were. *)
ReportsTrue ==
  \A r \in DOMAIN reported : reported[r].verdict = "pass" =>
    reported[r].exit = "exit0" /\ ~reported[r].late /\ reported[r].missing = 0

WorkerInv ==
  /\ WorkerTypes /\ reported \in Seq(ReportRecords)
  /\ StepsInOrder /\ CapturedOnce /\ ReportsTrue

LEMMA WorkerRecords ==
  /\ \A q \in Requests \cup {NoRequest} : q.outputs \in Nat /\ q.refused \in BOOLEAN /\ q.brokered \in BOOLEAN
  /\ NotStarted \in [state : {"none", "running", "exit0", "exit1", "signal", "killed"}, late : BOOLEAN]
  /\ [ok |-> 0, failed |-> 0] \in [ok : Nat, failed : Nat]
<1>1. \A q \in Requests : q \in [refused : BOOLEAN, brokered : BOOLEAN, outputs : Nat]
  BY WorkerAssumption
<1>2. NoRequest \in [refused : BOOLEAN, brokered : BOOLEAN, outputs : Nat]
  BY DEF NoRequest
<1>3. NotStarted \in [state : {"none", "running", "exit0", "exit1", "signal", "killed"}, late : BOOLEAN]
  BY DEF NotStarted
<1> QED
  BY <1>1, <1>2, <1>3

LEMMA ReportsTyped ==
  ASSUME NEW s \in Seq(ReportRecords)
  PROVE  \A r \in DOMAIN s : s[r].verdict \in {"pass", "fail"}
<1>1. \A r \in DOMAIN s : s[r] \in ReportRecords
  OBVIOUS
<1>2. \A x \in ReportRecords : x.verdict \in {"pass", "fail"}
  BY DEF ReportRecords
<1> QED
  BY <1>1, <1>2

(* A report says "pass" only of what completed, exited with 0 and was not  *)
(* timed out.                                                              *)
LEMMA ReportAdds ==
  ASSUME NEW r \in ReportRecords, reported \in Seq(ReportRecords), ReportsTrue, Report(r),
         r.outcome = "completed" /\ r.exit = "exit0" /\ ~r.timedOut => ~r.late /\ r.missing = 0
  PROVE  /\ reported' \in Seq(ReportRecords) /\ Len(reported') = Len(reported) + 1
         /\ ReportsTrue'
<1> DEFINE s == [r EXCEPT !.verdict = Verdict(r)]
<1>1. s \in ReportRecords
  BY DEF ReportRecords, Verdict
<1>2. s.exit = r.exit /\ s.late = r.late /\ s.missing = r.missing /\ s.verdict = Verdict(r)
  BY DEF ReportRecords
<1>3. s.verdict = "pass" => s.exit = "exit0" /\ ~s.late /\ s.missing = 0
  BY <1>2 DEF Verdict
<1>4. reported' = Append(reported, s)
  BY DEF Report
<1> HIDE DEF s
<1>5. reported' \in Seq(ReportRecords) /\ Len(reported') = Len(reported) + 1
  BY <1>1, <1>4
<1>6. \A i \in 1..Len(reported) : reported'[i] = reported[i]
  BY <1>4
<1>7. reported'[Len(reported) + 1] = s
  BY <1>4
<1>8. ASSUME NEW i \in DOMAIN reported', reported'[i].verdict = "pass"
      PROVE  reported'[i].exit = "exit0" /\ ~reported'[i].late /\ reported'[i].missing = 0
  <2>1. i \in 1..Len(reported) \/ i = Len(reported) + 1
    BY <1>5
  <2>2. CASE i \in 1..Len(reported)
    BY <1>6, <1>8, <2>2 DEF ReportsTrue
  <2>3. CASE i = Len(reported) + 1
    BY <1>3, <1>7, <1>8, <2>3
  <2> QED
    BY <2>1, <2>2, <2>3
<1> QED
  BY <1>5, <1>8 DEF ReportsTrue

LEMMA NoResultTyped ==
  \A outcome \in {"refused", "failed"} :
    NoResult(outcome) \in ReportRecords /\ NoResult(outcome).outcome # "completed"
  BY DEF NoResult, ReportRecords

(* One more descendant, of the run in progress or of another descendant.   *)
LEMMA FamilyGrows ==
  ASSUME WorkerInv, NEW k \in Family, NEW pipes \in BOOLEAN, Forks(k, pipes)
  PROVE  /\ children' \subseteq [run : 1..MaxRuns, brokered : BOOLEAN, pipes : BOOLEAN]
         /\ \A c \in children' : c.pipes => c.run = Run /\ step \in {"collecting", "killed", "stopped"}
<1> DEFINE Kin == [run : 1..MaxRuns, brokered : BOOLEAN, pipes : BOOLEAN]
<1>1. k \in Kin /\ (k.pipes => k.run = Run /\ step \in {"collecting", "killed", "stopped"})
  <2>1. CASE k \in children
    BY <2>1 DEF WorkerInv, WorkerTypes, StepsInOrder
  <2>2. CASE k \notin children
    <3>1. candidate.state = "running" /\ k = [run |-> Run, brokered |-> request.brokered, pipes |-> TRUE]
      BY <2>2 DEF Family, Child
    <3>2. step \in {"collecting", "stopped"}
      <4>1. step \in WorkerSteps
        BY DEF WorkerInv, WorkerTypes
      <4>2. step \in {"idle", "staged", "bound", "killed", "capturing", "attest"} => candidate.state # "running"
        BY DEF WorkerInv, StepsInOrder
      <4> QED
        BY <3>1, <4>1, <4>2 DEF WorkerSteps
    <3>3. Run \in 1..MaxRuns /\ request.brokered \in BOOLEAN
      BY <3>2, WorkerRecords DEF WorkerInv, WorkerTypes, StepsInOrder
    <3> QED
      BY <3>1, <3>2, <3>3
  <2> QED
    BY <2>1, <2>2
<1>2. \A x \in Kin, f \in BOOLEAN :
        LET y == [x EXCEPT !.pipes = f] IN y \in Kin /\ y.run = x.run /\ y.pipes = f
  OBVIOUS
<1>3. PICK c \in Kin : c = [k EXCEPT !.pipes = pipes] /\ c.run = k.run /\ c.pipes = pipes
  BY <1>1, <1>2
<1>4. children' = children \cup {c} /\ (pipes => k.pipes)
  BY <1>3 DEF Forks
<1>5. c.pipes => c.run = Run /\ step \in {"collecting", "killed", "stopped"}
  BY <1>1, <1>3, <1>4
<1>6. children \subseteq Kin
  BY DEF WorkerInv, WorkerTypes
<1> QED
  BY <1>4, <1>5, <1>6 DEF WorkerInv, StepsInOrder

LEMMA WorkerStep ==
  ASSUME WorkerInv, [WorkerNext]_workerVars
  PROVE  WorkerInv'
<1> USE DEF WorkerInv
<1>0. Len(reported) \in Nat /\ Run \in Nat /\ Run = Len(reported) + 1
  BY DEF Run
<1>1. CASE UNCHANGED workerVars
  BY <1>1 DEF workerVars, WorkerTypes, StepsInOrder, CapturedOnce, ReportsTrue, Run
(* runs that end before the candidate is there *)
<1>2. ASSUME NEW q \in Requests, RefuseRun(q) \/ (\E removed \in BOOLEAN : StageFails(q, removed))
      PROVE  WorkerInv'
  <2>1. PICK outcome \in {"refused", "failed"} : Report(NoResult(outcome))
    BY <1>2 DEF RefuseRun, StageFails
  <2>2. /\ reported' \in Seq(ReportRecords) /\ Len(reported') = Len(reported) + 1
        /\ ReportsTrue'
    BY <2>1, NoResultTyped, ReportAdds
  <2>3. /\ step = "idle" /\ Run \in 1..MaxRuns
        /\ UNCHANGED <<step, request, candidate, children, proxy, denied, timedOut, captured>>
        /\ \/ UNCHANGED <<workspaces, unremoved>>
           \/ workspaces' = workspaces \ {Run} /\ unremoved' = unremoved
           \/ workspaces' = workspaces \cup {Run} /\ unremoved' = unremoved \cup {Run}
    BY <1>0, <1>2, WorkerAssumption DEF RefuseRun, StageFails, CleanUp
  <2>4. workspaces' \subseteq unremoved' /\ workspaces' \subseteq 1..MaxRuns /\ unremoved' \subseteq 1..MaxRuns
    BY <2>3 DEF StepsInOrder, WorkerTypes
  <2>5. WorkerTypes'
    BY <2>2, <2>3, <2>4, ReportsTyped DEF WorkerTypes
  <2>6. StepsInOrder'
    BY <2>3, <2>4 DEF StepsInOrder
  <2> QED
    BY <2>2, <2>3, <2>5, <2>6 DEF CapturedOnce
<1>3. ASSUME NEW q \in Requests, Stage(q) PROVE WorkerInv'
  <2>1. /\ step = "idle" /\ step' = "staged" /\ request' = q /\ workspaces' = workspaces \cup {Run}
        /\ Run <= MaxRuns
        /\ candidate' = NotStarted /\ denied' = 0 /\ timedOut' = FALSE /\ captured' = [ok |-> 0, failed |-> 0]
        /\ UNCHANGED <<children, proxy, unremoved, reported>>
    BY <1>3 DEF Stage, StepTo
  <2>2. workspaces \subseteq unremoved /\ proxy = "none" /\ \A k \in children : ~k.pipes
    BY <2>1 DEF StepsInOrder
  <2>3. Run \in 1..MaxRuns /\ Run' = Run
    BY <1>0, <2>1, WorkerAssumption DEF Run
  <2>4. WorkerTypes'
    <3>1. candidate' \in [state : {"none", "running", "exit0", "exit1", "signal", "killed"}, late : BOOLEAN]
      BY <2>1, WorkerRecords
    <3>2. captured' \in [ok : Nat, failed : Nat]
      BY <2>1
    <3> QED
      BY <2>1, <2>2, <2>3, <3>1, <3>2 DEF WorkerTypes, WorkerSteps
  <2>5. StepsInOrder'
    BY <2>1, <2>2, <2>3 DEF StepsInOrder, NotStarted
  <2>6. CapturedOnce'
    BY <2>1, WorkerRecords DEF CapturedOnce
  <2> QED
    BY <2>1, <2>4, <2>5, <2>6 DEF ReportsTrue
<1>4. CASE BindProxy
  <2>1. /\ step = "staged" /\ step' = "bound" /\ proxy' \in {"none", "bound", "serving"}
        /\ UNCHANGED <<request, candidate, children, denied, workspaces, unremoved, timedOut, captured, reported>>
    BY <1>4 DEF BindProxy, StepTo
  <2> QED
    BY <2>1 DEF WorkerTypes, WorkerSteps, StepsInOrder, Run, CapturedOnce, ReportsTrue
<1>10. CASE BindFails
  <2>1. /\ step = "staged" /\ step' = "stopped"
        /\ UNCHANGED <<request, candidate, children, proxy, denied, workspaces, unremoved,
                       timedOut, captured, reported>>
    BY <1>10 DEF BindFails, StepTo
  <2> QED
    BY <2>1 DEF WorkerTypes, WorkerSteps, StepsInOrder, Run, CapturedOnce, ReportsTrue
<1>11. CASE Spawn
  <2>1. /\ step = "bound" /\ step' = "collecting" /\ proxy' \in {"none", "bound", "serving"}
        /\ candidate' = Started
        /\ UNCHANGED <<request, children, denied, workspaces, unremoved, timedOut, captured, reported>>
    BY <1>11 DEF Spawn, StepTo
  <2>2. candidate' \in [state : {"none", "running", "exit0", "exit1", "signal", "killed"}, late : BOOLEAN]
    BY <2>1, WorkerRecords DEF Started
  <2>3. ~candidate'.late
    BY <2>1 DEF Started, NotStarted
  <2>4. WorkerTypes'
    BY <2>1, <2>2 DEF WorkerTypes, WorkerSteps
  <2> QED
    BY <2>1, <2>3, <2>4 DEF StepsInOrder, Run, CapturedOnce, ReportsTrue
<1>12. ASSUME NEW started \in BOOLEAN, NEW removed \in BOOLEAN, RunRaises(started, removed) PROVE WorkerInv'
  <2>1. /\ step \in {"bound", "capturing"} /\ step' = "stopped" /\ proxy' = "none"
        /\ candidate' \in {candidate, Started}
        /\ UNCHANGED <<request, children, denied, timedOut, captured, reported>>
        /\ \/ workspaces' = workspaces \ {Run} /\ unremoved' = unremoved
           \/ workspaces' = workspaces \cup {Run} /\ unremoved' = unremoved \cup {Run}
    BY <1>12 DEF RunRaises, CleanUp
  <2>2. candidate' \in [state : {"none", "running", "exit0", "exit1", "signal", "killed"}, late : BOOLEAN]
    BY <2>1, WorkerRecords DEF Started, WorkerTypes
  <2>3. candidate'.late => timedOut'
    <3>1. ~Started.late
      BY DEF Started, NotStarted
    <3> QED
      BY <2>1, <3>1 DEF StepsInOrder
  <2>4. Run \in 1..MaxRuns /\ Run' = Run
    BY <2>1 DEF StepsInOrder, Run
  <2>5. WorkerTypes'
    BY <2>1, <2>2, <2>4 DEF WorkerTypes, WorkerSteps
  <2>6. StepsInOrder'
    BY <2>1, <2>3, <2>4 DEF StepsInOrder
  <2> QED
    BY <2>1, <2>5, <2>6 DEF CapturedOnce, ReportsTrue
(* the candidate and its descendants *)
<1>5. ASSUME NEW k, (k \in children /\ ChildEnds(k)) \/ AskProxy(k)
             \/ (\E how \in {"exit0", "exit1", "signal"} : CandidateEnds(how))
      PROVE  WorkerInv'
  <2>1. /\ UNCHANGED <<step, request, proxy, workspaces, unremoved, timedOut, captured, reported>>
        /\ denied' \in {denied, denied + 1} /\ children' \subseteq children
        /\ candidate'.late = candidate.late
        /\ candidate' \in [state : {"none", "running", "exit0", "exit1", "signal", "killed"}, late : BOOLEAN]
        /\ candidate.state # "running" => candidate'.state # "running"
    BY <1>5 DEF ChildEnds, AskProxy, CandidateEnds, WorkerTypes
  <2>2. WorkerTypes'
    BY <2>1 DEF WorkerTypes
  <2>3. StepsInOrder'
    BY <2>1 DEF StepsInOrder, Run
  <2> QED
    BY <2>1, <2>2, <2>3 DEF CapturedOnce, ReportsTrue
<1>13. ASSUME NEW k \in Family, NEW pipes \in BOOLEAN, Forks(k, pipes) PROVE WorkerInv'
  <2>1. UNCHANGED <<step, request, candidate, proxy, denied, workspaces, unremoved, timedOut, captured, reported>>
    BY <1>13 DEF Forks
  <2>2. /\ children' \subseteq [run : 1..MaxRuns, brokered : BOOLEAN, pipes : BOOLEAN]
        /\ \A c \in children' : c.pipes => c.run = Run /\ step \in {"collecting", "killed", "stopped"}
    BY <1>13, FamilyGrows
  <2>3. WorkerTypes'
    BY <2>1, <2>2 DEF WorkerTypes
  <2>4. StepsInOrder'
    BY <2>1, <2>2 DEF StepsInOrder, Run
  <2> QED
    BY <2>1, <2>3, <2>4 DEF CapturedOnce, ReportsTrue
<1>6. CASE CollectOutput \/ WallClockExpires \/ CollectAfterKill
  <2>1. /\ step \in {"collecting", "killed"} /\ step' \in {"killed", "capturing"}
        /\ UNCHANGED <<request, children, proxy, denied, workspaces, unremoved, captured, reported>>
        /\ timedOut' \in BOOLEAN /\ (timedOut => timedOut')
        /\ candidate' \in [state : {"none", "running", "exit0", "exit1", "signal", "killed"}, late : BOOLEAN]
        /\ candidate'.late => timedOut'
        /\ candidate'.state # "running"
        /\ step' = "capturing" => PipesClosed
    BY <1>6 DEF CollectOutput, WallClockExpires, CollectAfterKill, StepTo, WorkerTypes, StepsInOrder
  <2>2. WorkerTypes'
    BY <2>1 DEF WorkerTypes, WorkerSteps
  <2>3. \A k \in children : k.pipes => k.run = Run /\ step' = "killed"
    BY <2>1 DEF StepsInOrder, PipesClosed
  <2>4. StepsInOrder'
    BY <2>1, <2>3 DEF StepsInOrder, Run
  <2> QED
    BY <2>1, <2>2, <2>4 DEF CapturedOnce, ReportsTrue
<1>7. ASSUME NEW ok \in BOOLEAN, CaptureOne(ok) PROVE WorkerInv'
  <2>1. /\ step = "capturing" /\ captured.ok + captured.failed < request.outputs
        /\ UNCHANGED <<step, request, candidate, children, proxy, denied, workspaces, unremoved, timedOut, reported>>
    BY <1>7 DEF CaptureOne
  <2>2. PICK m \in Nat : m = captured.ok
    BY DEF WorkerTypes
  <2>3. PICK n \in Nat : n = captured.failed
    BY DEF WorkerTypes
  <2>4. PICK o \in Nat : o = request.outputs
    BY WorkerRecords DEF WorkerTypes
  <2>5. /\ captured' \in [ok : Nat, failed : Nat]
        /\ \/ captured'.ok = m + 1 /\ captured'.failed = n
           \/ captured'.ok = m /\ captured'.failed = n + 1
    BY <1>7, <2>2, <2>3 DEF CaptureOne, Capture, WorkerTypes
  <2>6. captured'.ok + captured'.failed <= request.outputs
    <3>1. m + n < o
      BY <2>1, <2>2, <2>3, <2>4
    <3> QED
      BY <2>4, <2>5, <3>1
  <2>7. WorkerTypes'
    BY <2>1, <2>5 DEF WorkerTypes
  <2> QED
    BY <2>1, <2>6, <2>7 DEF StepsInOrder, Run, CapturedOnce, ReportsTrue
<1>8. ASSUME NEW removed \in BOOLEAN, TearDown(removed) PROVE WorkerInv'
  <2>1. /\ step = "capturing" /\ step' = "attest" /\ captured.ok + captured.failed >= request.outputs
        /\ proxy' = "none"
        /\ UNCHANGED <<request, candidate, children, denied, timedOut, captured, reported>>
        /\ \/ workspaces' = workspaces \ {Run} /\ unremoved' = unremoved
           \/ workspaces' = workspaces \cup {Run} /\ unremoved' = unremoved \cup {Run}
    BY <1>8 DEF TearDown, StepTo, CleanUp
  <2>2. captured.ok \in Nat /\ captured.failed \in Nat /\ request.outputs \in Nat
    BY WorkerRecords DEF WorkerTypes
  <2>3. captured.ok + captured.failed = request.outputs
    BY <2>1, <2>2 DEF CapturedOnce
  <2>4. workspaces' \subseteq unremoved' /\ Run \in 1..MaxRuns /\ Run' = Run
    BY <2>1 DEF StepsInOrder, Run
  <2>5. WorkerTypes'
    BY <2>1, <2>4 DEF WorkerTypes, WorkerSteps
  <2>6. StepsInOrder'
    BY <2>1, <2>4 DEF StepsInOrder
  <2> QED
    BY <2>1, <2>2, <2>3, <2>5, <2>6 DEF CapturedOnce, ReportsTrue
<1>9. CASE Attest
  <2> DEFINE r == [outcome |-> Outcome, verdict |-> "fail", exit |-> candidate.state, timedOut |-> timedOut,
                   denials |-> denied, missing |-> request.outputs - captured.ok, late |-> candidate.late]
  <2>1. /\ step = "attest" /\ step' = "idle" /\ Report(r) /\ request' = NoRequest
        /\ UNCHANGED <<candidate, children, proxy, denied, workspaces, unremoved, timedOut, captured>>
    BY <1>9 DEF Attest, StepTo
  <2>2. captured.ok \in Nat /\ captured.failed \in Nat /\ request.outputs \in Nat
    BY WorkerRecords DEF WorkerTypes
  <2>3. r \in ReportRecords
    BY <2>2 DEF ReportRecords, Outcome, WorkerTypes
  <2>4. r.outcome = "completed" => captured.failed = 0
    BY DEF Outcome
  <2>5. captured.failed = 0 => request.outputs - captured.ok = 0
    BY <2>1, <2>2 DEF CapturedOnce
  <2>6. r.outcome = "completed" /\ r.exit = "exit0" /\ ~r.timedOut => ~r.late /\ r.missing = 0
    BY <2>4, <2>5 DEF StepsInOrder
  <2> HIDE DEF r
  <2>7. /\ reported' \in Seq(ReportRecords) /\ Len(reported') = Len(reported) + 1
        /\ ReportsTrue'
    BY <2>1, <2>3, <2>6, ReportAdds
  <2>8. WorkerTypes'
    BY <2>1, <2>7, ReportsTyped DEF WorkerTypes, WorkerSteps
  <2>9. StepsInOrder'
    BY <2>1, <2>7 DEF StepsInOrder
  <2> QED
    BY <2>1, <2>7, <2>8, <2>9 DEF CapturedOnce
<1> QED
  BY <1>1, <1>2, <1>3, <1>4, <1>5, <1>6, <1>7, <1>8, <1>9, <1>10, <1>11, <1>12, <1>13 DEF WorkerNext

(* "only a completed run with exit 0, no capture failures, and no timeout  *)
(* records pass" (dev_evaluate_verdict), of what really happened: whatever *)
(* the candidates and their descendants do beside the worker, for any      *)
(* requests, any number of runs and any number of denials.  A run that is  *)
(* reported has left neither candidate nor proxy behind, no descendant     *)
(* holding its pipes, and its workspace only if it could not be removed.   *)
THEOREM WorkerCorrect == WorkerSpec => []PassMeansCleanRun
<1>1. WorkerInit => WorkerInv
  <2> SUFFICES ASSUME WorkerInit
               PROVE  WorkerInv
    OBVIOUS
  <2>1. /\ step = "idle" /\ request = NoRequest /\ candidate = NotStarted /\ proxy = "none" /\ denied = 0
        /\ children = {} /\ workspaces = {} /\ unremoved = {} /\ timedOut = FALSE
        /\ captured = [ok |-> 0, failed |-> 0] /\ reported = <<>>
    BY DEF WorkerInit
  <2>2. DOMAIN reported = {} /\ reported \in Seq(ReportRecords)
    BY <2>1
  <2>3. WorkerTypes
    BY <2>1, <2>2, WorkerRecords DEF WorkerTypes, WorkerSteps
  <2>4. StepsInOrder
    BY <2>1 DEF StepsInOrder, NotStarted
  <2> QED
    BY <2>1, <2>2, <2>3, <2>4 DEF WorkerInv, CapturedOnce, ReportsTrue
<1>2. WorkerInv /\ [WorkerNext]_workerVars => WorkerInv'
  BY WorkerStep
<1>3. WorkerInv => PassMeansCleanRun
  <2> SUFFICES ASSUME WorkerInv
               PROVE  PassMeansCleanRun
    OBVIOUS
  <2>1. \A r \in DOMAIN reported : r \in 1..Len(reported) /\ r # Len(reported) + 1
    BY DEF WorkerInv
  <2>2. \A r \in DOMAIN reported : /\ r \in workspaces => r \in unremoved
                                   /\ \A k \in children : k.run = r => ~k.pipes
    BY <2>1 DEF WorkerInv, WorkerTypes, StepsInOrder, Run
  <2> QED
    BY <2>2 DEF PassMeansCleanRun, WorkerInv, StepsInOrder, ReportsTrue
<1> QED
  BY <1>1, <1>2, <1>3, PTL DEF WorkerSpec

-----------------------------------------------------------------------------
(* Claims of recursive improvement                                         *)

ClaimSpec == ClaimInit /\ [][ClaimNext]_claimVars

(* A nonempty set of percentages has a greatest one. *)
LEMMA GreatestUpto ==
  ASSUME NEW n \in Nat, NEW T \in SUBSET (0..n), T # {}
  PROVE  \E x \in T : \A y \in T : y <= x
<1> DEFINE U == {k \in Nat : n - k \in T}
<1>1. PICK t \in T : TRUE
  OBVIOUS
<1>2. n - t \in U
  <2>1. t \in Int /\ n - t \in Nat /\ n - (n - t) = t
    OBVIOUS
  <2> QED
    BY <2>1
<1>3. PICK k \in U : \A m \in U : k <= m
  <2>1. U # {} /\ U \in SUBSET Nat
    BY <1>2
  <2> HIDE DEF U
  <2> QED
    BY <2>1, LeastNat
<1>4. ASSUME NEW y \in T PROVE y <= n - k
  <2>1. y \in Int /\ n - y \in Nat /\ n - (n - y) = y
    OBVIOUS
  <2>2. k <= n - y
    BY <1>3, <2>1
  <2> QED
    BY <1>3, <2>1, <2>2
<1> QED
  BY <1>3, <1>4

LEMMA SeqElements ==
  ASSUME NEW T, NEW s \in Seq(T)
  PROVE  Len(s) \in Nat /\ DOMAIN s = 1..Len(s) /\ \A i \in 1..Len(s) : s[i] \in T
  OBVIOUS

(* Holm's adjustment raises a p-value, if anything. *)
LEMMA HolmRaises ==
  ASSUME NEW family \in Seq(0..100), Len(family) \in 2..3, HolmAdjusted(family) < Alpha
  PROVE  family[1] < Alpha
<1> DEFINE rank(i) == Cardinality({j \in DOMAIN family :
                        family[j] < family[i] \/ (family[j] = family[i] /\ j < i)})
           scale(i) == Least(100, (Len(family) - rank(i)) * family[i])
           scaled == {scale(i) : i \in {i \in DOMAIN family : rank(i) <= rank(1)}}
<1>1. DOMAIN family = 1..Len(family) /\ \A i \in 1..Len(family) : family[i] \in 0..100
  BY SeqElements
<1>0. Len(family) \in Int /\ 1 \in Int /\ (Len(family) = 2 \/ Len(family) = 3)
  OBVIOUS
<1>16. 1..Len(family) \subseteq Int
  <2>1. \A b \in Int : 1..b \subseteq Int
    OBVIOUS
  <2> QED
    BY <1>0, <2>1
<1>2. ASSUME NEW i \in 1..Len(family) PROVE rank(i) \in 0..(Len(family) - 1)
  <2> DEFINE before == {j \in DOMAIN family : family[j] < family[i] \/ (family[j] = family[i] /\ j < i)}
  <2>1. IsFiniteSet(1..Len(family)) /\ Cardinality(1..Len(family)) = Len(family)
    <3>1. /\ IsFiniteSet(1..Len(family))
          /\ Cardinality(1..Len(family)) = IF 1 > Len(family) THEN 0 ELSE Len(family) - 1 + 1
      BY <1>0, FS_Interval
    <3>2. ~(1 > Len(family)) /\ Len(family) - 1 + 1 = Len(family)
      BY <1>0
    <3> QED
      BY <3>1, <3>2
  <2>2. IsFiniteSet((1..Len(family)) \ {i}) /\ Cardinality((1..Len(family)) \ {i}) = Len(family) - 1
    BY <2>1, FS_RemoveElement
  <2>3. before \in SUBSET ((1..Len(family)) \ {i})
    <3>1. i \notin before
      <4>1. family[i] \in 0..100
        BY <1>1
      <4>2. \A n \in Int : ~(n < n)
        OBVIOUS
      <4>3. family[i] \in Int /\ i \in Int
        <5>1. i \in 1..Len(family) /\ Len(family) \in Int
          BY <1>0
        <5>3. i \in Int
          BY <1>16, <5>1, Zenon
        <5>2. 0..100 \subseteq Int
          OBVIOUS
        <5>4. family[i] \in Int
          BY <4>1, <5>2, Zenon
        <5> QED
          BY <5>3, <5>4
      <4> QED
        BY <4>2, <4>3
    <3>2. before \subseteq 1..Len(family)
      BY <1>1
    <3> QED
      BY <3>1, <3>2
  <2>4. IsFiniteSet(before) /\ Cardinality(before) <= Len(family) - 1
    BY <2>2, <2>3, FS_Subset
  <2>5. Cardinality(before) \in Nat
    BY <2>4, FS_CardinalityType
  <2> HIDE DEF before
  <2>6. Cardinality(before) \in 0..(Len(family) - 1)
    BY <1>0, <2>4, <2>5
  <2> QED
    BY <2>6 DEF before
<1> HIDE DEF rank
<1>3. \A k \in 1..3, p \in 0..100 : k * p \in Nat /\ k * p >= p
  OBVIOUS
<1>4. ASSUME NEW i \in 1..Len(family) PROVE scale(i) \in 0..100 /\ scale(i) >= family[i]
  <2>1. Len(family) - rank(i) \in 1..3
    <3>1. PICK r \in 0..(Len(family) - 1) : r = rank(i)
      BY <1>2
    <3>2. \A n \in {2, 3} : \A k \in 0..(n - 1) : n - k \in 1..3
      OBVIOUS
    <3>3. Len(family) - r \in 1..3
      BY <1>0, <3>2
    <3> QED
      BY <3>1, <3>3
  <2>2. PICK k \in 1..3 : k = Len(family) - rank(i)
    BY <2>1
  <2>3. k * family[i] \in Nat /\ k * family[i] >= family[i] /\ family[i] \in 0..100
    BY <1>1, <1>3
  <2>4. scale(i) = Least(100, k * family[i])
    BY <2>2
  <2>5. \A p \in 0..100, v \in Nat : v >= p => Least(100, v) \in 0..100 /\ Least(100, v) >= p
    BY DEF Least
  <2> HIDE DEF scale
  <2> QED
    BY <2>3, <2>4, <2>5
<1> HIDE DEF scale
<1>5. 1 \in DOMAIN family /\ rank(1) <= rank(1)
  BY <1>1, <1>2
<1>6. scaled \in SUBSET (0..100) /\ scale(1) \in scaled
  BY <1>1, <1>4, <1>5
<1>7. \E s \in scaled : \A t \in scaled : t <= s
  <2> HIDE DEF scaled
  <2> QED
    BY <1>6, GreatestUpto
<1>8. HolmAdjusted(family) = CHOOSE s \in scaled : \A t \in scaled : t <= s
  BY DEF HolmAdjusted, rank, scale
<1>9. HolmAdjusted(family) \in scaled /\ scale(1) <= HolmAdjusted(family)
  <2> HIDE DEF scaled
  <2> QED
    BY <1>6, <1>7, <1>8
<1>10. scale(1) \in 0..100 /\ scale(1) >= family[1] /\ family[1] \in 0..100
  BY <1>1, <1>4, <1>5
<1>11. HolmAdjusted(family) \in 0..100
  BY <1>6, <1>9
<1>12. \A a, b, c, d \in 0..100 : a <= b /\ b <= c /\ c < d => a < d
  OBVIOUS
<1>13. Alpha \in 0..100
  BY ClaimAssumption
<1>14. family[1] <= scale(1)
  BY <1>10
<1> HIDE DEF scaled
<1> QED
  BY <1>9, <1>10, <1>11, <1>12, <1>13, <1>14

LEMMA GenerationFields ==
  ASSUME NEW g \in Generations
  PROVE  /\ g.strategy \in Comparisons /\ g.oneShot \in Comparisons \cup {Absent}
         /\ g.editor \in Comparisons /\ g.versusEditor \in Comparisons \cup {Absent} /\ g.minimum \in Minimums
         /\ g.strategy.delta \in Int /\ g.oneShot.delta \in Int /\ g.versusEditor.delta \in Int
         /\ g.oneShot # Absent => g.oneShot.p \in 0..100
         /\ g.versusEditor # Absent => g.versusEditor.p \in 0..100
         /\ g.editor.p \in 0..100
         /\ g.minimum \in Int \cup {NoNumber}
<1>1. /\ g.strategy \in Comparisons /\ g.oneShot \in Comparisons \cup {Absent}
      /\ g.editor \in Comparisons /\ g.versusEditor \in Comparisons \cup {Absent} /\ g.minimum \in Minimums
  BY DEF Generations
<1>2. \A c \in Comparisons : c.delta \in Int /\ c.p \in 0..100
  BY ClaimAssumption
<1>3. Absent.delta \in Int
  BY DEF Absent
<1>4. g.minimum \in Int \cup {NoNumber}
  BY <1>1, ClaimAssumption
<1> QED
  BY <1>1, <1>2, <1>3, <1>4

LEMMA LabelsDiffer == RecursiveImprovement # ArtifactOptimization
  BY DEF RecursiveImprovement, ArtifactOptimization

(* What the gate accepts. *)
GateAccepts(e) ==
  /\ e.successive /\ e.budget /\ e.inheritance /\ e.oneShotAdvantage /\ e.noInheritanceArm
  /\ e.editorArm /\ e.editorMinimum # NoNumber /\ e.editorAdvantage # NoNumber
  /\ e.editorAdvantage > e.editorMinimum /\ e.editorSignificant

LEMMA EvidenceTyped ==
  ASSUME NEW g \in Generations
  PROVE  Evidence(g) \in Evidences
<1>1. /\ (g.promotions = "both") \in BOOLEAN /\ (g.matched = "shared") \in BOOLEAN
      /\ (g.promotions # "none" /\ g.fromFirst /\ g.strategy.above) \in BOOLEAN
      /\ (g.oneShot # Absent /\ g.matched # "none" /\ g.versusOneShot.above) \in BOOLEAN
      /\ (g.oneShot # Absent /\ g.strategy.delta > g.oneShot.delta) \in BOOLEAN
      /\ (g.versusEditor # Absent) \in BOOLEAN
      /\ (g.versusEditor # Absent /\ HolmAdjusted(HolmFamily(g)) < Alpha) \in BOOLEAN
  OBVIOUS
<1>2. (IF g.versusEditor = Absent THEN NoNumber ELSE g.versusEditor.delta) \in Int \cup {NoNumber}
  BY GenerationFields
<1>3. g.minimum \in Int \cup {NoNumber}
  BY GenerationFields
<1> QED
  BY <1>1, <1>2, <1>3, Zenon DEF Evidence, Evidences

(* Evidence that the gate accepts was assembled from results that back it. *)
LEMMA AcceptedIsBacked ==
  ASSUME NEW g \in Generations, GateAccepts(Evidence(g))
  PROVE  Backed(g)
<1> DEFINE e == Evidence(g)
<1>2. GateAccepts(e)
  OBVIOUS
<1>3. g.promotions = "both"
  BY <1>2 DEF Evidence, GateAccepts
<1>4. g.matched = "shared"
  BY <1>2 DEF Evidence, GateAccepts
<1>5. g.fromFirst /\ g.strategy.above
  BY <1>2 DEF Evidence, GateAccepts
<1>6. g.oneShot # Absent /\ g.versusOneShot.above
  BY <1>2 DEF Evidence, GateAccepts
<1>7. g.strategy.delta > g.oneShot.delta
  BY <1>2 DEF Evidence, GateAccepts
<1>8. g.versusEditor # Absent
  BY <1>2 DEF Evidence, GateAccepts
<1>9. g.minimum # NoNumber /\ g.versusEditor.delta > g.minimum
  <2>1. e.editorMinimum = g.minimum /\ e.editorAdvantage = g.versusEditor.delta
    BY <1>8 DEF Evidence
  <2> HIDE DEF e
  <2> QED
    BY <1>2, <2>1 DEF GateAccepts
<1>10. HolmAdjusted(HolmFamily(g)) < Alpha
  BY <1>2 DEF Evidence, GateAccepts
<1>12. g.versusEditor.p < Alpha
  <2>1. /\ g.versusEditor.p \in 0..100 /\ g.editor.p \in 0..100 /\ g.oneShot.p \in 0..100
    BY <1>6, <1>8, GenerationFields
  <2>2. /\ HolmFamily(g) \in Seq(0..100) /\ Len(HolmFamily(g)) \in 2..3
        /\ HolmFamily(g)[1] = g.versusEditor.p
    <3> DEFINE s == <<g.versusEditor.p, g.editor.p>>
               u == <<g.oneShot.p>>
    <3>1. HolmFamily(g) = s \o u
      BY <1>6 DEF HolmFamily
    <3>2. s \in Seq(0..100) /\ u \in Seq(0..100) /\ Len(s) = 2 /\ Len(u) = 1 /\ s[1] = g.versusEditor.p
      BY <2>1
    <3> HIDE DEF s, u
    <3>3. HolmFamily(g) \in Seq(0..100)
      BY <3>1, <3>2, ConcatProperties
    <3>4. Len(HolmFamily(g)) = Len(s) + Len(u)
      BY <3>1, <3>2, ConcatProperties, ZenonT(60), SMTT(30)
    <3>5. \A i \in 1..Len(s) : HolmFamily(g)[i] = s[i]
      <4>1. \A i \in 1..(Len(s) + Len(u)) : (s \o u)[i] = IF i <= Len(s) THEN s[i] ELSE u[i - Len(s)]
        BY <3>2, ConcatProperties
      <4>2. \A i \in 1..Len(s) : i \in 1..(Len(s) + Len(u)) /\ i <= Len(s)
        BY <3>2
      <4> QED
        BY <3>1, <4>1, <4>2
    <3>6. HolmFamily(g)[1] = s[1]
      <4>1. 1 \in 1..Len(s)
        BY <3>2
      <4> QED
        BY <3>5, <4>1
    <3> QED
      BY <3>2, <3>3, <3>4, <3>6
  <2> QED
    BY <1>10, <2>2, HolmRaises
<1>13. /\ g.minimum \in Int /\ g.strategy.delta \in Int /\ g.oneShot.delta \in Int
       /\ g.versusEditor.delta \in Int
  BY <1>9, GenerationFields
<1> HIDE DEF e
<1> QED
  BY <1>3, <1>4, <1>5, <1>6, <1>7, <1>8, <1>9, <1>12, <1>13 DEF Backed

LEMMA LabelIsEarned ==
  ASSUME NEW e, Label(e) = RecursiveImprovement
  PROVE  ClaimsEnabled /\ GateAccepts(e)
<1>1. Satisfied(e) /\ ClaimsEnabled
  BY LabelsDiffer DEF Label
<1> QED
  BY <1>1 DEF Satisfied, EditorAdvantageHolds, GateAccepts

-----------------------------------------------------------------------------
Enabled(p) == p.enabled /\ p.environment = "research"
RefusedOf(s) == {d \in DOMAIN s : s[d].label # RecursiveImprovement}
ClaimRows == [label : {RecursiveImprovement, ArtifactOptimization}, evidence : Evidences, under : Policies]

(* What the invariant says of the recorded decisions alone. *)
DecisionsEarned(s) ==
  /\ s \in Seq(ClaimRows)
  /\ \A d \in DOMAIN s :
       /\ s[d].evidence \in Evidences
       /\ s[d].label = RecursiveImprovement => Enabled(s[d].under) /\ GateAccepts(s[d].evidence)

ClaimInv ==
  /\ DecisionsEarned(claimDecisions)
  /\ policy \in Policies /\ boundaryRows \in Nat /\ (claiming = NoClaim \/ claiming[1] \in Evidences)
  /\ claiming # NoClaim => /\ ~(Satisfied(claiming[1]) /\ Enabled(policy))
                           /\ Cardinality(RefusedOf(claimDecisions)) + 1 <= boundaryRows
  /\ Cardinality(RefusedOf(claimDecisions)) <= boundaryRows

LEMMA RefusedFinite ==
  ASSUME NEW T, NEW s \in Seq(T)
  PROVE  IsFiniteSet(RefusedOf(s)) /\ Cardinality(RefusedOf(s)) \in Nat
<1>1. Len(s) \in Int /\ 1 \in Int /\ DOMAIN s = 1..Len(s)
  OBVIOUS
<1>3. IsFiniteSet(1..Len(s)) /\ RefusedOf(s) \in SUBSET (1..Len(s))
  BY <1>1, FS_Interval DEF RefusedOf
<1>2. IsFiniteSet(RefusedOf(s))
  BY <1>3, FS_Subset
<1> QED
  BY <1>2, FS_CardinalityType

LEMMA RefusedAppend ==
  ASSUME NEW T, NEW s \in Seq(T), NEW x \in T, NEW t, t = Append(s, x)
  PROVE  Cardinality(RefusedOf(t)) =
           IF x.label = RecursiveImprovement THEN Cardinality(RefusedOf(s)) ELSE Cardinality(RefusedOf(s)) + 1
<1>1. t \in Seq(T) /\ DOMAIN t = 1..(Len(s) + 1) /\ t[Len(s) + 1] = x /\ \A i \in 1..Len(s) : t[i] = s[i]
  OBVIOUS
<1>2. DOMAIN s = 1..Len(s) /\ Len(s) \in Nat /\ 1..(Len(s) + 1) = (1..Len(s)) \cup {Len(s) + 1}
  OBVIOUS
<1>3. Len(s) + 1 \notin 1..Len(s)
  OBVIOUS
<1>4. CASE x.label = RecursiveImprovement
  <2>1. RefusedOf(t) = RefusedOf(s)
    BY <1>1, <1>2, <1>4 DEF RefusedOf
  <2> QED
    BY <1>4, <2>1
<1>5. CASE x.label # RecursiveImprovement
  <2>1. RefusedOf(t) = RefusedOf(s) \cup {Len(s) + 1}
    BY <1>1, <1>2, <1>5 DEF RefusedOf
  <2>2. Len(s) + 1 \notin RefusedOf(s)
    BY <1>2, <1>3 DEF RefusedOf
  <2> QED
    BY <1>5, <2>1, <2>2, RefusedFinite, FS_AddElement
<1> QED
  BY <1>4, <1>5

(* A decision is recorded with the label its evidence earns. *)
LEMMA DecisionRecorded ==
  ASSUME ClaimInv, NEW e \in Evidences, NEW s, s = Append(claimDecisions, Decision(e))
  PROVE  /\ DecisionsEarned(s)
         /\ Cardinality(RefusedOf(claimDecisions)) \in Nat
         /\ Cardinality(RefusedOf(s)) =
              IF Label(e) = RecursiveImprovement THEN Cardinality(RefusedOf(claimDecisions))
              ELSE Cardinality(RefusedOf(claimDecisions)) + 1
<1> DEFINE x == Decision(e)
<1>0. Label(e) \in {RecursiveImprovement, ArtifactOptimization} /\ policy \in Policies
  BY DEF Label, ClaimInv
<1>1. x \in ClaimRows /\ x.label = Label(e) /\ x.evidence = e /\ x.under = policy
  BY <1>0 DEF Decision, ClaimRows
<1>2. x.label = RecursiveImprovement => Enabled(x.under) /\ GateAccepts(e)
  BY <1>1, LabelIsEarned DEF ClaimsEnabled, Enabled
<1>3. claimDecisions \in Seq(ClaimRows)
  BY DEF ClaimInv, DecisionsEarned
<1> HIDE DEF x
<1>4. s = Append(claimDecisions, x)
  BY DEF x
<1>5. ASSUME NEW d \in DOMAIN s
      PROVE  /\ s[d].evidence \in Evidences
             /\ s[d].label = RecursiveImprovement => Enabled(s[d].under) /\ GateAccepts(s[d].evidence)
  <2>1. CASE d \in DOMAIN claimDecisions
    <3>1. s[d] = claimDecisions[d]
      BY <1>3, <1>4, <2>1
    <3> QED
      BY <2>1, <3>1 DEF ClaimInv, DecisionsEarned
  <2>2. CASE d = Len(claimDecisions) + 1
    <3>1. s[d] = x
      BY <1>3, <1>4, <2>2
    <3> QED
      BY <1>1, <1>2, <3>1
  <2> QED
    BY <1>3, <1>4, <2>1, <2>2
<1>6. s \in Seq(ClaimRows)
  BY <1>1, <1>3, <1>4
<1>7. Cardinality(RefusedOf(claimDecisions)) \in Nat
  BY <1>3, RefusedFinite
<1>8. Cardinality(RefusedOf(s)) =
        IF x.label = RecursiveImprovement THEN Cardinality(RefusedOf(claimDecisions))
        ELSE Cardinality(RefusedOf(claimDecisions)) + 1
  BY <1>1, <1>3, <1>4, RefusedAppend
<1> QED
  BY <1>1, <1>5, <1>6, <1>7, <1>8 DEF DecisionsEarned

LEMMA ClaimStep ==
  ASSUME ClaimInv, [ClaimNext]_claimVars
  PROVE  ClaimInv'
<1>0. Cardinality(RefusedOf(claimDecisions)) \in Nat /\ boundaryRows \in Nat
  BY RefusedFinite DEF ClaimInv, DecisionsEarned
<1>1. CASE UNCHANGED claimVars
  BY <1>1 DEF claimVars, ClaimInv
<1>6. Submissions \cup Assembled \subseteq Evidences
  BY ClaimAssumption, EvidenceTyped DEF Assembled
<1>2. ASSUME NEW e \in Evidences, IssueLabel(e) PROVE ClaimInv'
  <2>1. /\ Label(e) = RecursiveImprovement /\ claimDecisions' = Append(claimDecisions, Decision(e))
        /\ policy' = policy /\ boundaryRows' = boundaryRows /\ claiming' = claiming
    BY <1>2 DEF IssueLabel
  <2>2. /\ DecisionsEarned(claimDecisions')
        /\ Cardinality(RefusedOf(claimDecisions')) = Cardinality(RefusedOf(claimDecisions))
    BY <2>1, DecisionRecorded
  <2> QED
    BY <2>1, <2>2 DEF ClaimInv
<1>3. ASSUME NEW e \in Evidences, BeginRefusal(e) PROVE ClaimInv'
  <2>1. /\ Label(e) # RecursiveImprovement /\ boundaryRows' = boundaryRows + 1 /\ claiming' = <<e>>
        /\ policy' = policy /\ claimDecisions' = claimDecisions
    BY <1>3 DEF BeginRefusal
  <2>2. claiming'[1] = e /\ ~(Satisfied(e) /\ Enabled(policy))
    BY <2>1 DEF Label, ClaimsEnabled, Enabled
  <2>3. Cardinality(RefusedOf(claimDecisions)) + 1 <= boundaryRows'
    BY <1>0, <2>1 DEF ClaimInv
  <2>4. Cardinality(RefusedOf(claimDecisions)) <= boundaryRows' /\ boundaryRows' \in Nat
    BY <1>0, <2>1, <2>3
  <2> QED
    BY <2>1, <2>2, <2>3, <2>4 DEF ClaimInv
<1>4. CASE EndRefusal
  <2>1. /\ claiming # NoClaim /\ claimDecisions' = Append(claimDecisions, Decision(claiming[1]))
        /\ claiming' = NoClaim /\ policy' = policy /\ boundaryRows' = boundaryRows
    BY <1>4 DEF EndRefusal
  <2>2. claiming[1] \in Evidences
    BY <2>1 DEF ClaimInv
  <2>3. Label(claiming[1]) # RecursiveImprovement
    BY <2>1, LabelsDiffer DEF ClaimInv, Label, ClaimsEnabled, Enabled
  <2>4. /\ DecisionsEarned(claimDecisions')
        /\ Cardinality(RefusedOf(claimDecisions')) = Cardinality(RefusedOf(claimDecisions)) + 1
    BY <2>1, <2>2, <2>3, DecisionRecorded
  <2>5. Cardinality(RefusedOf(claimDecisions)) + 1 <= boundaryRows
    BY <2>1 DEF ClaimInv
  <2> QED
    BY <2>1, <2>4, <2>5 DEF ClaimInv
<1>5. CASE LoseRefusal
  BY <1>5 DEF LoseRefusal, ClaimInv
<1>7. CASE RestartServer
  <2>1. /\ policy' \in Policies \cup {Unmapped} /\ claiming' = NoClaim
        /\ boundaryRows' = boundaryRows /\ claimDecisions' = claimDecisions
    BY <1>7 DEF RestartServer
  <2>2. Unmapped \in Policies
    BY DEF Policies, Unmapped
  <2> QED
    BY <2>1, <2>2 DEF ClaimInv
<1> QED
  BY <1>1, <1>2, <1>3, <1>4, <1>5, <1>6, <1>7 DEF ClaimNext

(* "a claim cannot slip past" (recursive_gate.py): whatever evidence a     *)
(* caller states or assembles, with whatever minimum, however many claims  *)
(* are asked for, wherever the server stops and whatever policy it comes   *)
(* back with, a label was issued under an enabling research policy on      *)
(* evidence the gate accepts, generations that give this evidence back the *)
(* claim - the advantage over the fixed editor significant after Holm's    *)
(* correction - and a decision that refused one has its row on the ledger. *)
THEOREM ClaimsCorrect == ClaimSpec => []ClaimsAreBacked
<1>1. ClaimInit => ClaimInv
  <2> SUFFICES ASSUME ClaimInit
               PROVE  ClaimInv
    OBVIOUS
  <2>1. /\ policy \in Policies \cup {Unmapped} /\ boundaryRows = 0 /\ claimDecisions = <<>> /\ claiming = NoClaim
    BY DEF ClaimInit
  <2>2. Unmapped \in Policies
    BY DEF Policies, Unmapped
  <2>3. DOMAIN claimDecisions = {} /\ claimDecisions \in Seq(ClaimRows)
    BY <2>1
  <2>4. Cardinality(RefusedOf(claimDecisions)) = 0
    BY <2>3, FS_EmptySet DEF RefusedOf
  <2> QED
    BY <2>1, <2>2, <2>3, <2>4 DEF ClaimInv, DecisionsEarned
<1>2. ClaimInv /\ [ClaimNext]_claimVars => ClaimInv'
  BY ClaimStep
<1>3. ClaimInv => ClaimsAreBacked
  <2> SUFFICES ASSUME ClaimInv
               PROVE  ClaimsAreBacked
    OBVIOUS
  <2>1. ASSUME NEW d \in DOMAIN claimDecisions, claimDecisions[d].label = RecursiveImprovement,
               NEW e, e = claimDecisions[d].evidence
        PROVE  /\ claimDecisions[d].under = [environment |-> "research", enabled |-> TRUE]
               /\ e.editorAdvantage # NoNumber /\ e.editorMinimum # NoNumber
               /\ e.editorMinimum < e.editorAdvantage /\ e.successive /\ e.inheritance /\ e.noInheritanceArm
               /\ \A g \in Generations : Evidence(g) = e => Backed(g)
    <3>1. Enabled(claimDecisions[d].under) /\ GateAccepts(e) /\ e \in Evidences /\ claimDecisions[d] \in ClaimRows
      BY <2>1 DEF ClaimInv, DecisionsEarned
    <3>2. claimDecisions[d].under \in Policies
      BY <3>1 DEF ClaimRows
    <3>3. claimDecisions[d].under = [environment |-> "research", enabled |-> TRUE]
      BY <3>1, <3>2 DEF Enabled, Policies
    <3>4. e.editorAdvantage \in Int \cup {NoNumber} /\ e.editorMinimum \in Int \cup {NoNumber}
      BY <3>1 DEF Evidences
    <3>5. /\ e.editorAdvantage # NoNumber /\ e.editorMinimum # NoNumber
          /\ e.editorMinimum < e.editorAdvantage /\ e.successive /\ e.inheritance /\ e.noInheritanceArm
      BY <3>1, <3>4 DEF GateAccepts
    <3>6. \A g \in Generations : Evidence(g) = e => Backed(g)
      BY <3>1, AcceptedIsBacked
    <3> QED
      BY <3>3, <3>5, <3>6
  <2> QED
    BY <2>1 DEF ClaimsAreBacked, ClaimInv, RefusedOf
<1> QED
  BY <1>1, <1>2, <1>3, PTL DEF ClaimSpec

-----------------------------------------------------------------------------
(* The transport of a plugin                                               *)

TransportSpec == TransportInit /\ [][TransportNext]_transportVars

Lines == [id : Nat, kind : {"result", "error", "partial", "junk"}, count : Nat]
Handovers == [to : Nat, id : Nat, count : Nat]

(* Total is the sum of the first results, from the first on. *)
IsRunningTotal(total, s) ==
  total = [n \in 0..Len(s) |-> IF n = 0 THEN 0 ELSE total[n - 1] + s[n].count]

LEMMA TotalExists ==
  ASSUME NEW s \in Seq(Handovers)
  PROVE  \E total \in [0..Len(s) -> Nat] : IsRunningTotal(total, s)
<1>1. Len(s) \in Nat /\ DOMAIN s = 1..Len(s) /\ \A i \in 1..Len(s) : s[i] \in Handovers
  OBVIOUS
<1> DEFINE D == [x \in Nat \X Nat |-> IF x[2] < Len(s) THEN x[1] + s[x[2] + 1].count ELSE x[1]]
<1>2. D \in [Nat \X Nat -> Nat]
  <2> SUFFICES ASSUME NEW a \in Nat, NEW b \in Nat
               PROVE  (IF b < Len(s) THEN a + s[b + 1].count ELSE a) \in Nat
    OBVIOUS
  <2>1. CASE b < Len(s)
    <3>1. b + 1 \in 1..Len(s)
      BY <1>1, <2>1
    <3>2. s[b + 1].count \in Nat
      BY <1>1, <3>1 DEF Handovers
    <3> QED
      BY <2>1, <3>2
  <2> QED
    BY <2>1
<1>3. PICK f \in [Nat -> Nat] : f[0] = 0 /\ \A n \in Nat : f[n + 1] = D[<<f[n], n>>]
  <2> HIDE DEF D
  <2>1. 0 \in Nat
    OBVIOUS
  <2>2. Recurs(Nat, 0, D)
    BY <1>2, <2>1, Recursion
  <2> QED
    BY <2>2 DEF Recurs
<1> DEFINE total == [n \in 0..Len(s) |-> f[n]]
<1>4. total \in [0..Len(s) -> Nat]
  BY <1>1, <1>3
<1>5. ASSUME NEW n \in 0..Len(s)
      PROVE  total[n] = IF n = 0 THEN 0 ELSE total[n - 1] + s[n].count
  <2>1. CASE n = 0
    BY <1>3, <2>1
  <2>2. CASE n # 0
    <3>1. n - 1 \in Nat /\ n - 1 \in 0..Len(s) /\ n - 1 < Len(s) /\ n - 1 + 1 = n
      <4>1. \A m \in Nat : \A k \in 0..m : k # 0 => k - 1 \in Nat /\ k - 1 \in 0..m /\ k - 1 < m /\ k - 1 + 1 = k
        OBVIOUS
      <4>2. Len(s) \in Nat
        BY <1>1
      <4> HIDE <1>1
      <4> QED
        BY <2>2, <4>1, <4>2
    <3>2. f[n - 1 + 1] = D[<<f[n - 1], n - 1>>]
      BY <1>3, <3>1
    <3>3. f[n - 1] \in Nat
      BY <1>3, <3>1
    <3>4. D[<<f[n - 1], n - 1>>] = f[n - 1] + s[n - 1 + 1].count
      BY <3>1, <3>3
    <3> QED
      BY <2>2, <3>1, <3>2, <3>4
  <2> QED
    BY <2>1, <2>2
<1>6. IsRunningTotal(total, s)
  BY <1>5 DEF IsRunningTotal
<1> QED
  BY <1>4, <1>6

(* The two agree as far as the sequences do. *)
LEMMA TotalsAgree ==
  ASSUME NEW s, NEW u, Len(s) \in Nat, Len(u) \in Nat, Len(s) <= Len(u),
         \A i \in 1..Len(s) : u[i] = s[i],
         NEW f, IsRunningTotal(f, s), NEW g, IsRunningTotal(g, u)
  PROVE  \A n \in 0..Len(s) : g[n] = f[n]
<1> DEFINE Q == {n \in Nat : n <= Len(s) => g[n] = f[n]}
<1>1. /\ \A n \in 0..Len(s) : f[n] = IF n = 0 THEN 0 ELSE f[n - 1] + s[n].count
      /\ \A n \in 0..Len(u) : g[n] = IF n = 0 THEN 0 ELSE g[n - 1] + u[n].count
  BY DEF IsRunningTotal
<1>2. 0 \in Q
  BY <1>1
<1>3. ASSUME NEW n \in Nat, n \in Q PROVE n + 1 \in Q
  <2>1. CASE n + 1 <= Len(s)
    <3>1. n + 1 \in 0..Len(s) /\ n + 1 \in 0..Len(u) /\ n + 1 \in 1..Len(s) /\ n + 1 # 0 /\ n + 1 - 1 = n /\ n <= Len(s)
      BY <2>1
    <3>2. f[n + 1] = f[n] + s[n + 1].count /\ g[n + 1] = g[n] + u[n + 1].count
      <4>1. f[n + 1] = f[n + 1 - 1] + s[n + 1].count
        BY <1>1, <3>1
      <4>2. g[n + 1] = g[n + 1 - 1] + u[n + 1].count
        BY <1>1, <3>1
      <4> QED
        BY <3>1, <4>1, <4>2
    <3>3. g[n] = f[n] /\ u[n + 1] = s[n + 1]
      BY <1>3, <3>1
    <3> QED
      BY <3>2, <3>3
  <2> QED
    BY <2>1
<1>4. Nat \subseteq Q
  <2> HIDE DEF Q
  <2> QED
    BY <1>2, <1>3, NatSetInduction
<1> QED
  BY <1>4

LEMMA ProposalsCounted ==
  ASSUME NEW s \in Seq(Handovers)
  PROVE  \E f \in [0..Len(s) -> Nat] : IsRunningTotal(f, s) /\ ProposalsIn(s) = f[Len(s)]
<1> DEFINE total == CHOOSE f : IsRunningTotal(f, s)
<1>1. PICK f \in [0..Len(s) -> Nat] : IsRunningTotal(f, s)
  BY TotalExists
<1>2. IsRunningTotal(total, s)
  BY <1>1
<1>3. ProposalsIn(s) = total[Len(s)]
  BY DEF ProposalsIn, IsRunningTotal
<1>4. Len(s) \in Nat
  OBVIOUS
<1>5. \A n \in 0..Len(s) : total[n] = f[n]
  <2> HIDE DEF total
  <2> QED
    BY <1>1, <1>2, <1>4, TotalsAgree
<1> QED
  BY <1>1, <1>3, <1>4, <1>5

LEMMA ProposalAdds ==
  ASSUME NEW s \in Seq(Handovers), NEW r \in Handovers
  PROVE  ProposalsIn(Append(s, r)) = ProposalsIn(s) + r.count
<1> DEFINE u == Append(s, r)
<1>1. /\ Len(s) \in Nat /\ Len(u) = Len(s) + 1 /\ u \in Seq(Handovers)
      /\ \A i \in 1..Len(s) : u[i] = s[i]
      /\ u[Len(s) + 1] = r
  OBVIOUS
<1> HIDE DEF u
<1>2. PICK f \in [0..Len(s) -> Nat] : IsRunningTotal(f, s) /\ ProposalsIn(s) = f[Len(s)]
  BY ProposalsCounted
<1>3. PICK g \in [0..Len(u) -> Nat] : IsRunningTotal(g, u) /\ ProposalsIn(u) = g[Len(u)]
  BY <1>1, ProposalsCounted
<1>4. \A n \in 0..Len(s) : g[n] = f[n]
  <2>1. Len(u) \in Nat /\ Len(s) <= Len(u)
    BY <1>1
  <2> QED
    BY <1>1, <1>2, <1>3, <2>1, TotalsAgree
<1>5. Len(s) + 1 \in 0..Len(u) /\ Len(s) + 1 # 0 /\ Len(s) + 1 - 1 = Len(s) /\ Len(s) \in 0..Len(s)
  BY <1>1
<1>6. g[Len(s) + 1] = g[Len(s) + 1 - 1] + u[Len(s) + 1].count
  BY <1>3, <1>5 DEF IsRunningTotal
<1> QED
  BY <1>1, <1>2, <1>3, <1>4, <1>5, <1>6 DEF u

LEMMA NoProposals == ProposalsIn(<<>>) = 0
<1>1. <<>> \in Seq(Handovers) /\ Len(<<>>) = 0
  OBVIOUS
<1>2. PICK f \in [0..0 -> Nat] : IsRunningTotal(f, <<>>) /\ ProposalsIn(<<>>) = f[0]
  BY <1>1, ProposalsCounted
<1>3. 0 \in 0..0
  OBVIOUS
<1> QED
  BY <1>1, <1>2, <1>3 DEF IsRunningTotal

-----------------------------------------------------------------------------
TransportInv ==
  /\ call \in {"idle", "select", "readline"} /\ nextId \in Nat
  /\ pipe \in Seq(Lines) /\ buffer \in Seq(Lines)
  /\ charged \in Nat /\ charged <= MaxProposals
  /\ delivered \in Seq(Handovers)
  /\ \A i \in DOMAIN delivered : delivered[i].to <= nextId /\ (call # "idle" => delivered[i].to < nextId)
  /\ DeliveredInBudget
  /\ asked \in Nat /\ answers \subseteq Nat

LEMMA HandoversTyped ==
  ASSUME NEW s \in Seq(Handovers)
  PROVE  \A i \in DOMAIN s : s[i].to \in Nat
<1>1. \A i \in DOMAIN s : s[i] \in Handovers
  OBVIOUS
<1>2. \A r \in Handovers : r.to \in Nat
  BY DEF Handovers
<1> QED
  BY <1>1, <1>2

LEMMA UnreadLines ==
  ASSUME pipe \in Seq(Lines), buffer \in Seq(Lines), Finished(Unread)
  PROVE  First(Unread) \in Lines /\ Rest(Unread) \in Seq(Lines)
<1>1. Unread \in Seq(Lines) /\ Unread # <<>>
  BY DEF Unread, Finished
<1>2. ASSUME NEW s \in Seq(Lines), s # <<>> PROVE First(s) \in Lines /\ Rest(s) \in Seq(Lines)
  <2>1. Len(s) \in Nat /\ Len(s) >= 1 /\ s[1] \in Lines /\ Tail(s) \in Seq(Lines) /\ Len(Tail(s)) = Len(s) - 1
    BY <1>2
  <2>2. Line(0, "junk", 0) \in Lines
    BY DEF Line, Lines
  <2>3. Len(s) > 1 => s[2] \in Lines /\ Tail(s) # <<>>
    <3>1. CASE Len(s) > 1
      <4>1. 2 \in 1..Len(s)
        BY <2>1, <3>1
      <4>2. s[2] \in Lines
        BY <4>1
      <4>3. Tail(s) # <<>>
        <5>1. Len(Tail(s)) # 0 /\ Len(<<>>) = 0
          BY <2>1, <3>1
        <5> QED
          BY <5>1, Zenon
      <4> QED
        BY <4>2, <4>3
    <3> QED
      BY <3>1
  <2>4. Len(s) > 1 => Tail(Tail(s)) \in Seq(Lines)
    <3>1. \A u \in Seq(Lines) : u # <<>> => Tail(u) \in Seq(Lines)
      OBVIOUS
    <3> QED
      BY <2>1, <2>3, <3>1
  <2>5. First(s) \in Lines
    BY <2>1, <2>2, <2>3 DEF First
  <2>6. Rest(s) \in Seq(Lines)
    BY <2>1, <2>4 DEF Rest
  <2> QED
    BY <2>5, <2>6
<1> QED
  BY <1>1, <1>2

LEMMA NothingDelivered ==
  ASSUME TransportInv, UNCHANGED <<delivered, charged>>,
         nextId' \in Nat, nextId' >= nextId, call' \in {"idle", "select", "readline"},
         call' # "idle" => call # "idle" \/ nextId' = nextId + 1,
         pipe' \in Seq(Lines), buffer' \in Seq(Lines), asked' \in Nat, answers' \subseteq Nat
  PROVE  TransportInv'
<1>1. ASSUME NEW i \in DOMAIN delivered
      PROVE  delivered[i].to <= nextId' /\ (call' # "idle" => delivered[i].to < nextId')
  <2>1. delivered[i].to \in Nat /\ nextId \in Nat
    <3>1. delivered \in Seq(Handovers) /\ nextId \in Nat
      BY DEF TransportInv
    <3> QED
      BY <3>1, HandoversTyped
  <2>2. delivered[i].to <= nextId /\ (call # "idle" => delivered[i].to < nextId)
    BY DEF TransportInv
  <2>3. \A a, b, c \in Nat : /\ (a <= b /\ b <= c => a <= c) /\ (a < b /\ b <= c => a < c)
                           /\ (a <= b /\ c = b + 1 => a < c)
    OBVIOUS
  <2> QED
    BY <2>1, <2>2, <2>3
<1>2. DeliveredInBudget'
  BY DEF TransportInv, DeliveredInBudget
<1> QED
  BY <1>1, <1>2 DEF TransportInv

LEMMA Handed ==
  ASSUME TransportInv, NEW line \in Lines, line.id = nextId, MayCharge(line.count), call # "idle",
         delivered' = Append(delivered, [to |-> nextId, id |-> line.id, count |-> line.count]),
         charged' = charged + line.count, call' = "idle", nextId' = nextId,
         pipe' \in Seq(Lines), buffer' \in Seq(Lines), asked' \in Nat, answers' \subseteq Nat
  PROVE  TransportInv'
<1> DEFINE r == [to |-> nextId, id |-> line.id, count |-> line.count]
<1>1. r \in Handovers /\ r.to = nextId /\ r.id = nextId /\ r.count = line.count /\ line.count \in Nat
  BY DEF Handovers, Lines, TransportInv
<1>2. delivered \in Seq(Handovers) /\ charged \in Nat /\ nextId \in Nat
  BY DEF TransportInv
<1>3. delivered' = Append(delivered, r)
  OBVIOUS
<1> HIDE DEF r
<1>4. /\ delivered' \in Seq(Handovers) /\ Len(delivered) \in Nat
      /\ DOMAIN delivered = 1..Len(delivered)
      /\ DOMAIN delivered' = 1..(Len(delivered) + 1)
      /\ \A i \in 1..Len(delivered) : delivered'[i] = delivered[i]
      /\ delivered'[Len(delivered) + 1] = r
  BY <1>1, <1>2, <1>3
<1>5. ASSUME NEW i \in DOMAIN delivered'
      PROVE  \/ i \in DOMAIN delivered /\ delivered'[i] = delivered[i]
             \/ i = Len(delivered) + 1 /\ delivered'[i] = r
  BY <1>4
<1>6. \A i \in DOMAIN delivered :
       delivered[i].to < nextId /\ delivered[i].to \in Nat /\ delivered[i].id = delivered[i].to
  <2>1. \A i \in DOMAIN delivered : delivered[i].to < nextId
    BY DEF TransportInv
  <2>2. \A i \in DOMAIN delivered : delivered[i].to \in Nat
    BY <1>2, HandoversTyped
  <2>3. \A i \in DOMAIN delivered : delivered[i].id = delivered[i].to
    BY DEF TransportInv, DeliveredInBudget
  <2> QED
    BY <2>1, <2>2, <2>3
<1>7. \A a, b \in Nat : (a < b => a <= b /\ a # b) /\ a <= a
  OBVIOUS
<1>8. \A i \in DOMAIN delivered' : delivered'[i].to <= nextId' /\ delivered'[i].id = delivered'[i].to
  BY <1>1, <1>2, <1>5, <1>6, <1>7
<1>9. \A i, j \in DOMAIN delivered' : delivered'[i].to = delivered'[j].to => i = j
  <2> SUFFICES ASSUME NEW i \in DOMAIN delivered', NEW j \in DOMAIN delivered', delivered'[i].to = delivered'[j].to
               PROVE  i = j
    OBVIOUS
  <2>1. \A k \in DOMAIN delivered : delivered[k].to # nextId
    BY <1>2, <1>6, <1>7
  <2>2. CASE i \in DOMAIN delivered /\ j \in DOMAIN delivered
    BY <1>4, <2>2 DEF TransportInv, DeliveredInBudget
  <2> QED
    BY <1>1, <1>5, <2>1, <2>2
<1>10. ProposalsIn(delivered') = charged'
  <2>1. ProposalsIn(delivered) = charged
    BY DEF TransportInv, DeliveredInBudget
  <2> QED
    BY <1>1, <1>2, <1>3, <2>1, ProposalAdds
<1>11. charged' \in Nat /\ charged' <= MaxProposals
  BY <1>1, <1>2 DEF MayCharge
<1>12. call' = "idle" /\ nextId' \in Nat
  BY <1>2
<1>13. DeliveredInBudget'
  BY <1>8, <1>9, <1>10, <1>11 DEF DeliveredInBudget
<1> QED
  BY <1>4, <1>8, <1>11, <1>12, <1>13 DEF TransportInv

LEMMA TransportStep == TransportInv /\ [TransportNext]_transportVars => TransportInv'
<1> SUFFICES ASSUME TransportInv, [TransportNext]_transportVars PROVE TransportInv'
  OBVIOUS
<1>0. /\ nextId \in Nat /\ nextId >= nextId /\ nextId + 1 \in Nat /\ nextId + 1 >= nextId
      /\ pipe \in Seq(Lines) /\ buffer \in Seq(Lines) /\ call \in {"idle", "select", "readline"}
      /\ asked \in Nat /\ answers \subseteq Nat /\ 0 \in Nat
      /\ <<>> \in Seq(Lines) /\ {} \subseteq Nat
  BY DEF TransportInv
<1>1. ASSUME NEW id \in Nat, NEW named \in {"result", "error", "partial"}, NEW count \in Nat
      PROVE  Append(pipe, Line(id, named, count)) \in Seq(Lines)
  <2>1. Line(id, named, count) \in Lines
    BY DEF Line, Lines
  <2> QED
    BY <1>0, <2>1
<1>2. CASE UNCHANGED transportVars
  BY <1>0, <1>2, NothingDelivered DEF transportVars
<1>3. CASE Request
  BY <1>0, <1>3, NothingDelivered DEF Request
<1>4. CASE PluginAnswers
  <2>1. pipe' \in Seq(Lines)
    BY <1>0, <1>1, <1>4 DEF PluginAnswers
  <2> QED
    BY <1>0, <1>4, <2>1, NothingDelivered DEF PluginAnswers
<1>5. CASE PluginStrays
  <2>1. pipe' \in Seq(Lines)
    BY <1>0, <1>1, <1>5 DEF PluginStrays
  <2> QED
    BY <1>0, <1>5, <2>1, NothingDelivered DEF PluginStrays
<1>6. CASE PluginStutters
  <2>1. pipe' \in Seq(Lines)
    BY <1>0, <1>1, <1>6 DEF PluginStutters
  <2> QED
    BY <1>0, <1>6, <2>1, NothingDelivered DEF PluginStutters
<1>7. CASE PluginDies
  BY <1>0, <1>7, NothingDelivered DEF PluginDies
<1>8. CASE TransportTick
  BY <1>0, <1>8, NothingDelivered DEF TransportTick
<1>9. CASE SelectReady
  BY <1>0, <1>9, NothingDelivered DEF SelectReady
<1>10. CASE SelectTimesOut
  BY <1>0, <1>10, NothingDelivered DEF SelectTimesOut, Close
<1>11. CASE ReadLine
  <2>1. First(Unread) \in Lines /\ Rest(Unread) \in Seq(Lines)
    BY <1>0, <1>11, UnreadLines DEF ReadLine
  <2> DEFINE line == First(Unread)
  <2>2. /\ call = "readline" /\ buffer' = Rest(Unread) /\ pipe' = <<>> /\ call' = "idle"
        /\ UNCHANGED <<nextId, asked, answers>>
    BY <1>11 DEF ReadLine
  <2>3. CASE UNCHANGED <<delivered, charged>>
    BY <1>0, <2>1, <2>2, <2>3, NothingDelivered
  <2>4. CASE /\ Answers(line) /\ MayCharge(line.count)
             /\ delivered' = Append(delivered, [to |-> nextId, id |-> line.id, count |-> line.count])
             /\ charged' = charged + line.count
    <3>1. line.id = nextId /\ line \in Lines
      BY <2>1, <2>4 DEF Answers
    <3> HIDE DEF line
    <3> QED
      BY <1>0, <2>1, <2>2, <2>4, <3>1, Handed
  <2> QED
    BY <1>11, <2>3, <2>4 DEF ReadLine
<1>12. CASE ReadEof
  BY <1>0, <1>12, NothingDelivered DEF ReadEof, Close
<1> QED
  BY <1>2, <1>3, <1>4, <1>5, <1>6, <1>7, <1>8, <1>9, <1>10, <1>11, <1>12 DEF TransportNext

(* Whatever a plugin prints, repeats, cuts short or leaves in a buffer      *)
(* across timeouts and restarts, a caller is handed the answer to its own   *)
(* question, once, and what it was handed is what the meter recorded.       *)
THEOREM TransportCorrect == TransportSpec => []DeliveredInBudget
<1>1. TransportInit => TransportInv
  <2> SUFFICES ASSUME TransportInit PROVE TransportInv
    OBVIOUS
  <2>1. <<>> \in Seq(Lines) /\ <<>> \in Seq(Handovers) /\ DOMAIN <<>> = {} /\ 0 <= MaxProposals
    BY TransportAssumption DEF TransportAssumption
  <2>2. DeliveredInBudget
    BY <2>1, NoProposals DEF TransportInit, DeliveredInBudget
  <2> QED
    BY <2>1, <2>2 DEF TransportInit, TransportInv
<1>2. TransportInv => DeliveredInBudget
  BY DEF TransportInv
<1> QED
  BY <1>1, <1>2, TransportStep, PTL DEF TransportSpec

-----------------------------------------------------------------------------
(* Finite sets under an order R, a set of pairs: a last element, and a     *)
(* sequence of all of them                                                 *)

LEMMA LastOf ==
  ASSUME NEW E, IsFiniteSet(E), NEW R,
         \A x, y, z \in E : <<x, y>> \in R /\ <<y, z>> \in R => <<x, z>> \in R,
         \A x, y \in E : x # y => <<x, y>> \in R \/ <<y, x>> \in R,
         NEW U \in SUBSET E, U # {}
  PROVE  \E x \in U : \A y \in U : y # x => <<y, x>> \in R
<1> DEFINE LastIn(V) == \E x \in V : \A y \in V : y # x => <<y, x>> \in R
           F == {V \in SUBSET U : V = {} \/ LastIn(V)}
<1>1. {} \in F
  OBVIOUS
<1>2. ASSUME NEW V \in SUBSET U, NEW x \in U, V \in F, x \notin V PROVE V \cup {x} \in F
  <2>1. CASE V = {}
    <3>1. LastIn(V \cup {x})
      BY <2>1
    <3> QED
      BY <3>1
  <2>2. CASE V # {}
    <3>1. PICK m \in V : \A y \in V : y # m => <<y, m>> \in R
      BY <1>2, <2>2
    <3>2. m \in E /\ x \in E /\ m # x /\ \A y \in V : y \in E
      BY <1>2
    <3>3. CASE <<m, x>> \in R
      <4>1. \A y \in V : <<y, x>> \in R
        BY <3>1, <3>2, <3>3
      <4>2. LastIn(V \cup {x})
        BY <4>1
      <4> QED
        BY <4>2
    <3>4. CASE <<x, m>> \in R
      <4>1. LastIn(V \cup {x})
        BY <3>1, <3>4
      <4> QED
        BY <4>1
    <3> QED
      BY <3>2, <3>3, <3>4
  <2> QED
    BY <2>1, <2>2
<1>3. IsFiniteSet(U)
  BY FS_Subset
<1>4. U \in F
  <2> HIDE DEF F
  <2> QED
    BY <1>1, <1>2, <1>3, SubsetInduction
<1> QED
  BY <1>4

Arranges(s, U, R) ==
  /\ s \in [1..Cardinality(U) -> U] /\ {s[i] : i \in DOMAIN s} = U
  /\ \A i, j \in DOMAIN s : i < j => <<s[i], s[j]>> \in R

LEMMA Arrangement ==
  ASSUME NEW E, IsFiniteSet(E), NEW R,
         \A x, y, z \in E : <<x, y>> \in R /\ <<y, z>> \in R => <<x, z>> \in R,
         \A x, y \in E : x # y => <<x, y>> \in R \/ <<y, x>> \in R
  PROVE  \E s : Arranges(s, E, R)
<1> DEFINE Q == {n \in Nat : \A U \in SUBSET E : Cardinality(U) = n => \E s : Arranges(s, U, R)}
<1>1. \A U \in SUBSET E : IsFiniteSet(U) /\ Cardinality(U) \in Nat
  BY FS_Subset, FS_CardinalityType
<1>2. 0 \in Q
  <2> SUFFICES ASSUME NEW U \in SUBSET E, Cardinality(U) = 0 PROVE \E s : Arranges(s, U, R)
    OBVIOUS
  <2>1. U = {}
    BY <1>1, FS_EmptySet
  <2> DEFINE s == [i \in 1..0 |-> i]
  <2>2. 1..0 = {}
    OBVIOUS
  <2>3. Arranges(s, U, R)
    BY <2>1, <2>2 DEF Arranges
  <2> QED
    BY <2>3
<1>3. ASSUME NEW n \in Nat, n \in Q PROVE n + 1 \in Q
  <2> SUFFICES ASSUME NEW U \in SUBSET E, Cardinality(U) = n + 1 PROVE \E s : Arranges(s, U, R)
    OBVIOUS
  <2>1. U # {}
    BY FS_EmptySet
  <2>2. PICK x \in U : \A y \in U : y # x => <<y, x>> \in R
    BY <2>1, LastOf
  <2> DEFINE V == U \ {x}
  <2>3. V \in SUBSET E /\ Cardinality(V) = n /\ U = V \cup {x} /\ x \notin V
    <3>1. IsFiniteSet(U) /\ x \in U
      BY <1>1
    <3>2. Cardinality(V) = Cardinality(U) - 1
      BY <3>1, FS_RemoveElement
    <3>3. n + 1 - 1 = n
      OBVIOUS
    <3> QED
      BY <3>2, <3>3
  <2>4. PICK s : Arranges(s, V, R)
    BY <1>3, <2>3
  <2> HIDE DEF V, Q
  <2> DEFINE t == [i \in 1..(n + 1) |-> IF i = n + 1 THEN x ELSE s[i]]
  <2>5. s \in [1..n -> V] /\ {s[i] : i \in 1..n} = V /\ \A i, j \in 1..n : i < j => <<s[i], s[j]>> \in R
    BY <2>3, <2>4 DEF Arranges
  <2>6. /\ \A i \in 1..(n + 1) : i = n + 1 \/ i \in 1..n
        /\ \A i \in 1..n : i \in 1..(n + 1) /\ i # n + 1
        /\ n + 1 \in 1..(n + 1)
    OBVIOUS
  <2>7. t[n + 1] = x /\ (\A i \in 1..n : t[i] = s[i]) /\ DOMAIN t = 1..(n + 1)
    BY <2>6
  <2>8. t \in [1..(n + 1) -> U]
    BY <2>3, <2>5, <2>6
  <2> HIDE DEF t
  <2>9. {t[i] : i \in 1..(n + 1)} = U
    BY <2>3, <2>5, <2>6, <2>7
  <2>10. ASSUME NEW i \in 1..(n + 1), NEW j \in 1..(n + 1), i < j PROVE <<t[i], t[j]>> \in R
    <3>1. CASE j = n + 1
      <4>1. i \in 1..n
        BY <2>10, <3>1
      <4>2. t[i] \in U /\ t[i] # x
        BY <2>3, <2>5, <2>7, <4>1
      <4> QED
        BY <2>2, <2>7, <3>1, <4>2
    <3>2. CASE j # n + 1
      <4>1. i \in 1..n /\ j \in 1..n
        BY <2>10, <3>2
      <4> QED
        BY <2>5, <2>7, <2>10, <4>1
    <3> QED
      BY <3>1, <3>2
  <2>11. Arranges(t, U, R)
    BY <2>7, <2>8, <2>9, <2>10 DEF Arranges
  <2> QED
    BY <2>11
<1>4. Nat \subseteq Q
  <2> HIDE DEF Q
  <2> QED
    BY <1>2, <1>3, NatSetInduction
<1>5. E \in SUBSET E /\ Cardinality(E) \in Nat
  BY <1>1
<1> QED
  BY <1>4, <1>5

-----------------------------------------------------------------------------
(* The selection                                                           *)

SelectionSpec == SelectionInit /\ [][SelectionNext]_selectionVars

Observations == [arm : Nat \ {0}, candidate : Nat, score : Nat, cost : Nat]
StatusEvent == [arm : Nat, candidate : Nat, kind : {"nominate", "reject"}]

RuleTyped == rule.metric \in {"selection_score", "productivity_score"} /\ rule.floor \in Int
Gathered(S) ==
  /\ IsFiniteSet(S) /\ \A o \in S : o.arm \in Nat \ {0} /\ o.candidate \in Nat /\ o.score \in Nat /\ o.cost \in Nat
  /\ \A o, p \in S : o.arm = p.arm /\ o.candidate = p.candidate => o = p

(* What ranks above is transitive, so something ranks highest. *)
LEMMA CrossProducts ==
  ASSUME NEW s1 \in Nat, NEW c1 \in Nat, NEW s2 \in Nat, NEW c2 \in Nat, NEW s3 \in Nat, NEW c3 \in Nat,
         c2 > 0, s2 * c1 <= s1 * c2, s3 * c2 <= s2 * c3
  PROVE  s3 * c1 <= s1 * c3
<1>1. \A a, b, k \in Nat : a <= b => a * k <= b * k
  OBVIOUS
<1>2. (s3 * c2) * c1 <= (s2 * c3) * c1
  BY <1>1
<1>3. (s2 * c1) * c3 <= (s1 * c2) * c3
  BY <1>1
<1>4. (s3 * c2) * c1 = (s3 * c1) * c2 /\ (s2 * c3) * c1 = (s2 * c1) * c3 /\ (s1 * c2) * c3 = (s1 * c3) * c2
  OBVIOUS
<1>5. (s3 * c1) * c2 <= (s1 * c3) * c2
  BY <1>2, <1>3, <1>4
<1>6. \A a, b, k \in Nat : k > 0 /\ a * k <= b * k => a <= b
  OBVIOUS
<1>7. s3 * c1 \in Nat /\ s1 * c3 \in Nat
  OBVIOUS
<1> QED
  BY <1>5, <1>6, <1>7

LEMMA RanksHighest ==
  ASSUME RuleTyped, NEW S, Gathered(S), Rankable(S) # {}
  PROVE  Tied(S) # {}
<1> DEFINE E == Rankable(S)
           R == {p \in E \X E : ~Above(p[1], p[2])}
<1>1. E \subseteq S /\ IsFiniteSet(E)
  <2>1. E \subseteq S
    BY DEF Rankable, Eligible, Priced
  <2> QED
    BY <2>1, FS_Subset DEF Gathered
<1>2. \A o \in E : o.score \in Nat /\ o.cost \in Nat
  BY <1>1 DEF Gathered
<1>3. rule.metric # "selection_score" => \A o \in E : o.cost > 0
  BY DEF Rankable, Priced
<1>4. \A x, y \in E : <<x, y>> \in R <=> ~Above(x, y)
  <2> HIDE DEF E
  <2> QED
    OBVIOUS
<1> HIDE DEF E, R
<1>5. ASSUME NEW x \in E, NEW y \in E, NEW z \in E, <<x, y>> \in R, <<y, z>> \in R
      PROVE  <<x, z>> \in R
  <2>1. ~Above(x, y) /\ ~Above(y, z)
    BY <1>4, <1>5
  <2>2. CASE rule.metric = "selection_score"
    <3>1. x.score <= y.score /\ y.score <= z.score
      BY <1>2, <2>1, <2>2 DEF Above
    <3>2. ~(x.score > z.score)
      BY <1>2, <3>1
    <3> QED
      BY <1>4, <2>2, <3>2 DEF Above
  <2>3. CASE rule.metric # "selection_score"
    <3>1. x.score * y.cost <= y.score * x.cost /\ y.score * z.cost <= z.score * y.cost
      <4>1. \A a, b, c, d \in Nat : ~(a * b > c * d) => a * b <= c * d
        OBVIOUS
      <4> QED
        BY <1>2, <2>1, <2>3, <4>1 DEF Above
    <3>2. y.cost > 0
      BY <1>3, <2>3
    <3>3. x.score * z.cost <= z.score * x.cost
      BY <1>2, <3>1, <3>2, CrossProducts
    <3>4. ~(x.score * z.cost > z.score * x.cost)
      <4>1. \A a, b, c, d \in Nat : a * b <= c * d => ~(a * b > c * d)
        OBVIOUS
      <4> QED
        BY <1>2, <3>3, <4>1
    <3> QED
      BY <1>4, <2>3, <3>4 DEF Above
  <2> QED
    BY <2>2, <2>3
<1>6. ASSUME NEW x \in E, NEW y \in E PROVE <<x, y>> \in R \/ <<y, x>> \in R
  <2>1. CASE rule.metric = "selection_score"
    <3>1. ~(x.score > y.score) \/ ~(y.score > x.score)
      BY <1>2
    <3> QED
      BY <1>4, <2>1, <3>1 DEF Above
  <2>2. CASE rule.metric # "selection_score"
    <3>1. \A m, n \in Nat : ~(m > n) \/ ~(n > m)
      OBVIOUS
    <3>2. x.score * y.cost \in Nat /\ y.score * x.cost \in Nat
      BY <1>2
    <3>3. ~(x.score * y.cost > y.score * x.cost) \/ ~(y.score * x.cost > x.score * y.cost)
      BY <3>1, <3>2
    <3> QED
      BY <1>4, <2>2, <3>3 DEF Above
  <2> QED
    BY <2>1, <2>2
<1>7. PICK x \in E : \A y \in E : y # x => <<y, x>> \in R
  <2>1. E \in SUBSET E /\ E # {}
    BY DEF E
  <2> QED
    BY <1>1, <1>5, <1>6, <2>1, LastOf
<1>8. \A y \in E : <<y, x>> \in R
  BY <1>6, <1>7
<1>9. \A y \in E : ~Above(y, x)
  BY <1>4, <1>8
<1> QED
  BY <1>9 DEF Tied, E

LEMMA NomineeIsTied ==
  ASSUME RuleTyped, NEW S, Gathered(S), Rankable(S) # {}
  PROVE  \E o \in S : o \in Tied(S) /\ o.candidate = Nominee(S)
<1> DEFINE C == {o.candidate : o \in Tied(S)}
<1>1. Tied(S) # {} /\ Tied(S) \subseteq S
  BY RanksHighest DEF Tied, Rankable, Eligible, Priced
<1>2. C # {} /\ C \in SUBSET Nat
  BY <1>1 DEF Gathered
<1>3. PICK x \in C : \A y \in C : x <= y
  <2> HIDE DEF C
  <2> QED
    BY <1>2, LeastNat
<1>4. Nominee(S) \in C
  <2>1. Nominee(S) = SetMin(C)
    BY DEF Nominee
  <2> HIDE DEF C
  <2> QED
    BY <1>3, <2>1 DEF SetMin
<1> QED
  BY <1>1, <1>4

LEMMA ArmGathered ==
  ASSUME NEW S, Gathered(S), NEW arm
  PROVE  Gathered(OfArm(S, arm)) /\ OfArm(S, arm) \subseteq S
<1>1. OfArm(S, arm) \subseteq S
  BY DEF OfArm
<1>2. IsFiniteSet(OfArm(S, arm))
  BY <1>1, FS_Subset DEF Gathered
<1> QED
  BY <1>1, <1>2 DEF Gathered

-----------------------------------------------------------------------------
(* What a freeze decides, of each observation *)
Decided(S, o) ==
  [arm |-> o.arm, candidate |-> o.candidate,
   kind |-> IF o.candidate = Nominee(OfArm(S, o.arm)) THEN "nominate" ELSE "reject"]

LEMMA DecisionsAre ==
  ASSUME NEW S
  PROVE  Decisions(S) = {Decided(S, o) : o \in S}
<1>1. \A o \in S : o.arm \in ArmsOf(S)
  BY DEF ArmsOf
<1>2. \A o \in S : [arm \in ArmsOf(S) |-> Nominee(OfArm(S, arm))][o.arm] = Nominee(OfArm(S, o.arm))
  BY <1>1
<1> QED
  BY <1>2 DEF Decisions, Decided

LEMMA DecidedFields ==
  ASSUME NEW S, Gathered(S), NEW o \in S
  PROVE  /\ Decided(S, o) \in StatusEvent
         /\ Decided(S, o).arm = o.arm /\ Decided(S, o).candidate = o.candidate /\ o.arm # NoArm
         /\ Decided(S, o).kind = "nominate" <=> o.candidate = Nominee(OfArm(S, o.arm))
         /\ Decided(S, o).kind = "reject" <=> o.candidate # Nominee(OfArm(S, o.arm))
<1>1. o.arm \in Nat /\ o.candidate \in Nat /\ o.arm # 0
  BY DEF Gathered
<1> QED
  BY <1>1 DEF Decided, StatusEvent, NoArm

LEMMA FreezeFacts ==
  ASSUME NEW S, Gathered(S)
  PROVE  /\ FreezeEvents(S) \in Seq(StatusEvent)
         /\ {FreezeEvents(S)[i] : i \in DOMAIN FreezeEvents(S)} = Decisions(S)
<1> DEFINE D == Decisions(S)
           R == {p \in D \X D : Before(p[1], p[2])}
           s == CHOOSE s \in [1..Cardinality(D) -> D] :
                  {s[i] : i \in DOMAIN s} = D /\ \A i, j \in DOMAIN s : i < j => Before(s[i], s[j])
<1>1. FreezeEvents(S) = s
  BY DEF FreezeEvents
<1>2. \A d \in D : \E o \in S : d = Decided(S, o)
  BY DecisionsAre
<1>3. \A d \in D : d \in StatusEvent /\ d.arm \in Nat /\ d.candidate \in Nat /\ d.kind \in {"nominate", "reject"}
  <2>1. \A d \in D : d \in StatusEvent
    BY <1>2, DecidedFields
  <2>2. \A d \in StatusEvent : d.arm \in Nat /\ d.candidate \in Nat /\ d.kind \in {"nominate", "reject"}
    BY DEF StatusEvent
  <2> HIDE DEF D
  <2> QED
    BY <2>1, <2>2
<1>4. IsFiniteSet(D)
  <2>1. IsFiniteSet(S)
    BY DEF Gathered
  <2> DEFINE f == [o \in S |-> Decided(S, o)]
  <2>2. D = {Decided(S, o) : o \in S}
    BY DecisionsAre
  <2>3. f \in Surjection(S, D)
    BY <2>2 DEF Surjection
  <2> QED
    BY <2>1, <2>3, FS_Surjection
<1>5. ASSUME NEW x \in D, NEW y \in D, x # y PROVE Before(x, y) \/ Before(y, x)
  <2>1. PICK o \in S : x = Decided(S, o)
    BY <1>2
  <2>2. PICK p \in S : y = Decided(S, p)
    BY <1>2
  <2>3. /\ x.arm = o.arm /\ x.candidate = o.candidate /\ y.arm = p.arm /\ y.candidate = p.candidate
        /\ x.kind = "nominate" => o.candidate = Nominee(OfArm(S, o.arm))
        /\ y.kind = "nominate" => p.candidate = Nominee(OfArm(S, p.arm))
    BY <2>1, <2>2, DecidedFields
  <2>4. o # p
    BY <1>5, <2>1, <2>2
  <2>5. ~(o.arm = p.arm /\ o.candidate = p.candidate)
    BY <2>4 DEF Gathered
  <2>6. /\ x.arm \in Nat /\ y.arm \in Nat /\ x.candidate \in Nat /\ y.candidate \in Nat
        /\ x.kind \in {"nominate", "reject"} /\ y.kind \in {"nominate", "reject"}
    BY <1>3
  <2>7. CASE x.arm # y.arm
    <3>1. x.arm < y.arm \/ y.arm < x.arm
      BY <2>6, <2>7
    <3> QED
      BY <3>1 DEF Before
  <2>8. CASE x.arm = y.arm
    <3>1. x.candidate # y.candidate
      BY <2>3, <2>5, <2>8
    <3>2. x.candidate < y.candidate \/ y.candidate < x.candidate
      BY <2>6, <3>1
    <3>3. ~(x.kind = "nominate" /\ y.kind = "nominate")
      BY <2>3, <2>8, <3>1
    <3> QED
      BY <2>6, <2>8, <3>2, <3>3 DEF Before
  <2> QED
    BY <2>7, <2>8
<1>6. ASSUME NEW x \in D, NEW y \in D, NEW z \in D, Before(x, y), Before(y, z) PROVE Before(x, z)
  <2>1. /\ x.arm \in Nat /\ y.arm \in Nat /\ z.arm \in Nat
        /\ x.candidate \in Nat /\ y.candidate \in Nat /\ z.candidate \in Nat
        /\ x.kind \in {"nominate", "reject"} /\ y.kind \in {"nominate", "reject"} /\ z.kind \in {"nominate", "reject"}
    BY <1>3
  <2> HIDE DEF D
  <2> QED
    BY <1>6, <2>1 DEF Before
<1>7. \A x, y \in D : <<x, y>> \in R <=> Before(x, y)
  <2> HIDE DEF D
  <2> QED
    OBVIOUS
<1> HIDE DEF D, R
<1>8. PICK t : Arranges(t, D, R)
  BY <1>4, <1>5, <1>6, <1>7, Arrangement
<1>9. /\ t \in [1..Cardinality(D) -> D] /\ {t[i] : i \in DOMAIN t} = D
      /\ \A i, j \in DOMAIN t : i < j => Before(t[i], t[j])
  BY <1>7, <1>8 DEF Arranges
<1>10. s \in [1..Cardinality(D) -> D] /\ {s[i] : i \in DOMAIN s} = D
  BY <1>9
<1> HIDE DEF s
<1>11. Cardinality(D) \in Nat
  BY <1>4, FS_CardinalityType
<1>12. s \in [1..Cardinality(D) -> StatusEvent]
  BY <1>3, <1>10
<1>13. s \in Seq(StatusEvent)
  BY <1>11, <1>12
<1> QED
  BY <1>1, <1>10, <1>13 DEF D

-----------------------------------------------------------------------------
Logged(events) == {events[e] : e \in {e \in DOMAIN events : events[e].arm # NoArm}}

Nominable(S) == \A arm \in ArmsOf(S) : Rankable(OfArm(S, arm)) # {}

SelectionInv ==
  /\ RuleTyped /\ Gathered(pending) /\ Gathered(observed)
  /\ eventLog \in Seq(StatusEvent)
  /\ Logged(eventLog) = Decisions(observed)
  /\ Nominable(observed)

(* The rule is pinned: what it says of a set of observations does not change *)
LEMMA SameRule ==
  ASSUME UNCHANGED rule
  PROVE  \A S : Nominable(S)' = Nominable(S) /\ Decisions(S)' = Decisions(S)
<1>1. \A S : Eligible(S)' = Eligible(S)
  BY DEF Eligible
<1>2. \A S : Priced(S)' = Priced(S)
  BY <1>1 DEF Priced
<1>3. \A o, p : Above(o, p)' = Above(o, p)
  BY DEF Above
<1>4. \A S : Rankable(S)' = Rankable(S)
  BY <1>1, <1>2 DEF Rankable
<1>5. \A S : Tied(S)' = Tied(S)
  BY <1>3, <1>4 DEF Tied
<1>6. \A S : Nominee(S)' = Nominee(S)
  BY <1>5 DEF Nominee, SetMin
<1>7. \A S : Decisions(S)' = Decisions(S)
  BY <1>6 DEF Decisions, ArmsOf, OfArm
<1>8. \A S : Nominable(S)' = Nominable(S)
  BY <1>4 DEF Nominable, ArmsOf, OfArm
<1> QED
  BY <1>7, <1>8

LEMMA LoggedOfConcat ==
  ASSUME NEW s \in Seq(StatusEvent), NEW t \in Seq(StatusEvent)
  PROVE  Logged(s \o t) = Logged(s) \cup Logged(t)
<1>1. s \o t \in Seq(StatusEvent) /\ Len(s \o t) = Len(s) + Len(t) /\ Len(s) \in Nat /\ Len(t) \in Nat
  OBVIOUS
<1>2. DOMAIN (s \o t) = 1..(Len(s) + Len(t)) /\ DOMAIN s = 1..Len(s) /\ DOMAIN t = 1..Len(t)
  BY <1>1
<1>3. /\ \A e \in 1..Len(s) : e \in 1..(Len(s) + Len(t)) /\ (s \o t)[e] = s[e]
      /\ \A e \in 1..Len(t) : Len(s) + e \in 1..(Len(s) + Len(t)) /\ (s \o t)[Len(s) + e] = t[e]
  BY <1>1
<1>4. \A e \in 1..(Len(s) + Len(t)) : e \in 1..Len(s) \/ \E d \in 1..Len(t) : e = Len(s) + d
  <2> SUFFICES ASSUME NEW e \in 1..(Len(s) + Len(t)), e \notin 1..Len(s)
               PROVE  \E d \in 1..Len(t) : e = Len(s) + d
    OBVIOUS
  <2>1. e - Len(s) \in 1..Len(t) /\ e = Len(s) + (e - Len(s))
    BY <1>1
  <2> QED
    BY <2>1
<1> HIDE <1>1
<1>5. Logged(s) \subseteq Logged(s \o t) /\ Logged(t) \subseteq Logged(s \o t)
  BY <1>2, <1>3 DEF Logged
<1>6. ASSUME NEW x \in Logged(s \o t) PROVE x \in Logged(s) \/ x \in Logged(t)
  <2>1. PICK e \in 1..(Len(s) + Len(t)) : (s \o t)[e] = x /\ x.arm # NoArm
    BY <1>2 DEF Logged
  <2>2. CASE e \in 1..Len(s)
    <3>1. s[e] = x
      BY <1>3, <2>1, <2>2
    <3> QED
      BY <1>2, <2>1, <2>2, <3>1 DEF Logged
  <2>3. CASE \E d \in 1..Len(t) : e = Len(s) + d
    <3>1. PICK d \in 1..Len(t) : e = Len(s) + d
      BY <2>3
    <3>2. t[d] = x
      BY <1>3, <2>1, <3>1
    <3> QED
      BY <1>2, <2>1, <3>2 DEF Logged
  <2> QED
    BY <1>4, <2>2, <2>3
<1> QED
  BY <1>5, <1>6

LEMMA NominationsAreLogged ==
  ASSUME NEW events
  PROVE  Nominations(events) = {d \in Logged(events) : d.kind = "nominate"}
BY DEF Nominations, Logged

(* Every arm that was frozen has its nominee in the log. *)
LEMMA ArmsAreNominated ==
  ASSUME SelectionInv, NEW arm \in ArmsOf(observed)
  PROVE  /\ \E n \in Nominations(eventLog) : n.arm = arm
         /\ \E o \in OfArm(observed, arm) :
              o \in Tied(OfArm(observed, arm)) /\ o.candidate = Nominee(OfArm(observed, arm))
<1>1. RuleTyped /\ Gathered(observed) /\ Rankable(OfArm(observed, arm)) # {}
  BY DEF SelectionInv, Nominable
<1>2. Gathered(OfArm(observed, arm)) /\ OfArm(observed, arm) \subseteq observed
  BY <1>1, ArmGathered
<1>3. PICK o \in OfArm(observed, arm) :
        o \in Tied(OfArm(observed, arm)) /\ o.candidate = Nominee(OfArm(observed, arm))
  BY <1>1, <1>2, NomineeIsTied
<1>4. o \in observed /\ o.arm = arm
  BY DEF OfArm
<1>5. Decided(observed, o).kind = "nominate" /\ Decided(observed, o).arm = arm
  BY <1>1, <1>3, <1>4, DecidedFields
<1>6. Decided(observed, o) \in Logged(eventLog)
  BY <1>4, DecisionsAre DEF SelectionInv
<1>7. Decided(observed, o) \in Nominations(eventLog)
  BY <1>5, <1>6, NominationsAreLogged
<1> QED
  BY <1>3, <1>5, <1>7

LEMMA SelectionStarts ==
  ASSUME SelectionInit
  PROVE  SelectionInv
<1>1. RuleTyped
  BY SelectionAssumption DEF SelectionInit, RuleTyped
<1>2. Gathered({})
  BY FS_EmptySet DEF Gathered
<1>3. Decisions({}) = {}
  BY DecisionsAre
<1>4. Logged(<<>>) = {}
  BY DEF Logged
<1>5. ArmsOf({}) = {}
  BY DEF ArmsOf
<1>6. <<>> \in Seq(StatusEvent)
  OBVIOUS
<1> QED
  BY <1>1, <1>2, <1>3, <1>4, <1>5, <1>6 DEF SelectionInv, SelectionInit, Nominable

LEMMA CollectKeeps ==
  ASSUME SelectionInv, NEW o, Collect(o),
         o.arm \in Nat \ {0}, o.candidate \in Nat, o.score \in Nat, o.cost \in Nat
  PROVE  SelectionInv'
<1>1. /\ pending' = pending \cup {o} /\ UNCHANGED <<rule, eventLog, observed>>
      /\ \A p \in pending : ~(p.arm = o.arm /\ p.candidate = o.candidate)
  BY DEF Collect, New
<1>2. Gathered(pending')
  <2>1. Gathered(pending)
    BY DEF SelectionInv
  <2>2. IsFiniteSet(pending \cup {o})
    BY <2>1, FS_AddElement DEF Gathered
  <2>3. \A p \in pending \cup {o} :
          p.arm \in Nat \ {0} /\ p.candidate \in Nat /\ p.score \in Nat /\ p.cost \in Nat
    BY <2>1 DEF Gathered
  <2>4. \A p, q \in pending \cup {o} : p.arm = q.arm /\ p.candidate = q.candidate => p = q
    BY <1>1, <2>1 DEF Gathered
  <2> QED
    BY <1>1, <2>2, <2>3, <2>4 DEF Gathered
<1>3. \A S : Nominable(S)' = Nominable(S) /\ Decisions(S)' = Decisions(S)
  BY <1>1, SameRule
<1>4. RuleTyped' /\ Gathered(observed)' /\ Nominable(observed)' /\ Decisions(observed)' = Decisions(observed)
  BY <1>1, <1>3 DEF SelectionInv, RuleTyped, Gathered
<1>5. eventLog' \in Seq(StatusEvent) /\ Logged(eventLog)' = Logged(eventLog)
  BY <1>1 DEF SelectionInv, Logged
<1>6. Logged(eventLog)' = Decisions(observed)'
  BY <1>4, <1>5 DEF SelectionInv
<1>7. Gathered(pending)'
  BY <1>2 DEF Gathered
<1> QED
  BY <1>4, <1>5, <1>6, <1>7 DEF SelectionInv

LEMMA OtherEventKeeps ==
  ASSUME SelectionInv, NEW named \in Nat, NEW kindOf \in {"nominate", "reject"}, OtherEvent(named, kindOf)
  PROVE  SelectionInv'
<1> DEFINE e == [arm |-> NoArm, candidate |-> named, kind |-> kindOf]
<1>1. eventLog' = eventLog \o <<e>> /\ UNCHANGED <<rule, pending, observed>>
  BY DEF OtherEvent, SelectionInv
<1>2. e \in StatusEvent /\ e.arm = NoArm
  BY DEF StatusEvent, NoArm
<1> HIDE DEF e
<1>3. eventLog \in Seq(StatusEvent) /\ <<e>> \in Seq(StatusEvent)
  BY <1>2 DEF SelectionInv
<1>4. eventLog' \in Seq(StatusEvent)
  BY <1>1, <1>3
<1>5. Logged(<<e>>) = {}
  BY <1>2 DEF Logged
<1>6. Logged(eventLog)' = Logged(eventLog)
  <2>1. Logged(eventLog \o <<e>>) = Logged(eventLog)
    <3>1. Logged(eventLog \o <<e>>) = Logged(eventLog) \cup Logged(<<e>>)
      BY <1>3, LoggedOfConcat, Zenon
    <3> QED
      BY <1>5, <3>1
  <2>2. Logged(eventLog)' = Logged(eventLog \o <<e>>)
    BY <1>1 DEF Logged
  <2> QED
    BY <2>1, <2>2
<1>7. \A S : Nominable(S)' = Nominable(S) /\ Decisions(S)' = Decisions(S)
  BY <1>1, SameRule
<1>8. RuleTyped' /\ Gathered(observed)' /\ Nominable(observed)' /\ Decisions(observed)' = Decisions(observed)
  BY <1>1, <1>7 DEF SelectionInv, RuleTyped, Gathered
<1>9. Gathered(pending)' /\ Logged(eventLog)' = Decisions(observed)'
  BY <1>1, <1>6, <1>8 DEF SelectionInv, Gathered
<1> QED
  BY <1>4, <1>8, <1>9 DEF SelectionInv

LEMMA FreezeKeeps ==
  ASSUME SelectionInv, Freeze
  PROVE  SelectionInv'
<1>1. /\ Nominations(eventLog) = {} /\ UNCHANGED <<rule, pending>>
      /\ eventLog' = eventLog \o FreezeEvents(pending) /\ observed' = pending
      /\ Nominable(pending)
  BY DEF Freeze, Unfrozen, Nominable
<1>2. observed = {}
  <2> SUFFICES ASSUME NEW o \in observed PROVE FALSE
    OBVIOUS
  <2>1. o.arm \in ArmsOf(observed)
    BY DEF ArmsOf
  <2> QED
    BY <1>1, <2>1, ArmsAreNominated
<1>3. Gathered(pending) /\ eventLog \in Seq(StatusEvent) /\ Logged(eventLog) = Decisions(observed)
  BY DEF SelectionInv
<1>4. Logged(eventLog) = {}
  BY <1>2, <1>3, DecisionsAre
<1>5. FreezeEvents(pending) \in Seq(StatusEvent) /\ eventLog' \in Seq(StatusEvent)
  BY <1>1, <1>3, FreezeFacts
<1>6. Logged(FreezeEvents(pending)) = Decisions(pending)
  <2>1. \A d \in Decisions(pending) : d.arm # NoArm
    BY <1>3, DecisionsAre, DecidedFields
  <2>2. {FreezeEvents(pending)[i] : i \in DOMAIN FreezeEvents(pending)} = Decisions(pending)
    BY <1>3, FreezeFacts
  <2> QED
    BY <2>1, <2>2 DEF Logged
<1>7. Logged(eventLog)' = Decisions(pending)
  <2>1. Logged(eventLog \o FreezeEvents(pending)) = Decisions(pending)
    <3>1. Logged(eventLog \o FreezeEvents(pending)) = Logged(eventLog) \cup Logged(FreezeEvents(pending))
      BY <1>3, <1>5, LoggedOfConcat, Zenon
    <3> QED
      BY <1>4, <1>6, <3>1
  <2>2. Logged(eventLog)' = Logged(eventLog \o FreezeEvents(pending))
    BY <1>1 DEF Logged
  <2> QED
    BY <2>1, <2>2
<1>8. \A S : Nominable(S)' = Nominable(S) /\ Decisions(S)' = Decisions(S)
  BY <1>1, SameRule
<1>9. Decisions(observed)' = Decisions(pending)
  BY <1>1, <1>8
<1>10. Nominable(observed)'
  BY <1>1, <1>8
<1>11. RuleTyped' /\ Gathered(pending)' /\ Gathered(observed)'
  BY <1>1, <1>3 DEF SelectionInv, RuleTyped, Gathered
<1> QED
  BY <1>5, <1>7, <1>9, <1>10, <1>11 DEF SelectionInv

LEMMA SelectionSteps ==
  ASSUME SelectionInv, [SelectionNext]_selectionVars
  PROVE  SelectionInv'
<1>1. ASSUME NEW o \in Results, Observe(o) PROVE SelectionInv'
  BY <1>1, SelectionAssumption, CollectKeeps DEF Observe
<1>2. ASSUME NEW o \in Results, StrategyEdit(o) PROVE SelectionInv'
  <2> DEFINE p == [o EXCEPT !.score = 0, !.cost = 0]
  <2>1. o \in Observations
    BY SelectionAssumption DEF Observations
  <2>2. p \in Observations
    BY <2>1 DEF Observations
  <2>3. p.arm \in Nat \ {0} /\ p.candidate \in Nat /\ p.score \in Nat /\ p.cost \in Nat
    BY <2>2 DEF Observations
  <2>4. Collect(p)
    BY <1>2 DEF StrategyEdit
  <2> HIDE DEF p
  <2> QED
    BY <2>3, <2>4, CollectKeeps
<1>3. ASSUME NEW o \in Results, NEW k \in {"nominate", "reject"}, OtherEvent(o.candidate, k) PROVE SelectionInv'
  <2>1. o.candidate \in Nat
    BY SelectionAssumption
  <2> QED
    BY <1>3, <2>1, OtherEventKeeps
<1>4. CASE UNCHANGED selectionVars
  <2>1. \A S : Nominable(S)' = Nominable(S) /\ Decisions(S)' = Decisions(S)
    BY <1>4, SameRule DEF selectionVars
  <2>2. /\ RuleTyped' /\ Gathered(pending)' /\ Gathered(observed)' /\ Nominable(observed)'
        /\ Decisions(observed)' = Decisions(observed)
    BY <1>4, <2>1 DEF selectionVars, SelectionInv, RuleTyped, Gathered
  <2>3. eventLog' \in Seq(StatusEvent) /\ Logged(eventLog)' = Logged(eventLog)
    BY <1>4 DEF selectionVars, SelectionInv, Logged
  <2> QED
    BY <2>2, <2>3 DEF SelectionInv
<1> QED
  BY <1>1, <1>2, <1>3, <1>4, FreezeKeeps DEF SelectionNext

LEMMA NoneAtLessCost ==
  ASSUME NEW s \in Nat, NEW c \in Nat, NEW t \in Nat, NEW d \in Nat,
         ~(s * d > t * c), d > 0, s > 0, s >= t, c <= d
  PROVE  s = t /\ c = d
<1>1. s * d <= t * c
  <2>1. \A m, n \in Nat : ~(m > n) => m <= n
    OBVIOUS
  <2>2. s * d \in Nat /\ t * c \in Nat
    OBVIOUS
  <2> QED
    BY <2>1, <2>2
<1>2. t * c <= t * d
  OBVIOUS
<1>3. s * d <= t * d
  <2>1. \A a, b, e \in Nat : a <= b /\ b <= e => a <= e
    OBVIOUS
  <2>2. s * d \in Nat /\ t * c \in Nat /\ t * d \in Nat
    OBVIOUS
  <2> QED
    BY <1>1, <1>2, <2>1, <2>2
<1>4. s <= t
  <2>1. \A a, b, k \in Nat : k > 0 /\ a * k <= b * k => a <= b
    OBVIOUS
  <2> QED
    BY <1>3, <2>1
<1>5. s = t
  BY <1>4
<1>6. d * s <= c * s
  BY <1>1, <1>5
<1>7. d <= c
  <2>1. \A a, b, k \in Nat : k > 0 /\ a * k <= b * k => a <= b
    OBVIOUS
  <2> QED
    BY <1>6, <2>1
<1> QED
  BY <1>5, <1>7

LEMMA RuleFollowed ==
  ASSUME SelectionInv
  PROVE  NomineesFollowTheRule
<1>1. RuleTyped /\ Gathered(observed) /\ Logged(eventLog) = {Decided(observed, o) : o \in observed}
  BY DecisionsAre DEF SelectionInv
<1>2. \A n \in Nominations(eventLog) : \E o \in observed : n = Decided(observed, o) /\ n.kind = "nominate"
  BY <1>1, NominationsAreLogged
<1>3. \A n \in Nominations(eventLog) : \E o \in observed :
        n.arm = o.arm /\ n.candidate = o.candidate /\ o.candidate = Nominee(OfArm(observed, o.arm))
  BY <1>1, <1>2, DecidedFields
<1>4. ArmsOf(Nominations(eventLog)) = ArmsOf(observed)
  <2>1. \A a \in ArmsOf(Nominations(eventLog)) : a \in ArmsOf(observed)
    BY <1>3 DEF ArmsOf
  <2>2. \A a \in ArmsOf(observed) : a \in ArmsOf(Nominations(eventLog))
    BY ArmsAreNominated DEF ArmsOf
  <2> QED
    BY <2>1, <2>2
<1>5. ASSUME NEW frozen \in Frozen(eventLog), NEW arm \in ArmsOf(observed)
      PROVE  LET rivals == OfArm(observed, arm)
                 chosen == CHOOSE o \in rivals : o.candidate = frozen[arm]
             IN /\ chosen \in rivals /\ chosen.score >= rule.floor
                /\ \A o \in rivals \ {chosen} :
                     /\ \E e \in DOMAIN eventLog :
                          eventLog[e] = [arm |-> arm, candidate |-> o.candidate, kind |-> "reject"]
                     /\ rule.metric = "selection_score" => o.score <= chosen.score
                     /\ rule.metric = "productivity_score" /\ o.score >= rule.floor /\ o.cost > 0 =>
                          ~(/\ o.score >= chosen.score /\ o.cost <= chosen.cost
                            /\ <<o.score, o.cost>> # <<chosen.score, chosen.cost>> /\ o.score > 0)
  <2> DEFINE rivals == OfArm(observed, arm)
             chosen == CHOOSE o \in rivals : o.candidate = frozen[arm]
  <2>1. Gathered(rivals) /\ \A o \in rivals : o \in observed /\ o.arm = arm
    BY <1>1, ArmGathered DEF OfArm
  <2>2. frozen[arm] = Nominee(rivals)
    <3>1. PICK n \in Nominations(eventLog) : n.arm = arm /\ n.candidate = frozen[arm]
      BY <1>4 DEF Frozen
    <3> QED
      BY <1>3, <3>1
  <2>3. PICK t \in rivals : t \in Tied(rivals) /\ t.candidate = Nominee(rivals)
    BY ArmsAreNominated
  <2> HIDE DEF rivals
  <2>4. \A o \in rivals : o.candidate = frozen[arm] => o = t
    BY <2>1, <2>2, <2>3 DEF Gathered
  <2>5. chosen = t
    BY <2>2, <2>3, <2>4
  <2> HIDE DEF chosen
  <2>6. t \in Rankable(rivals) /\ \A o \in Rankable(rivals) : ~Above(o, t)
    BY <2>3 DEF Tied
  <2>7. \A o \in rivals : o.score \in Nat /\ o.cost \in Nat
    BY <2>1 DEF Gathered
  <2>8. t.score >= rule.floor
    BY <2>6 DEF Rankable, Priced, Eligible
  <2>9. ASSUME NEW o \in rivals \ {t}
        PROVE  \E e \in DOMAIN eventLog :
                 eventLog[e] = [arm |-> arm, candidate |-> o.candidate, kind |-> "reject"]
    <3>1. o.candidate # Nominee(rivals)
      BY <2>2, <2>4
    <3>2. Decided(observed, o) = [arm |-> arm, candidate |-> o.candidate, kind |-> "reject"]
      BY <2>1, <3>1 DEF Decided, rivals
    <3>3. Decided(observed, o) \in Logged(eventLog)
      BY <1>1, <2>1
    <3> QED
      BY <3>2, <3>3 DEF Logged
  <2>10. ASSUME NEW o \in rivals \ {t}, rule.metric = "selection_score"
         PROVE  o.score <= t.score
    <3> SUFFICES ASSUME o.score > t.score PROVE FALSE
      BY <2>7
    <3>1. o.score >= rule.floor
      BY <1>1, <2>7, <2>8 DEF RuleTyped
    <3>2. o \in Rankable(rivals)
      BY <2>10, <3>1 DEF Rankable, Eligible
    <3> QED
      BY <2>6, <2>10, <3>2 DEF Above
  <2>11. ASSUME NEW o \in rivals \ {t}, rule.metric = "productivity_score", o.score >= rule.floor, o.cost > 0,
                o.score >= t.score, o.cost <= t.cost, o.score > 0
         PROVE  o.score = t.score /\ o.cost = t.cost
    <3>1. rule.metric # "selection_score"
      BY <2>11
    <3>2. o \in Rankable(rivals) /\ t.cost > 0
      BY <2>6, <2>11, <3>1 DEF Rankable, Priced, Eligible
    <3>3. ~(o.score * t.cost > t.score * o.cost)
      BY <2>6, <3>1, <3>2 DEF Above
    <3> QED
      BY <2>7, <2>11, <3>2, <3>3, NoneAtLessCost
  <2>12. /\ t \in rivals /\ t.score >= rule.floor
         /\ \A o \in rivals \ {t} :
              /\ \E e \in DOMAIN eventLog :
                   eventLog[e] = [arm |-> arm, candidate |-> o.candidate, kind |-> "reject"]
              /\ rule.metric = "selection_score" => o.score <= t.score
              /\ rule.metric = "productivity_score" /\ o.score >= rule.floor /\ o.cost > 0 =>
                   ~(/\ o.score >= t.score /\ o.cost <= t.cost
                     /\ <<o.score, o.cost>> # <<t.score, t.cost>> /\ o.score > 0)
    BY <2>3, <2>8, <2>9, <2>10, <2>11
  <2> QED
    BY <2>5, <2>12 DEF chosen, rivals
<1> QED
  BY <1>4, <1>5 DEF NomineesFollowTheRule

(* Whatever is appended to the shared log after the freeze, and in whatever *)
(* order it is listed, each frozen arm and no other has one nominee, which  *)
(* the pinned rule chose among all the observations that were frozen        *)
(* (nominate and freeze of nomination.py).                                  *)
THEOREM SelectionCorrect == SelectionSpec => []NomineesFollowTheRule
<1>1. SelectionInit => SelectionInv
  BY SelectionStarts
<1>2. SelectionInv /\ [SelectionNext]_selectionVars => SelectionInv'
  BY SelectionSteps
<1>3. SelectionInv => NomineesFollowTheRule
  BY RuleFollowed
<1> QED
  BY <1>1, <1>2, <1>3, PTL DEF SelectionSpec

-----------------------------------------------------------------------------
(* The swap of the release pointer.  What is true of an attempt that has   *)
(* passed the comparison: as long as nobody has moved the pointer since,   *)
(* it is what was expected, one version behind the new one.                *)
SwapSpec == SwapInit /\ [][SwapNext]_swapVars

SwapDigest == SwapManifests \cup {NoDigest}
SwapRoles == {"release-controller", "candidate-runner"}
AuditEntry ==
  [role : SwapRoles, outcome : {"allowed", "denied", "conflict"}, expected : SwapDigest,
   new : SwapManifests, version : Nat]
SwapAttempts ==
  [at : {"idle", "asked", "agreed", "numbered", "audited"}, role : SwapRoles \cup {"none"},
   expected : SwapDigest, new : SwapDigest, version : Nat, seen : Nat, entry : Nat]

Asks(a) == a.at # "idle" => a.new \in SwapManifests /\ a.role \in SwapRoles
Agrees(a, pointer, moves) ==
  /\ a.at \in {"agreed", "numbered", "audited"} =>
       /\ a.role = "release-controller" /\ a.seen <= Len(moves)
       /\ a.seen = Len(moves) => pointer.digest = a.expected
  /\ a.at \in {"numbered", "audited"} /\ a.seen = Len(moves) => a.version = pointer.version + 1
Recorded(a, trail) ==
  a.at = "audited" =>
    /\ a.entry \in DOMAIN trail
    /\ trail[a.entry] = [role |-> a.role, outcome |-> "allowed", expected |-> a.expected,
                         new |-> a.new, version |-> a.version]

PointerOf(trail, moves, n) ==
  IF n = 0 THEN Untouched
  ELSE [digest |-> trail[moves[n].entry].new, version |-> trail[moves[n].entry].version]

SwapTyped ==
  /\ activePointer \in [digest : SwapDigest, version : Nat]
  /\ auditTrail \in Seq(AuditEntry) /\ moved \in Seq([entry : Nat, seen : Nat])
  /\ attempt \in [Movers -> SwapAttempts]
AttemptsHold ==
  \A w \in Movers : Asks(attempt[w]) /\ Agrees(attempt[w], activePointer, moved) /\ Recorded(attempt[w], auditTrail)
MovesAudited ==
  /\ activePointer = PointerOf(auditTrail, moved, Len(moved))
  /\ \A n \in 1..Len(moved) :
       LET e == auditTrail[moved[n].entry] IN
       /\ moved[n].entry \in 1..Len(auditTrail) /\ e.outcome = "allowed"
       /\ moved[n].seen = n - 1 =>
            PointerOf(auditTrail, moved, n - 1) = [digest |-> e.expected, version |-> e.version - 1]
UsedOnce ==
  /\ \A m, n \in 1..Len(moved) : moved[m].entry = moved[n].entry => m = n
  /\ \A v, w \in Movers : attempt[v].at = "audited" /\ attempt[w].at = "audited"
                          /\ attempt[v].entry = attempt[w].entry => v = w
  /\ \A w \in Movers, n \in 1..Len(moved) : attempt[w].at = "audited" => attempt[w].entry # moved[n].entry
AllowedAreUsed ==
  \A i \in 1..Len(auditTrail) : auditTrail[i].outcome = "allowed" =>
    /\ auditTrail[i].role = "release-controller"
    /\ \/ \E n \in 1..Len(moved) : moved[n].entry = i
       \/ \E w \in Movers : attempt[w].at = "audited" /\ attempt[w].entry = i
SwapInv == SwapTyped /\ AttemptsHold /\ MovesAudited /\ UsedOnce /\ AllowedAreUsed

(* Every step but the assignment leaves the pointer and its moves, takes   *)
(* the attempt of one thread further, and may add to the trail: what it    *)
(* adds is allowed only as the entry of that attempt.                      *)
LEMMA AttemptMoves ==
  ASSUME SwapInv, NEW w \in Movers, NEW x \in SwapAttempts, attempt' = [attempt EXCEPT ![w] = x],
         attempt[w].at # "audited", UNCHANGED <<activePointer, moved>>,
         auditTrail' \in Seq(AuditEntry), Len(auditTrail') >= Len(auditTrail),
         \A i \in 1..Len(auditTrail) : auditTrail'[i] = auditTrail[i],
         Asks(x), Agrees(x, activePointer, moved),
         \A i \in 1..Len(auditTrail') : i > Len(auditTrail) /\ auditTrail'[i].outcome = "allowed" =>
           auditTrail'[i].role = "release-controller" /\ x.at = "audited" /\ x.entry = i,
         x.at = "audited" => /\ x.entry \in 1..Len(auditTrail') /\ x.entry > Len(auditTrail)
                             /\ auditTrail'[x.entry] =
                                  [role |-> x.role, outcome |-> "allowed", expected |-> x.expected,
                                   new |-> x.new, version |-> x.version]
  PROVE  SwapInv'
<1>1. /\ auditTrail \in Seq(AuditEntry) /\ Len(auditTrail) \in Nat /\ Len(auditTrail') \in Nat
      /\ moved \in Seq([entry : Nat, seen : Nat]) /\ Len(moved) \in Nat /\ attempt \in [Movers -> SwapAttempts]
  BY DEF SwapInv, SwapTyped
<1>2. /\ attempt'[w] = x /\ \A v \in Movers : v # w => attempt'[v] = attempt[v]
      /\ attempt' \in [Movers -> SwapAttempts]
  BY <1>1
<1>3. DOMAIN auditTrail = 1..Len(auditTrail) /\ DOMAIN auditTrail' = 1..Len(auditTrail')
  BY <1>1
<1>4. \A i \in 1..Len(auditTrail) : i \in 1..Len(auditTrail') /\ ~(i > Len(auditTrail))
  BY <1>1
<1>5. SwapTyped'
  BY <1>2 DEF SwapInv, SwapTyped
<1>6. AttemptsHold'
  <2> SUFFICES ASSUME NEW v \in Movers
               PROVE  /\ Asks(attempt'[v]) /\ Agrees(attempt'[v], activePointer, moved)
                      /\ Recorded(attempt'[v], auditTrail')
    BY DEF AttemptsHold, Asks, Agrees, Recorded
  <2>1. CASE v = w
    BY <1>2, <1>3, <2>1 DEF Recorded
  <2>2. CASE v # w
    <3>1. attempt'[v] = attempt[v]
      BY <1>2, <2>2
    <3>2. Asks(attempt[v]) /\ Agrees(attempt[v], activePointer, moved) /\ Recorded(attempt[v], auditTrail)
      BY DEF SwapInv, AttemptsHold
    <3>3. Recorded(attempt[v], auditTrail')
      BY <1>3, <1>4, <3>2 DEF Recorded
    <3> QED
      BY <3>1, <3>2, <3>3
  <2> QED
    BY <2>1, <2>2
<1>7. MovesAudited'
  <2>1. \A n \in 1..Len(moved) : moved[n].entry \in 1..Len(auditTrail)
    BY DEF SwapInv, MovesAudited
  <2>2. \A n \in 0..Len(moved) : PointerOf(auditTrail', moved, n) = PointerOf(auditTrail, moved, n)
    <3> SUFFICES ASSUME NEW n \in 0..Len(moved), n # 0
                 PROVE  PointerOf(auditTrail', moved, n) = PointerOf(auditTrail, moved, n)
      BY DEF PointerOf
    <3>1. n \in 1..Len(moved)
      BY <1>1
    <3>2. auditTrail'[moved[n].entry] = auditTrail[moved[n].entry]
      BY <2>1, <3>1
    <3> QED
      BY <3>2 DEF PointerOf
  <2>3. activePointer' = PointerOf(auditTrail', moved', Len(moved'))
    <3>1. Len(moved) \in 0..Len(moved)
      BY <1>1
    <3> QED
      BY <2>2, <3>1 DEF SwapInv, MovesAudited
  <2>4. ASSUME NEW n \in 1..Len(moved)
        PROVE  LET e == auditTrail'[moved[n].entry] IN
               /\ moved[n].entry \in 1..Len(auditTrail') /\ e.outcome = "allowed"
               /\ moved[n].seen = n - 1 =>
                    PointerOf(auditTrail', moved, n - 1) = [digest |-> e.expected, version |-> e.version - 1]
    <3>1. n - 1 \in 0..Len(moved) /\ moved[n].entry \in 1..Len(auditTrail')
      BY <1>1, <1>4, <2>1
    <3>2. auditTrail'[moved[n].entry] = auditTrail[moved[n].entry]
      BY <2>1
    <3> QED
      BY <2>2, <3>1, <3>2 DEF SwapInv, MovesAudited
  <2>5. moved' = moved
    OBVIOUS
  <2> QED
    BY <2>3, <2>4, <2>5 DEF MovesAudited
<1>8. UsedOnce'
  <2>1. \A v \in Movers : attempt[v].at = "audited" => attempt[v].entry \in 1..Len(auditTrail)
    BY <1>3 DEF SwapInv, AttemptsHold, Recorded
  <2>2. \A n \in 1..Len(moved) : moved[n].entry \in 1..Len(auditTrail)
    BY DEF SwapInv, MovesAudited
  <2>3. \A v \in Movers : v # w /\ attempt'[v].at = "audited" => attempt'[v].entry # x.entry \/ x.at # "audited"
    BY <1>2, <1>4, <2>1
  <2>4. \A n \in 1..Len(moved) : x.at = "audited" => x.entry # moved[n].entry
    BY <1>4, <2>2
  <2> QED
    BY <1>2, <2>3, <2>4 DEF SwapInv, UsedOnce
<1>9. AllowedAreUsed'
  <2> SUFFICES ASSUME NEW i \in 1..Len(auditTrail'), auditTrail'[i].outcome = "allowed"
               PROVE  /\ auditTrail'[i].role = "release-controller"
                      /\ \/ \E n \in 1..Len(moved) : moved[n].entry = i
                         \/ \E v \in Movers : attempt'[v].at = "audited" /\ attempt'[v].entry = i
    BY DEF AllowedAreUsed
  <2>1. CASE i > Len(auditTrail)
    BY <1>2, <2>1
  <2>2. CASE ~(i > Len(auditTrail))
    <3>1. i \in 1..Len(auditTrail) /\ auditTrail'[i] = auditTrail[i]
      BY <1>1, <2>2
    <3>2. /\ auditTrail[i].role = "release-controller"
          /\ \/ \E n \in 1..Len(moved) : moved[n].entry = i
             \/ \E v \in Movers : attempt[v].at = "audited" /\ attempt[v].entry = i
      BY <3>1 DEF SwapInv, AllowedAreUsed
    <3> QED
      BY <1>2, <3>1, <3>2
  <2> QED
    BY <2>1, <2>2
<1> QED
  BY <1>5, <1>6, <1>7, <1>8, <1>9 DEF SwapInv

LEMMA AskKeeps ==
  ASSUME SwapInv, NEW w \in Movers, AskToSwap(w)
  PROVE  SwapInv'
<1>1. PICK role \in SwapRoles, new \in SwapManifests, expected \in SwapManifests \cup {activePointer.digest} :
        attempt' = [attempt EXCEPT ![w] = [NoAttempt EXCEPT !.at = "asked", !.role = role, !.new = new,
                                                            !.expected = expected]]
  BY DEF AskToSwap, SwapRoles
<1> DEFINE x == [NoAttempt EXCEPT !.at = "asked", !.role = role, !.new = new, !.expected = expected]
<1>2. expected \in SwapDigest /\ new \in SwapDigest
  BY DEF SwapInv, SwapTyped, SwapDigest
<1>3. x \in SwapAttempts /\ x.at = "asked" /\ x.new = new /\ x.role = role
  BY <1>2 DEF NoAttempt, SwapAttempts, SwapDigest
<1>4. Asks(x) /\ Agrees(x, activePointer, moved)
  BY <1>3 DEF Asks, Agrees
<1>5. attempt[w].at # "audited" /\ UNCHANGED <<activePointer, auditTrail, moved>>
  BY DEF AskToSwap
<1>6. auditTrail \in Seq(AuditEntry) /\ Len(auditTrail) \in Nat
  BY DEF SwapInv, SwapTyped
<1> HIDE DEF x
<1>7. \A i \in 1..Len(auditTrail') : ~(i > Len(auditTrail))
  BY <1>5, <1>6
<1>8. attempt' = [attempt EXCEPT ![w] = x]
  BY <1>1 DEF x
<1>9. auditTrail' \in Seq(AuditEntry) /\ Len(auditTrail') >= Len(auditTrail) /\ auditTrail' = auditTrail
  BY <1>5, <1>6
<1> QED
  BY <1>3, <1>4, <1>5, <1>7, <1>8, <1>9, AttemptMoves

LEMMA EntryAppended ==
  ASSUME auditTrail \in Seq(AuditEntry), NEW e \in AuditEntry, auditTrail' = Append(auditTrail, e)
  PROVE  /\ auditTrail' \in Seq(AuditEntry) /\ Len(auditTrail) \in Nat /\ Len(auditTrail') = Len(auditTrail) + 1
         /\ Len(auditTrail') >= Len(auditTrail)
         /\ \A i \in 1..Len(auditTrail) : auditTrail'[i] = auditTrail[i]
         /\ auditTrail'[Len(auditTrail) + 1] = e /\ Len(auditTrail) + 1 \in 1..Len(auditTrail')
         /\ Len(auditTrail) + 1 > Len(auditTrail)
         /\ \A i \in 1..Len(auditTrail') : i > Len(auditTrail) => i = Len(auditTrail) + 1
OBVIOUS

(* An attempt that does not touch the trail *)
LEMMA SilentStep ==
  ASSUME SwapInv, NEW w \in Movers, NEW x \in SwapAttempts, attempt' = [attempt EXCEPT ![w] = x],
         attempt[w].at # "audited", x.at # "audited", UNCHANGED <<activePointer, moved, auditTrail>>,
         Asks(x), Agrees(x, activePointer, moved)
  PROVE  SwapInv'
<1>1. auditTrail \in Seq(AuditEntry) /\ Len(auditTrail) \in Nat
  BY DEF SwapInv, SwapTyped
<1>2. \A i \in 1..Len(auditTrail') : ~(i > Len(auditTrail))
  BY <1>1
<1>3. auditTrail' \in Seq(AuditEntry) /\ Len(auditTrail') >= Len(auditTrail) /\ auditTrail' = auditTrail
  BY <1>1
<1> QED
  BY <1>2, <1>3, AttemptMoves

LEMMA IdleAttempt ==
  NoAttempt \in SwapAttempts /\ NoAttempt.at = "idle" /\ Asks(NoAttempt)
  /\ \A pointer, moves : Agrees(NoAttempt, pointer, moves)
BY DEF NoAttempt, SwapAttempts, Asks, Agrees, SwapDigest

LEMMA RefuseKeeps ==
  ASSUME SwapInv, NEW w \in Movers, RefuseSwap(w)
  PROVE  SwapInv'
<1> DEFINE outcome == IF attempt[w].role # "release-controller" THEN "denied" ELSE "conflict"
           e == EntryFor(w, outcome)
<1>1. /\ attempt' = [attempt EXCEPT ![w] = NoAttempt] /\ attempt[w].at = "asked"
      /\ UNCHANGED <<activePointer, moved>>
      /\ auditTrail' = auditTrail \/ auditTrail' = Append(auditTrail, e)
  BY DEF RefuseSwap
<1>2. CASE auditTrail' = auditTrail
  BY <1>1, <1>2, IdleAttempt, SilentStep
<1>3. CASE auditTrail' = Append(auditTrail, e)
  <2>1. attempt[w] \in SwapAttempts /\ attempt[w].new \in SwapManifests /\ attempt[w].role \in SwapRoles
    BY <1>1 DEF SwapInv, SwapTyped, AttemptsHold, Asks
  <2>2. e \in AuditEntry /\ e.outcome # "allowed"
    BY <2>1 DEF EntryFor, AuditEntry, SwapAttempts
  <2> HIDE DEF e
  <2>3. auditTrail \in Seq(AuditEntry)
    BY DEF SwapInv, SwapTyped
  <2>4. /\ auditTrail' \in Seq(AuditEntry) /\ Len(auditTrail') >= Len(auditTrail)
        /\ \A i \in 1..Len(auditTrail) : auditTrail'[i] = auditTrail[i]
        /\ \A i \in 1..Len(auditTrail') : i > Len(auditTrail) => auditTrail'[i] = e
    BY <1>3, <2>2, <2>3, EntryAppended
  <2> QED
    BY <1>1, <2>2, <2>4, IdleAttempt, AttemptMoves
<1> QED
  BY <1>1, <1>2, <1>3

(* What each step makes of an attempt *)
Agreed(a, m) == [a EXCEPT !.at = "agreed", !.seen = m]
Numbered(a, m) == [a EXCEPT !.at = "numbered", !.version = m]
AuditedAs(a, m) == [a EXCEPT !.at = "audited", !.entry = m]

LEMMA AttemptChanged ==
  ASSUME NEW a \in SwapAttempts, NEW m \in Nat
  PROVE  /\ LET x == Agreed(a, m) IN
            /\ x \in SwapAttempts /\ x.at = "agreed" /\ x.seen = m /\ x.role = a.role
            /\ x.expected = a.expected /\ x.new = a.new
         /\ LET x == Numbered(a, m) IN
            /\ x \in SwapAttempts /\ x.at = "numbered" /\ x.version = m
            /\ x.seen = a.seen /\ x.role = a.role /\ x.expected = a.expected /\ x.new = a.new
         /\ LET x == AuditedAs(a, m) IN
            /\ x \in SwapAttempts /\ x.at = "audited" /\ x.version = a.version /\ x.entry = m
            /\ x.seen = a.seen /\ x.role = a.role /\ x.expected = a.expected /\ x.new = a.new
BY DEF SwapAttempts, Agreed, Numbered, AuditedAs

LEMMA CompareKeeps ==
  ASSUME SwapInv, NEW w \in Movers, Compare(w)
  PROVE  SwapInv'
<1> DEFINE a == attempt[w]
           x == Agreed(a, Len(moved))
<1>1. /\ attempt[w].at = "asked" /\ attempt[w].role = "release-controller"
      /\ attempt[w].expected = activePointer.digest /\ UNCHANGED <<activePointer, auditTrail, moved>>
      /\ attempt \in [Movers -> SwapAttempts] /\ Len(moved) \in Nat /\ Asks(attempt[w])
  BY DEF Compare, Swaps, StillExpected, SwapInv, SwapTyped, AttemptsHold
<1>2. attempt' = [attempt EXCEPT ![w] = x]
  BY DEF Compare, Agreed
<1>3. /\ x \in SwapAttempts /\ x.at = "agreed" /\ x.seen = Len(moved) /\ x.role = a.role
      /\ x.expected = a.expected /\ x.new = a.new
  <2>1. a \in SwapAttempts
    BY <1>1
  <2>2. Len(moved) \in Nat
    BY <1>1
  <2> HIDE DEF a
  <2> QED
    BY <2>1, <2>2, AttemptChanged, ZenonT(60), SMTT(30)
<1>4. Asks(x) /\ Agrees(x, activePointer, moved)
  BY <1>1, <1>3 DEF Asks, Agrees
<1> HIDE DEF x
<1> QED
  BY <1>1, <1>2, <1>3, <1>4, SilentStep

LEMMA NumberKeeps ==
  ASSUME SwapInv, NEW w \in Movers, NumberSwap(w)
  PROVE  SwapInv'
<1> DEFINE a == attempt[w]
           x == Numbered(a, activePointer.version + 1)
<1>1. /\ attempt[w].at = "agreed" /\ UNCHANGED <<activePointer, auditTrail, moved>>
      /\ attempt \in [Movers -> SwapAttempts] /\ activePointer.version \in Nat
      /\ Asks(attempt[w]) /\ Agrees(attempt[w], activePointer, moved)
  BY DEF NumberSwap, SwapInv, SwapTyped, AttemptsHold
<1>2. attempt' = [attempt EXCEPT ![w] = x]
  BY DEF NumberSwap, Numbered
<1>3. /\ x \in SwapAttempts /\ x.at = "numbered" /\ x.version = activePointer.version + 1
      /\ x.seen = a.seen /\ x.role = a.role
      /\ x.expected = a.expected /\ x.new = a.new
  <2>1. a \in SwapAttempts
    BY <1>1
  <2>2. activePointer.version + 1 \in Nat
    BY <1>1
  <2> HIDE DEF a
  <2> QED
    BY <2>1, <2>2, AttemptChanged, ZenonT(60), SMTT(30)
<1>4. Asks(x) /\ Agrees(x, activePointer, moved)
  BY <1>1, <1>3 DEF Asks, Agrees
<1> HIDE DEF x
<1> QED
  BY <1>1, <1>2, <1>3, <1>4, SilentStep

LEMMA AuditKeeps ==
  ASSUME SwapInv, NEW w \in Movers, AuditSwap(w)
  PROVE  SwapInv'
<1>1. /\ attempt[w].at = "numbered" /\ UNCHANGED <<activePointer, moved>>
      /\ attempt \in [Movers -> SwapAttempts] /\ auditTrail \in Seq(AuditEntry) /\ Len(auditTrail) \in Nat
      /\ Asks(attempt[w]) /\ Agrees(attempt[w], activePointer, moved)
  BY DEF AuditSwap, SwapInv, SwapTyped, AttemptsHold
<1>2. CASE AuditFails(w) /\ UNCHANGED auditTrail
  BY <1>1, <1>2, IdleAttempt, SilentStep DEF AuditFails
<1>3. CASE /\ auditTrail' = Append(auditTrail, EntryFor(w, "allowed"))
           /\ attempt' = [attempt EXCEPT ![w].at = "audited", ![w].entry = Len(auditTrail) + 1]
  <2> DEFINE a == attempt[w]
             x == AuditedAs(a, Len(auditTrail) + 1)
             e == EntryFor(w, "allowed")
  <2>1. attempt' = [attempt EXCEPT ![w] = x]
    BY <1>3 DEF AuditedAs
  <2>2. /\ x \in SwapAttempts /\ x.at = "audited" /\ x.version = a.version /\ x.entry = Len(auditTrail) + 1
        /\ x.seen = a.seen /\ x.role = a.role
        /\ x.expected = a.expected /\ x.new = a.new
    <3>1. a \in SwapAttempts
      BY <1>1
    <3>2. Len(auditTrail) + 1 \in Nat
      BY <1>1
    <3> HIDE DEF a
    <3> QED
      BY <3>1, <3>2, AttemptChanged, ZenonT(60), SMTT(30)
  <2>3. Asks(x) /\ Agrees(x, activePointer, moved) /\ x.role = "release-controller"
    BY <1>1, <2>2 DEF Asks, Agrees
  <2>4. e = [role |-> x.role, outcome |-> "allowed", expected |-> x.expected, new |-> x.new, version |-> x.version]
    BY <2>2 DEF EntryFor
  <2>5. x.new \in SwapManifests /\ x.role \in SwapRoles
    BY <2>2, <2>3 DEF Asks
  <2> HIDE DEF x
  <2>6. e \in AuditEntry /\ e.role = "release-controller"
    BY <2>2, <2>3, <2>4, <2>5 DEF AuditEntry, SwapAttempts
  <2>7. /\ auditTrail' \in Seq(AuditEntry) /\ Len(auditTrail') >= Len(auditTrail)
        /\ \A i \in 1..Len(auditTrail) : auditTrail'[i] = auditTrail[i]
        /\ auditTrail'[x.entry] = e /\ x.entry \in 1..Len(auditTrail') /\ x.entry > Len(auditTrail)
        /\ \A i \in 1..Len(auditTrail') : i > Len(auditTrail) => i = x.entry
    <3>1. auditTrail' = Append(auditTrail, e)
      BY <1>3
    <3> HIDE DEF e
    <3> QED
      BY <1>1, <2>2, <2>6, <3>1, EntryAppended
  <2> HIDE DEF e
  <2> QED
    BY <1>1, <2>1, <2>2, <2>3, <2>4, <2>6, <2>7, AttemptMoves, ZenonT(60), SMTT(30)
<1> QED
  BY <1>2, <1>3 DEF AuditSwap

LEMMA MoveKeeps ==
  ASSUME SwapInv, NEW w \in Movers, MovePointer(w)
  PROVE  SwapInv'
<1> DEFINE a == attempt[w]
           k == Len(moved) + 1
<1>1. /\ a.at = "audited" /\ activePointer' = [digest |-> a.new, version |-> a.version]
      /\ moved' = Append(moved, [entry |-> a.entry, seen |-> a.seen])
      /\ attempt' = [attempt EXCEPT ![w] = NoAttempt] /\ auditTrail' = auditTrail
  BY DEF MovePointer
<1>2. /\ a \in SwapAttempts /\ attempt \in [Movers -> SwapAttempts] /\ moved \in Seq([entry : Nat, seen : Nat])
      /\ auditTrail \in Seq(AuditEntry) /\ Len(moved) \in Nat /\ Len(auditTrail) \in Nat
      /\ activePointer \in [digest : SwapDigest, version : Nat]
  BY DEF SwapInv, SwapTyped
<1>3. a.entry \in Nat /\ a.seen \in Nat /\ a.new \in SwapDigest /\ a.version \in Nat
  BY <1>2 DEF SwapAttempts
<1>4. /\ attempt'[w] = NoAttempt /\ \A v \in Movers : v # w => attempt'[v] = attempt[v]
      /\ attempt' \in [Movers -> SwapAttempts]
  BY <1>1, <1>2, IdleAttempt
<1>5. /\ moved' \in Seq([entry : Nat, seen : Nat]) /\ Len(moved') = k
      /\ moved'[k] = [entry |-> a.entry, seen |-> a.seen]
      /\ \A n \in 1..Len(moved) : moved'[n] = moved[n]
  <2> DEFINE m == [entry |-> a.entry, seen |-> a.seen]
  <2>1. m \in [entry : Nat, seen : Nat]
    BY <1>3
  <2> HIDE DEF a, m
  <2>2. moved' = Append(moved, m)
    BY <1>1 DEF m
  <2>3. /\ moved' \in Seq([entry : Nat, seen : Nat]) /\ Len(moved') = Len(moved) + 1
        /\ moved'[Len(moved) + 1] = m /\ \A n \in 1..Len(moved) : moved'[n] = moved[n]
    BY <1>2, <2>1, <2>2
  <2> QED
    BY <2>3 DEF m
<1>6. /\ Agrees(a, activePointer, moved) /\ a.entry \in 1..Len(auditTrail)
      /\ auditTrail[a.entry] = [role |-> a.role, outcome |-> "allowed", expected |-> a.expected,
                                new |-> a.new, version |-> a.version]
  BY <1>1, <1>2 DEF SwapInv, AttemptsHold, Recorded
<1>7. /\ k \in 1..k /\ k > Len(moved) /\ k \in Nat /\ k # 0 /\ k - 1 = Len(moved)
      /\ \A n \in 1..k : n = k \/ n \in 1..Len(moved)
      /\ \A n \in 1..Len(moved) : n \in 1..k /\ n # k /\ n # 0 /\ n - 1 \in 0..Len(moved) /\ n - 1 # k
      /\ Len(moved) \in 0..Len(moved) /\ \A n \in 0..Len(moved) : n # 0 => n \in 1..Len(moved)
  BY <1>2
<1> HIDE DEF a, k
<1>8. SwapTyped'
  <2>1. activePointer' \in [digest : SwapDigest, version : Nat]
    BY <1>1, <1>3
  <2> QED
    BY <1>1, <1>2, <1>4, <1>5, <2>1 DEF SwapTyped
<1>9. AttemptsHold'
  <2> SUFFICES ASSUME NEW v \in Movers
               PROVE  /\ Asks(attempt'[v]) /\ Agrees(attempt'[v], activePointer', moved')
                      /\ Recorded(attempt'[v], auditTrail')
    BY DEF AttemptsHold, Asks, Agrees, Recorded
  <2>1. CASE v = w
    BY <1>4, <2>1, IdleAttempt DEF Recorded
  <2>2. CASE v # w
    <3>1. /\ Asks(attempt[v]) /\ Agrees(attempt[v], activePointer, moved) /\ Recorded(attempt[v], auditTrail)
          /\ attempt[v] \in SwapAttempts
      BY <1>2 DEF SwapInv, AttemptsHold
    <3>2. attempt[v].seen \in Nat
      BY <3>1 DEF SwapAttempts
    <3>3. \A n \in Nat : n <= Len(moved) => n <= Len(moved') /\ n # Len(moved')
      BY <1>2, <1>5 DEF k
    <3>4. Agrees(attempt[v], activePointer', moved')
      BY <3>1, <3>2, <3>3 DEF Agrees
    <3> QED
      BY <1>1, <1>4, <2>2, <3>1, <3>4
  <2> QED
    BY <2>1, <2>2
<1>10. \A n \in 0..Len(moved) : PointerOf(auditTrail, moved', n) = PointerOf(auditTrail, moved, n)
  BY <1>5, <1>7 DEF PointerOf
<1>11. activePointer = PointerOf(auditTrail, moved, Len(moved))
  BY DEF SwapInv, MovesAudited
<1>12. MovesAudited'
  <2>1. activePointer' = PointerOf(auditTrail', moved', Len(moved'))
    BY <1>1, <1>5, <1>6, <1>7 DEF PointerOf
  <2>2. ASSUME NEW n \in 1..Len(moved)
        PROVE  LET e == auditTrail[moved'[n].entry] IN
               /\ moved'[n].entry \in 1..Len(auditTrail) /\ e.outcome = "allowed"
               /\ moved'[n].seen = n - 1 =>
                    PointerOf(auditTrail, moved', n - 1) = [digest |-> e.expected, version |-> e.version - 1]
    <3>1. moved'[n] = moved[n] /\ PointerOf(auditTrail, moved', n - 1) = PointerOf(auditTrail, moved, n - 1)
      BY <1>5, <1>7, <1>10
    <3> QED
      BY <3>1 DEF SwapInv, MovesAudited
  <2>3. /\ moved'[k].entry \in 1..Len(auditTrail) /\ auditTrail[moved'[k].entry].outcome = "allowed"
        /\ moved'[k].seen = k - 1 =>
             PointerOf(auditTrail, moved', k - 1) =
               [digest |-> auditTrail[moved'[k].entry].expected, version |-> auditTrail[moved'[k].entry].version - 1]
    <3>1. moved'[k].entry = a.entry /\ moved'[k].seen = a.seen
      BY <1>5
    <3>2. ASSUME a.seen = Len(moved)
          PROVE  activePointer = [digest |-> a.expected, version |-> a.version - 1]
      <4>1. activePointer.digest = a.expected /\ a.version = activePointer.version + 1
        BY <1>1, <1>6, <3>2 DEF Agrees
      <4>2. activePointer.version = a.version - 1
        BY <1>2, <4>1
      <4>3. activePointer = [digest |-> activePointer.digest, version |-> activePointer.version]
        BY <1>2
      <4> QED
        BY <4>1, <4>2, <4>3
    <3>3. auditTrail[a.entry].expected = a.expected /\ auditTrail[a.entry].version = a.version
          /\ auditTrail[a.entry].outcome = "allowed"
      BY <1>6
    <3>4. PointerOf(auditTrail, moved', k - 1) = activePointer
      BY <1>7, <1>10, <1>11
    <3> QED
      BY <1>6, <1>7, <3>1, <3>2, <3>3, <3>4
  <2>4. ASSUME NEW n \in 1..Len(moved')
        PROVE  LET e == auditTrail[moved'[n].entry] IN
               /\ moved'[n].entry \in 1..Len(auditTrail) /\ e.outcome = "allowed"
               /\ moved'[n].seen = n - 1 =>
                    PointerOf(auditTrail, moved', n - 1) = [digest |-> e.expected, version |-> e.version - 1]
    <3>1. n = k \/ n \in 1..Len(moved)
      BY <1>5, <1>7
    <3>2. CASE n = k
      BY <2>3, <3>2
    <3>3. CASE n \in 1..Len(moved)
      BY <2>2, <3>3
    <3> QED
      BY <3>1, <3>2, <3>3
  <2> QED
    BY <1>1, <2>1, <2>4 DEF MovesAudited
<1>13. UsedOnce'
  <2>1. \A n \in 1..Len(moved) : a.entry # moved[n].entry
    BY <1>1 DEF SwapInv, UsedOnce, a
  <2>2. \A v \in Movers : v # w /\ attempt[v].at = "audited" => attempt[v].entry # a.entry
    BY <1>1 DEF SwapInv, UsedOnce, a
  <2>3. moved'[k].entry = a.entry /\ \A n \in 1..Len(moved) : moved'[n].entry = moved[n].entry
    BY <1>5
  <2>4. \A v \in Movers : attempt'[v].at = "audited" => v # w /\ attempt[v].at = "audited"
                                                        /\ attempt'[v].entry = attempt[v].entry
    BY <1>4, IdleAttempt
  <2>5. ASSUME NEW m \in 1..Len(moved'), NEW n \in 1..Len(moved'), moved'[m].entry = moved'[n].entry
        PROVE  m = n
    <3>1. (m = k \/ m \in 1..Len(moved)) /\ (n = k \/ n \in 1..Len(moved))
      BY <1>5, <1>7
    <3>2. \A i, j \in 1..Len(moved) : moved[i].entry = moved[j].entry => i = j
      BY DEF SwapInv, UsedOnce
    <3> QED
      BY <2>1, <2>3, <2>5, <3>1, <3>2
  <2>6. \A v \in Movers, n \in 1..Len(moved') : attempt'[v].at = "audited" => attempt'[v].entry # moved'[n].entry
    BY <1>5, <1>7, <2>2, <2>3, <2>4 DEF SwapInv, UsedOnce
  <2>7. \A u, v \in Movers : attempt'[u].at = "audited" /\ attempt'[v].at = "audited"
                             /\ attempt'[u].entry = attempt'[v].entry => u = v
    BY <2>4 DEF SwapInv, UsedOnce
  <2> QED
    BY <2>5, <2>6, <2>7 DEF UsedOnce
<1>14. AllowedAreUsed'
  <2> SUFFICES ASSUME NEW i \in 1..Len(auditTrail), auditTrail[i].outcome = "allowed"
               PROVE  /\ auditTrail[i].role = "release-controller"
                      /\ \/ \E n \in 1..Len(moved') : moved'[n].entry = i
                         \/ \E v \in Movers : attempt'[v].at = "audited" /\ attempt'[v].entry = i
    BY <1>1 DEF AllowedAreUsed
  <2>1. /\ auditTrail[i].role = "release-controller"
        /\ \/ \E n \in 1..Len(moved) : moved[n].entry = i
           \/ \E v \in Movers : attempt[v].at = "audited" /\ attempt[v].entry = i
    BY DEF SwapInv, AllowedAreUsed
  <2>2. CASE \E n \in 1..Len(moved) : moved[n].entry = i
    BY <1>5, <1>7, <2>1, <2>2
  <2>3. CASE \E v \in Movers : attempt[v].at = "audited" /\ attempt[v].entry = i
    <3>1. PICK v \in Movers : attempt[v].at = "audited" /\ attempt[v].entry = i
      BY <2>3
    <3>2. CASE v = w
      <4>1. moved'[k].entry = i /\ k \in 1..Len(moved')
        BY <1>5, <1>7, <3>1, <3>2 DEF a
      <4> QED
        BY <2>1, <4>1
    <3>3. CASE v # w
      BY <1>4, <2>1, <3>1, <3>3
    <3> QED
      BY <3>2, <3>3
  <2> QED
    BY <2>1, <2>2, <2>3
<1> QED
  BY <1>8, <1>9, <1>12, <1>13, <1>14 DEF SwapInv

LEMMA AtMostOne ==
  ASSUME NEW S, NEW T, S = {} \/ T = {}, S # {} \/ T # {},
         \A x, y \in S : x = y, \A x, y \in T : x = y
  PROVE  Cardinality(S) + Cardinality(T) = 1
<1>1. Cardinality({}) = 0
  BY FS_EmptySet
<1>2. ASSUME NEW U, U # {}, \A x, y \in U : x = y PROVE Cardinality(U) = 1
  <2>1. PICK x \in U : U = {x}
    BY <1>2
  <2> QED
    BY <2>1, FS_Singleton
<1>3. CASE S = {}
  BY <1>1, <1>2, <1>3
<1>4. CASE T = {}
  BY <1>1, <1>2, <1>4
<1> QED
  BY <1>3, <1>4

LEMMA AuditedPointer ==
  ASSUME SwapInv
  PROVE  PointerIsAsAudited
<1>1. DOMAIN moved = 1..Len(moved) /\ DOMAIN auditTrail = 1..Len(auditTrail)
  BY DEF SwapInv, SwapTyped
<1>2. \A n : PointerAfter(n) = PointerOf(auditTrail, moved, n)
  BY DEF PointerAfter, PointerOf
<1>3. ASSUME NEW i \in 1..Len(auditTrail), auditTrail[i].outcome = "allowed"
      PROVE  /\ auditTrail[i].role = "release-controller"
             /\ Cardinality({n \in 1..Len(moved) : moved[n].entry = i})
                + Cardinality({w \in Movers : attempt[w].at = "audited" /\ attempt[w].entry = i}) = 1
  <2> DEFINE S == {n \in 1..Len(moved) : moved[n].entry = i}
             T == {w \in Movers : attempt[w].at = "audited" /\ attempt[w].entry = i}
  <2>1. \A x, y \in S : x = y
    BY DEF SwapInv, UsedOnce
  <2>2. \A x, y \in T : x = y
    BY DEF SwapInv, UsedOnce
  <2>3. S = {} \/ T = {}
    BY DEF SwapInv, UsedOnce
  <2>4. auditTrail[i].role = "release-controller" /\ (S # {} \/ T # {})
    BY <1>3 DEF SwapInv, AllowedAreUsed
  <2> HIDE DEF S, T
  <2>5. Cardinality(S) + Cardinality(T) = 1
    BY <2>1, <2>2, <2>3, <2>4, AtMostOne
  <2> QED
    BY <2>4, <2>5 DEF S, T
<1>4. ASSUME NEW n \in 1..Len(moved)
      PROVE  LET e == auditTrail[moved[n].entry] IN
             /\ e.outcome = "allowed" /\ moved[n].entry \in 1..Len(auditTrail)
             /\ moved[n].seen = n - 1 =>
                  PointerAfter(n - 1) = [digest |-> e.expected, version |-> e.version - 1]
  BY <1>2 DEF SwapInv, MovesAudited
<1>5. activePointer = PointerAfter(Len(moved))
  BY <1>2 DEF SwapInv, MovesAudited
<1> QED
  BY <1>1, <1>3, <1>4, <1>5 DEF PointerIsAsAudited

LEMMA SwapStarts ==
  ASSUME SwapInit
  PROVE  SwapInv
<1>1. Len(<<>>) = 0 /\ 1..0 = {} /\ <<>> \in Seq(AuditEntry) /\ <<>> \in Seq([entry : Nat, seen : Nat])
  OBVIOUS
<1>2. \A w \in Movers : attempt[w] = NoAttempt
  BY DEF SwapInit
<1>3. SwapTyped
  BY <1>1, <1>2, IdleAttempt DEF SwapInit, SwapTyped, Untouched, SwapDigest
<1>4. AttemptsHold
  BY <1>2, IdleAttempt DEF AttemptsHold, Recorded
<1>5. MovesAudited
  BY <1>1 DEF SwapInit, MovesAudited, PointerOf
<1>6. UsedOnce /\ AllowedAreUsed
  BY <1>1, <1>2, IdleAttempt DEF SwapInit, UsedOnce, AllowedAreUsed
<1> QED
  BY <1>3, <1>4, <1>5, <1>6 DEF SwapInv

(* Whatever threads swap, and however their checks, audits and assignments *)
(* interleave without a lock, the pointer is what its last move was        *)
(* audited as, every entry that allows a swap is of one by the release     *)
(* controller, done once or about to be, and a swap that none overlapped   *)
(* took the pointer from what it expected, one version on                  *)
(* (compare_and_swap of selection/release_pointer.py).                     *)
THEOREM PointerCorrect == SwapSpec => []PointerIsAsAudited
<1>1. SwapInit => SwapInv
  BY SwapStarts
<1>2. SwapInv /\ [SwapNext]_swapVars => SwapInv'
  <2> SUFFICES ASSUME SwapInv, [SwapNext]_swapVars PROVE SwapInv'
    OBVIOUS
  <2>1. CASE SwapNext
    <3>1. PICK w \in Movers : \/ AskToSwap(w) \/ RefuseSwap(w) \/ Compare(w) \/ NumberSwap(w)
                              \/ AuditSwap(w) \/ MovePointer(w)
      BY <2>1 DEF SwapNext
    <3> QED
      BY <3>1, AskKeeps, RefuseKeeps, CompareKeeps, NumberKeeps, AuditKeeps, MoveKeeps
  <2>2. CASE UNCHANGED swapVars
    BY <2>2 DEF swapVars, SwapInv, SwapTyped, AttemptsHold, MovesAudited, UsedOnce, AllowedAreUsed
  <2> QED
    BY <2>1, <2>2
<1>3. SwapInv => PointerIsAsAudited
  BY AuditedPointer
<1> QED
  BY <1>1, <1>2, <1>3, PTL DEF SwapSpec

-----------------------------------------------------------------------------
(* Rollbacks (campaign/scaffold_compensation.py).                          *)
RollbackSpec == RollbackInit /\ [][RollbackNext]_rollbackVars

(* Every path of the file map is somewhere in the order of the restore. *)
LEMMA OrderIsWhole ==
  ASSUME IsFiniteSet(Paths)
  PROVE  /\ InOrder \in Seq(Paths)
         /\ \A p \in Paths : \E i \in 1..Len(InOrder) : InOrder[i] = p
<1> DEFINE n == Cardinality(Paths)
<1>1. n \in Nat /\ ExistsBijection(1..n, Paths)
  BY FS_CardinalityType
<1>2. \E s \in [1..n -> Paths] : \A p \in Paths : \E i \in DOMAIN s : s[i] = p
  BY <1>1 DEF ExistsBijection, Bijection, Surjection
<1>3. InOrder \in [1..n -> Paths] /\ \A p \in Paths : \E i \in DOMAIN InOrder : InOrder[i] = p
  BY <1>2 DEF InOrder, SortedPaths
<1> HIDE DEF n
<1> QED
  BY <1>1, <1>3

Covered(t, rest) == \A p \in Paths : t[p] = Pinned[p] \/ \E i \in 1..Len(rest) : rest[i] = p

RollbackInv ==
  /\ unrestored \in Seq(Paths)
  /\ rollback = "restoring" => Covered(tree, unrestored)
  /\ rollback \in {"restored", "discharged"} => Changed(tree) = {}
  /\ rollback = "discharged" => Suite(tree).failed = 0
  /\ DOMAIN tree = TreePaths
  /\ \A p \in Strays : tree[p] = left[p]

LEMMA ExitOfRun ==
  ASSUME NEW did, NEW ruled, NEW noise
  PROVE  SuiteRun(did, ruled, noise).exit = Exit(did)
<1> DEFINE x == Exit(did)
           e == did.failed + did.passed = 0
           l == noise \o <<[ruled |-> ruled, failed |-> did.failed, passed |-> did.passed]>>
<1>1. SuiteRun(did, ruled, noise) = [timedOut |-> FALSE, exit |-> x, empty |-> e, lines |-> l]
  BY DEF SuiteRun
<1> HIDE DEF x, e, l
<1>2. SuiteRun(did, ruled, noise).exit = x
  BY <1>1
<1> QED
  BY <1>2 DEF x

LEMMA GreenMeansNoFailure ==
  ASSUME NEW run \in Reruns(tree), SuitePasses(run), Changed(tree) = {}
  PROVE  Suite(tree).failed = 0
<1>1. run.exit = 0
  BY DEF SuitePasses
<1> DEFINE did == Suite(tree)
<1> HIDE DEF did
<1>2. \/ \E ruled \in BOOLEAN : run = SuiteRun(did, ruled, <<>>)
      \/ \E line \in Noise : run = SuiteRun(did, TRUE, <<line>>)
  <2>1. \/ \E ruled \in BOOLEAN : run = SuiteRun(did, ruled, <<>>)
        \/ \E line \in Noise : run = SuiteRun(did, TRUE, <<line>>)
        \/ run = KilledRun(<<>>)
        \/ \E line \in Noise : run = CrashedRun(<<line>>)
    BY DEF Reruns, did
  <2>2. CASE run = KilledRun(<<>>)
    BY <1>1, <2>2 DEF KilledRun, NoExit
  <2>3. ASSUME NEW line \in Noise, run = CrashedRun(<<line>>) PROVE FALSE
    BY <1>1, <2>3 DEF CrashedRun, NoExit
  <2> QED
    BY <2>1, <2>2, <2>3
<1>3. Exit(Suite(tree)) = 0
  BY <1>1, <1>2, ExitOfRun DEF did
<1>4. Cardinality(Changed(tree)) = 0
  BY FS_EmptySet
<1>5. Suite(tree).failed \in {0, 1}
  BY <1>4 DEF Suite
<1> QED
  BY <1>3, <1>5 DEF Exit

LEMMA RollbackStarts == RollbackInit => RollbackInv
  BY RollbackAssumption DEF RollbackInit, RollbackInv, TreePaths, Changed

(* One module after the other: what is written back is covered by what is  *)
(* the incumbent's, what is not by what is left to write.                  *)
LEMMA RestoreKeeps ==
  ASSUME RollbackInv, RestoreModule
  PROVE  RollbackInv'
<1> DEFINE p == Head(unrestored)
<1>1. /\ p \in Paths /\ unrestored # <<>> /\ unrestored \in Seq(Paths)
      /\ Tail(unrestored) \in Seq(Paths)
      /\ \A i \in 1..Len(unrestored) :
           i = 1 \/ (i - 1 \in 1..Len(Tail(unrestored)) /\ Tail(unrestored)[i - 1] = unrestored[i])
      /\ unrestored[1] = p
  BY DEF RestoreModule, RollbackInv
<1>2. p \notin Strays /\ p \in DOMAIN tree
  BY <1>1, RollbackAssumption DEF RollbackInv, TreePaths
<1>3. CASE rollback' = "failed"
  <2>1. /\ tree' = tree \/ tree' = [tree EXCEPT ![p] = Pinned[p]]
        /\ left' = left /\ unrestored' = unrestored
    BY <1>1, <1>3 DEF RestoreModule
  <2> HIDE DEF p
  <2>2. DOMAIN tree' = TreePaths /\ \A q \in Strays : tree'[q] = left'[q]
    BY <1>2, <2>1 DEF RollbackInv, TreePaths
  <2> QED
    BY <1>3, <2>1, <2>2 DEF RollbackInv
<1>4. CASE rollback' # "failed"
  <2>1. /\ tree' = [tree EXCEPT ![p] = Pinned[p]] /\ unrestored' = Tail(unrestored)
        /\ rollback' = "restoring" /\ rollback = "restoring" /\ left' = left
    BY <1>4 DEF RestoreModule
  <2>2. Covered(tree, unrestored)
    BY <2>1 DEF RollbackInv
  <2> HIDE DEF p
  <2>3. Covered(tree', unrestored')
    <3> SUFFICES ASSUME NEW q \in Paths
                 PROVE  tree'[q] = Pinned[q] \/ \E i \in 1..Len(unrestored') : unrestored'[i] = q
      BY DEF Covered
    <3>1. CASE q = p
      BY <1>2, <2>1, <3>1
    <3>2. CASE q # p /\ tree[q] = Pinned[q]
      BY <2>1, <3>2, <1>2 DEF RollbackInv, TreePaths
    <3>3. CASE q # p /\ tree[q] # Pinned[q]
      <4>1. PICK i \in 1..Len(unrestored) : unrestored[i] = q
        BY <2>2, <3>3 DEF Covered
      <4> QED
        BY <1>1, <2>1, <3>3, <4>1
    <3> QED
      BY <3>1, <3>2, <3>3
  <2> QED
    BY <1>1, <1>2, <2>1, <2>3 DEF RollbackInv
<1> QED
  BY <1>3, <1>4

LEMMA RollbackKeeps == RollbackInv /\ [RollbackNext]_rollbackVars => RollbackInv'
<1> SUFFICES ASSUME RollbackInv, [RollbackNext]_rollbackVars PROVE RollbackInv'
  OBVIOUS
<1>1. ASSUME NEW p \in TreePaths, NEW content, CandidateWrites(p, content) PROVE RollbackInv'
  BY <1>1 DEF CandidateWrites, RollbackInv
<1>2. ASSUME RegistryChanges PROVE RollbackInv'
  BY <1>2 DEF RegistryChanges, RollbackInv, Covered, Changed, Suite
<1>3. ASSUME StartRestore PROVE RollbackInv'
  BY <1>3, OrderIsWhole, RollbackAssumption DEF StartRestore, RollbackInv, FromTheStart, Covered
<1>4. ASSUME RestoreModule PROVE RollbackInv'
  BY <1>4, RestoreKeeps
<1>5. ASSUME EndRestore PROVE RollbackInv'
  BY <1>5 DEF EndRestore, RollbackInv, Covered, Changed
<1>6. ASSUME StopRollback PROVE RollbackInv'
  <2>1. unrestored # <<>> => Head(unrestored) \in Paths
    BY DEF RollbackInv
  <2> QED
    BY <1>6, <2>1, RollbackAssumption DEF StopRollback, RollbackInv, TreePaths
<1>7. ASSUME NEW run \in Reruns(tree), RerunConformance(run) PROVE RollbackInv'
  <2>1. rollback' = "discharged" => Suite(tree).failed = 0
    BY <1>7, GreenMeansNoFailure DEF RerunConformance, RollbackInv
  <2> QED
    BY <1>7, <2>1 DEF RerunConformance, RollbackInv, Changed, Suite
<1>8. ASSUME UNCHANGED rollbackVars PROVE RollbackInv'
  BY <1>8 DEF rollbackVars, RollbackInv, Covered, Changed, Suite
<1> QED
  BY <1>1, <1>2, <1>3, <1>4, <1>5, <1>6, <1>7, <1>8 DEF RollbackNext

(* "a restore that cannot prove what it wrote does not discharge a         *)
(* rollback" (scaffold_compensation.py), for every file map and however    *)
(* often reads fail, writes stop and the rollback is tried again.          *)
THEOREM RollbackCorrect == RollbackSpec => []DischargedIsRestored
<1>1. RollbackInv => DischargedIsRestored
  BY DEF RollbackInv, DischargedIsRestored
<1> QED
  BY <1>1, RollbackStarts, RollbackKeeps, PTL DEF RollbackSpec

-----------------------------------------------------------------------------
(* Convergence: the fleet once more, with the ninety-ninth percentile of   *)
(* its latencies.                                                          *)

Within99(k) == {w \in Workers : Latency[w] <= k}

LEMMA WithinFinite ==
  ASSUME NEW k
  PROVE  IsFiniteSet(Within99(k)) /\ Cardinality(Within99(k)) \in Nat
<1>1. Within99(k) \subseteq Workers
  BY DEF Within99
<1> QED
  BY <1>1, FleetAssumption, FS_Subset, FS_CardinalityType

(* The rank is one of the fleet's. *)
LEMMA RankInside == Rank99 \in Nat /\ 1 <= Rank99 /\ Rank99 <= Cardinality(Workers)
<1> DEFINE n == Cardinality(Workers)
<1>1. n \in Nat /\ n # 0
  BY FleetAssumption, FS_CardinalityType, FS_EmptySet
<1>2. Rank99 = (99 * n + 99) \div 100
  BY DEF Rank99
<1> HIDE DEF n
<1>3. 99 * n + 99 \in Nat /\ 100 <= 99 * n + 99 /\ 99 * n + 99 < 100 * (n + 1)
  BY <1>1
<1>4. ((99 * n + 99) \div 100) \in Nat /\ 1 <= (99 * n + 99) \div 100 /\ (99 * n + 99) \div 100 < n + 1
  BY <1>1, <1>3
<1> QED
  BY <1>1, <1>2, <1>4 DEF n

(* Every latency is below some number of seconds. *)
LEMMA LatencyBounded == \E k \in Nat : \A w \in Workers : Latency[w] <= k
<1> DEFINE F == {U \in SUBSET Workers : \E k \in Nat : \A w \in U : Latency[w] <= k}
<1>1. {} \in F
  OBVIOUS
<1>2. ASSUME NEW U \in SUBSET Workers, NEW x \in Workers, U \in F PROVE U \cup {x} \in F
  <2>1. PICK k \in Nat : \A w \in U : Latency[w] <= k
    BY <1>2
  <2>2. Latency[x] \in Nat /\ \A w \in Workers : Latency[w] \in Nat
    BY FleetAssumption
  <2>3. k + Latency[x] \in Nat /\ k <= k + Latency[x] /\ Latency[x] <= k + Latency[x]
    BY <2>2
  <2>4. \A w \in U \cup {x} : Latency[w] <= k + Latency[x]
    BY <2>1, <2>2, <2>3
  <2> QED
    BY <2>3, <2>4
<1>3. Workers \in F
  <2> HIDE DEF F
  <2> QED
    BY <1>1, <1>2, FleetAssumption, SubsetInduction
<1> QED
  BY <1>3

(* There is a p99, and that share of the workers is no slower. *)
LEMMA P99Exists == P99 \in Nat /\ Cardinality(Within99(P99)) >= Rank99
<1> DEFINE Enough == {k \in Nat : Cardinality(Within99(k)) >= Rank99}
<1>1. PICK m \in Nat : \A w \in Workers : Latency[w] <= m
  BY LatencyBounded
<1>2. m \in Enough
  <2>1. Within99(m) = Workers
    BY <1>1 DEF Within99
  <2> QED
    BY <2>1, RankInside, FleetAssumption, FS_CardinalityType
<1>3. PICK k \in Enough : \A j \in Enough : k <= j
  <2>1. Enough \in SUBSET Nat /\ Enough # {}
    BY <1>2
  <2> HIDE DEF Enough
  <2> QED
    BY <2>1, LeastNat
<1>4. \A w \in Workers : Latency[w] \in Nat
  BY FleetAssumption
<1>5. Cardinality({w \in Workers : Latency[w] < k}) < Rank99
  <2>1. CASE k = 0
    <3>1. {w \in Workers : Latency[w] < k} = {}
      BY <1>4, <2>1
    <3> QED
      BY <3>1, FS_EmptySet, RankInside
  <2>2. CASE k # 0
    <3>1. k - 1 \in Nat /\ k - 1 < k
      BY <2>2
    <3>2. {w \in Workers : Latency[w] < k} = Within99(k - 1)
      BY <1>4, <3>1 DEF Within99
    <3>3. k - 1 \notin Enough
      BY <1>3, <3>1
    <3>4. ~(Cardinality(Within99(k - 1)) >= Rank99)
      BY <3>1, <3>3
    <3>5. Cardinality(Within99(k - 1)) \in Nat
      BY WithinFinite
    <3> QED
      BY <3>2, <3>4, <3>5, RankInside
  <2> QED
    BY <2>1, <2>2
<1>6. k \in {Latency[w] : w \in Workers}
  <2> SUFFICES ASSUME \A w \in Workers : Latency[w] # k PROVE FALSE
    OBVIOUS
  <2>1. Within99(k) = {w \in Workers : Latency[w] < k}
    BY <1>4 DEF Within99
  <2>2. Cardinality(Within99(k)) \in Nat
    BY WithinFinite
  <2> QED
    BY <1>3, <1>5, <2>1, <2>2, RankInside
<1>7. Cardinality({w \in Workers : Latency[w] <= k}) >= Rank99
  BY <1>3 DEF Within99
<1>8. /\ P99 \in {Latency[w] : w \in Workers}
      /\ Cardinality({w \in Workers : Latency[w] <= P99}) >= Rank99
  BY <1>5, <1>6, <1>7 DEF P99
<1> QED
  BY <1>4, <1>8 DEF Within99

ConvergeInv ==
  /\ seconds \in Nat /\ (invalidatedAt \in Nat \/ invalidatedAt = -1)
  /\ DOMAIN resolvesAt = Workers /\ DOMAIN cached = Workers
  /\ \A w \in Workers :
       /\ resolvesAt[w] # -1 => cached[w] = Uncached /\ resolvesAt[w] = invalidatedAt + Latency[w] /\ invalidatedAt # -1
       /\ resolvesAt[w] = -1 /\ invalidatedAt # -1 => cached[w] # Uncached /\ seconds >= invalidatedAt + Latency[w]
  /\ invalidatedAt # -1 => current # Uncached

LEMMA ConvergeKept ==
  ASSUME ConvergeInv, [FleetNext]_fleetVars
  PROVE  ConvergeInv'
<1>0. \A w \in Workers : Latency[w] \in Nat
  BY FleetAssumption
<1>9. Uncached \notin Digests
  BY FleetAssumption DEF Uncached
<1>1. CASE SetActive
  <2>1. UNCHANGED <<seconds, cached, resolvesAt, invalidatedAt>> /\ current' # Uncached
    BY <1>1, <1>9 DEF SetActive
  <2> QED
    BY <2>1 DEF ConvergeInv
<1>2. CASE Invalidate
  <2>1. /\ current' # Uncached /\ invalidatedAt' = seconds /\ seconds' = seconds
        /\ cached' = [w \in Workers |-> Uncached] /\ resolvesAt' = [w \in Workers |-> seconds + Latency[w]]
    BY <1>2, <1>9 DEF Invalidate
  <2>2. seconds \in Nat /\ seconds # -1 /\ \A w \in Workers : seconds + Latency[w] # -1
    BY <1>0 DEF ConvergeInv
  <2> QED
    BY <2>1, <2>2 DEF ConvergeInv
<1>3. CASE Pass
  <2>1. UNCHANGED <<cached, resolvesAt, current, invalidatedAt>> /\ seconds' = seconds + 1
    BY <1>3 DEF Pass
  <2>2. \A w \in Workers : invalidatedAt # -1 /\ seconds >= invalidatedAt + Latency[w] =>
                             seconds + 1 >= invalidatedAt + Latency[w]
    BY <1>0 DEF ConvergeInv
  <2>3. seconds + 1 \in Nat
    BY DEF ConvergeInv
  <2> HIDE DEF ConvergeInv
  <2> QED
    BY <2>1, <2>2, <2>3 DEF ConvergeInv
<1>4. CASE ResolvePending
  <2>1. /\ UNCHANGED <<seconds, current, invalidatedAt>>
        /\ cached' = [w \in Workers |-> IF Elapsed(w) THEN current ELSE cached[w]]
        /\ resolvesAt' = [w \in Workers |-> IF Elapsed(w) THEN -1 ELSE resolvesAt[w]]
    BY <1>4 DEF ResolvePending
  <2>2. ASSUME NEW w \in Workers
        PROVE  /\ resolvesAt'[w] # -1 =>
                    cached'[w] = Uncached /\ resolvesAt'[w] = invalidatedAt + Latency[w] /\ invalidatedAt # -1
               /\ resolvesAt'[w] = -1 /\ invalidatedAt # -1 =>
                    cached'[w] # Uncached /\ seconds >= invalidatedAt + Latency[w]
    <3>1. CASE Elapsed(w)
      <4>1. resolvesAt[w] # -1 /\ resolvesAt[w] <= seconds /\ cached'[w] = current /\ resolvesAt'[w] = -1
        BY <2>1, <3>1 DEF Elapsed
      <4>2. resolvesAt[w] = invalidatedAt + Latency[w] /\ invalidatedAt # -1 /\ current # Uncached
        BY <4>1 DEF ConvergeInv
      <4>3. invalidatedAt \in Nat /\ seconds \in Nat /\ Latency[w] \in Nat
        BY <1>0, <4>2 DEF ConvergeInv
      <4> QED
        BY <4>1, <4>2, <4>3
    <3>2. CASE ~Elapsed(w)
      BY <2>1, <3>2 DEF ConvergeInv
    <3> QED
      BY <3>1, <3>2
  <2> QED
    BY <2>1, <2>2 DEF ConvergeInv
<1>5. CASE PinSession \/ NewWrapper \/ ReportDigest \/ WriteState
  <2>1. UNCHANGED <<seconds, cached, resolvesAt, current, invalidatedAt>>
    BY <1>5 DEF PinSession, NewWrapper, ReportDigest, WriteState
  <2> QED
    BY <2>1 DEF ConvergeInv
<1>6. CASE UNCHANGED fleetVars
  BY <1>6 DEF fleetVars, ConvergeInv
<1> QED
  BY <1>1, <1>2, <1>3, <1>4, <1>5, <1>6 DEF FleetNext

LEMMA WorkersHear ==
  ASSUME ConvergeInv
  PROVE  EveryWorkerHears
<1>0. \A w \in Workers : Latency[w] \in Nat
  BY FleetAssumption
<1>1. ASSUME NEW w \in Workers
      PROVE  IF resolvesAt[w] # -1 THEN cached[w] = Uncached /\ resolvesAt[w] = invalidatedAt + Latency[w]
                             ELSE invalidatedAt # -1 => w \in ServingAgain /\ seconds >= invalidatedAt + Latency[w]
  BY DEF ConvergeInv, ServingAgain
<1>2. ASSUME invalidatedAt # -1, seconds >= invalidatedAt + P99, {w \in Workers : Elapsed(w)} = {}
      PROVE  Cardinality(ServingAgain) >= Rank99
  <2>1. P99 \in Nat /\ Cardinality(Within99(P99)) >= Rank99
    BY P99Exists
  <2>2. invalidatedAt \in Nat /\ seconds \in Nat
    BY <1>2 DEF ConvergeInv
  <2>3. ASSUME NEW w \in Within99(P99) PROVE w \in ServingAgain
    <3>1. w \in Workers /\ Latency[w] <= P99 /\ Latency[w] \in Nat
      BY <1>0 DEF Within99
    <3>2. resolvesAt[w] = -1
      <4> SUFFICES ASSUME resolvesAt[w] # -1 PROVE FALSE
        OBVIOUS
      <4>1. resolvesAt[w] = invalidatedAt + Latency[w]
        BY <3>1 DEF ConvergeInv
      <4>2. resolvesAt[w] <= seconds
        BY <1>2, <2>1, <2>2, <3>1, <4>1
      <4> QED
        BY <1>2, <3>1, <4>2 DEF Elapsed
    <3> QED
      BY <1>2, <3>1, <3>2 DEF ConvergeInv, ServingAgain
  <2>4. ServingAgain \subseteq Workers /\ IsFiniteSet(ServingAgain)
    BY FleetAssumption, FS_Subset DEF ServingAgain
  <2>5. Cardinality(Within99(P99)) <= Cardinality(ServingAgain)
    BY <2>3, <2>4, FS_Subset
  <2>6. Cardinality(Within99(P99)) \in Nat /\ Cardinality(ServingAgain) \in Nat
    BY <2>4, WithinFinite, FS_CardinalityType
  <2> QED
    BY <2>1, <2>5, <2>6, RankInside
<1>3. Converged \subseteq ServingAgain \/ current = Uncached
  BY DEF Converged, ServingAgain
<1> QED
  BY <1>1, <1>2, <1>3 DEF EveryWorkerHears

LEMMA ReportersPinned ==
  ASSUME \A r \in digestReports : r.session \in PinnedSessions /\ pinnedTo[r.session].digest = r.digest
  PROVE  ReportsStayTrue
<1> SUFFICES ASSUME NEW expected \in SUBSET Sessions,
                    CoverageOf(expected).reported = CoverageOf(expected).of
             PROVE  expected \subseteq PinnedSessions
  BY DEF ReportsStayTrue
<1> DEFINE Heard == {r.session : r \in digestReports} \cap expected
<1>1. Cardinality(Heard) = Cardinality(expected)
  BY DEF CoverageOf
<1>2. IsFiniteSet(expected) /\ Heard \subseteq expected
  BY FleetAssumption, FS_Subset
<1>3. Heard = expected
  <2> HIDE DEF Heard
  <2> QED
    BY <1>1, <1>2, FS_Subset
<1> QED
  BY <1>3

(* Every invalidation is heard, whenever it comes and however long the     *)
(* workers take; reports and memory stay true meanwhile (release/fleet.py, *)
(* api/canary.py).                                                         *)
THEOREM FleetHonest == FleetSpec => []FleetIsHonest
<1>1. FleetInit => ConvergeInv
  BY FleetAssumption DEF FleetInit, ConvergeInv
<1>2. ConvergeInv /\ [FleetNext]_fleetVars => ConvergeInv'
  BY ConvergeKept
<1>3. ConvergeInv => EveryWorkerHears
  BY WorkersHear
<1>4. (\A r \in digestReports : r.session \in PinnedSessions /\ pinnedTo[r.session].digest = r.digest)
        => ReportsStayTrue
  BY ReportersPinned
<1>5. FleetSpec => []EveryWorkerHears
  BY <1>1, <1>2, <1>3, PTL DEF FleetSpec
<1>6. EveryWorkerHears /\ ReportsStayTrue /\ MemoryStaysApart => FleetIsHonest
  BY DEF FleetIsHonest
<1> QED
  BY <1>4, <1>5, <1>6, FleetCorrect, PTL

=============================================================================
