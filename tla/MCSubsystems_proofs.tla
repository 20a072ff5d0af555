---------------------------- MODULE MCSubsystems_proofs ----------------------------
(***************************************************************************)
(* Proofs about the union that MCSubsystems checks: what each of its       *)
(* services keeps by itself it keeps in the union, because a service out   *)
(* of focus is at rest; with it, for every value of the constants, that    *)
(* rollbacks are earned, what is signed is meant, lineage is sound,        *)
(* releases rest on what ran, what is read back is what was written, what  *)
(* is reported is what the evidence says and what an experiment says of    *)
(* its arms is what its runs say.                                          *)
(* First the services that Services_proofs and Records_proofs leave:       *)
(* compensation plans, campaign specs, the traces of the attested runs,    *)
(* ancestry, the evaluation harness, promotion, the supply of plugins and  *)
(* the gates of candidates.                                                *)
(***************************************************************************)
EXTENDS Services_proofs, MCSubsystems

-----------------------------------------------------------------------------
(* Compensation plans *)
PlansSpec == PlansInit /\ [][PlansNext]_planVars

LEMMA PlanFields ==
  ASSUME NEW id, NEW actions
  PROVE  /\ SignedPlan(id, actions).body = PlanBody(id, actions)
         /\ SignedPlan(id, actions).signature = PlanBody(id, actions)
         /\ SignedPlan(id, actions).digest = PlanBody(id, actions)
         /\ PlanBody(id, actions).id = id
         /\ PlanBody(id, actions).actions = actions
<1>1. PlanBody(id, actions).id = id /\ PlanBody(id, actions).actions = actions
  BY DEF PlanBody
<1> DEFINE b == PlanBody(id, actions)
<1>2. SignedPlan(id, actions) = [body |-> b, digest |-> b, signature |-> b]
  BY DEF SignedPlan
<1> HIDE DEF b
<1>3. SignedPlan(id, actions).body = b /\ SignedPlan(id, actions).signature = b /\ SignedPlan(id, actions).digest = b
  BY <1>2
<1> QED
  BY <1>1, <1>3 DEF b

(* What is executed and what is a compare-and-swap is told by the action's *)
(* name, as far as this runtime knows it.                                  *)
Classified(body) ==
  \A i \in DOMAIN body.actions : body.actions[i].mode = ClassificationFor(body.actions[i].action)

LEMMA BuiltIsClassified ==
  ASSUME NEW section, NEW resolved, NEW id
  PROVE  Classified(PlanBody(id, ActionsFromSpec(section, resolved)))
<1> DEFINE actions == ActionsFromSpec(section, resolved)
<1>1. ASSUME NEW i \in DOMAIN actions PROVE actions[i].mode = ClassificationFor(actions[i].action)
  <2> DEFINE a == resolved[section[i].artifactType]
             n == section[i].action
             c == ClassificationFor(n)
  <2>1. actions[i] = [artifact |-> a, action |-> n, mode |-> c, executed |-> FALSE]
    BY <1>1 DEF ActionsFromSpec
  <2> HIDE DEF a, n, c
  <2>2. actions[i].mode = c /\ actions[i].action = n
    BY <2>1
  <2> QED
    BY <2>2 DEF c
<1> HIDE DEF actions
<1> QED
  BY <1>1, PlanFields DEF Classified, actions

PlanRowSet == {SignedPlan(n, draft) : n \in Nat, draft \in PlanDrafts}

PlansInv ==
  /\ GateOpensOnEvidence
  /\ evidenceLog \subseteq ranActions
  /\ \A body \in signedBodies : Classified(body)
  /\ gatePlan # NoPlan => gatePlan.signature \in signedBodies
  /\ \A address \in DOMAIN planStore : address.signature \in signedBodies
  /\ planRows \in Seq(PlanRowSet)
  /\ \A k \in 1..Len(planRows) : PlanVerified(planRows[k]) /\ planRows[k].body.id = k

LEMMA PlansStart == PlansInit => PlansInv
  BY DEF PlansInit, PlansInv, GateOpensOnEvidence

LEMMA SignKeeps ==
  ASSUME PlansInv, SignPlan
  PROVE  PlansInv'
<1>1. PICK section \in PlanSections, resolved \in ArtifactSets, id \in PlanIds :
        LET actions == ActionsFromSpec(section, resolved) IN
        gatePlan' = SignedPlan(id, actions) /\ signedBodies' = signedBodies \cup {gatePlan'.body}
  BY DEF SignPlan
<1> DEFINE body == PlanBody(id, ActionsFromSpec(section, resolved))
<1>2. Classified(body)
  BY BuiltIsClassified
<1>3. signedBodies' = signedBodies \cup {body} /\ gatePlan'.signature = body
  BY <1>1, PlanFields
<1> HIDE DEF body
<1> QED
  BY <1>2, <1>3 DEF SignPlan, PlansInv, GateOpensOnEvidence

LEMMA MarkKeeps ==
  ASSUME PlansInv, MarkInPlace
  PROVE  PlansInv'
<1>1. PICK i : gatePlan' = [gatePlan EXCEPT !.body.actions[i].executed = TRUE]
  BY DEF MarkInPlace
<1>2. gatePlan'.signature = gatePlan.signature
  BY <1>1
<1> QED
  BY <1>2 DEF MarkInPlace, PlansInv, GateOpensOnEvidence

LEMMA SaveKeeps ==
  ASSUME PlansInv, SavePlan
  PROVE  PlansInv'
<1>1. DOMAIN planStore' = DOMAIN planStore \cup {gatePlan}
  BY DEF SavePlan
<1> QED
  BY <1>1 DEF SavePlan, PlansInv, GateOpensOnEvidence

LEMMA WalkKeeps ==
  ASSUME PlansInv, WalkPlan
  PROVE  PlansInv'
<1>1. PICK failsAt \in {0} \cup Needed(gatePlan) :
        /\ ranActions' = ranActions \cup
             {ExecutionRecord(gatePlan, i) : i \in {j \in Needed(gatePlan) : failsAt = 0 \/ j < failsAt}}
        /\ evidenceLog' = evidenceLog \cup KeptOf(gatePlan, failsAt)
  BY DEF WalkPlan
<1>2. KeptOf(gatePlan, failsAt) \subseteq ranActions'
  BY <1>1 DEF KeptOf, RecordsOf
<1>3. evidenceLog' \subseteq ranActions' /\ ranActions \subseteq ranActions'
  BY <1>1, <1>2 DEF PlansInv
<1> QED
  BY <1>3 DEF WalkPlan, PlansInv, GateOpensOnEvidence

LEMMA ApproveKeeps ==
  ASSUME PlansInv, ApproveCanary
  PROVE  PlansInv'
<1> DEFINE body == gatePlan.body
<1>1. body \in signedBodies /\ Classified(body)
  BY DEF ApproveCanary, PlanVerified, PlansInv
<1>2. ASSUME NEW i \in DOMAIN body.actions, body.actions[i].action \notin CasKinds
      PROVE  [plan |-> body.id, index |-> i] \in ranActions
  <2>1. i \in Needed(gatePlan)
    BY <1>1, <1>2 DEF Classified, ClassificationFor, Needed
  <2> QED
    BY <2>1 DEF ApproveCanary, Evidenced, ExecutionRecord, PlansInv
<1> QED
  BY <1>1, <1>2 DEF ApproveCanary, PlansInv, GateOpensOnEvidence

LEMMA RowKeeps ==
  ASSUME PlansInv, RecordPlanRow
  PROVE  PlansInv'
<1>1. PICK draft \in PlanDrafts : planRows' = Append(planRows, SignedPlan(Len(planRows) + 1, draft))
  BY DEF RecordPlanRow
<1> DEFINE n == Len(planRows) + 1
           row == SignedPlan(n, draft)
<1>2. n \in Nat
  BY DEF PlansInv
<1>3. row \in PlanRowSet /\ PlanVerified(row) /\ row.body.id = n
  BY <1>2, PlanFields DEF PlanRowSet, PlanVerified
<1> HIDE DEF row
<1>4. /\ planRows' \in Seq(PlanRowSet) /\ Len(planRows') = n
      /\ \A k \in 1..n : planRows'[k] = IF k = n THEN row ELSE planRows[k]
  BY <1>1, <1>3 DEF PlansInv, row
<1>5. \A k \in 1..Len(planRows') : PlanVerified(planRows'[k]) /\ planRows'[k].body.id = k
  BY <1>2, <1>3, <1>4 DEF PlansInv
<1> QED
  BY <1>4, <1>5 DEF RecordPlanRow, PlansInv, GateOpensOnEvidence

LEMMA PlansKeep == PlansInv /\ [PlansNext]_planVars => PlansInv'
<1> SUFFICES ASSUME PlansInv, [PlansNext]_planVars PROVE PlansInv'
  OBVIOUS
<1>1. CASE DamagePlan
  <2>1. DOMAIN planStore' = DOMAIN planStore
    BY <1>1 DEF DamagePlan
  <2> QED
    BY <1>1, <2>1 DEF DamagePlan, PlansInv, GateOpensOnEvidence
<1>2. CASE LoadPlan
  BY <1>2 DEF LoadPlan, LoadsPlan, PlansInv, GateOpensOnEvidence
<1>3. CASE UNCHANGED planVars
  BY <1>3 DEF planVars, PlansInv, GateOpensOnEvidence
<1> QED
  BY <1>1, <1>2, <1>3, SignKeeps, MarkKeeps, SaveKeeps, WalkKeeps, ApproveKeeps, RowKeeps DEF PlansNext

(* "fail closed: no evidence, no canary" *)
THEOREM PlansCorrect == PlansSpec => []PlansAreEvidenced
<1>1. PlansInv => PlansAreEvidenced
  <2> SUFFICES ASSUME PlansInv PROVE RowsAreWhole
    BY DEF PlansInv, PlansAreEvidenced
  <2>1. DOMAIN planRows = 1..Len(planRows)
    BY DEF PlansInv
  <2> QED
    BY <2>1 DEF RowsAreWhole, PlanRowOf, PlansInv
<1> QED
  BY <1>1, PlansStart, PlansKeep, PTL DEF PlansSpec

-----------------------------------------------------------------------------
(* Campaign specs *)
SpecSpec == SpecInit /\ [][SpecNext]_specVars

(* What parsing makes of arms and evaluators, and what is written of arms. *)
ReadArm(a) == [a EXCEPT !.component = Given(@), !.editor = Given(@), !.attempts = Or(@, 1)]
WrittenArm(a) == [a EXCEPT !.component = Key(@, "absent"), !.editor = Key(@, "absent")]
ReadStage(e) == [e EXCEPT !.stage = Or(@, 0)]
ReadArms(arms) == [i \in DOMAIN arms |-> ReadArm(arms[i])]
WrittenArms(arms) == [i \in DOMAIN arms |-> WrittenArm(arms[i])]
ReadStages(list) == [i \in DOMAIN list |-> ReadStage(list[i])]

LEMMA RecordOfSpec ==
  ASSUME NEW v0, NEW v1, NEW v2, NEW v3, NEW v4, NEW v5, NEW v6, NEW v7, NEW v8, NEW v9, NEW v10, NEW v11
  PROVE  LET s == [incumbent |-> v0, artifacts |-> v1, environment |-> v2, tier4 |-> v3, classes |-> v4,
                  holdout |-> v5, arms |-> v6, family |-> v7, sample |-> v8, plan |-> v9, evaluators |-> v10,
                  sandbox |-> v11] IN
         s.incumbent = v0 /\ s.artifacts = v1 /\ s.environment = v2 /\ s.tier4 = v3 /\ s.classes = v4 /\
         s.holdout = v5 /\ s.arms = v6 /\ s.family = v7 /\ s.sample = v8 /\ s.plan = v9 /\ s.evaluators = v10
         /\ s.sandbox = v11
  OBVIOUS

LEMMA RecordOfDocument ==
  ASSUME NEW w0, NEW w1, NEW w2, NEW v0, NEW v1, NEW v2, NEW v3, NEW v4, NEW v5, NEW v6, NEW v7, NEW v8,
         NEW v9, NEW v10, NEW v11
  PROVE  LET s == [version |-> w0, field |-> w1, shaped |-> w2, incumbent |-> v0, artifacts |-> v1,
                  environment |-> v2, tier4 |-> v3, classes |-> v4, holdout |-> v5, arms |-> v6, family |->
                  v7, sample |-> v8, plan |-> v9, evaluators |-> v10, sandbox |-> v11] IN
         s.version = w0 /\ s.field = w1 /\ s.shaped = w2 /\ s.incumbent = v0 /\ s.artifacts = v1 /\
         s.environment = v2 /\ s.tier4 = v3 /\ s.classes = v4 /\ s.holdout = v5 /\ s.arms = v6 /\ s.family =
         v7 /\ s.sample = v8 /\ s.plan = v9 /\ s.evaluators = v10 /\ s.sandbox = v11
  OBVIOUS

LEMMA FieldsOfParsed ==
  ASSUME NEW d
  PROVE  /\ Parsed(d).incumbent = d.incumbent
         /\ Parsed(d).artifacts = d.artifacts
         /\ Parsed(d).environment = Optional(d.environment)
         /\ Parsed(d).tier4 = Optional(d.tier4)
         /\ Parsed(d).classes = d.classes
         /\ Parsed(d).holdout = d.holdout
         /\ Parsed(d).arms = ReadArms(d.arms)
         /\ Parsed(d).family = d.family
         /\ Parsed(d).sample = Optional(d.sample)
         /\ Parsed(d).plan = d.plan
         /\ Parsed(d).evaluators = ReadStages(d.evaluators)
         /\ Parsed(d).sandbox = Or(d.sandbox, DefaultSandboxExecutions)
<1>1. Parsed(d) = [incumbent |-> d.incumbent, artifacts |-> d.artifacts, environment |->
                  Optional(d.environment), tier4 |-> Optional(d.tier4), classes |-> d.classes, holdout |->
                  d.holdout, arms |-> ReadArms(d.arms), family |-> d.family, sample |-> Optional(d.sample),
                  plan |-> d.plan, evaluators |-> ReadStages(d.evaluators), sandbox |-> Or(d.sandbox,
                  DefaultSandboxExecutions)]
  BY DEF Parsed, ReadArms, ReadStages, ReadArm, ReadStage
<1> QED
  BY <1>1, RecordOfSpec

LEMMA FieldsOfCanonical ==
  ASSUME NEW s
  PROVE  /\ Canonical(s).version = 3
         /\ Canonical(s).field = "mutable_artifacts"
         /\ Canonical(s).shaped = TRUE
         /\ Canonical(s).incumbent = s.incumbent
         /\ Canonical(s).artifacts = s.artifacts
         /\ Canonical(s).environment = Key(s.environment, "null")
         /\ Canonical(s).tier4 = Key(s.tier4, "null")
         /\ Canonical(s).classes = s.classes
         /\ Canonical(s).holdout = s.holdout
         /\ Canonical(s).arms = WrittenArms(s.arms)
         /\ Canonical(s).family = s.family
         /\ Canonical(s).sample = Key(s.sample, "absent")
         /\ Canonical(s).plan = s.plan
         /\ Canonical(s).evaluators = s.evaluators
         /\ Canonical(s).sandbox = s.sandbox
<1>1. Canonical(s) = [version |-> 3, field |-> "mutable_artifacts", shaped |-> TRUE, incumbent |->
                     s.incumbent, artifacts |-> s.artifacts, environment |-> Key(s.environment, "null"), tier4
                     |-> Key(s.tier4, "null"), classes |-> s.classes, holdout |-> s.holdout, arms |->
                     WrittenArms(s.arms), family |-> s.family, sample |-> Key(s.sample, "absent"), plan |->
                     s.plan, evaluators |-> s.evaluators, sandbox |-> s.sandbox]
  BY DEF Canonical, WrittenArms, WrittenArm
<1> QED
  BY <1>1, RecordOfDocument

(* Documents that differ in nothing that is read parse to one spec. *)
LEMMA SameReading ==
  ASSUME NEW d, NEW e,
         d.incumbent = e.incumbent,
         d.artifacts = e.artifacts,
         Optional(d.environment) = Optional(e.environment),
         Optional(d.tier4) = Optional(e.tier4),
         d.classes = e.classes,
         d.holdout = e.holdout,
         ReadArms(d.arms) = ReadArms(e.arms),
         d.family = e.family,
         Optional(d.sample) = Optional(e.sample),
         d.plan = e.plan,
         ReadStages(d.evaluators) = ReadStages(e.evaluators),
         Or(d.sandbox, DefaultSandboxExecutions) = Or(e.sandbox, DefaultSandboxExecutions)
  PROVE  Parsed(d) = Parsed(e)
  BY DEF Parsed, ReadArms, ReadStages, ReadArm, ReadStage

LEMMA ArmRead ==
  ASSUME NEW a, DOMAIN a = ArmKeys
  PROVE  /\ DOMAIN ReadArm(a) = ArmKeys /\ ReadArm(a) = [f \in ArmKeys |-> ReadArm(a)[f]]
         /\ ReadArm(a).component = Given(a.component) /\ ReadArm(a).editor = Given(a.editor)
         /\ ReadArm(a).attempts = Or(a.attempts, 1) /\ ReadArm(a).id = a.id /\ ReadArm(a).kind = a.kind
  BY DEF ReadArm, ArmKeys

LEMMA ArmWritten ==
  ASSUME NEW a, DOMAIN a = ArmKeys
  PROVE  /\ DOMAIN WrittenArm(a) = ArmKeys
         /\ WrittenArm(a).component = Key(a.component, "absent") /\ WrittenArm(a).editor = Key(a.editor, "absent")
         /\ WrittenArm(a).attempts = a.attempts /\ WrittenArm(a).id = a.id /\ WrittenArm(a).kind = a.kind
  BY DEF WrittenArm, ArmKeys

LEMMA KeysRoundTrip ==
  /\ \A x : Given(Key(Given(x), "absent")) = Given(x)
  /\ \A x : x # "null" => Key(Given(x), "absent") # "null"
  /\ \A x : Optional(Key(Optional(x), "null")) = Optional(x) /\ Optional(Key(Optional(x), "absent")) = Optional(x)
  /\ \A x, y : y # -1 => Or(Or(x, y), y) = Or(x, y)
  BY DEF Given, Key, Optional, Or

LEMMA ArmRoundTrip ==
  ASSUME NEW a, DOMAIN a = ArmKeys
  PROVE  ReadArm(WrittenArm(ReadArm(a))) = ReadArm(a)
<1> DEFINE r == ReadArm(a)
           w == WrittenArm(r)
           b == ReadArm(w)
<1>1. DOMAIN r = ArmKeys /\ r = [f \in ArmKeys |-> r[f]]
  BY ArmRead
<1>2. DOMAIN w = ArmKeys
  BY <1>1, ArmWritten
<1>3. b = [f \in ArmKeys |-> b[f]]
  BY <1>2, ArmRead
<1>4. b.id = r.id /\ b.kind = r.kind
  BY <1>1, <1>2, ArmRead, ArmWritten
<1>5. b.component = r.component /\ b.editor = r.editor
  BY <1>1, <1>2, ArmRead, ArmWritten, KeysRoundTrip
<1>6. b.attempts = r.attempts
  BY <1>1, <1>2, ArmRead, ArmWritten, KeysRoundTrip
<1> HIDE DEF r, w, b
<1>7. \A f \in ArmKeys : b[f] = r[f]
  BY <1>4, <1>5, <1>6 DEF ArmKeys
<1>8. b = r
  BY <1>1, <1>3, <1>7
<1> QED
  BY <1>8 DEF b, w, r

LEMMA StageRoundTrip ==
  ASSUME NEW e, "stage" \in DOMAIN e
  PROVE  ReadStage(ReadStage(e)) = ReadStage(e)
<1> DEFINE r == ReadStage(e)
           b == ReadStage(r)
<1>1. \A x : "stage" \in DOMAIN x => /\ DOMAIN ReadStage(x) = DOMAIN x
                                    /\ ReadStage(x) = [f \in DOMAIN x |-> ReadStage(x)[f]]
                                    /\ ReadStage(x).stage = Or(x.stage, 0)
                                    /\ \A f \in DOMAIN x : f # "stage" => ReadStage(x)[f] = x[f]
  BY DEF ReadStage
<1>2. DOMAIN r = DOMAIN e /\ DOMAIN b = DOMAIN e /\ r = [f \in DOMAIN e |-> r[f]] /\ b = [f \in DOMAIN e |-> b[f]]
  BY <1>1
<1>3. b.stage = r.stage
  BY <1>1, <1>2, KeysRoundTrip
<1>4. \A f \in DOMAIN e : f # "stage" => b[f] = r[f]
  BY <1>1, <1>2
<1> HIDE DEF r, b
<1>5. b = r
  BY <1>2, <1>3, <1>4
<1> QED
  BY <1>5 DEF b, r

(* Reading what was written of a spec gives the spec. *)
LEMMA SpecRoundTrip ==
  ASSUME NEW d \in Documents
  PROVE  Parsed(Canonical(Parsed(d))) = Parsed(d)
<1> DEFINE s == Parsed(d)
           e == Canonical(s)
<1>1. /\ \A i \in DOMAIN d.arms : DOMAIN d.arms[i] = ArmKeys
      /\ \A i \in DOMAIN d.evaluators : "stage" \in DOMAIN d.evaluators[i]
  BY SpecAssumption
<1>2. ReadArms(e.arms) = s.arms
  <2>1. s.arms = ReadArms(d.arms) /\ e.arms = WrittenArms(s.arms)
    BY FieldsOfParsed, FieldsOfCanonical
  <2>2. \A i \in DOMAIN d.arms : ReadArm(WrittenArm(ReadArm(d.arms[i]))) = ReadArm(d.arms[i])
    BY <1>1, ArmRoundTrip
  <2> QED
    BY <2>1, <2>2 DEF ReadArms, WrittenArms
<1>3. ReadStages(e.evaluators) = s.evaluators
  <2>1. s.evaluators = ReadStages(d.evaluators) /\ e.evaluators = s.evaluators
    BY FieldsOfParsed, FieldsOfCanonical
  <2>2. \A i \in DOMAIN d.evaluators : ReadStage(ReadStage(d.evaluators[i])) = ReadStage(d.evaluators[i])
    BY <1>1, StageRoundTrip
  <2> QED
    BY <2>1, <2>2 DEF ReadStages
<1>4. /\ Optional(e.environment) = s.environment /\ Optional(e.tier4) = s.tier4 /\ Optional(e.sample) = s.sample
      /\ Or(e.sandbox, DefaultSandboxExecutions) = s.sandbox
  <2>1. e.environment = Key(s.environment, "null") /\ s.environment = Optional(d.environment)
    BY FieldsOfParsed, FieldsOfCanonical
  <2>2. e.tier4 = Key(s.tier4, "null") /\ s.tier4 = Optional(d.tier4)
    BY FieldsOfParsed, FieldsOfCanonical
  <2>3. e.sample = Key(s.sample, "absent") /\ s.sample = Optional(d.sample)
    BY FieldsOfParsed, FieldsOfCanonical
  <2>4. e.sandbox = s.sandbox /\ s.sandbox = Or(d.sandbox, DefaultSandboxExecutions)
    BY FieldsOfParsed, FieldsOfCanonical
  <2>5. DefaultSandboxExecutions # -1
    BY DEF DefaultSandboxExecutions
  <2> HIDE DEF s, e
  <2> QED
    BY <2>1, <2>2, <2>3, <2>4, <2>5, KeysRoundTrip
<1>5. /\ e.incumbent = s.incumbent /\ e.artifacts = s.artifacts /\ e.classes = s.classes /\ e.holdout = s.holdout
      /\ e.family = s.family /\ e.plan = s.plan
  BY FieldsOfCanonical
<1> QED
  BY <1>2, <1>3, <1>4, <1>5, FieldsOfParsed, SameReading

(* What binding asks of a spec, without what it asks of the deployment. *)
ProperSet(masked) ==
  /\ masked # <<>>
  /\ \A i \in DOMAIN masked :
       masked[i].type \in ArtifactTypes /\ masked[i].paths # {} /\ masked[i].paths \cap Improper = {}
  /\ Distinct(TypesOf(masked))
Unprotected(masked) == \A i \in DOMAIN masked : masked[i].paths \cap protectedPaths = {}
RestBound(s) ==
  /\ s.incumbent \in ArtifactTypes
  /\ \A i \in DOMAIN s.arms : ArmShaped(s.arms[i])
  /\ ClassesBound(s) /\ DatasetsBound(s)
  /\ StatisticsBound(s) /\ EvaluatorsBound(s) /\ BudgetsBound(s)
  /\ s.plan # <<>> => PlanShaped(s.plan)

LEMMA BoundApart ==
  ASSUME NEW s
  PROVE  Bound(s) <=> ProperSet(s.artifacts) /\ Unprotected(s.artifacts) /\ RestBound(s)
<1>1. MutableSet(s.artifacts) <=> ProperSet(s.artifacts) /\ Unprotected(s.artifacts)
  BY DEF MutableSet, ProperPaths, ProperSet, Unprotected
<1> QED
  BY <1>1 DEF Bound, RestBound

PinnedAs(c) ==
  /\ c.authored \in Documents /\ c.spec = Parsed(c.authored)
  /\ c.stored = Canonical(c.spec) /\ c.digest = Canonical(c.spec)
  /\ Typed(c.authored) /\ ProperSet(c.spec.artifacts) /\ RestBound(c.spec) /\ Valid(c.spec)
  /\ HasScaffold(c.spec) => c.inResearch
SpecInv ==
  /\ DOMAIN campaigns = 1..Len(campaigns) /\ Len(campaigns) \in Nat
  /\ \A c \in DOMAIN campaigns : PinnedAs(campaigns[c])

(* A document of an older version pins to the digest of the equivalent one *)
(* of version 3.                                                           *)
LEMMA UpgradeReadsTheSame ==
  ASSUME NEW d \in Documents
  PROVE  Parsed(Upgraded(d)) = Parsed(d)
<1>1. DOMAIN d = DocumentKeys
  BY SpecAssumption
<1> DEFINE u == Upgraded(d)
<1>2. /\ u.incumbent = d.incumbent /\ u.artifacts = d.artifacts /\ u.environment = d.environment
      /\ u.tier4 = d.tier4 /\ u.classes = d.classes /\ u.holdout = d.holdout /\ u.arms = d.arms
      /\ u.family = d.family /\ u.sample = d.sample /\ u.plan = d.plan /\ u.evaluators = d.evaluators
      /\ u.sandbox = d.sandbox
  BY <1>1 DEF Upgraded, DocumentKeys
<1> HIDE DEF u
<1>3. Parsed(u) = Parsed(d)
  BY <1>2, SameReading
<1> QED
  BY <1>3 DEF u

(* The stored form is one that loads, on whatever day. *)
LEMMA StoredLoads ==
  ASSUME NEW c, PinnedAs(c), Unprotected(c.spec.artifacts)
  PROVE  Verifies(c) /\ Parsed(c.stored) = c.spec
<1> DEFINE d == c.authored
           e == c.stored
<1>1. d \in Documents /\ e = Canonical(Parsed(d)) /\ c.spec = Parsed(d) /\ Typed(d)
  BY DEF PinnedAs
<1>2. Parsed(e) = c.spec
  BY <1>1, SpecRoundTrip
<1>3. Accepted(e) /\ Shaped(e)
  <2> DEFINE s == Parsed(d)
  <2>1. Canonical(s).version = 3 /\ Canonical(s).field = "mutable_artifacts" /\ Canonical(s).shaped = TRUE
    BY FieldsOfCanonical
  <2>2. e = Canonical(s)
    BY <1>1
  <2> HIDE DEF s, e
  <2>3. Accepted(e)
    BY <2>1, <2>2 DEF Accepted
  <2>4. Shaped(e)
    BY <2>1, <2>2, Zenon DEF Shaped
  <2> QED
    BY <2>3, <2>4
<1>4. ASSUME NEW i \in DOMAIN e.arms
      PROVE  e.arms[i].component # "null" /\ e.arms[i].editor # "null"
  <2>1. e.arms = WrittenArms(c.spec.arms) /\ c.spec.arms = ReadArms(d.arms)
    <3> DEFINE s == Parsed(d)
    <3>1. Canonical(s).arms = WrittenArms(s.arms) /\ s.arms = ReadArms(d.arms)
      BY FieldsOfParsed, FieldsOfCanonical
    <3>2. e = Canonical(s) /\ c.spec = s
      BY <1>1
    <3> HIDE DEF s, e, d
    <3> QED
      BY <3>1, <3>2
  <2>2. i \in DOMAIN d.arms /\ e.arms[i] = WrittenArm(ReadArm(d.arms[i]))
    BY <2>1 DEF WrittenArms, ReadArms
  <2>3. DOMAIN d.arms[i] = ArmKeys
    BY <1>1, <2>2, SpecAssumption
  <2>4. d.arms[i].component # "null" /\ d.arms[i].editor # "null"
    BY <1>1, <2>2 DEF Typed
  <2> DEFINE r == ReadArm(d.arms[i])
  <2>5. DOMAIN r = ArmKeys /\ r.component = Given(d.arms[i].component) /\ r.editor = Given(d.arms[i].editor)
    BY <2>3, ArmRead
  <2> HIDE DEF r
  <2>6. WrittenArm(r).component = Key(r.component, "absent") /\ WrittenArm(r).editor = Key(r.editor, "absent")
    BY <2>5, ArmWritten
  <2>7. WrittenArm(r).component # "null" /\ WrittenArm(r).editor # "null"
    BY <2>4, <2>5, <2>6, KeysRoundTrip
  <2> QED
    BY <2>2, <2>7 DEF r
<1>5. Typed(e)
  BY <1>3, <1>4 DEF Typed
<1>6. Bound(c.spec) /\ Valid(c.spec)
  BY BoundApart DEF PinnedAs
<1>7. Loads(e)
  BY <1>2, <1>3, <1>5, <1>6 DEF Loads, Binds
<1>8. Canonical(Parsed(e)) = c.digest
  BY <1>2 DEF PinnedAs
<1> QED
  BY <1>2, <1>7, <1>8 DEF Verifies, StillSigned

Declares(s, f) ==
  InMask(s, f) => \E i \in DOMAIN s.artifacts : /\ f.path \in s.artifacts[i].paths
                                                /\ Len(s.artifacts) > 1 => s.artifacts[i].type = f.type
PointsAgree(s, f, g) ==
  /\ Renders(s, f.type, {f.path, g.path}) => Accepts(s, {f, g})
  /\ Len(s.artifacts) > 1 /\ Accepts(s, {f, g}) => Renders(s, f.type, {f.path, g.path})

LEMMA MasksAgree ==
  ASSUME NEW c, PinnedAs(c), NEW f, NEW g, f.type = g.type
  PROVE  Declares(c.spec, f) /\ PointsAgree(c.spec, f, g)
<1> DEFINE masks == c.spec.artifacts
<1>1. /\ Len(masks) \in Nat /\ DOMAIN masks = 1..Len(masks) /\ masks # <<>>
      /\ ProperSet(masks)
  <2>1. masks = c.authored.artifacts /\ c.authored \in Documents
    BY FieldsOfParsed DEF PinnedAs
  <2> QED
    BY <2>1, SpecAssumption DEF PinnedAs, ProperSet
<1>2. /\ \A i \in DOMAIN masks : masks[i].type # "none"
      /\ \A i, j \in DOMAIN masks : masks[i].type = masks[j].type => i = j
  BY <1>1 DEF ProperSet, ArtifactTypes, Distinct, TypesOf
<1> HIDE DEF masks
<1>3. MaskFor(c.spec, f) = IF Len(masks) = 1 THEN {1} ELSE {i \in DOMAIN masks : masks[i].type = f.type}
  BY DEF MaskFor, masks
<1>4. MaskFor(c.spec, g) = MaskFor(c.spec, f)
  BY DEF MaskFor
<1>5. MaskFor(c.spec, f) \subseteq DOMAIN masks
  BY <1>1, <1>3
<1>6. ASSUME InMask(c.spec, f)
      PROVE  \E i \in DOMAIN masks : f.path \in masks[i].paths /\ (Len(masks) > 1 => masks[i].type = f.type)
  BY <1>1, <1>3, <1>5, <1>6 DEF InMask, masks
<1>7. ASSUME Renders(c.spec, f.type, {f.path, g.path})
      PROVE  InMask(c.spec, f) /\ InMask(c.spec, g)
  <2>1. PICK i \in MemberFor(c.spec, f.type) : {f.path, g.path} \subseteq masks[i].paths \ Improper
    BY <1>7 DEF Renders, masks
  <2>2. i \in DOMAIN masks /\ (i = 1 \/ masks[i].type = f.type) /\ (Len(masks) # 1 => masks[i].type = f.type)
    BY <1>1, <2>1 DEF MemberFor, masks
  <2>3. i \in MaskFor(c.spec, f)
    BY <1>1, <1>3, <2>2
  <2> QED
    BY <1>4, <2>1, <2>3 DEF InMask, masks
<1>8. ASSUME Len(masks) > 1, InMask(c.spec, f), InMask(c.spec, g)
      PROVE  Renders(c.spec, f.type, {f.path, g.path})
  <2>1. PICK i \in MaskFor(c.spec, f) : f.path \in masks[i].paths /\ f.path \notin Improper
    BY <1>8 DEF InMask, masks
  <2>2. PICK j \in MaskFor(c.spec, f) : g.path \in masks[j].paths /\ g.path \notin Improper
    BY <1>4, <1>8 DEF InMask, masks
  <2>3. /\ i \in DOMAIN masks /\ j \in DOMAIN masks /\ masks[i].type = f.type /\ masks[j].type = f.type
    BY <1>1, <1>3, <1>8, <2>1, <2>2
  <2>4. i = j /\ f.type # "none"
    BY <1>2, <2>3
  <2>5. i \in MemberFor(c.spec, f.type)
    BY <2>3, <2>4 DEF MemberFor, masks
  <2> QED
    BY <2>1, <2>2, <2>4, <2>5 DEF Renders, masks
<1> QED
  BY <1>6, <1>7, <1>8 DEF Declares, PointsAgree, Accepts, masks

LEMMA CreateKeeps ==
  ASSUME SpecInv, NEW d \in Documents, CreateCampaign(d)
  PROVE  SpecInv'
<1> DEFINE p == PinAndSign(d)
<1>1. campaigns' = Append(campaigns, p) /\ Loads(d) /\ RefusedBoundary(d) = "none"
  BY DEF CreateCampaign
<1>2. /\ p.authored = d /\ p.spec = Parsed(d) /\ p.stored = Canonical(Parsed(d))
      /\ p.digest = Canonical(Parsed(d)) /\ p.inResearch = research
  BY DEF PinAndSign
<1>3. Typed(d) /\ Bound(Parsed(d)) /\ Valid(Parsed(d))
  BY <1>1 DEF Loads, Binds
<1>4. HasScaffold(Parsed(d)) => research
  <2>1. ~EnvironmentRefused(Parsed(d))
    BY <1>3 DEF Valid
  <2> QED
    BY <1>1, <2>1 DEF RefusedBoundary
<1>5. PinnedAs(p)
  BY <1>2, <1>3, <1>4, BoundApart DEF PinnedAs
<1> HIDE DEF p
<1>6. /\ DOMAIN campaigns' = 1..Len(campaigns') /\ Len(campaigns') = Len(campaigns) + 1
      /\ \A c \in DOMAIN campaigns' : campaigns'[c] = IF c = Len(campaigns) + 1 THEN p ELSE campaigns[c]
  BY <1>1 DEF SpecInv
<1> QED
  BY <1>5, <1>6 DEF SpecInv

LEMMA SpecKeeps == SpecInv /\ [SpecNext]_specVars => SpecInv'
<1> SUFFICES ASSUME SpecInv, [SpecNext]_specVars PROVE SpecInv'
  OBVIOUS
<1>1. CASE \E d \in Documents : CreateCampaign(d)
  BY <1>1, CreateKeeps
<1>2. CASE UNCHANGED campaigns
  BY <1>2 DEF SpecInv
<1> QED
  BY <1>1, <1>2 DEF SpecNext, specVars, DayPasses, DeploySpecs, RefuseCampaign

LEMMA PinnedIsMeant ==
  ASSUME SpecInv
  PROVE  PinnedSpecsHold
<1> SUFFICES ASSUME NEW c \in DOMAIN campaigns, NEW row, row = campaigns[c]
             PROVE  /\ row.digest = Canonical(Parsed(Upgraded(row.authored)))
                    /\ Unprotected(row.spec.artifacts) => Verifies(row) /\ Parsed(row.stored) = row.spec
                    /\ HasScaffold(row.spec) => row.inResearch /\ row.spec.environment = "research"
                    /\ \A f \in FileEntries : Declares(row.spec, f)
                    /\ \A f, g \in FileEntries : f.type = g.type => PointsAgree(row.spec, f, g)
  BY DEF PinnedSpecsHold, Unprotected, Declares, PointsAgree
<1>1. PinnedAs(row)
  BY DEF SpecInv
<1>2. row.digest = Canonical(Parsed(Upgraded(row.authored)))
  BY <1>1, UpgradeReadsTheSame DEF PinnedAs
<1>3. HasScaffold(row.spec) => row.inResearch /\ row.spec.environment = "research"
  BY <1>1 DEF PinnedAs, Valid, EnvironmentRefused
<1>4. \A f, g : f.type = g.type => Declares(row.spec, f) /\ PointsAgree(row.spec, f, g)
  BY <1>1, MasksAgree
<1>5. Unprotected(row.spec.artifacts) => Verifies(row) /\ Parsed(row.stored) = row.spec
  BY <1>1, StoredLoads
<1> QED
  BY <1>2, <1>3, <1>4, <1>5

(* A pinned spec stays one, on whatever day and under whatever deployment: *)
(* for any documents, deny-lists and number of campaigns.                  *)
THEOREM SpecsCorrect == SpecSpec => []PinnedSpecsHold
<1>1. SpecInit => SpecInv
  BY DEF SpecInit, SpecInv
<1> QED
  BY <1>1, SpecKeeps, PinnedIsMeant, PTL DEF SpecSpec

-----------------------------------------------------------------------------
(* The traces of the attested runs *)
RunKeys == {"task", "at", "ok", "patch", "over", "found", "events"}

IsSeq(s) == \E S : s \in Seq(S)

(* The steps of a run that changed a file, and what its trace holds of each deed. *)
EditsOf(run) == {k \in 1..run.at : run.events[2 * k + 2].name = "edit" /\ run.events[2 * k + 2].ok = TRUE}
StepTraced(run, k) ==
  /\ run.events[2 * k + 1].type = "model" /\ run.events[2 * k + 2].type = "tool"
  /\ run.events[2 * k + 2].name = Plans[run.task][k].kind /\ run.events[2 * k + 2].ok \in BOOLEAN
ToldRun(run) ==
  /\ DOMAIN run = RunKeys /\ run.task \in DOMAIN Plans
  /\ run.at \in Nat /\ run.at <= Len(Plans[run.task]) /\ Len(run.events) \in Nat
  /\ run.over \in BOOLEAN /\ run.ok \in BOOLEAN
  /\ DOMAIN run.events = 1..Len(run.events) /\ IsSeq(run.events)
  /\ Len(run.events) = 2 * run.at + 2 + (IF run.over THEN IF run.patch = <<>> THEN 1 ELSE 2 ELSE 0)
  /\ run.events[1].type = "tool" /\ run.events[2].type = "tool"
  /\ run.events[2].name = "read_repo_state" /\ run.events[2].result = run.found
  /\ \A k \in 1..run.at : StepTraced(run, k)
  /\ run.ok = TRUE <=> \A k \in 1..run.at : run.events[2 * k + 2].ok = TRUE
  /\ run.patch = <<>> <=> EditsOf(run) = {}
  /\ \A k \in EditsOf(run) : (\A j \in EditsOf(run) : j <= k) => run.patch = <<run.events[2 * k + 2].result>>
  /\ run.over =>
       /\ run.events[Len(run.events)].type = "claim" /\ run.events[Len(run.events)].ok = run.ok
       /\ run.patch # <<>> => /\ run.events[Len(run.events) - 1].type = "tool"
                              /\ run.events[Len(run.events) - 1].name = "repo_patch"
                              /\ run.events[Len(run.events) - 1].result = run.patch[1]
TraceInv ==
  /\ DOMAIN agentRuns = 1..Len(agentRuns) /\ Len(agentRuns) \in Nat /\ IsSeq(agentRuns)
  /\ \A r \in DOMAIN agentRuns : ToldRun(agentRuns[r])

LEMMA EventFields ==
  ASSUME NEW type, NEW name, NEW result, NEW ok
  PROVE  /\ Event(type, name, result, ok).type = type /\ Event(type, name, result, ok).name = name
         /\ Event(type, name, result, ok).result = result /\ Event(type, name, result, ok).ok = ok
  BY DEF Event

LEMMA StepTells ==
  ASSUME NEW deed, NEW files, deed.kind \in {"read", "edit", "test", "shell"}
  PROVE  StepSucceeds(deed, files) \in BOOLEAN
<1>1. CASE deed.kind = "read"
  BY <1>1 DEF StepSucceeds
<1>2. CASE deed.kind = "edit"
  BY <1>2 DEF StepSucceeds
<1>3. CASE deed.kind = "test"
  BY <1>3 DEF StepSucceeds, TestsPass
<1>4. CASE deed.kind = "shell"
  BY <1>4 DEF StepSucceeds
<1> QED
  BY <1>1, <1>2, <1>3, <1>4

(* What the trace says of a run says what TraceTellsTheRun wants of it. *)
LEMMA ToldIsRight ==
  ASSUME TraceInv
  PROVE  TraceTellsTheRun
<1> SUFFICES ASSUME NEW r \in DOMAIN agentRuns
             PROVE  LET run == agentRuns[r]
                        plan == Plans[run.task]
                        calls == {n \in DOMAIN run.events : run.events[n].type = "model"}
                        edits == {n \in calls : run.events[n + 1].name = "edit" /\ run.events[n + 1].ok}
                    IN /\ calls = {2 * k + 1 : k \in 1..run.at}
                       /\ \A k \in 1..run.at : run.events[2 * k + 2].name = plan[k].kind
                       /\ run.events[2].result = run.found
                       /\ run.over =>
                            /\ run.events[Len(run.events)].ok <=> \A n \in calls : run.events[n + 1].ok
                            /\ (edits # {}) <=> (run.events[Len(run.events) - 1].name = "repo_patch")
                            /\ \A n \in edits : (\A k \in edits : k <= n) =>
                                 run.events[n + 1].result = run.events[Len(run.events) - 1].result
  BY DEF TraceTellsTheRun
<1> DEFINE run == agentRuns[r]
           plan == Plans[run.task]
           calls == {n \in DOMAIN run.events : run.events[n].type = "model"}
           edits == {n \in calls : run.events[n + 1].name = "edit" /\ run.events[n + 1].ok}
           last == Len(run.events)
<1>1. ToldRun(run)
  BY DEF TraceInv
<1> HIDE DEF run
<1>2. run.at \in Nat /\ last \in Nat
  BY <1>1 DEF ToldRun
<1>L. /\ DOMAIN run.events = 1..last
      /\ last = 2 * run.at + 2 + (IF run.over THEN IF run.patch = <<>> THEN 1 ELSE 2 ELSE 0)
  BY <1>1 DEF ToldRun
<1>T. /\ run.events[1].type # "model" /\ run.events[2].type # "model"
      /\ run.over => /\ run.events[last].type # "model"
                     /\ run.patch # <<>> => run.events[last - 1].type # "model"
  BY <1>1 DEF ToldRun
<1>3. calls = {2 * k + 1 : k \in 1..run.at}
  <2>1. ASSUME NEW k \in 1..run.at PROVE 2 * k + 1 \in calls
    <3>1. 2 * k + 1 \in 1..last
      BY <1>2, <1>L
    <3> QED
      BY <1>1, <1>L, <3>1 DEF ToldRun, StepTraced
  <2>2. ASSUME NEW n \in calls PROVE \E k \in 1..run.at : n = 2 * k + 1
    <3>1. n \in 1..last /\ run.events[n].type = "model"
      BY <1>1 DEF ToldRun
    <3>2. ASSUME n > 2 * run.at + 2 PROVE FALSE
      <4>1. run.over /\ (n = last \/ (n = last - 1 /\ run.patch # <<>>))
        BY <1>2, <1>L, <3>1, <3>2
      <4> QED
        BY <1>T, <3>1, <4>1
    <3>3. n # 1 /\ n # 2
      BY <1>1, <3>1 DEF ToldRun
    <3>4. PICK k \in 1..run.at : n = 2 * k + 1 \/ n = 2 * k + 2
      <4>1. n \in 3..(2 * run.at + 2)
        BY <1>2, <3>1, <3>2, <3>3
      <4>2. \A a \in Nat : \A m \in 3..(2 * a + 2) : \E k \in 1..a : m = 2 * k + 1 \/ m = 2 * k + 2
        <5> SUFFICES ASSUME NEW a \in Nat, NEW m \in 3..(2 * a + 2)
                     PROVE  \E k \in 1..a : m = 2 * k + 1 \/ m = 2 * k + 2
          OBVIOUS
        <5>1. (m - 1) \div 2 \in 1..a
          OBVIOUS
        <5>2. m = 2 * ((m - 1) \div 2) + 1 \/ m = 2 * ((m - 1) \div 2) + 2
          OBVIOUS
        <5> QED
          BY <5>1, <5>2
      <4> QED
        BY <1>2, <4>1, <4>2
    <3>5. n # 2 * k + 2
      BY <1>1, <3>1 DEF ToldRun, StepTraced
    <3> QED
      BY <3>4, <3>5
  <2> QED
    BY <2>1, <2>2
<1>4. \A k \in 1..run.at : run.events[2 * k + 2].name = plan[k].kind
  BY <1>1 DEF ToldRun, StepTraced
<1>5. edits = {2 * k + 1 : k \in EditsOf(run)}
  BY <1>2, <1>3, SMTT(30), ZenonT(60) DEF EditsOf
<1> HIDE DEF calls, edits, last
<1>6. ASSUME run.over
      PROVE  /\ run.events[last].ok <=> \A n \in calls : run.events[n + 1].ok
             /\ (edits # {}) <=> (run.events[last - 1].name = "repo_patch")
             /\ \A n \in edits : (\A k \in edits : k <= n) => run.events[n + 1].result = run.events[last - 1].result
  <2>1. run.events[last].ok <=> \A n \in calls : run.events[n + 1].ok
    <3>1. \A k \in 1..run.at : 2 * k + 1 + 1 = 2 * k + 2
      BY <1>2
    <3>2. (\A n \in calls : run.events[n + 1].ok) <=> \A k \in 1..run.at : run.events[2 * k + 2].ok
      BY <1>3, <3>1
    <3>3. run.events[last].ok = run.ok
      BY <1>1, <1>6 DEF ToldRun, last
    <3>4. \A k \in 1..run.at : run.events[2 * k + 2].ok <=> run.events[2 * k + 2].ok = TRUE
      BY <1>1 DEF ToldRun, StepTraced
    <3> QED
      BY <1>1, <3>2, <3>3, <3>4 DEF ToldRun
  <2>2. (edits # {}) <=> (run.events[last - 1].name = "repo_patch")
    <3>1. CASE run.patch # <<>>
      BY <1>1, <1>5, <1>6, <3>1 DEF ToldRun, last
    <3>2. CASE run.patch = <<>>
      <4>1. last - 1 = 2 * run.at + 2 /\ EditsOf(run) = {}
        <5>1. last - 1 = 2 * run.at + 2
          BY <1>2, <1>L, <1>6, <3>2
        <5> QED
          BY <1>1, <3>2, <5>1 DEF ToldRun
      <4>2. CASE run.at = 0
        BY <1>1, <1>5, <4>1, <4>2 DEF ToldRun
      <4>3. CASE run.at # 0
        <5>0. run.task \in DOMAIN Plans /\ run.at <= Len(Plans[run.task])
          BY <1>1 DEF ToldRun
        <5>1. run.at \in 1..run.at /\ run.at \in DOMAIN Plans[run.task]
          BY <1>2, <4>3, <5>0, PlansAssumption
        <5>2. run.events[2 * run.at + 2].name = Plans[run.task][run.at].kind
          BY <1>4, <5>1
        <5>3. Plans[run.task][run.at].kind # "repo_patch"
          BY <5>0, <5>1, PlansAssumption
        <5> QED
          BY <1>5, <4>1, <5>2, <5>3
      <4> QED
        BY <4>2, <4>3
    <3> QED
      BY <3>1, <3>2
  <2>3. ASSUME NEW n \in edits, \A k \in edits : k <= n
        PROVE  run.events[n + 1].result = run.events[last - 1].result
    <3>1. PICK k \in EditsOf(run) : n = 2 * k + 1
      BY <1>5
    <3>2. k \in Nat /\ \A j \in EditsOf(run) : j \in Nat /\ 2 * j + 1 <= n
      BY <1>2, <1>5, <2>3 DEF EditsOf
    <3>3. \A j \in EditsOf(run) : j <= k
      BY <3>1, <3>2
    <3>4. run.patch = <<run.events[2 * k + 2].result>> /\ run.patch # <<>>
      BY <1>1, <3>1, <3>3 DEF ToldRun
    <3>5. run.events[last - 1].result = run.patch[1]
      BY <1>1, <1>6, <3>4 DEF ToldRun, last
    <3>6. n + 1 = 2 * k + 2
      BY <3>1, <3>2
    <3> QED
      BY <3>4, <3>5, <3>6
  <2> QED
    BY <2>1, <2>2, <2>3
<1>7. run.events[2].result = run.found
  BY <1>1 DEF ToldRun
<1> QED
  BY <1>3, <1>4, <1>6, <1>7 DEF run, calls, edits, last

(* Adding one element to a sequence, or two, or replacing one *)
LEMMA Longer ==
  ASSUME NEW s, IsSeq(s), NEW x
  PROVE  /\ Len(s) \in Nat /\ DOMAIN s = 1..Len(s)
         /\ IsSeq(Append(s, x)) /\ Len(Append(s, x)) = Len(s) + 1 /\ DOMAIN Append(s, x) = 1..(Len(s) + 1)
         /\ Append(s, x)[Len(s) + 1] = x /\ \A i \in 1..Len(s) : Append(s, x)[i] = s[i]
         /\ s \o <<x>> = Append(s, x)
<1>1. PICK S : s \in Seq(S)
  BY DEF IsSeq
<1> DEFINE T == S \cup {x}
<1>2. s \in Seq(T) /\ x \in T
  BY <1>1
<1> HIDE DEF T
<1>3. /\ Append(s, x) \in Seq(T) /\ Len(Append(s, x)) = Len(s) + 1
      /\ \A i \in 1..Len(s) : Append(s, x)[i] = s[i] /\ Append(s, x)[Len(s) + 1] = x
  BY <1>2, AppendProperties
<1>4. DOMAIN Append(s, x) = 1..Len(Append(s, x))
  BY <1>3, LenProperties
<1>5. Len(s) \in Nat /\ DOMAIN s = 1..Len(s)
  BY <1>2, LenProperties
<1>6. s \o <<x>> = Append(s, x)
  BY <1>2, AppendIsConcat
<1>7. Append(s, x)[Len(s) + 1] = x
  BY <1>2, AppendProperties
<1> QED
  BY <1>3, <1>4, <1>5, <1>6, <1>7 DEF IsSeq

LEMMA LongerByTwo ==
  ASSUME NEW s, IsSeq(s), NEW x, NEW y
  PROVE  /\ IsSeq(s \o <<x, y>>) /\ Len(s \o <<x, y>>) = Len(s) + 2 /\ DOMAIN (s \o <<x, y>>) = 1..(Len(s) + 2)
         /\ (s \o <<x, y>>)[Len(s) + 1] = x /\ (s \o <<x, y>>)[Len(s) + 2] = y
         /\ \A i \in 1..Len(s) : (s \o <<x, y>>)[i] = s[i]
<1>1. PICK S : s \in Seq(S)
  BY DEF IsSeq
<1> DEFINE T == S \cup {x, y}
           z == <<x, y>>
<1>2. s \in Seq(T) /\ z \in Seq(T) /\ Len(z) = 2 /\ z[1] = x /\ z[2] = y
  BY <1>1
<1> HIDE DEF T, z
<1>2a. /\ s \o z \in Seq(T) /\ Len(s \o z) = Len(s) + Len(z)
       /\ \A i \in 1..(Len(s) + Len(z)) : (s \o z)[i] = IF i <= Len(s) THEN s[i] ELSE z[i - Len(s)]
  BY ONLY <1>2, ConcatProperties, Zenon
<1>3. /\ s \o z \in Seq(T) /\ Len(s \o z) = Len(s) + 2
      /\ \A i \in 1..(Len(s) + 2) : (s \o z)[i] = IF i <= Len(s) THEN s[i] ELSE z[i - Len(s)]
  BY <1>2, <1>2a
<1>4. DOMAIN (s \o z) = 1..Len(s \o z) /\ Len(s) \in Nat
  BY <1>2, <1>3, LenProperties
<1>5. (s \o z)[Len(s) + 1] = x /\ (s \o z)[Len(s) + 2] = y
  BY <1>2, <1>3, <1>4
<1>6. \A i \in 1..Len(s) : (s \o z)[i] = s[i]
  BY <1>3, <1>4
<1>7. IsSeq(s \o z) /\ DOMAIN (s \o z) = 1..(Len(s) + 2) /\ Len(s \o z) = Len(s) + 2
  BY <1>3, <1>4 DEF IsSeq
<1> QED
  BY <1>5, <1>6, <1>7 DEF z

(* One more deed, whatever tool it was *)
LEMMA StepToldOf ==
  ASSUME NEW run, ToldRun(run), run.over = FALSE, run.at < Len(Plans[run.task]), NEW next,
         NEW ok \in BOOLEAN, NEW result, NEW thought, NEW tool,
         thought.type = "model", tool.type = "tool", tool.ok = ok, tool.result = result,
         tool.name = Plans[run.task][run.at + 1].kind,
         DOMAIN next = RunKeys, next.task = run.task, next.over = FALSE, next.found = run.found,
         next.at = run.at + 1, next.ok = (run.ok /\ ok),
         next.events = run.events \o <<thought, tool>>,
         next.patch = IF tool.name = "edit" /\ ok THEN <<result>> ELSE run.patch
  PROVE  ToldRun(next)
<1> DEFINE a == run.at
           ev == run.events
           nv == next.events
<1>0. /\ a \in Nat /\ IsSeq(ev) /\ run.task \in DOMAIN Plans
      /\ ev[1].type = "tool" /\ ev[2].type = "tool" /\ ev[2].name = "read_repo_state" /\ ev[2].result = run.found
      /\ \A k \in 1..a : StepTraced(run, k)
  BY Zenon DEF ToldRun
<1>0a. Len(ev) = 2 * a + 2
  <2>1. Len(ev) = 2 * a + 2 + (IF run.over THEN IF run.patch = <<>> THEN 1 ELSE 2 ELSE 0)
    BY Zenon DEF ToldRun
  <2>2. (IF run.over THEN IF run.patch = <<>> THEN 1 ELSE 2 ELSE 0) = 0
    BY Zenon
  <2> QED
    BY <1>0, <2>1, <2>2
<1>1. /\ a \in Nat /\ IsSeq(ev) /\ run.task \in DOMAIN Plans
      /\ ev[1].type = "tool" /\ ev[2].type = "tool" /\ ev[2].name = "read_repo_state" /\ ev[2].result = run.found
      /\ (\A k \in 1..a : StepTraced(run, k)) /\ Len(ev) = 2 * a + 2
  BY ONLY <1>0, <1>0a
<1>1z. run.ok \in BOOLEAN /\ (run.ok = TRUE <=> \A k \in 1..a : ev[2 * k + 2].ok = TRUE)
  BY Zenon DEF ToldRun
<1>1a. a + 1 \in Nat /\ a + 1 <= Len(Plans[run.task])
  <2>1. Len(Plans[run.task]) \in Nat
    BY <1>1, PlansAssumption
  <2>2. a < Len(Plans[run.task])
    OBVIOUS
  <2> HIDE DEF a
  <2> QED
    BY ONLY <1>1, <2>1, <2>2
<1>1b. ev \o <<thought, tool>> = nv /\ next.at = a + 1
  OBVIOUS
<1>2. /\ IsSeq(nv) /\ Len(nv) = 2 * (a + 1) + 2 /\ DOMAIN nv = 1..Len(nv)
      /\ nv[2 * a + 3] = thought /\ nv[2 * a + 4] = tool /\ \A i \in 1..(2 * a + 2) : nv[i] = ev[i]
  <2> HIDE DEF a, ev, nv
  <2>1. /\ IsSeq(nv) /\ Len(nv) = Len(ev) + 2 /\ DOMAIN nv = 1..(Len(ev) + 2)
        /\ nv[Len(ev) + 1] = thought /\ nv[Len(ev) + 2] = tool /\ \A i \in 1..Len(ev) : nv[i] = ev[i]
    <3>0. IsSeq(ev)
      BY <1>1
    <3>1. /\ IsSeq(ev \o <<thought, tool>>) /\ Len(ev \o <<thought, tool>>) = Len(ev) + 2
          /\ DOMAIN (ev \o <<thought, tool>>) = 1..(Len(ev) + 2)
          /\ (ev \o <<thought, tool>>)[Len(ev) + 1] = thought /\ (ev \o <<thought, tool>>)[Len(ev) + 2] = tool
          /\ \A i \in 1..Len(ev) : (ev \o <<thought, tool>>)[i] = ev[i]
      BY ONLY <3>0, LongerByTwo
    <3> QED
      BY <1>1b, <3>1, Zenon
  <2>2. Len(ev) + 1 = 2 * a + 3 /\ Len(ev) + 2 = 2 * a + 4 /\ 2 * (a + 1) + 2 = 2 * a + 4
    BY <1>1
  <2> QED
    BY <1>1, <2>1, <2>2
<1> HIDE DEF a, ev, nv
<1>3. nv[1] = ev[1] /\ nv[2] = ev[2]
  BY <1>1, <1>2
<1>4. \A k \in 1..a : nv[2 * k + 1] = ev[2 * k + 1] /\ nv[2 * k + 2] = ev[2 * k + 2]
  <2> SUFFICES ASSUME NEW k \in 1..a PROVE nv[2 * k + 1] = ev[2 * k + 1] /\ nv[2 * k + 2] = ev[2 * k + 2]
    OBVIOUS
  <2>1. 2 * k + 1 \in 1..(2 * a + 2) /\ 2 * k + 2 \in 1..(2 * a + 2)
    BY <1>1
  <2> QED
    BY <1>2, <2>1
<1>5. nv[2 * (a + 1) + 1] = thought /\ nv[2 * (a + 1) + 2] = tool
  <2>1. \A b \in Nat : 2 * (b + 1) + 1 = 2 * b + 3 /\ 2 * (b + 1) + 2 = 2 * b + 4
    OBVIOUS
  <2> QED
    BY <1>1, <1>2, <2>1
<1>6. 1..(a + 1) = 1..a \cup {a + 1}
  BY <1>1
<1>7. \A k \in 1..(a + 1) : StepTraced(next, k)
  <2>1. \A k \in 1..a : StepTraced(next, k)
    BY <1>1, <1>4 DEF StepTraced, ev, nv
  <2>2. StepTraced(next, a + 1)
    BY <1>5 DEF StepTraced, nv, a
  <2> QED
    BY <1>6, <2>1, <2>2
<1>8. next.ok = TRUE <=> \A k \in 1..(a + 1) : nv[2 * k + 2].ok = TRUE
  BY <1>1z, <1>4, <1>5, <1>6
<1>9. EditsOf(next) = EditsOf(run) \cup (IF tool.name = "edit" /\ ok THEN {a + 1} ELSE {})
  <2>1. EditsOf(next) = {k \in 1..(a + 1) : nv[2 * k + 2].name = "edit" /\ nv[2 * k + 2].ok = TRUE}
    BY DEF EditsOf, nv, a
  <2>2. EditsOf(run) = {k \in 1..a : ev[2 * k + 2].name = "edit" /\ ev[2 * k + 2].ok = TRUE}
    BY DEF EditsOf, ev, a
  <2> QED
    BY <1>4, <1>5, <1>6, <2>1, <2>2
<1>10. EditsOf(run) \subseteq 1..a
  BY DEF EditsOf, a
<1>11. /\ run.patch = <<>> <=> EditsOf(run) = {}
       /\ \A k \in EditsOf(run) : (\A j \in EditsOf(run) : j <= k) => run.patch = <<ev[2 * k + 2].result>>
  BY DEF ToldRun, ev
<1>12. /\ next.patch = <<>> <=> EditsOf(next) = {}
       /\ \A k \in EditsOf(next) : (\A j \in EditsOf(next) : j <= k) => next.patch = <<nv[2 * k + 2].result>>
  <2>1. CASE tool.name = "edit" /\ ok
    <3>1. next.patch = <<result>> /\ a + 1 \in EditsOf(next)
      BY <1>9, <2>1
    <3>2. ASSUME NEW k \in EditsOf(next), \A j \in EditsOf(next) : j <= k PROVE k = a + 1
      <4>1. a + 1 <= k /\ (k \in 1..a \/ k = a + 1)
        BY <1>9, <1>10, <2>1, <3>1, <3>2
      <4> QED
        BY <1>1, <4>1
    <3>3. nv[2 * (a + 1) + 2].result = result
      BY <1>5
    <3>4. next.patch # <<>> /\ EditsOf(next) # {}
      BY ONLY <3>1
    <3>5. ASSUME NEW k \in EditsOf(next), \A j \in EditsOf(next) : j <= k
          PROVE  next.patch = <<nv[2 * k + 2].result>>
      BY ONLY <3>1, <3>2, <3>3, <3>5
    <3> QED
      BY ONLY <3>4, <3>5
  <2>2. CASE ~(tool.name = "edit" /\ ok)
    <3>1. next.patch = run.patch /\ EditsOf(next) = EditsOf(run)
      BY <1>9, <2>2
    <3> QED
      BY <1>4, <1>10, <1>11, <3>1
  <2> QED
    BY <2>1, <2>2
<1>13. Len(nv) = 2 * next.at + 2 + (IF next.over THEN IF next.patch = <<>> THEN 1 ELSE 2 ELSE 0) /\ Len(nv) \in Nat
  BY <1>1, <1>1b, <1>2
<1> QED
  BY <1>1, <1>1a, <1>2, <1>3, <1>7, <1>8, <1>12, <1>13 DEF ToldRun, nv, a, ev

(* A run as it begins, and as it ends: the patch if there is one, and the claim *)
LEMMA BegunTold ==
  ASSUME NEW task \in DOMAIN Plans, NEW next, DOMAIN next = RunKeys, next.task = task, next.at = 0, next.ok = TRUE,
         next.patch = <<>>, next.over = FALSE, NEW issue, NEW context, next.events = <<issue, context>>,
         issue.type = "tool", context.type = "tool", context.name = "read_repo_state", context.result = next.found
  PROVE  ToldRun(next)
<1>1. /\ next.events[1] = issue /\ next.events[2] = context /\ Len(next.events) = 2
      /\ DOMAIN next.events = 1..2 /\ next.events \in Seq({issue, context})
  OBVIOUS
<1>2. EditsOf(next) = {} /\ 1..next.at = {}
  BY DEF EditsOf
<1>3. next.at \in Nat /\ next.at <= Len(Plans[next.task])
  BY PlansAssumption
<1>4. /\ Len(next.events) = 2 * next.at + 2 + (IF next.over THEN IF next.patch = <<>> THEN 1 ELSE 2 ELSE 0)
      /\ Len(next.events) \in Nat
  BY <1>1
<1>5. DOMAIN next.events = 1..Len(next.events) /\ IsSeq(next.events)
  BY <1>1 DEF IsSeq
<1>6. next.over \in BOOLEAN /\ next.ok \in BOOLEAN /\ ~next.over
  OBVIOUS
<1>7. /\ \A k \in 1..next.at : StepTraced(next, k)
      /\ next.ok = TRUE <=> \A k \in 1..next.at : next.events[2 * k + 2].ok = TRUE
      /\ next.patch = <<>> <=> EditsOf(next) = {}
      /\ \A k \in EditsOf(next) : (\A j \in EditsOf(next) : j <= k) => next.patch = <<next.events[2 * k + 2].result>>
  BY ONLY <1>2, next.ok = TRUE, next.patch = <<>>
<1>8. /\ next.events[1].type = "tool" /\ next.events[2].type = "tool"
      /\ next.events[2].name = "read_repo_state" /\ next.events[2].result = next.found
  BY <1>1
<1>9. next.task \in DOMAIN Plans
  OBVIOUS
<1> QED
  BY ONLY <1>3, <1>4, <1>5, <1>6, <1>7, <1>8, <1>9, DOMAIN next = RunKeys, Zenon DEF ToldRun

LEMMA EndedToldOf ==
  ASSUME NEW run, ToldRun(run), run.over = FALSE, NEW next, NEW patch, NEW claim,
         patch.type = "tool", patch.name = "repo_patch", run.patch # <<>> => patch.result = run.patch[1],
         claim.type = "claim", claim.ok = run.ok,
         DOMAIN next = RunKeys, next.task = run.task, next.over = TRUE, next.found = run.found,
         next.at = run.at, next.ok = run.ok, next.patch = run.patch,
         next.events = IF run.patch = <<>> THEN run.events \o <<claim>> ELSE (run.events \o <<patch>>) \o <<claim>>
  PROVE  ToldRun(next)
<1> DEFINE a == run.at
           ev == run.events
           nv == next.events
           n == Len(ev)
<1>1. /\ a \in Nat /\ IsSeq(ev) /\ run.task \in DOMAIN Plans /\ a <= Len(Plans[run.task])
      /\ ev[1].type = "tool" /\ ev[2].type = "tool" /\ ev[2].name = "read_repo_state" /\ ev[2].result = run.found
      /\ (\A k \in 1..a : StepTraced(run, k)) /\ run.ok \in BOOLEAN
  BY Zenon DEF ToldRun
<1>2. /\ run.ok = TRUE <=> \A k \in 1..a : ev[2 * k + 2].ok = TRUE
      /\ run.patch = <<>> <=> EditsOf(run) = {}
      /\ \A k \in EditsOf(run) : (\A j \in EditsOf(run) : j <= k) => run.patch = <<ev[2 * k + 2].result>>
  BY Zenon DEF ToldRun
<1>3. n = 2 * a + 2
  <2>1. n = 2 * a + 2 + (IF run.over THEN IF run.patch = <<>> THEN 1 ELSE 2 ELSE 0)
    BY Zenon DEF ToldRun
  <2>2. (IF run.over THEN IF run.patch = <<>> THEN 1 ELSE 2 ELSE 0) = 0
    BY Zenon
  <2> HIDE DEF a, n
  <2> QED
    BY ONLY <1>1, <2>1, <2>2
<1>4. n \in Nat
  <2> HIDE DEF a, n
  <2> QED
    BY ONLY <1>1, <1>3
<1>5. /\ IsSeq(nv) /\ DOMAIN nv = 1..Len(nv) /\ Len(nv) = n + (IF run.patch = <<>> THEN 1 ELSE 2)
      /\ \A i \in 1..n : nv[i] = ev[i]
      /\ nv[Len(nv)] = claim /\ (run.patch # <<>> => nv[Len(nv) - 1] = patch)
  <2>0. IsSeq(ev)
    BY <1>1
  <2>1. CASE run.patch = <<>>
    <3>1. nv = ev \o <<claim>>
      BY <2>1
    <3> HIDE DEF nv, ev
    <3>2. nv = Append(ev, claim)
      BY ONLY <2>0, <3>1, Longer
    <3>3. /\ IsSeq(nv) /\ Len(nv) = n + 1 /\ DOMAIN nv = 1..(n + 1) /\ nv[n + 1] = claim
          /\ \A i \in 1..n : nv[i] = ev[i]
      BY ONLY <2>0, <3>2, Longer DEF n
    <3> QED
      BY ONLY <2>1, <3>3
  <2>2. CASE run.patch # <<>>
    <3> DEFINE mid == ev \o <<patch>>
    <3>1. nv = mid \o <<claim>>
      BY <2>2
    <3> HIDE DEF nv, ev
    <3>1a. mid = Append(ev, patch)
      BY ONLY <2>0, Longer
    <3> HIDE DEF mid
    <3>1b. /\ IsSeq(mid) /\ Len(mid) = n + 1 /\ mid[n + 1] = patch /\ \A i \in 1..n : mid[i] = ev[i]
      BY ONLY <2>0, <3>1a, Longer DEF n
    <3>1c. nv = Append(mid, claim)
      BY ONLY <3>1, <3>1b, Longer
    <3>1d. /\ IsSeq(nv) /\ Len(nv) = n + 1 + 1 /\ DOMAIN nv = 1..(n + 1 + 1) /\ nv[n + 1 + 1] = claim
           /\ \A i \in 1..(n + 1) : nv[i] = mid[i]
      BY ONLY <3>1b, <3>1c, Longer
    <3>2. /\ IsSeq(nv) /\ Len(nv) = n + 2 /\ DOMAIN nv = 1..(n + 2) /\ nv[n + 1] = patch /\ nv[n + 2] = claim
          /\ \A i \in 1..n : nv[i] = ev[i]
      <4> HIDE DEF n
      <4> QED
        BY ONLY <1>4, <3>1b, <3>1d
    <3>3. n + 2 - 1 = n + 1
      BY ONLY <1>4
    <3> QED
      BY ONLY <2>2, <3>2, <3>3
  <2> QED
    BY <2>1, <2>2
<1> HIDE DEF a, ev, nv, n
<1>6. \A k \in 1..a : nv[2 * k + 1] = ev[2 * k + 1] /\ nv[2 * k + 2] = ev[2 * k + 2]
  <2> SUFFICES ASSUME NEW k \in 1..a PROVE nv[2 * k + 1] = ev[2 * k + 1] /\ nv[2 * k + 2] = ev[2 * k + 2]
    OBVIOUS
  <2>1. 2 * k + 1 \in 1..n /\ 2 * k + 2 \in 1..n
    BY ONLY <1>1, <1>3
  <2> QED
    BY <1>5, <2>1
<1>7. nv[1] = ev[1] /\ nv[2] = ev[2]
  <2>1. 1 \in 1..n /\ 2 \in 1..n
    BY ONLY <1>1, <1>3
  <2> QED
    BY ONLY <1>5, <2>1
<1>8. \A k \in 1..a : StepTraced(next, k)
  BY <1>1, <1>6, ZenonT(60), SMTT(30) DEF StepTraced, ev, nv
<1>9. EditsOf(next) = EditsOf(run)
  BY <1>6 DEF EditsOf, ev, nv, a
<1>10. EditsOf(run) \subseteq 1..a
  BY DEF EditsOf, a
<1>11. next.ok = TRUE <=> \A k \in 1..a : nv[2 * k + 2].ok = TRUE
  BY <1>2, <1>6
<1>12. /\ next.patch = <<>> <=> EditsOf(next) = {}
       /\ \A k \in EditsOf(next) : (\A j \in EditsOf(next) : j <= k) => next.patch = <<nv[2 * k + 2].result>>
  <2>1. next.patch = run.patch
    OBVIOUS
  <2> QED
    BY ONLY <1>2, <1>6, <1>9, <1>10, <2>1
<1>13. /\ Len(nv) = 2 * a + 2 + (IF next.over THEN IF next.patch = <<>> THEN 1 ELSE 2 ELSE 0)
       /\ Len(nv) \in Nat
  BY <1>1, <1>3, <1>5
<1>14. /\ nv[Len(nv)].type = "claim" /\ nv[Len(nv)].ok = next.ok
       /\ next.patch # <<>> => /\ nv[Len(nv) - 1].type = "tool" /\ nv[Len(nv) - 1].name = "repo_patch"
                               /\ nv[Len(nv) - 1].result = next.patch[1]
  <2>1. nv[Len(nv)] = claim /\ (run.patch # <<>> => nv[Len(nv) - 1] = patch)
    BY <1>5
  <2> QED
    BY <2>1, Zenon
<1> QED
  BY <1>1, <1>5, <1>7, <1>8, <1>11, <1>12, <1>13, <1>14 DEF ToldRun, nv, a, ev

LEMMA TracesBegin ==
  ASSUME OutcomesInit
  PROVE  TraceInv
<1>1. agentRuns = <<>> /\ agentRuns \in Seq({})
  BY DEF OutcomesInit
<1> QED
  BY <1>1 DEF TraceInv, IsSeq

LEMMA BeginKeeps ==
  ASSUME TraceInv, NEW task \in DOMAIN Plans, BeginRun(task)
  PROVE  TraceInv'
<1> DEFINE issue == Tool("read_issue", task, TRUE)
           context == Tool("read_repo_state", workspace, TRUE)
           next == [task |-> task, at |-> 0, ok |-> TRUE, patch |-> <<>>, over |-> FALSE, found |-> workspace,
                    events |-> <<issue, context>>]
<1>1. /\ issue.type = "tool" /\ context.type = "tool" /\ context.name = "read_repo_state"
      /\ context.result = workspace
  BY DEF Tool, Event
<1>2. agentRuns' = Append(agentRuns, next)
  BY DEF BeginRun
<1> HIDE DEF issue, context
<1>3. /\ DOMAIN next = RunKeys /\ next.task = task /\ next.at = 0 /\ next.ok = TRUE /\ next.patch = <<>>
      /\ next.over = FALSE /\ next.found = workspace /\ next.events = <<issue, context>>
  BY DEF RunKeys
<1> HIDE DEF next
<1>4. ToldRun(next)
  BY <1>1, <1>3, BegunTold
<1>5. /\ IsSeq(agentRuns') /\ Len(agentRuns') = Len(agentRuns) + 1 /\ DOMAIN agentRuns' = 1..(Len(agentRuns) + 1)
      /\ agentRuns'[Len(agentRuns) + 1] = next /\ \A r \in 1..Len(agentRuns) : agentRuns'[r] = agentRuns[r]
      /\ Len(agentRuns) \in Nat
  BY <1>2, Longer DEF TraceInv
<1>6. \A r \in DOMAIN agentRuns' : r \in DOMAIN agentRuns \/ r = Len(agentRuns) + 1
  BY <1>5 DEF TraceInv
<1>7. \A r \in DOMAIN agentRuns' : ToldRun(agentRuns'[r])
  BY <1>4, <1>5, <1>6 DEF TraceInv
<1> QED
  BY <1>5, <1>7 DEF TraceInv

(* Replacing the run at work by one that is told as well *)
LEMMA RunIsKeeps ==
  ASSUME TraceInv, Working, NEW next, ToldRun(next), RunIs(next)
  PROVE  TraceInv'
<1>1. PICK S : agentRuns \in Seq(S)
  BY DEF TraceInv, IsSeq
<1>2. agentRuns' = [agentRuns EXCEPT ![Len(agentRuns)] = next]
  BY DEF RunIs
<1>3. DOMAIN agentRuns' = DOMAIN agentRuns
  BY <1>2
<1>4. \A r \in DOMAIN agentRuns : agentRuns'[r] = IF r = Len(agentRuns) THEN next ELSE agentRuns[r]
  BY <1>2
<1> DEFINE T == S \cup {next}
           n == Len(agentRuns)
<1>5. agentRuns \in Seq(T) /\ next \in T /\ n \in DOMAIN agentRuns
  BY <1>1 DEF Working, TraceInv
<1> HIDE DEF T, n
<1>6. agentRuns' \in Seq(T) /\ Len(agentRuns') = Len(agentRuns)
  BY <1>2, <1>5, RowReplaced DEF n
<1> QED
  BY <1>3, <1>4, <1>6 DEF TraceInv, IsSeq

LEMMA WorkingAt ==
  ASSUME TraceInv, Working
  PROVE  ToldRun(AtWork) /\ AtWork.over = FALSE
<1>1. Len(agentRuns) \in DOMAIN agentRuns
  BY DEF TraceInv, Working, IsSeq
<1>2. ToldRun(AtWork) /\ AtWork.over # TRUE
  BY <1>1 DEF TraceInv, AtWork, Working
<1> QED
  BY <1>2, Zenon DEF ToldRun

(* Writing fields of a run *)
LEMMA RunClosed ==
  ASSUME NEW run, DOMAIN run = RunKeys, NEW e,
         NEW next, next = [run EXCEPT !.over = TRUE, !.events = e]
  PROVE  /\ DOMAIN next = RunKeys /\ next.task = run.task /\ next.over = TRUE /\ next.found = run.found
         /\ next.at = run.at /\ next.ok = run.ok /\ next.patch = run.patch /\ next.events = e
  BY DEF RunKeys

LEMMA StepKeeps ==
  ASSUME TraceInv, RunStep
  PROVE  TraceInv'
<1> DEFINE run == AtWork
           deed == Plans[run.task][run.at + 1]
           ok == StepSucceeds(deed, workspace)
           after == FilesAfter(deed, workspace)
           result == ToolResult(deed, after)
           thought == Event("model", "", "", TRUE)
           tool == Tool(deed.kind, result, ok)
           next == [run EXCEPT !.at = @ + 1, !.ok = StepsOk(@, ok),
                               !.patch = IF deed.kind = "edit" /\ ok THEN <<after[deed.path]>> ELSE @,
                               !.events = @ \o <<thought, tool>>]
<1>1. Working /\ run.at < Len(Plans[run.task]) /\ RunIs(next)
  BY DEF RunStep
<1>2. ToldRun(run) /\ run.over = FALSE
  BY <1>1, WorkingAt
<1> HIDE DEF run
<1>3. /\ DOMAIN run = RunKeys /\ run.at \in Nat /\ run.task \in DOMAIN Plans /\ run.ok \in BOOLEAN
  BY <1>2, Zenon DEF ToldRun
<1>4. deed.kind \in {"read", "edit", "test", "shell"}
  <2>1. Len(Plans[run.task]) \in Nat /\ DOMAIN Plans[run.task] = 1..Len(Plans[run.task])
    BY <1>3, PlansAssumption
  <2>2. run.at + 1 \in DOMAIN Plans[run.task]
    BY <1>1, <1>3, <2>1
  <2> QED
    BY <1>3, <2>2, PlansAssumption
<1>5. ok \in BOOLEAN
  <2> HIDE DEF deed
  <2> QED
    BY <1>4, StepTells
<1>6. deed.kind = "edit" /\ ok => deed.path \in WorkFiles
  <2> HIDE DEF deed
  <2> QED
    BY <1>4, Zenon DEF StepSucceeds
<1>7. deed.kind = "edit" /\ ok => result = after[deed.path]
  <2> HIDE DEF deed, after, ok
  <2> QED
    BY <1>6 DEF ToolResult
<1>8. /\ thought.type = "model" /\ tool.type = "tool" /\ tool.ok = ok /\ tool.result = result /\ tool.name = deed.kind
  <2> HIDE DEF deed, ok, result
  <2> QED
    BY DEF Tool, Event
<1> HIDE DEF deed, ok, after, result, thought, tool
<1> DEFINE patch == IF deed.kind = "edit" /\ ok THEN <<after[deed.path]>> ELSE run.patch
           evs == run.events \o <<thought, tool>>
<1>9. next = [run EXCEPT !.at = run.at + 1, !.ok = StepsOk(run.ok, ok), !.patch = patch, !.events = evs]
  OBVIOUS
<1>10. patch = IF tool.name = "edit" /\ ok THEN <<result>> ELSE run.patch
  BY <1>7, <1>8
<1>11. StepsOk(run.ok, ok) = (run.ok /\ ok)
  BY DEF StepsOk
<1>12. evs = run.events \o <<thought, tool>>
  OBVIOUS
<1> HIDE DEF patch, evs
<1>13. /\ DOMAIN next = RunKeys /\ next.task = run.task /\ next.over = run.over /\ next.found = run.found
       /\ next.at = run.at + 1 /\ next.ok = StepsOk(run.ok, ok) /\ next.patch = patch /\ next.events = evs
  <2> HIDE DEF next
  <2>1. DOMAIN run = RunKeys
    BY <1>3
  <2> DEFINE a == run.at + 1
             o == StepsOk(run.ok, ok)
  <2>2. next = [run EXCEPT !.at = a, !.ok = o, !.patch = patch, !.events = evs]
    BY <1>9
  <2> HIDE DEF a, o
  <2>3. /\ DOMAIN next = RunKeys /\ next.task = run.task /\ next.over = run.over /\ next.found = run.found
        /\ next.at = a /\ next.ok = o /\ next.patch = patch /\ next.events = evs
    BY ONLY <2>1, <2>2 DEF RunKeys
  <2> QED
    BY ONLY <2>3 DEF a, o
<1> HIDE DEF next
<1>14. tool.name = Plans[run.task][run.at + 1].kind
  BY <1>8 DEF deed
<1>15. ToldRun(next)
  BY ONLY <1>1, <1>2, <1>5, <1>8, <1>10, <1>11, <1>12, <1>13, <1>14, StepToldOf, Zenon
<1> QED
  BY <1>1, <1>15, RunIsKeeps

LEMMA EndKeeps ==
  ASSUME TraceInv, EndRun
  PROVE  TraceInv'
<1> DEFINE run == AtWork
           patch == Tool("repo_patch", run.patch[1], TRUE)
           claim == Event("claim", "", "", run.ok)
           given == run.events \o (IF run.patch = <<>> THEN <<>> ELSE <<patch>>) \o <<claim>>
           next == [run EXCEPT !.over = TRUE,
                      !.events = @ \o (IF run.patch = <<>> THEN <<>> ELSE <<patch>>) \o <<claim>>]
<1>1. Working /\ RunIs(next)
  BY DEF EndRun
<1>2. ToldRun(run) /\ run.over = FALSE
  BY <1>1, WorkingAt
<1> HIDE DEF run
<1>3. DOMAIN run = RunKeys /\ IsSeq(run.events)
  BY <1>2, Zenon DEF ToldRun
<1>4. /\ patch.type = "tool" /\ patch.name = "repo_patch" /\ patch.result = run.patch[1]
      /\ claim.type = "claim" /\ claim.ok = run.ok
  BY DEF Tool, Event
<1> HIDE DEF patch, claim
<1>5. given = IF run.patch = <<>> THEN run.events \o <<claim>> ELSE (run.events \o <<patch>>) \o <<claim>>
  <2>1. PICK S : run.events \in Seq(S)
    BY <1>3 DEF IsSeq
  <2>2. run.events \o <<>> = run.events
    BY <2>1, ConcatEmptySeq
  <2> QED
    BY <2>2
<1>6. next = [run EXCEPT !.over = TRUE, !.events = given]
  OBVIOUS
<1> HIDE DEF given
<1>7. /\ DOMAIN next = RunKeys /\ next.task = run.task /\ next.over = TRUE /\ next.found = run.found
      /\ next.at = run.at /\ next.ok = run.ok /\ next.patch = run.patch /\ next.events = given
  <2> HIDE DEF next
  <2>1. DOMAIN run = RunKeys
    BY <1>3
  <2>2. next = [run EXCEPT !.over = TRUE, !.events = given]
    BY <1>6
  <2>3. \A e, nx : nx = [run EXCEPT !.over = TRUE, !.events = e] =>
          /\ DOMAIN nx = RunKeys /\ nx.task = run.task /\ nx.over = TRUE /\ nx.found = run.found
          /\ nx.at = run.at /\ nx.ok = run.ok /\ nx.patch = run.patch /\ nx.events = e
    BY ONLY <2>1, RunClosed, Zenon
  <2> QED
    BY ONLY <2>2, <2>3, ZenonT(60), SMTT(30)
<1> HIDE DEF next
<1>8. ToldRun(next)
  BY ONLY <1>2, <1>4, <1>5, <1>7, EndedToldOf, Zenon
<1> QED
  BY <1>1, <1>8, RunIsKeeps

LEMMA TracesKeep ==
  ASSUME TraceInv, [OutcomesNext]_outcomeVars
  PROVE  TraceInv'
<1>1. CASE agentRuns' = agentRuns
  BY <1>1 DEF TraceInv
<1>2. ASSUME NEW task \in DOMAIN Plans, BeginRun(task) PROVE TraceInv'
  BY <1>2, BeginKeeps
<1>3. CASE RunStep
  BY <1>3, StepKeeps
<1>4. CASE EndRun
  BY <1>4, EndKeeps
<1>5. CASE VerifyRun
  BY <1>1, <1>5 DEF VerifyRun
<1>6. ASSUME NEW verifier \in Verifiers, AttestOutcome(verifier) PROVE TraceInv'
  BY <1>1, <1>6 DEF AttestOutcome
<1> QED
  BY <1>1, <1>2, <1>3, <1>4, <1>5, <1>6 DEF OutcomesNext, outcomeVars

(* The trace tells the run *)
THEOREM TracesCorrect == OutcomesSpec => []TraceTellsTheRun
<1>1. OutcomesInit => TraceInv
  BY TracesBegin
<1>2. TraceInv /\ [OutcomesNext]_outcomeVars => TraceInv'
  BY TracesKeep
<1>3. TraceInv => TraceTellsTheRun
  BY ToldIsRight
<1> QED
  BY <1>1, <1>2, <1>3, PTL DEF OutcomesSpec

-----------------------------------------------------------------------------
(* Lineage.  The rows of the query visit no node twice, so they are not    *)
(* the walks of the graph; that they still reach every node of a level is  *)
(* shown along shortest walks: a node new at a level is named by a row     *)
(* that visited nothing beyond the level before.                           *)
GraphSpec == GraphInit /\ [][GraphNext]_graphVars

EdgeShape == {"tenant", "source", "target"}
GraphInv ==
  /\ nodes \in Seq(Owners)
  /\ \A e \in edges : /\ e.source \in DOMAIN nodes /\ e.target \in DOMAIN nodes
                      /\ nodes[e.source] = e.tenant /\ nodes[e.target] = e.tenant

(* An edge is followed from one of its ends to the other. *)
Behind(upstream, e) == IF upstream THEN e.target ELSE e.source
Ahead(upstream, e) == IF upstream THEN e.source ELSE e.target
Further(upstream, S) == S \cup {Ahead(upstream, e) : e \in {e \in edges : Behind(upstream, e) \in S}}

(* f[k] are the nodes that at most k edges lead to from n. *)
Levels(upstream, n, f) == f[0] = {n} /\ \A k \in Nat : f[k + 1] = Further(upstream, f[k])

LEMMA FurtherInside ==
  ASSUME GraphInv, NEW upstream \in BOOLEAN, NEW S \in SUBSET DOMAIN nodes
  PROVE  Further(upstream, S) \in SUBSET DOMAIN nodes
  BY DEF Further, Ahead, GraphInv

LEMMA LevelsExist ==
  ASSUME GraphInv, NEW upstream \in BOOLEAN, NEW n \in DOMAIN nodes
  PROVE  \E f \in [Nat -> SUBSET DOMAIN nodes] : Levels(upstream, n, f)
<1> DEFINE T == SUBSET DOMAIN nodes
           c == {n}
           D == [x \in T \X Nat |-> Further(upstream, x[1])]
<1>1. c \in T
  OBVIOUS
<1>2. D \in [T \X Nat -> T] /\ \A S \in T, k \in Nat : D[<<S, k>>] = Further(upstream, S)
  <2>1. \A S \in T : Further(upstream, S) \in T
    BY FurtherInside
  <2> HIDE DEF T
  <2> QED
    BY <2>1
<1> HIDE DEF T, c, D
<1>3. PICK f \in [Nat -> T] : f[0] = c /\ \A k \in Nat : f[k + 1] = D[<<f[k], k>>]
  <2>1. Recurs(T, c, D)
    BY <1>1, <1>2, Recursion
  <2> QED
    BY <2>1 DEF Recurs
<1>4. \A k \in Nat : f[k + 1] = Further(upstream, f[k])
  BY <1>2, <1>3
<1> QED
  BY <1>3, <1>4 DEF Levels, T, c

(* Levels grow, and stay among the nodes of the tenant. *)
LEMMA LevelsGrow ==
  ASSUME NEW upstream \in BOOLEAN, NEW n, NEW f, Levels(upstream, n, f)
  PROVE  \A k \in Nat : \A j \in 0..k : f[j] \subseteq f[k]
<1> DEFINE Q == {k \in Nat : \A j \in 0..k : f[j] \subseteq f[k]}
<1>1. 0 \in Q
  OBVIOUS
<1>2. ASSUME NEW k \in Nat, k \in Q PROVE k + 1 \in Q
  <2>1. f[k] \subseteq f[k + 1]
    BY DEF Levels, Further
  <2>2. \A j \in 0..(k + 1) : j \in 0..k \/ j = k + 1
    OBVIOUS
  <2> QED
    BY <1>2, <2>1, <2>2
<1> HIDE DEF Q
<1>3. Nat \subseteq Q
  BY <1>1, <1>2, NatSetInduction
<1> QED
  BY <1>3 DEF Q

LEMMA LevelsOfTenant ==
  ASSUME GraphInv, NEW upstream \in BOOLEAN, NEW n \in DOMAIN nodes, NEW f, Levels(upstream, n, f)
  PROVE  \A k \in Nat : f[k] \subseteq NodesOf(nodes[n])
<1> DEFINE Q == {k \in Nat : f[k] \subseteq NodesOf(nodes[n])}
<1>1. 0 \in Q
  BY DEF Levels, NodesOf
<1>2. ASSUME NEW k \in Nat, k \in Q PROVE k + 1 \in Q
  BY <1>2 DEF Levels, Further, GraphInv, NodesOf, Ahead, Behind
<1> HIDE DEF Q
<1>3. Nat \subseteq Q
  BY <1>1, <1>2, NatSetInduction
<1> QED
  BY <1>3 DEF Q

(* The levels upstream are what Within counts. *)
LEMMA WithinIsLevels ==
  ASSUME NEW n \in DOMAIN nodes, GraphInv, NEW f, Levels(TRUE, n, f), NEW d \in Nat
  PROVE  Within(n, d) = f[d]
<1> DEFINE Back(g) == [k \in 0..d |-> 
                       IF k = 0 THEN {n}
                       ELSE g[k - 1] \cup {e.source : e \in {e \in edges : e.target \in g[k - 1]}}]
           back == CHOOSE g : g = Back(g)
           h == [k \in 0..d |-> f[k]]
<1>1. \A S : Further(TRUE, S) = S \cup {e.source : e \in {e \in edges : e.target \in S}}
  BY DEF Further, Ahead, Behind
<1>2. h = Back(h)
  <2>1. ASSUME NEW k \in 0..d
        PROVE  h[k] = IF k = 0 THEN {n} ELSE h[k - 1] \cup {e.source : e \in {e \in edges : e.target \in h[k - 1]}}
    <3>1. CASE k = 0
      BY <3>1 DEF Levels
    <3>2. CASE k # 0
      <4>1. k - 1 \in Nat /\ k - 1 + 1 = k /\ k - 1 \in 0..d
        BY <3>2
      <4>2. h[k] = Further(TRUE, h[k - 1])
        BY <4>1 DEF Levels
      <4> QED
        BY <1>1, <3>2, <4>2
    <3> QED
      BY <3>1, <3>2
  <2> QED
    BY <2>1
<1>3. back = Back(back)
  <2> HIDE DEF Back, h
  <2> QED
    BY <1>2
<1>8. Within(n, d) = back[d]
  BY DEF Within
<1> HIDE DEF back
<1>4. back[0] = {n} /\ \A k \in 1..d : back[k] = Further(TRUE, back[k - 1])
  <2> HIDE DEF back
  <2>1. ASSUME NEW k \in 0..d
        PROVE  back[k] = IF k = 0 THEN {n}
                         ELSE back[k - 1] \cup {e.source : e \in {e \in edges : e.target \in back[k - 1]}}
    BY <1>3
  <2>2. ASSUME NEW k \in 1..d PROVE back[k] = Further(TRUE, back[k - 1])
    <3>1. k \in 0..d /\ k # 0
      OBVIOUS
    <3> QED
      BY <1>1, <2>1, <3>1
  <2>3. 0 \in 0..d
    OBVIOUS
  <2> QED
    BY <2>1, <2>2, <2>3
<1>9. ASSUME NEW k \in Nat, k + 1 <= d PROVE back[k + 1] = Further(TRUE, back[k])
  <2>1. k + 1 \in 1..d /\ k + 1 - 1 = k
    BY <1>9
  <2> DEFINE m == k + 1
  <2>2. back[m] = Further(TRUE, back[m - 1])
    BY <1>4, <2>1
  <2> QED
    BY <2>1, <2>2
<1> DEFINE Q == {k \in Nat : k <= d => back[k] = f[k]}
<1>5. 0 \in Q
  BY <1>4 DEF Levels
<1>6. ASSUME NEW k \in Nat, k \in Q PROVE k + 1 \in Q
  <2> HIDE DEF back
  <2> SUFFICES ASSUME k + 1 <= d PROVE back[k + 1] = f[k + 1]
    OBVIOUS
  <2>1. k <= d
    OBVIOUS
  <2>2. back[k + 1] = Further(TRUE, back[k])
    BY <1>9
  <2>3. back[k] = f[k]
    BY <1>6, <2>1
  <2> QED
    BY <2>1, <2>2, <2>3 DEF Levels
<1>7. Nat \subseteq Q
  <2> HIDE DEF Q
  <2> QED
    BY <1>5, <1>6, NatSetInduction
<1> QED
  BY <1>7, <1>8

(* The rows of each depth, and what the query returns of them *)
QueryRows(tenant, upstream, n, r) ==
  /\ r[0] = {[node |-> n, visited |-> {n}]}
  /\ \A k \in Nat : r[k + 1] = UNION {Joined(tenant, upstream, row) : row \in r[k]}

(* Row q prolongs row by an edge. *)
Prolongs(upstream, row, q) ==
  /\ \E e \in edges : row.node = Behind(upstream, e) /\ q.node = Ahead(upstream, e)
  /\ q.visited = row.visited \cup {q.node}
  /\ q = [node |-> q.node, visited |-> q.visited]

LEMMA RowJoined ==
  ASSUME NEW tenant, NEW upstream \in BOOLEAN, NEW row
  PROVE  /\ \A q \in Joined(tenant, upstream, row) : Prolongs(upstream, row, q)
         /\ \A e \in edges :
              e.tenant = tenant /\ row.node = Behind(upstream, e) /\ Ahead(upstream, e) \notin row.visited =>
                [node |-> Ahead(upstream, e), visited |-> row.visited \cup {Ahead(upstream, e)}]
                  \in Joined(tenant, upstream, row)
<1>1. Joined(tenant, upstream, row) =
        {[node |-> Ahead(upstream, e), visited |-> row.visited \cup {Ahead(upstream, e)}] :
           e \in {e \in edges : /\ e.tenant = tenant /\ row.node = Behind(upstream, e)
                                /\ Ahead(upstream, e) \notin row.visited}}
  BY DEF Joined, Ahead, Behind
<1>2. ASSUME NEW q \in Joined(tenant, upstream, row)
      PROVE  Prolongs(upstream, row, q)
  <2>1. PICK e \in edges : /\ e.tenant = tenant /\ row.node = Behind(upstream, e)
                           /\ Ahead(upstream, e) \notin row.visited
                           /\ q = [node |-> Ahead(upstream, e), visited |-> row.visited \cup {Ahead(upstream, e)}]
    BY <1>1
  <2> DEFINE x == Ahead(upstream, e)
             y == row.visited \cup {Ahead(upstream, e)}
  <2>2. q = [node |-> x, visited |-> y]
    BY <2>1
  <2> HIDE DEF x, y
  <2>3. q.node = x /\ q.visited = y
    BY <2>2
  <2> QED
    BY <2>1, <2>2, <2>3 DEF x, y, Prolongs
<1>3. ASSUME NEW e \in edges, e.tenant = tenant, row.node = Behind(upstream, e), Ahead(upstream, e) \notin row.visited
      PROVE  [node |-> Ahead(upstream, e), visited |-> row.visited \cup {Ahead(upstream, e)}]
               \in Joined(tenant, upstream, row)
  BY <1>1, <1>3
<1> QED
  BY <1>2, <1>3

LEMMA RowsInside ==
  ASSUME GraphInv, NEW tenant, NEW upstream \in BOOLEAN,
         NEW row \in [node : DOMAIN nodes, visited : SUBSET DOMAIN nodes]
  PROVE  Joined(tenant, upstream, row) \subseteq [node : DOMAIN nodes, visited : SUBSET DOMAIN nodes]
<1> SUFFICES ASSUME NEW q \in Joined(tenant, upstream, row)
             PROVE  q \in [node : DOMAIN nodes, visited : SUBSET DOMAIN nodes]
  OBVIOUS
<1>0. Prolongs(upstream, row, q)
  BY RowJoined
<1>1. PICK e \in edges : /\ q.node = Ahead(upstream, e) /\ q.visited = row.visited \cup {q.node}
                         /\ q = [node |-> q.node, visited |-> q.visited]
  BY <1>0 DEF Prolongs
<1>2. q.node \in DOMAIN nodes
  BY <1>1 DEF GraphInv, Ahead
<1>3. q.visited \in SUBSET DOMAIN nodes
  BY <1>1, <1>2
<1> DEFINE x == q.node
           y == q.visited
<1> HIDE DEF x, y
<1>4. q = [node |-> x, visited |-> y] /\ x \in DOMAIN nodes /\ y \in SUBSET DOMAIN nodes
  BY <1>1, <1>2, <1>3 DEF x, y
<1> QED
  BY ONLY <1>4

LEMMA RowsExist ==
  ASSUME GraphInv, NEW tenant, NEW upstream \in BOOLEAN, NEW n \in DOMAIN nodes
  PROVE  \E r : /\ QueryRows(tenant, upstream, n, r)
                /\ Traverse(tenant, upstream, n) = {row.node : row \in UNION {r[d] : d \in 0..MaxDepth}} \ {n}
<1> DEFINE All == [node : DOMAIN nodes, visited : SUBSET DOMAIN nodes]
           T == SUBSET All
           c == {[node |-> n, visited |-> {n}]}
           Later(S) == UNION {Joined(tenant, upstream, row) : row \in S}
           D == [x \in T \X Nat |-> Later(x[1])]
           Walk(g) == [d \in 0..MaxDepth |-> IF d = 0 THEN c ELSE Later(g[d - 1])]
           from == CHOOSE g : g = Walk(g)
<1>1. c \in T
  OBVIOUS
<1>2. \A S \in T : Later(S) \in T
  <2> HIDE DEF All
  <2>1. \A row \in All : Joined(tenant, upstream, row) \subseteq All
    BY RowsInside DEF All
  <2> QED
    BY <2>1
<1>3. D \in [T \X Nat -> T] /\ \A S \in T, k \in Nat : D[<<S, k>>] = Later(S)
  <2> HIDE DEF T, Later
  <2> QED
    BY <1>2
<1>4. PICK r \in [Nat -> T] : r[0] = c /\ \A k \in Nat : r[k + 1] = D[<<r[k], k>>]
  <2> HIDE DEF T, c, D
  <2>1. Recurs(T, c, D)
    BY <1>1, <1>3, Recursion
  <2> QED
    BY <2>1 DEF Recurs
<1>5. r[0] = c /\ \A k \in Nat : r[k + 1] = Later(r[k])
  <2> HIDE DEF T, c, D, Later
  <2> QED
    BY <1>3, <1>4
<1> DEFINE h == [d \in 0..MaxDepth |-> r[d]]
<1>6. h = Walk(h)
  <2> HIDE DEF T, c, D, Later
  <2>1. ASSUME NEW d \in 0..MaxDepth PROVE h[d] = IF d = 0 THEN c ELSE Later(h[d - 1])
    <3>1. CASE d = 0
      BY <1>5, <3>1
    <3>2. CASE d # 0
      <4>1. d - 1 \in Nat /\ d - 1 + 1 = d /\ d - 1 \in 0..MaxDepth
        BY <3>2, DepthAssumption
      <4> QED
        BY <1>5, <3>2, <4>1
    <3> QED
      BY <3>1, <3>2
  <2> QED
    BY <2>1
<1>7. from = Walk(from)
  <2> HIDE DEF Walk, h
  <2> QED
    BY <1>6
<1>8. \A d \in 0..MaxDepth : from[d] = r[d]
  <2> HIDE DEF T, c, D, Later, from
  <2>1. ASSUME NEW d \in 0..MaxDepth PROVE from[d] = IF d = 0 THEN c ELSE Later(from[d - 1])
    BY <1>7
  <2> DEFINE Q == {k \in Nat : k <= MaxDepth => from[k] = r[k]}
  <2>2. 0 \in Q
    <3>1. 0 \in 0..MaxDepth
      BY DepthAssumption
    <3> QED
      BY <1>5, <2>1, <3>1
  <2>3. ASSUME NEW k \in Nat, k \in Q PROVE k + 1 \in Q
    <3> SUFFICES ASSUME k + 1 <= MaxDepth PROVE from[k + 1] = r[k + 1]
      OBVIOUS
    <3>1. k <= MaxDepth /\ k + 1 \in 0..MaxDepth /\ k + 1 - 1 = k /\ k + 1 # 0
      BY DepthAssumption
    <3>2. from[k + 1] = Later(from[k])
      BY <2>1, <3>1
    <3>3. from[k] = r[k]
      BY <2>3, <3>1
    <3> QED
      BY <1>5, <3>2, <3>3
  <2>4. Nat \subseteq Q
    <3> HIDE DEF Q
    <3> QED
      BY <2>2, <2>3, NatSetInduction
  <2> QED
    BY <2>4, DepthAssumption
<1>9. Traverse(tenant, upstream, n) = {row.node : row \in UNION {from[d] : d \in 0..MaxDepth}} \ {n}
  BY DEF Traverse
<1> HIDE DEF from
<1>10. {from[d] : d \in 0..MaxDepth} = {r[d] : d \in 0..MaxDepth}
  BY <1>8
<1>11. QueryRows(tenant, upstream, n, r)
  BY <1>5 DEF QueryRows
<1> QED
  BY <1>9, <1>10, <1>11

(* Every row of a depth names a node of its level. *)
LEMMA RowsReach ==
  ASSUME NEW tenant, NEW upstream \in BOOLEAN, NEW n, NEW r, QueryRows(tenant, upstream, n, r),
         NEW f, Levels(upstream, n, f)
  PROVE  \A d \in Nat : \A row \in r[d] : row.node \in f[d]
<1> DEFINE Q == {d \in Nat : \A row \in r[d] : row.node \in f[d]}
<1>1. 0 \in Q
  BY DEF QueryRows, Levels
<1>2. ASSUME NEW d \in Nat, d \in Q PROVE d + 1 \in Q
  <2>1. ASSUME NEW q \in r[d + 1] PROVE q.node \in f[d + 1]
    <3>1. PICK row \in r[d] : q \in Joined(tenant, upstream, row)
      BY DEF QueryRows
    <3>4. Prolongs(upstream, row, q)
      BY <3>1, RowJoined
    <3>2. PICK e \in edges : row.node = Behind(upstream, e) /\ q.node = Ahead(upstream, e)
      BY <3>4 DEF Prolongs
    <3>3. Behind(upstream, e) \in f[d]
      BY <1>2, <3>1, <3>2
    <3> QED
      BY <3>2, <3>3 DEF Levels, Further
  <2> QED
    BY <2>1
<1> HIDE DEF Q
<1>3. Nat \subseteq Q
  BY <1>1, <1>2, NatSetInduction
<1> QED
  BY <1>3 DEF Q

(* A node new at a level is named by a row of that depth, which visited    *)
(* nothing beyond the level.                                               *)
NewAt(f, d) == IF d = 0 THEN f[0] ELSE f[d] \ f[d - 1]

LEMMA RowsComplete ==
  ASSUME GraphInv, NEW upstream \in BOOLEAN, NEW n \in DOMAIN nodes, NEW r, QueryRows(nodes[n], upstream, n, r),
         NEW f, Levels(upstream, n, f)
  PROVE  \A d \in Nat : \A a \in NewAt(f, d) : \E row \in r[d] : row.node = a /\ row.visited \subseteq f[d]
<1> DEFINE Q == {d \in Nat : \A a \in NewAt(f, d) : \E row \in r[d] : row.node = a /\ row.visited \subseteq f[d]}
<1>1. 0 \in Q
  BY ZenonT(60), SMTT(30) DEF QueryRows, Levels, NewAt
<1>2. ASSUME NEW d \in Nat, d \in Q PROVE d + 1 \in Q
  <2>1. ASSUME NEW a \in NewAt(f, d + 1)
        PROVE  \E row \in r[d + 1] : row.node = a /\ row.visited \subseteq f[d + 1]
    <3>0. d + 1 # 0 /\ d + 1 - 1 = d /\ d + 1 \in Nat
      OBVIOUS
    <3>1. a \in f[d + 1] /\ a \notin f[d]
      BY <3>0 DEF NewAt
    <3>2. PICK e \in edges : Behind(upstream, e) \in f[d] /\ a = Ahead(upstream, e)
      BY <3>1 DEF Levels, Further
    <3>3. Behind(upstream, e) \in NewAt(f, d)
      <4>1. CASE d = 0
        BY <3>2, <4>1 DEF NewAt
      <4>2. CASE d # 0
        <5>1. d - 1 \in Nat /\ d - 1 + 1 = d
          BY <4>2
        <5>2. Behind(upstream, e) \notin f[d - 1]
          BY <3>1, <3>2, <5>1 DEF Levels, Further
        <5> QED
          BY <3>2, <4>2, <5>2 DEF NewAt
      <4> QED
        BY <4>1, <4>2
    <3>4. PICK row \in r[d] : row.node = Behind(upstream, e) /\ row.visited \subseteq f[d]
      BY <1>2, <3>3
    <3>5. e.tenant = nodes[n]
      <4>1. Behind(upstream, e) \in NodesOf(nodes[n])
        BY <3>2, LevelsOfTenant
      <4> QED
        BY <4>1 DEF NodesOf, Behind, GraphInv
    <3>6. a \notin row.visited
      BY <3>1, <3>4
    <3> DEFINE y == row.visited \cup {a}
               q == [node |-> a, visited |-> y]
    <3>7. q \in Joined(nodes[n], upstream, row)
      <4>1. \A x \in edges : x.tenant = nodes[n] /\ row.node = Behind(upstream, x)
                         /\ Ahead(upstream, x) \notin row.visited =>
              [node |-> Ahead(upstream, x), visited |-> row.visited \cup {Ahead(upstream, x)}]
                  \in Joined(nodes[n], upstream, row)
        BY RowJoined, Zenon
      <4> QED
        BY <3>2, <3>4, <3>5, <3>6, <4>1
    <3>8. f[d] \subseteq f[d + 1]
      BY DEF Levels, Further
    <3>9. y \subseteq f[d + 1]
      BY <3>1, <3>4, <3>8
    <3> HIDE DEF y
    <3>10. q.node = a /\ q.visited = y
      OBVIOUS
    <3> HIDE DEF q
    <3>11. q \in r[d + 1]
      BY <3>4, <3>7 DEF QueryRows
    <3> QED
      BY <3>9, <3>10, <3>11
  <2> QED
    BY <2>1
<1> HIDE DEF Q
<1>3. Nat \subseteq Q
  BY <1>1, <1>2, NatSetInduction
<1> QED
  BY <1>3 DEF Q

(* Every node of a level is new at one that is not later. *)
LEMMA LevelsAreNew ==
  ASSUME NEW upstream \in BOOLEAN, NEW n, NEW f, Levels(upstream, n, f)
  PROVE  \A d \in Nat : \A a \in f[d] : \E k \in 0..d : a \in NewAt(f, k)
<1> DEFINE Q == {d \in Nat : \A a \in f[d] : \E k \in 0..d : a \in NewAt(f, k)}
<1>1. 0 \in Q
  BY DEF NewAt
<1>2. ASSUME NEW d \in Nat, d \in Q PROVE d + 1 \in Q
  <2>0. d + 1 # 0 /\ d + 1 - 1 = d /\ d + 1 \in 0..(d + 1) /\ \A k \in 0..d : k \in 0..(d + 1)
    OBVIOUS
  <2>1. \A a \in f[d + 1] : a \in f[d] \/ a \in NewAt(f, d + 1)
    BY <2>0 DEF NewAt
  <2>2. \A a \in f[d] : \E k \in 0..d : a \in NewAt(f, k)
    BY <1>2
  <2>3. \A a \in f[d + 1] : \E k \in 0..(d + 1) : a \in NewAt(f, k)
    BY <2>0, <2>1, <2>2
  <2> QED
    BY <2>3
<1> HIDE DEF Q
<1>3. Nat \subseteq Q
  BY <1>1, <1>2, NatSetInduction
<1> QED
  BY <1>3 DEF Q

(* The query returns the nodes of its last level, and of another tenant    *)
(* nothing more.                                                           *)
LEMMA TraverseReaches ==
  ASSUME GraphInv, NEW tenant, NEW upstream \in BOOLEAN, NEW n \in DOMAIN nodes, NEW f, Levels(upstream, n, f)
  PROVE  /\ Traverse(tenant, upstream, n) \subseteq f[MaxDepth] \ {n}
         /\ tenant = nodes[n] => Traverse(tenant, upstream, n) = f[MaxDepth] \ {n}
<1>1. PICK r : /\ QueryRows(tenant, upstream, n, r)
               /\ Traverse(tenant, upstream, n) = {row.node : row \in UNION {r[d] : d \in 0..MaxDepth}} \ {n}
  BY RowsExist
<1>2. \A d \in Nat : \A row \in r[d] : row.node \in f[d]
  BY <1>1, RowsReach
<1>3. \A d \in 0..MaxDepth : f[d] \subseteq f[MaxDepth]
  BY LevelsGrow, DepthAssumption
<1>4. Traverse(tenant, upstream, n) \subseteq f[MaxDepth] \ {n}
  BY <1>1, <1>2, <1>3
<1>5. ASSUME tenant = nodes[n] PROVE f[MaxDepth] \ {n} \subseteq Traverse(tenant, upstream, n)
  <2>1. ASSUME NEW a \in f[MaxDepth], a # n PROVE a \in Traverse(tenant, upstream, n)
    <3>1. PICK k \in 0..MaxDepth : a \in NewAt(f, k)
      BY LevelsAreNew, DepthAssumption
    <3>2. \E row \in r[k] : row.node = a
      BY <1>1, <1>5, <3>1, RowsComplete
    <3> QED
      BY <1>1, <2>1, <3>2
  <2> QED
    BY <2>1
<1> QED
  BY <1>4, <1>5

(* A first step and then a level, instead of a level and then a last step  *)
AllLevels(upstream, F) == \A n \in DOMAIN nodes : Levels(upstream, n, F[n])
AfterFirst(upstream, F, n, d) == UNION {F[Ahead(upstream, e)][d] : e \in {e \in edges : Behind(upstream, e) = n}}

LEMMA FirstStep ==
  ASSUME GraphInv, NEW upstream \in BOOLEAN, NEW F, AllLevels(upstream, F), NEW n \in DOMAIN nodes
  PROVE  \A d \in Nat : F[n][d + 1] = F[n][d] \cup AfterFirst(upstream, F, n, d)
<1> DEFINE Out == {e \in edges : Behind(upstream, e) = n}
           G(d) == UNION {F[Ahead(upstream, e)][d] : e \in Out}
           Q == {d \in Nat : F[n][d + 1] = F[n][d] \cup G(d)}
<1> USE DEF AllLevels
<1>0. \A e \in Out : Ahead(upstream, e) \in DOMAIN nodes
  BY DEF Ahead, GraphInv
<1>1. \A S, U : Further(upstream, S \cup U) = Further(upstream, S) \cup Further(upstream, U)
  BY DEF Further
<1>2. \A d \in Nat : G(d + 1) = Further(upstream, G(d))
  <2> SUFFICES ASSUME NEW d \in Nat PROVE G(d + 1) = Further(upstream, G(d))
    OBVIOUS
  <2>1. \A e \in Out : F[Ahead(upstream, e)][d + 1] = Further(upstream, F[Ahead(upstream, e)][d])
    BY <1>0 DEF Levels
  <2>2. G(d + 1) = UNION {Further(upstream, F[Ahead(upstream, e)][d]) : e \in Out}
    BY <2>1
  <2> HIDE DEF Out
  <2>3. UNION {Further(upstream, F[Ahead(upstream, e)][d]) : e \in Out} = Further(upstream, G(d))
    BY DEF Further
  <2> QED
    BY <2>2, <2>3
<1>3. 0 \in Q
  <2>1. F[n][0] = {n} /\ F[n][0 + 1] = Further(upstream, {n})
    BY DEF Levels
  <2>2. G(0) = {Ahead(upstream, e) : e \in Out}
    <3>1. \A e \in Out : F[Ahead(upstream, e)][0] = {Ahead(upstream, e)}
      BY <1>0 DEF Levels
    <3> QED
      BY <3>1
  <2>3. Further(upstream, {n}) = {n} \cup {Ahead(upstream, e) : e \in Out}
    BY DEF Further
  <2> HIDE DEF G, Out
  <2> QED
    BY <2>1, <2>2, <2>3
<1>4. ASSUME NEW d \in Nat, d \in Q PROVE d + 1 \in Q
  <2> HIDE DEF G, Out
  <2>0. \A k \in Nat : F[n][k + 1] = Further(upstream, F[n][k])
    BY DEF Levels
  <2> DEFINE m == d + 1
  <2>4. m \in Nat
    OBVIOUS
  <2>1. F[n][m] = Further(upstream, F[n][d])
    BY <2>0
  <2>2. F[n][m] = F[n][d] \cup G(d) /\ G(m) = Further(upstream, G(d))
    BY <1>2, <1>4
  <2>6. F[n][m + 1] = Further(upstream, F[n][m])
    <3> HIDE DEF m
    <3> QED
      BY <2>0, <2>4
  <2>5. Further(upstream, F[n][d] \cup G(d)) = Further(upstream, F[n][d]) \cup Further(upstream, G(d))
    BY <1>1
  <2>7. F[n][m + 1] = F[n][m] \cup G(m)
    <3> HIDE DEF m
    <3> QED
      BY ONLY <2>1, <2>2, <2>5, <2>6
  <2> QED
    BY <2>7
<1>5. Nat \subseteq Q
  <2> HIDE DEF Q
  <2> QED
    BY <1>3, <1>4, NatSetInduction
<1> QED
  BY <1>5 DEF AfterFirst

(* Upstream of n is what n is downstream of. *)
LEMMA BothWays ==
  ASSUME GraphInv, NEW U, NEW D, \A n \in DOMAIN nodes : Levels(TRUE, n, U[n]) /\ Levels(FALSE, n, D[n])
  PROVE  \A d \in Nat : \A n, a \in DOMAIN nodes : a \in U[n][d] <=> n \in D[a][d]
<1> DEFINE Q == {d \in Nat : \A n, a \in DOMAIN nodes : a \in U[n][d] <=> n \in D[a][d]}
<1>1. 0 \in Q
  <2>1. \A x \in DOMAIN nodes : U[x][0] = {x} /\ D[x][0] = {x}
    BY DEF Levels
  <2> QED
    BY <2>1
<1>4. AllLevels(FALSE, D)
  BY DEF AllLevels
<1>2. ASSUME NEW d \in Nat, d \in Q PROVE d + 1 \in Q
  <2> SUFFICES ASSUME NEW n \in DOMAIN nodes, NEW a \in DOMAIN nodes
               PROVE  a \in U[n][d + 1] <=> n \in D[a][d + 1]
    OBVIOUS
  <2>1. a \in U[n][d + 1] <=> a \in U[n][d] \/ \E e \in edges : e.target \in U[n][d] /\ a = e.source
    BY DEF Levels, Further, Ahead, Behind
  <2>2. n \in D[a][d + 1] <=> n \in D[a][d] \/ \E e \in edges : e.source = a /\ n \in D[e.target][d]
    <3>1. D[a][d + 1] = D[a][d] \cup AfterFirst(FALSE, D, a, d)
      BY <1>4, FirstStep
    <3> QED
      BY <3>1 DEF AfterFirst, Ahead, Behind
  <2>3. \A e \in edges : e.target \in DOMAIN nodes
    BY DEF GraphInv
  <2>4. \A x, y \in DOMAIN nodes : y \in U[x][d] <=> x \in D[y][d]
    BY <1>2
  <2> QED
    BY <2>1, <2>2, <2>3, <2>4
<1> HIDE DEF Q
<1>3. Nat \subseteq Q
  BY <1>1, <1>2, NatSetInduction
<1> QED
  BY <1>3 DEF Q

LEMMA GraphIsExact ==
  ASSUME GraphInv
  PROVE  AncestryIsExact
<1>1. \A b \in BOOLEAN : \A n \in DOMAIN nodes : \E f \in [Nat -> SUBSET DOMAIN nodes] : Levels(b, n, f)
  BY LevelsExist
<1> DEFINE F == [b \in BOOLEAN |-> [n \in DOMAIN nodes |->
                   CHOOSE f \in [Nat -> SUBSET DOMAIN nodes] : Levels(b, n, f)]]
           U == F[TRUE]
           D == F[FALSE]
<1>2. \A n \in DOMAIN nodes : Levels(TRUE, n, U[n]) /\ Levels(FALSE, n, D[n])
  BY <1>1
<1> HIDE DEF F
<1>3. \A n \in DOMAIN nodes : \A t : /\ Traverse(t, TRUE, n) \subseteq U[n][MaxDepth] \ {n}
                                     /\ t = nodes[n] => Traverse(t, TRUE, n) = U[n][MaxDepth] \ {n}
  BY <1>2, TraverseReaches
<1>4. \A n \in DOMAIN nodes : \A t : /\ Traverse(t, FALSE, n) \subseteq D[n][MaxDepth] \ {n}
                                     /\ t = nodes[n] => Traverse(t, FALSE, n) = D[n][MaxDepth] \ {n}
  BY <1>2, TraverseReaches
<1>5. \A n, a \in DOMAIN nodes : a \in U[n][MaxDepth] <=> n \in D[a][MaxDepth]
  BY <1>2, BothWays, DepthAssumption
<1>6. \A n \in DOMAIN nodes : /\ U[n][MaxDepth] \subseteq NodesOf(nodes[n])
                              /\ D[n][MaxDepth] \subseteq NodesOf(nodes[n])
  BY <1>2, LevelsOfTenant, DepthAssumption
<1>7. \A n \in DOMAIN nodes : Within(n, MaxDepth) = U[n][MaxDepth]
  BY <1>2, WithinIsLevels, DepthAssumption
<1> SUFFICES ASSUME NEW n \in DOMAIN nodes
             PROVE  /\ ResolveUpstream(nodes[n], n) = Within(n, MaxDepth) \ {n}
                    /\ ResolveUpstream(nodes[n], n) \subseteq NodesOf(nodes[n])
                    /\ \A a \in DOMAIN nodes :
                         a \in ResolveUpstream(nodes[n], n) <=> n \in ResolveDownstream(nodes[n], a)
  BY DEF AncestryIsExact
<1>8. ResolveUpstream(nodes[n], n) = U[n][MaxDepth] \ {n}
  BY <1>3 DEF ResolveUpstream
<1>9. ASSUME NEW a \in DOMAIN nodes
      PROVE  a \in ResolveUpstream(nodes[n], n) <=> n \in ResolveDownstream(nodes[n], a)
  <2>1. CASE nodes[a] = nodes[n]
    <3>1. ResolveDownstream(nodes[n], a) = D[a][MaxDepth] \ {a}
      BY <1>4, <2>1 DEF ResolveDownstream
    <3> QED
      BY <1>5, <1>8, <3>1
  <2>2. CASE nodes[a] # nodes[n]
    <3>1. a \notin U[n][MaxDepth] /\ n \notin D[a][MaxDepth]
      BY <1>6, <2>2 DEF NodesOf
    <3>2. ResolveDownstream(nodes[n], a) \subseteq D[a][MaxDepth]
      BY <1>4 DEF ResolveDownstream
    <3> QED
      BY <1>8, <3>1, <3>2
  <2> QED
    BY <2>1, <2>2
<1> QED
  BY <1>6, <1>7, <1>8, <1>9

LEMMA GraphIsKept ==
  ASSUME GraphInv, [GraphNext]_graphVars
  PROVE  GraphInv'
<1>1. ASSUME NEW tenant \in Owners, AppendNode(tenant) PROVE GraphInv'
  <2>1. /\ nodes' = Append(nodes, tenant) /\ edges' = edges /\ nodes \in Seq(Owners)
    BY <1>1 DEF AppendNode, GraphInv
  <2>2. nodes' \in Seq(Owners) /\ \A n \in DOMAIN nodes : n \in DOMAIN nodes' /\ nodes'[n] = nodes[n]
    BY ONLY <2>1, tenant \in Owners, AppendProperties
  <2> QED
    BY <2>1, <2>2 DEF GraphInv
<1>2. ASSUME NEW tenant \in Owners, NEW s \in DOMAIN nodes, NEW t \in DOMAIN nodes, AppendEdge(tenant, s, t)
      PROVE  GraphInv'
  <2> DEFINE new == [tenant |-> tenant, source |-> s, target |-> t]
  <2>1. nodes' = nodes /\ edges' = edges \cup {new} /\ nodes[s] = tenant /\ nodes[t] = tenant
    BY <1>2 DEF AppendEdge, EndsBelong, NodesOf
  <2>2. new.tenant = tenant /\ new.source = s /\ new.target = t
    OBVIOUS
  <2> HIDE DEF new
  <2> QED
    BY <2>1, <2>2 DEF GraphInv
<1>3. CASE UNCHANGED graphVars
  BY <1>3 DEF graphVars, GraphInv
<1> QED
  BY <1>1, <1>2, <1>3 DEF GraphNext

(* Whatever nodes and edges are appended, cycles among them or not, a      *)
(* query returns every ancestor within max_depth and nothing else, its     *)
(* converse agrees, and both stay within the tenant (service.py).          *)
THEOREM AncestryCorrect == GraphSpec => []AncestryIsExact
<1>1. GraphInit => GraphInv
  BY EmptySeq DEF GraphInit, GraphInv
<1>2. GraphInv /\ [GraphNext]_graphVars => GraphInv'
  BY GraphIsKept
<1>3. GraphInv => AncestryIsExact
  BY GraphIsExact
<1> QED
  BY <1>1, <1>2, <1>3, PTL DEF GraphSpec

-----------------------------------------------------------------------------
(* The matched-budget harness *)
HarnessSpec == HarnessInit /\ [][HarnessNext]_runVars

Tokens == {"input", "output"}
HarnessInv ==
  /\ meter \in [BudgetDimensions -> Nat] /\ billed \in [Tokens -> Nat] /\ reserved \in [Tokens -> Nat]
  /\ \A d \in Tokens : billed[d] <= meter[d] /\ meter[d] <= Limit[d]
  /\ \A i \in DOMAIN runs : \A d \in Tokens : runs[i].billed[d] <= Limit[d]
  /\ meter["calls"] <= Limit["calls"]
  /\ runPc = "dialling" => \A d \in Tokens : billed[d] + reserved[d] <= meter[d]

(* What the steps of a run leave of the invariant when they charge a cost  *)
LEMMA ChargeKept ==
  ASSUME HarnessInv, NEW c \in [BudgetDimensions -> Nat], Charge(c)
  PROVE  /\ meter' \in [BudgetDimensions -> Nat]
         /\ \A d \in Tokens : meter'[d] = meter[d] + c[d] /\ meter'[d] <= Limit[d]
         /\ meter'["calls"] <= Limit["calls"]
  BY DEF HarnessInv, Charge, Fits, WithinBudget, Plus, Ceiling, Tokens, BudgetDimensions

LEMMA CompletedKept ==
  ASSUME HarnessInv, NEW claim, NEW i \in Nat, NEW o \in Nat,
         Completed(claim, [input |-> i, output |-> o]),
         meter' \in [BudgetDimensions -> Nat], meter'["calls"] <= Limit["calls"],
         \A d \in Tokens : meter'[d] <= Limit[d],
         billed["input"] + i <= meter'["input"], billed["output"] + o <= meter'["output"],
         UNCHANGED reserved
  PROVE  HarnessInv'
<1>1. /\ runs' = runs /\ runPc' # "dialling"
      /\ billed' = [input |-> billed.input + i, output |-> billed.output + o]
  BY DEF Completed
<1>2. billed' \in [Tokens -> Nat] /\ \A d \in Tokens : billed'[d] <= meter'[d]
  BY <1>1 DEF HarnessInv, Tokens
<1> QED
  BY <1>1, <1>2 DEF HarnessInv

LEMMA StopKept ==
  ASSUME HarnessInv, NEW reason, StopWith(reason), UNCHANGED reserved,
         meter' \in [BudgetDimensions -> Nat], meter'["calls"] <= Limit["calls"],
         \A d \in Tokens : billed[d] <= meter'[d] /\ meter'[d] <= Limit[d]
  PROVE  HarnessInv'
  BY DEF HarnessInv, StopWith

LEMMA HarnessKept ==
  ASSUME HarnessInv, [HarnessNext]_runVars
  PROVE  HarnessInv'
<1> USE HarnessAssumption
<1>1. CASE CheckpointFails
  BY <1>1, StopKept DEF CheckpointFails, HarnessInv
<1>2. CASE ScriptedAttempt
  <2>1. PICK input \in 1..MaxCost, claim \in BOOLEAN :
          LET cost == [input |-> input, output |-> 1, calls |-> IF AllowTools(Arms[arm]) THEN 1 ELSE 0, wall |-> 0] IN
            \/ ~Fits(cost) /\ StopWith("budget_exhausted") /\ UNCHANGED meter
            \/ Charge(cost) /\ Completed(claim, cost)
    BY <1>2 DEF ScriptedAttempt
  <2>0. UNCHANGED reserved
    BY <1>2 DEF ScriptedAttempt
  <2> DEFINE used == IF AllowTools(Arms[arm]) THEN 1 ELSE 0
             cost == [input |-> input, output |-> 1, calls |-> used, wall |-> 0]
  <2>2. CASE StopWith("budget_exhausted") /\ UNCHANGED meter
    BY <2>0, <2>2, StopKept DEF HarnessInv
  <2>3. CASE Charge(cost) /\ Completed(claim, cost)
    <3>0. used \in Nat /\ input \in Nat
      OBVIOUS
    <3> HIDE DEF used
    <3>1. cost \in [BudgetDimensions -> Nat] /\ cost["input"] = input /\ cost["output"] = 1
      BY <3>0 DEF BudgetDimensions
    <3>2. /\ meter' \in [BudgetDimensions -> Nat]
          /\ \A d \in Tokens : meter'[d] = meter[d] + cost[d] /\ meter'[d] <= Limit[d]
          /\ meter'["calls"] <= Limit["calls"]
      BY <2>3, <3>1, ChargeKept
    <3> DEFINE small == [input |-> input, output |-> 1]
    <3>3. Completed(claim, small)
      BY <2>3 DEF Completed
    <3>4. billed["input"] + input <= meter'["input"] /\ billed["output"] + 1 <= meter'["output"]
      BY <3>0, <3>1, <3>2 DEF HarnessInv, Tokens, BudgetDimensions
    <3> QED
      BY <2>0, <3>0, <3>2, <3>3, <3>4, CompletedKept
  <2> QED
    BY <2>1, <2>2, <2>3
<1>3. CASE BackendFails
  BY <1>3, StopKept DEF BackendFails, HarnessInv
<1>4. CASE Reserve
  <2>1. PICK input \in 1..MaxCost :
          LET cost == Reservation(input) IN
            \/ /\ ~Fits(cost)
               /\ StopWith("budget_exhausted")
               /\ UNCHANGED <<meter, reserved>>
            \/ /\ Charge(cost)
               /\ reserved' = [input |-> cost.input, output |-> cost.output]
               /\ runPc' = "dialling"
               /\ UNCHANGED <<arm, claims, stop, billed, runs>>
    BY <1>4 DEF Reserve
  <2>2. CASE StopWith("budget_exhausted") /\ UNCHANGED <<meter, reserved>>
    BY <2>2, StopKept DEF HarnessInv
  <2> DEFINE out == Lesser(MaxPerCall, Remaining("output"))
             cost == Reservation(input)
  <2>3. CASE /\ Charge(cost) /\ reserved' = [input |-> cost.input, output |-> cost.output]
             /\ UNCHANGED <<billed, runs>>
    <3>0. out \in Nat /\ input \in Nat
      <4>1. meter["output"] \in Nat /\ Limit["output"] \in Nat
        BY DEF HarnessInv, BudgetDimensions, TaskBudgets
      <4>2. Remaining("output") \in Nat
        BY <4>1 DEF Remaining, Ceiling
      <4> QED
        BY <4>2 DEF Lesser
    <3>1. /\ cost \in [BudgetDimensions -> Nat] /\ cost["input"] = input /\ cost["output"] = out
          /\ cost.input = input /\ cost.output = out
      <4> HIDE DEF out
      <4>1. cost = [input |-> input, output |-> out, calls |-> 0, wall |-> 0]
        BY DEF Reservation, out
      <4> HIDE DEF cost
      <4> QED
        BY <3>0, <4>1 DEF BudgetDimensions
    <3> HIDE DEF cost, out
    <3>2. /\ meter' \in [BudgetDimensions -> Nat]
          /\ \A d \in Tokens : meter'[d] = meter[d] + cost[d] /\ meter'[d] <= Limit[d]
          /\ meter'["calls"] <= Limit["calls"]
      BY <2>3, <3>1, ChargeKept
    <3>3. reserved' \in [Tokens -> Nat] /\ \A d \in Tokens : reserved'[d] = cost[d]
      BY <2>3, <3>0, <3>1 DEF Tokens
    <3>4. \A d \in Tokens : /\ billed[d] + reserved'[d] <= meter'[d] /\ billed[d] <= meter'[d]
                            /\ billed[d] \in Nat /\ meter[d] \in Nat
      <4>1. \A d \in Tokens : billed[d] <= meter[d] /\ billed[d] \in Nat /\ meter[d] \in Nat
        BY DEF HarnessInv, Tokens, BudgetDimensions
      <4>2. \A d \in Tokens : reserved'[d] = cost[d] /\ cost[d] \in Nat /\ meter'[d] = meter[d] + cost[d]
        BY <3>0, <3>1, <3>2, <3>3 DEF Tokens
      <4> QED
        BY <4>1, <4>2
    <3> QED
      BY <2>3, <3>2, <3>3, <3>4 DEF HarnessInv
  <2> QED
    BY <2>1, <2>2, <2>3
<1>5. CASE ReconcileUsage
  <2>1. PICK input \in 1..(MaxCost + 1), out \in 0..reserved.output, claim \in BOOLEAN :
         LET missed == [Zero EXCEPT !.input = IF input > reserved.input THEN input - reserved.input ELSE 0]
             settled == Plus(Refunded(out), missed)
         IN  \/ ~WithinBudget(settled) /\ meter' = Refunded(out) /\ StopWith("budget_exhausted")
             \/ WithinBudget(settled) /\ meter' = settled
                              /\ Completed(claim, [input |-> input, output |-> out])
    BY <1>5 DEF ReconcileUsage
  <2> DEFINE over == IF input > reserved["input"] THEN input - reserved["input"] ELSE 0
             missed == [Zero EXCEPT !.input = over]
             settled == Plus(Refunded(out), missed)
  <2>2. /\ runPc = "dialling" /\ UNCHANGED reserved
    BY <1>5 DEF ReconcileUsage
  <2>3. /\ reserved["input"] \in Nat /\ reserved["output"] \in Nat /\ input \in Nat /\ out \in Nat
        /\ out <= reserved["output"] /\ over \in Nat
        /\ input <= reserved["input"] + over
    BY DEF HarnessInv, Tokens
  <2>4. \A d \in Tokens : /\ billed[d] + reserved[d] <= meter[d] /\ meter[d] <= Limit[d]
                          /\ billed[d] \in Nat /\ meter[d] \in Nat /\ Limit[d] \in Nat
    BY <2>2 DEF HarnessInv, Tokens, BudgetDimensions, TaskBudgets
  <2> HIDE DEF over
  <2>5. /\ Refunded(out) \in [BudgetDimensions -> Nat]
        /\ Refunded(out)["input"] = meter["input"] /\ Refunded(out)["calls"] = meter["calls"]
        /\ Refunded(out)["output"] = meter["output"] - (reserved["output"] - out)
    <3>1. meter["output"] - (reserved["output"] - out) \in Nat
      BY <2>3, <2>4 DEF Tokens
    <3>2. meter \in [BudgetDimensions -> Nat]
      BY DEF HarnessInv
    <3> DEFINE v == meter["output"] - (reserved["output"] - out)
    <3>3. Refunded(out) = [meter EXCEPT !["output"] = v]
      BY DEF Refunded
    <3> HIDE DEF v
    <3>4. v \in Nat
      BY <3>1 DEF v
    <3> QED
      BY <3>2, <3>3, <3>4 DEF BudgetDimensions, v
  <2>6. CASE meter' = Refunded(out) /\ StopWith("budget_exhausted")
    <3>1. /\ meter' \in [BudgetDimensions -> Nat] /\ meter'["calls"] <= Limit["calls"]
      BY <2>5, <2>6 DEF HarnessInv
    <3>2. \A d \in Tokens : billed[d] <= meter'[d] /\ meter'[d] <= Limit[d]
      BY <2>3, <2>4, <2>5, <2>6 DEF Tokens
    <3> QED
      BY <2>2, <2>6, <3>1, <3>2, StopKept
  <2>7. CASE WithinBudget(settled) /\ meter' = settled /\ Completed(claim, [input |-> input, output |-> out])
    <3>1. missed \in [BudgetDimensions -> Nat] /\ missed["input"] = over /\ missed["output"] = 0
      BY <2>3 DEF Zero, BudgetDimensions
    <3> HIDE DEF missed
    <3>2. /\ settled \in [BudgetDimensions -> Nat]
          /\ settled["input"] = meter["input"] + over
          /\ settled["output"] = meter["output"] - (reserved["output"] - out)
      <4>1. \A d \in BudgetDimensions : settled[d] = Refunded(out)[d] + missed[d]
        BY <2>5 DEF Plus
      <4>2. DOMAIN settled = BudgetDimensions /\ settled = [d \in BudgetDimensions |-> settled[d]]
        BY <2>5 DEF Plus
      <4>3. \A d \in BudgetDimensions : Refunded(out)[d] \in Nat /\ missed[d] \in Nat
        BY <2>5, <3>1
      <4> HIDE DEF settled
      <4>5. settled \in [BudgetDimensions -> Nat]
        BY <4>1, <4>2, <4>3
      <4>6. "input" \in BudgetDimensions /\ "output" \in BudgetDimensions
        BY DEF BudgetDimensions
      <4> QED
        BY <2>3, <2>4, <2>5, <3>1, <4>1, <4>3, <4>5, <4>6 DEF Tokens
    <3>3. \A d \in BudgetDimensions : settled[d] <= Limit[d]
      BY <2>7 DEF WithinBudget, Ceiling
    <3> HIDE DEF settled
    <3>4. billed["input"] + input <= meter'["input"] /\ billed["output"] + out <= meter'["output"]
      BY <2>3, <2>4, <2>7, <3>2 DEF Tokens
    <3>5. /\ meter'["calls"] <= Limit["calls"] /\ \A d \in Tokens : meter'[d] <= Limit[d]
      BY <2>7, <3>3 DEF Tokens, BudgetDimensions
    <3> QED
      BY <2>2, <2>3, <2>7, <3>2, <3>4, <3>5, CompletedKept
  <2> QED
    BY <2>1, <2>6, <2>7 DEF over
<1>6. CASE TimePasses
  BY <1>6 DEF TimePasses, HarnessInv, BudgetDimensions, Tokens
<1>7. CASE RecordRun
  <2> DEFINE row == [kind |-> Arms[arm].kind, stop |-> stop, attempts |-> Len(claims), billed |-> billed,
                     success |-> stop # "backend_error" /\ Verified(Arms[arm], claims)]
  <2>1. /\ runs' = Append(runs, row) /\ runPc' # "dialling"
        /\ meter' = Zero /\ reserved' = NoTokens /\ billed' = NoTokens
    BY <1>7 DEF RecordRun
  <2>2. row.billed = billed
    OBVIOUS
  <2> HIDE DEF row
  <2>3. \A d \in Tokens : billed[d] <= Limit[d]
    BY DEF HarnessInv, Tokens, BudgetDimensions, TaskBudgets
  <2>4. \A i \in DOMAIN runs' : (i \in DOMAIN runs /\ runs'[i] = runs[i]) \/ runs'[i] = row
    BY <2>1
  <2>5. \A i \in DOMAIN runs' : \A d \in Tokens : runs'[i].billed[d] <= Limit[d]
    BY <2>2, <2>3, <2>4 DEF HarnessInv
  <2>6. /\ Zero \in [BudgetDimensions -> Nat] /\ NoTokens \in [Tokens -> Nat]
        /\ \A d \in BudgetDimensions : Zero[d] = 0 /\ Limit[d] \in Nat
        /\ \A d \in Tokens : NoTokens[d] = 0 /\ d \in BudgetDimensions
    BY DEF Zero, NoTokens, Tokens, BudgetDimensions, TaskBudgets
  <2> QED
    BY <2>1, <2>5, <2>6, SMTT(30), ZenonT(60) DEF HarnessInv, BudgetDimensions
<1>8. CASE UNCHANGED runVars
  BY <1>8 DEF runVars, HarnessInv
<1> QED
  BY <1>1, <1>2, <1>3, <1>4, <1>5, <1>6, <1>7, <1>8 DEF HarnessNext

(* Every attempt that counts fits the envelope all arms share, whatever    *)
(* was reserved, refunded or cut short (budgets.py, backends.py).          *)
THEOREM HarnessCorrect == HarnessSpec => []CountedAttemptsFitBudget
<1>1. HarnessInit => HarnessInv
  BY HarnessAssumption DEF HarnessInit, HarnessInv, Zero, NoTokens, Tokens, BudgetDimensions, TaskBudgets
<1>2. HarnessInv /\ [HarnessNext]_runVars => HarnessInv'
  BY HarnessKept
<1>3. HarnessInv => CountedAttemptsFitBudget
  BY DEF HarnessInv, CountedAttemptsFitBudget, Tokens
<1> QED
  BY <1>1, <1>2, <1>3, PTL DEF HarnessSpec

-----------------------------------------------------------------------------
(* Promotion *)
PromotionSpec == PromotionInit /\ [][PromotionNext]_promotionVars

LEMMA QuotientSign ==
  ASSUME NEW w \in Int, NEW n \in Nat \ {0}
  PROVE  (w \div n) \in Int /\ (w <= 0 => (w \div n) <= 0)
  OBVIOUS

(* A mean of numbers is one, and not above zero when none of them is. *)
MeanSound(n, scores) ==
  /\ Mean(scores) \in Int
  /\ (\A t \in 1..n : scores[t] <= 0) => Mean(scores) <= 0

LEMMA MeanIs ==
  ASSUME NEW n, n \in Nat \ {0}, NEW scores, scores \in [1..n -> Int]
  PROVE  MeanSound(n, scores)
<1>0. Len(scores) = n
  <2>1. scores \in Seq(Int)
    OBVIOUS
  <2> QED
    BY <2>1
<1> DEFINE score(k) == IF k \in 1..n THEN scores[k] ELSE 0
           D == [x \in Int \X Nat |-> x[1] + score(x[2] + 1)]
           Sums(g) == [k \in 0..n |-> IF k = 0 THEN 0 ELSE g[k - 1] + scores[k]]
           sum == CHOOSE g : g = Sums(g)
<1>1. \A k \in Nat : score(k) \in Int
  OBVIOUS
<1>2. D \in [Int \X Nat -> Int] /\ \A v \in Int, k \in Nat : D[<<v, k>>] = v + score(k + 1)
  <2>1. \A v \in Int, k \in Nat : v + score(k + 1) \in Int
    <3> HIDE DEF score
    <3>1. \A k \in Nat : k + 1 \in Nat
      OBVIOUS
    <3> QED
      BY <1>1, <3>1
  <2> HIDE DEF score
  <2> QED
    BY <2>1
<1>3. PICK f \in [Nat -> Int] : f[0] = 0 /\ \A k \in Nat : f[k + 1] = D[<<f[k], k>>]
  <2> HIDE DEF D
  <2>1. 0 \in Int
    OBVIOUS
  <2> DEFINE c == 0
             T == Int
  <2>2. c \in T /\ D \in [T \X Nat -> T]
    BY <1>2, <2>1
  <2> HIDE DEF c, T
  <2>3. Recurs(T, c, D)
    BY <2>2, Recursion
  <2> QED
    BY <2>3 DEF Recurs, T, c
<1>4. f[0] = 0 /\ \A k \in Nat : f[k + 1] = f[k] + score(k + 1)
  <2> HIDE DEF D, score
  <2> QED
    BY <1>2, <1>3
<1> DEFINE h == [k \in 0..n |-> f[k]]
<1>5. h = Sums(h)
  <2>1. ASSUME NEW k \in 0..n PROVE h[k] = IF k = 0 THEN 0 ELSE h[k - 1] + scores[k]
    <3>1. CASE k = 0
      BY <1>4, <3>1
    <3>2. CASE k # 0
      <4>1. k - 1 \in Nat /\ k - 1 + 1 = k /\ k - 1 \in 0..n /\ k \in 1..n
        BY <3>2
      <4>2. f[k] = f[k - 1] + score(k)
        <5> HIDE DEF score
        <5>1. f[k - 1 + 1] = f[k - 1] + score(k - 1 + 1)
          BY <1>4, <4>1
        <5> QED
          BY <4>1, <5>1
      <4> QED
        BY <3>2, <4>1, <4>2
    <3> QED
      BY <3>1, <3>2
  <2> QED
    BY <2>1
<1>6. sum = Sums(sum)
  <2> HIDE DEF Sums, h
  <2> QED
    BY <1>5
<1>7. Mean(scores) = sum[n] \div n
  <2>1. sum = CHOOSE g : g = [k \in 0..Len(scores) |-> IF k = 0 THEN 0 ELSE g[k - 1] + scores[k]]
    BY <1>0
  <2> HIDE DEF sum
  <2> QED
    BY <1>0, <2>1 DEF Mean
<1> HIDE DEF sum, D, h
<1> DEFINE Q == {k \in Nat : k <= n => /\ sum[k] \in Int
                                       /\ (\A t \in 1..n : scores[t] <= 0) => sum[k] <= 0}
<1>8. \A k \in 0..n : sum[k] = IF k = 0 THEN 0 ELSE sum[k - 1] + scores[k]
  BY <1>6
<1>9. 0 \in Q
  BY <1>8
<1>10. ASSUME NEW k \in Nat, k \in Q PROVE k + 1 \in Q
  <2> SUFFICES ASSUME k + 1 <= n
               PROVE  /\ sum[k + 1] \in Int
                      /\ (\A t \in 1..n : scores[t] <= 0) => sum[k + 1] <= 0
    OBVIOUS
  <2>1. k <= n /\ k + 1 \in 0..n /\ k + 1 \in 1..n /\ k + 1 # 0 /\ k + 1 - 1 = k
    OBVIOUS
  <2> DEFINE m == k + 1
  <2>2. sum[m] = sum[m - 1] + scores[m]
    BY <1>8, <2>1
  <2>3. sum[k] \in Int /\ ((\A t \in 1..n : scores[t] <= 0) => sum[k] <= 0)
    BY <1>10, <2>1
  <2>4. scores[m] \in Int
    BY <2>1
  <2>5. sum[m] = sum[k] + scores[m]
    BY <2>1, <2>2
  <2>6. (\A t \in 1..n : scores[t] <= 0) => scores[m] <= 0
    BY <2>1
  <2> DEFINE a == sum[k]
             b == scores[m]
             z == sum[m]
  <2>8. a \in Int /\ b \in Int /\ z = a + b
    BY <2>3, <2>4, <2>5
  <2> HIDE DEF m, a, b, z
  <2>9. z \in Int /\ (a <= 0 /\ b <= 0 => z <= 0)
    BY ONLY <2>8
  <2>7. sum[m] \in Int /\ ((\A t \in 1..n : scores[t] <= 0) => sum[m] <= 0)
    BY <2>3, <2>6, <2>9 DEF a, b, z
  <2> QED
    BY <2>7 DEF m
<1>11. Nat \subseteq Q
  <2> HIDE DEF Q
  <2> QED
    BY <1>9, <1>10, NatSetInduction
<1>12. sum[n] \in Int /\ ((\A t \in 1..n : scores[t] <= 0) => sum[n] <= 0)
  BY <1>11
<1> DEFINE v == sum[n]
<1>13. v \in Int /\ ((\A t \in 1..n : scores[t] <= 0) => v <= 0) /\ Mean(scores) = v \div n
  BY <1>7, <1>12
<1> HIDE DEF v, Q
<1>14. (v \div n) \in Int /\ (v <= 0 => (v \div n) <= 0)
  BY <1>13, QuotientSign
<1> QED
  BY <1>13, <1>14 DEF MeanSound

(* What a decision rests on *)
DecidedOnResults(d) ==
  /\ d.eligible = Promotable(d.policy, d.evidence)
  /\ PolicySound(d.policy) /\ TierAdmits(d.tier, d.approval)
  /\ d.evidence.report.cost \in Int /\ d.evidence.gain \in Int
  /\ d.evidence.ci[1] \in Int /\ (ShortCircuited => d.evidence.ci[1] <= 0)
  /\ d.evidence.evaluated = EvaluatedScopes

PromotionInv ==
  /\ Len(stageRuns) \in Nat /\ DOMAIN stageRuns = 1..Len(stageRuns)
  /\ Len(familyOutcomes) \in Nat /\ DOMAIN familyOutcomes = 1..Len(familyOutcomes)
  /\ Len(promotions) \in Nat /\ DOMAIN promotions = 1..Len(promotions)
  /\ \A i \in DOMAIN stageRuns : stageRuns[i].failures = 0 \/ (~stageRuns[i].passed /\ stageRuns[i].shortCircuit)
  /\ promotions # <<>> => CascadeOver /\ Len(familyOutcomes) = Len(Families)
  /\ \A d \in DOMAIN promotions : DecidedOnResults(promotions[d])

LEMMA RowOfStage ==
  ASSUME NEW a, NEW b, NEW c, NEW d, NEW row, row = [stage |-> a, shortCircuit |-> b, passed |-> c, failures |-> d]
  PROVE  row.shortCircuit = b /\ row.passed = c /\ row.failures = d
  OBVIOUS

LEMMA StageRecorded ==
  ASSUME PromotionInv, ~CascadeOver, NEW s, NEW passed, NEW failures, RecordStage(s, passed, failures),
         failures = 0 \/ (~passed /\ s.shortCircuit)
  PROVE  PromotionInv'
<1> DEFINE row == [stage |-> s.stage, shortCircuit |-> s.shortCircuit, passed |-> passed, failures |-> failures]
<1>1. stageRuns' = Append(stageRuns, row) /\ UNCHANGED <<familyOutcomes, promotions>>
  BY DEF RecordStage
<1>2. row.shortCircuit = s.shortCircuit /\ row.passed = passed /\ row.failures = failures
  BY RowOfStage
<1> HIDE DEF row
<1>3. promotions = <<>> /\ DOMAIN promotions = {}
  BY DEF PromotionInv
<1>4. /\ Len(stageRuns') = Len(stageRuns) + 1 /\ DOMAIN stageRuns' = 1..Len(stageRuns')
      /\ \A i \in DOMAIN stageRuns' :
           (i \in DOMAIN stageRuns /\ stageRuns'[i] = stageRuns[i]) \/ stageRuns'[i] = row
  BY <1>1 DEF PromotionInv
<1>5. \A i \in DOMAIN stageRuns' :
        stageRuns'[i].failures = 0 \/ (~stageRuns'[i].passed /\ stageRuns'[i].shortCircuit)
  BY <1>2, <1>4 DEF PromotionInv
<1> QED
  BY <1>1, <1>3, <1>4, <1>5 DEF PromotionInv

LEMMA FailingSuiteFails ==
  ASSUME NEW suite \in Suites, suite.did.failed # 0
  PROVE  ~SuitePasses(suite.run)
<1>1. suite.did.failed \in Nat /\ suite.run.exit \in {NoExit, Exit(suite.did)}
  BY PromotionAssumption
<1>2. suite.run.exit # 0
  BY <1>1 DEF NoExit, Exit
<1> QED
  BY <1>2 DEF SuitePasses

LEMMA BaselineIs ==
  ASSUME NEW baseline \in Baselines, baseline # <<>>
  PROVE  /\ Len(baseline) \in Nat \ {0} /\ DOMAIN baseline = 1..Len(baseline)
         /\ \A t \in 1..Len(baseline) : baseline[t] \in 0..100
         /\ baseline \in [1..Len(baseline) -> Int]
<1>1. baseline \in Seq(0..100)
  BY PromotionAssumption
<1> DEFINE T == 0..100
<1>2. baseline \in Seq(T) /\ T \subseteq Int
  BY <1>1
<1> HIDE DEF T
<1>3. /\ Len(baseline) \in Nat /\ DOMAIN baseline = 1..Len(baseline)
      /\ \A t \in 1..Len(baseline) : baseline[t] \in T
      /\ Len(baseline) # 0
      /\ baseline \in [1..Len(baseline) -> T]
  BY <1>2, EmptySeq
<1> QED
  BY <1>2, <1>3 DEF T

(* The interval of scores that are all zero starts at zero or below. *)
LowEnd(ci, score) == ci[1] \in Int /\ (score = 0 => ci[1] <= 0)

LEMMA IntervalOfScores ==
  ASSUME NEW baseline, baseline \in Baselines, baseline # <<>>, NEW score, score \in {0, 100},
         NEW scores, scores = [t \in DOMAIN baseline |-> score],
         NEW ci, ci \in Intervals(baseline, scores)
  PROVE  LowEnd(ci, score)
<1> DEFINE n == Len(baseline)
           Drawn(draw) == [t \in DOMAIN baseline |-> scores[draw[t]] - baseline[draw[t]]]
<1>2. n \in Nat \ {0} /\ DOMAIN baseline = 1..n /\ \A t \in 1..n : baseline[t] \in 0..100
  BY BaselineIs
<1>3. PICK draw \in [DOMAIN baseline -> DOMAIN baseline] : ci[1] = Mean(Drawn(draw))
  BY ZenonT(60), SMTT(30) DEF Intervals
<1>4. \A t \in 1..n : scores[draw[t]] = score /\ baseline[draw[t]] \in 0..100
  <2>1. \A t \in 1..n : draw[t] \in DOMAIN baseline
    BY <1>2
  <2>2. \A u \in DOMAIN baseline : scores[u] = score
    OBVIOUS
  <2>3. \A u \in DOMAIN baseline : baseline[u] \in 0..100
    <3> DEFINE I == 1..n
               T == 0..100
    <3>1. DOMAIN baseline = I /\ \A t \in I : baseline[t] \in T
      BY <1>2
    <3> HIDE DEF n, I, T
    <3>2. \A u \in DOMAIN baseline : baseline[u] \in T
      BY ONLY <3>1, Zenon
    <3> QED
      BY <3>2 DEF T
  <2> QED
    BY ONLY <2>1, <2>2, <2>3
<1>5. Drawn(draw) \in [1..n -> Int] /\ \A t \in 1..n : score = 0 => Drawn(draw)[t] <= 0
  <2>1. \A t \in 1..n : Drawn(draw)[t] = score - baseline[draw[t]]
    BY <1>2, <1>4
  <2>2. Drawn(draw) = [t \in 1..n |-> Drawn(draw)[t]]
    BY <1>2
  <2>4. ASSUME NEW t \in 1..n PROVE Drawn(draw)[t] \in Int /\ (score = 0 => Drawn(draw)[t] <= 0)
    <3> DEFINE b == baseline[draw[t]]
               v == Drawn(draw)[t]
    <3>1. v = score - b /\ b \in 0..100
      BY <1>4, <2>1
    <3> HIDE DEF v, b
    <3>2. v \in Int /\ (score = 0 => v <= 0)
      BY ONLY <3>1, score \in {0, 100}
    <3> QED
      BY <3>2 DEF v
  <2> HIDE DEF Drawn
  <2> QED
    BY <2>2, <2>4
<1> HIDE DEF Drawn, n
<1>6. MeanSound(n, Drawn(draw))
  <2> DEFINE f == Drawn(draw)
  <2>1. f \in [1..n -> Int] /\ n \in Nat \ {0}
    BY <1>2, <1>5
  <2> HIDE DEF f
  <2>2. MeanSound(n, f)
    BY <2>1, MeanIs
  <2> QED
    BY <2>2 DEF f
<1> QED
  BY <1>3, <1>5, <1>6 DEF MeanSound, LowEnd

LEMMA EvidenceFields ==
  ASSUME NEW a, NEW b, NEW c, NEW d, NEW g, NEW h, NEW i, NEW e,
         e = [report |-> a, ci |-> b, slices |-> c, preregistered |-> d, gain |-> g, claimed |-> h, evaluated |-> i]
  PROVE  e.report = a /\ e.ci = b /\ e.gain = g /\ e.evaluated = i
  OBVIOUS

LEMMA DecisionFields ==
  ASSUME NEW a, NEW b, NEW c, NEW d, NEW e, NEW row,
         row = [policy |-> a, evidence |-> b, tier |-> c, approval |-> d, eligible |-> e]
  PROVE  row.policy = a /\ row.evidence = b /\ row.tier = c /\ row.approval = d /\ row.eligible = e
  OBVIOUS

LEMMA JudgementKeeps ==
  ASSUME PromotionInv, ResultsIn,
         NEW doc \in PolicyDocuments, NEW report \in Reports, NEW baseline \in Baselines,
         NEW preregistered \in BOOLEAN, NEW claimed, NEW release, NEW approval,
         Judge(doc, report, baseline, preregistered, claimed, release, approval)
  PROVE  PromotionInv'
<1> DEFINE scores == CandidateScores(baseline)
           tier == ResolveTier(release)
           gained == Mean(scores) - Mean(baseline)
<1>1. PICK ci \in Intervals(baseline, scores), paired \in SUBSET DOMAIN doc.slices :
        \E slices \in [paired -> {-100, 0}] :
          LET e == [report |-> report, ci |-> ci, slices |-> slices, preregistered |-> preregistered,
                    gain |-> gained, claimed |-> claimed, evaluated |-> EvaluatedScopes]
          IN promotions' = Append(promotions,
               [policy |-> doc, evidence |-> e, tier |-> tier, approval |-> approval,
                eligible |-> Promotable(doc, e)])
  BY DEF Judge
<1>2. PICK slices \in [paired -> {-100, 0}] :
          LET e == [report |-> report, ci |-> ci, slices |-> slices, preregistered |-> preregistered,
                    gain |-> gained, claimed |-> claimed, evaluated |-> EvaluatedScopes]
          IN promotions' = Append(promotions,
               [policy |-> doc, evidence |-> e, tier |-> tier, approval |-> approval,
                eligible |-> Promotable(doc, e)])
  BY <1>1
<1>3. /\ PolicySound(doc) /\ baseline # <<>> /\ TierAdmits(tier, approval)
      /\ UNCHANGED <<cascade, stageRuns, familyOutcomes>>
  BY DEF Judge, Paired
<1>4. report.cost \in Int
  BY PromotionAssumption
<1>5. PICK score \in {0, 100} : scores = [t \in DOMAIN baseline |-> score] /\ (ShortCircuited => score = 0)
  BY DEF CandidateScores
<1>6. ci[1] \in Int /\ (ShortCircuited => ci[1] <= 0)
  <2> HIDE DEF scores
  <2>1. baseline \in Baselines /\ baseline # <<>> /\ score \in {0, 100}
    BY <1>3
  <2>2. scores = [t \in DOMAIN baseline |-> score] /\ ci \in Intervals(baseline, scores)
    BY <1>5
  <2>3. LowEnd(ci, score)
    BY ONLY <2>1, <2>2, IntervalOfScores
  <2> QED
    BY <1>5, <2>3 DEF LowEnd
<1>7. gained \in Int
  <2> DEFINE n == Len(baseline)
  <2>1. n \in Nat \ {0} /\ DOMAIN baseline = 1..n /\ baseline \in [1..n -> Int]
    BY <1>3, BaselineIs
  <2>2. scores \in [1..n -> Int]
    BY <1>5, <2>1
  <2> HIDE DEF n, scores
  <2>3. MeanSound(n, scores) /\ MeanSound(n, baseline)
    BY <2>1, <2>2, MeanIs
  <2> QED
    BY <2>3 DEF MeanSound
<1> DEFINE e == [report |-> report, ci |-> ci, slices |-> slices, preregistered |-> preregistered,
                 gain |-> gained, claimed |-> claimed, evaluated |-> EvaluatedScopes]
           row == [policy |-> doc, evidence |-> e, tier |-> tier, approval |-> approval,
                   eligible |-> Promotable(doc, e)]
<1>8. promotions' = Append(promotions, row)
  BY <1>2
<1> HIDE DEF gained, tier, scores
<1>9. e.report = report /\ e.ci = ci /\ e.gain = gained /\ e.evaluated = EvaluatedScopes
  BY EvidenceFields
<1> HIDE DEF e
<1>10. /\ row.policy = doc /\ row.evidence = e /\ row.tier = tier /\ row.approval = approval
       /\ row.eligible = Promotable(doc, e)
  BY DecisionFields
<1> HIDE DEF row
<1>11. DecidedOnResults(row)
  BY <1>3, <1>4, <1>6, <1>7, <1>9, <1>10 DEF DecidedOnResults
<1>12. /\ Len(promotions') \in Nat /\ DOMAIN promotions' = 1..Len(promotions')
       /\ \A d \in DOMAIN promotions' :
            (d \in DOMAIN promotions /\ promotions'[d] = promotions[d]) \/ promotions'[d] = row
  BY <1>8 DEF PromotionInv
<1>13. \A d \in DOMAIN promotions' : DecidedOnResults(promotions'[d])
  BY <1>11, <1>12 DEF PromotionInv
<1>15. ShortCircuited' = ShortCircuited /\ EvaluatedScopes' = EvaluatedScopes /\ CascadeOver' = CascadeOver
  BY <1>3 DEF ShortCircuited, EvaluatedScopes, CascadeOver
<1>14. \A d \in DOMAIN promotions' : DecidedOnResults(promotions[d])'
  BY <1>13, <1>15 DEF DecidedOnResults
<1> QED
  <2>1. CascadeOver' /\ Len(familyOutcomes') = Len(Families)
    BY <1>3, <1>15 DEF ResultsIn
  <2> QED
    BY <1>3, <1>12, <1>14, <2>1 DEF PromotionInv

LEMMA FamiliesKeep ==
  ASSUME PromotionInv, (\E outcome \in {"result", "error"} : RunFamily(outcome)) \/ FamilyRaises
  PROVE  PromotionInv'
<1>1. promotions = <<>> /\ DOMAIN promotions = {}
  BY DEF PromotionInv, RunFamily, FamilyRaises
<1>2. UNCHANGED <<cascade, stageRuns, promotions>>
  BY DEF RunFamily, FamilyRaises
<1>3. Len(familyOutcomes') \in Nat /\ DOMAIN familyOutcomes' = 1..Len(familyOutcomes')
  <2>1. CASE FamilyRaises
    BY <2>1 DEF FamilyRaises
  <2>2. ASSUME NEW outcome \in {"result", "error"}, RunFamily(outcome)
        PROVE  Len(familyOutcomes') \in Nat /\ DOMAIN familyOutcomes' = 1..Len(familyOutcomes')
    BY <2>2 DEF RunFamily, PromotionInv
  <2> QED
    BY <2>1, <2>2
<1> QED
  BY <1>1, <1>2, <1>3 DEF PromotionInv

LEMMA PromotionKept ==
  ASSUME PromotionInv, [PromotionNext]_promotionVars
  PROVE  PromotionInv'
<1>1. ASSUME NEW suite \in Suites, RunConformanceStage(suite) PROVE PromotionInv'
  <2> DEFINE s == [NextStage EXCEPT !.shortCircuit = TRUE]
  <2>1. ~CascadeOver /\ RecordStage(s, SuitePasses(suite.run), suite.did.failed)
    BY <1>1 DEF RunConformanceStage
  <2>2. CASE suite.did.failed = 0
    <3> HIDE DEF s
    <3> QED
      BY <2>1, <2>2, StageRecorded
  <2>3. CASE suite.did.failed # 0
    <3>1. ~SuitePasses(suite.run)
      BY <2>3, FailingSuiteFails
    <3>2. s.shortCircuit
      OBVIOUS
    <3> HIDE DEF s
    <3> QED
      BY <2>1, <3>1, <3>2, StageRecorded
  <2> QED
    BY <2>2, <2>3
<1>2. ASSUME NEW passed \in BOOLEAN, RunStage(passed) PROVE PromotionInv'
  BY <1>2, StageRecorded DEF RunStage
<1>3. CASE (\E outcome \in {"result", "error"} : RunFamily(outcome)) \/ FamilyRaises
  BY <1>3, FamiliesKeep
<1>4. ASSUME ResultsIn,
             NEW doc \in PolicyDocuments, NEW report \in Reports, NEW baseline \in Baselines,
             NEW preregistered \in BOOLEAN, NEW claimed \in SUBSET DeclaredScopes,
             NEW release \in Releases, NEW approval \in Approvals,
             Judge(doc, report, baseline, preregistered, claimed, release, approval)
      PROVE  PromotionInv'
  BY <1>4, JudgementKeeps
<1>5. CASE UNCHANGED promotionVars
  BY <1>5 DEF promotionVars, PromotionInv, CascadeOver, ShortCircuited, DecidedOnResults, EvaluatedScopes
<1> QED
  BY <1>1, <1>2, <1>3, <1>4, <1>5 DEF PromotionNext

LEMMA PromotionHolds ==
  ASSUME PromotionInv
  PROVE  PromotedOnWhatRan
<1> SUFFICES ASSUME NEW k \in DOMAIN promotions, promotions[k].eligible
             PROVE
    LET d == promotions[k] IN
    /\ \A f \in DOMAIN Families : Families[f] \in d.evidence.claimed => familyOutcomes[f] = "result"
    /\ ~NonInferior(d.policy, d.evidence) =>
         /\ Len(stageRuns) = Cardinality(cascade)
         /\ \A i \in DOMAIN stageRuns : stageRuns[i].failures = 0
    /\ d.evidence.gain < 0 => d.evidence.report.cost >= 0
    /\ d.evidence.ci[1] < 0 => d.policy.margin > 0
    /\ DOMAIN d.policy.slices \subseteq DOMAIN d.evidence.slices
    /\ d.tier = 3 => TwoOthers(d.approval)
    /\ d.tier = 4 => d.approval.signoff /\ d.approval.manual
  BY DEF PromotedOnWhatRan, Eligibles
<1> DEFINE d == promotions[k]
<1>0. promotions # <<>>
  OBVIOUS
<1>1. DecidedOnResults(d) /\ d.eligible /\ CascadeOver /\ Len(familyOutcomes) = Len(Families)
  BY <1>0 DEF PromotionInv
<1> HIDE DEF d
<1>2. Promotable(d.policy, d.evidence) /\ PolicySound(d.policy) /\ TierAdmits(d.tier, d.approval)
  BY <1>1 DEF DecidedOnResults
<1>3. /\ d.evidence.report.cost \in Int /\ d.evidence.gain \in Int /\ d.evidence.ci[1] \in Int
      /\ ShortCircuited => d.evidence.ci[1] <= 0
      /\ d.policy.minGain \in 0..100 /\ d.policy.minCost \in 0..100 /\ d.policy.margin \in 0..100
  BY <1>1 DEF DecidedOnResults, PolicySound
<1>4. ASSUME NEW f \in DOMAIN Families, Families[f] \in d.evidence.claimed PROVE familyOutcomes[f] = "result"
  <2>1. Families[f] \in EvaluatedScopes
    BY <1>1, <1>2, <1>4 DEF Promotable, ScopesCovered, DecidedOnResults
  <2>2. PICK g \in DOMAIN familyOutcomes : familyOutcomes[g] = "result" /\ Families[f] = Families[g]
    BY <2>1 DEF EvaluatedScopes
  <2>3. g \in DOMAIN Families
    <3>2. DOMAIN Families = 1..Len(Families)
      BY PromotionAssumption
    <3>3. DOMAIN familyOutcomes = 1..Len(Families)
      BY <1>1 DEF PromotionInv
    <3> QED
      BY <3>2, <3>3
  <2> QED
    BY <2>2, <2>3, PromotionAssumption
<1>5. ASSUME ~NonInferior(d.policy, d.evidence)
      PROVE  Len(stageRuns) = Cardinality(cascade) /\ \A i \in DOMAIN stageRuns : stageRuns[i].failures = 0
  <2>1. Superior(d.policy, d.evidence)
    BY <1>2, <1>5 DEF Promotable
  <2>2. ~ShortCircuited
    BY <1>3, <2>1 DEF Superior
  <2> QED
    BY <1>1, <2>2 DEF CascadeOver, ShortCircuited, PromotionInv
<1>6. d.evidence.gain < 0 => d.evidence.report.cost >= 0
  BY <1>2, <1>3 DEF Promotable, Superior, NonInferior
<1>7. d.evidence.ci[1] < 0 => d.policy.margin > 0
  BY <1>2, <1>3 DEF Promotable, Superior, NonInferior
<1>8. DOMAIN d.policy.slices \subseteq DOMAIN d.evidence.slices
  BY <1>2 DEF Promotable, ProtectedSlices
<1>9. (d.tier = 3 => TwoOthers(d.approval)) /\ (d.tier = 4 => d.approval.signoff /\ d.approval.manual)
  BY <1>2 DEF TierAdmits
<1> QED
  BY <1>4, <1>5, <1>6, <1>7, <1>8, <1>9 DEF d

(* Whatever order stages and families ran in, an eligible candidate has    *)
(* the results its decision claims, the margins and the approvals it needs *)
(* (selection/policy.py, evaluate_promotion).                              *)
THEOREM PromotionCorrect == PromotionSpec => []PromotedOnWhatRan
<1>1. PromotionInit => PromotionInv
  BY DEF PromotionInit, PromotionInv
<1>2. PromotionInv /\ [PromotionNext]_promotionVars => PromotionInv'
  BY PromotionKept
<1>3. PromotionInv => PromotedOnWhatRan
  BY PromotionHolds
<1> QED
  BY <1>1, <1>2, <1>3, PTL DEF PromotionSpec

-----------------------------------------------------------------------------
(* Plugin supply.  Whoever verifies is past the last change to the archive, *)
(* and a grant is worked out of the manifest in hand.                      *)
SupplySpec == SupplyInit /\ [][SupplyNext]_supplyVars

VerifiedIsWhole ==
  /\ index = Unlisted => verdict = "none"
  /\ verdict = "verified" => /\ \A b \in Blobs \ {"config"} : blobs[b] = "whole"
                             /\ blobs["config"] # "damaged" /\ index.listed[1] = "image"

GrantedOf(m) == {[planes |-> planes, grant |-> Grant({Requested(m)} \cup planes)] : planes \in Planes}
GrantIsOfManifest ==
  \/ manifest = {} /\ granted = {}
  \/ \E m \in Manifests : manifest = {m} /\ Consistent(m) /\ granted \subseteq GrantedOf(m)

SupplyInv == VerifiedIsWhole /\ GrantIsOfManifest

LEMMA SupplyStarts == SupplyInit => SupplyInv
BY DEF SupplyInit, SupplyInv, VerifiedIsWhole, GrantIsOfManifest

LEMMA IndexIsListed == /\ Complete # Unlisted
                       /\ [Complete EXCEPT !.listed = <<>>] # Unlisted
                       /\ [Complete EXCEPT !.listed = Reverse(Complete.listed)] # Unlisted
                       /\ [Complete EXCEPT !.signed = FALSE] # Unlisted
                       /\ [Complete EXCEPT !.id = "other"] # Unlisted
<1>1. Complete.id = "own" /\ Unlisted.id = "none" /\ Complete.signed = TRUE /\ Unlisted.signed = FALSE
  BY DEF Complete, Unlisted
<1>2. ASSUME NEW l PROVE [Complete EXCEPT !.listed = l].id = "own"
  BY DEF Complete
<1>3. [Complete EXCEPT !.signed = FALSE].id = "own" /\ [Complete EXCEPT !.id = "other"].id = "other"
  BY DEF Complete
<1> QED
  BY <1>1, <1>2, <1>3

LEMMA SupplyKept == SupplyInv /\ [SupplyNext]_supplyVars => SupplyInv'
<1> SUFFICES ASSUME SupplyInv, [SupplyNext]_supplyVars PROVE SupplyInv'
  OBVIOUS
<1>1. CASE UNCHANGED supplyVars
  BY <1>1 DEF supplyVars, SupplyInv, VerifiedIsWhole, GrantIsOfManifest
<1>2. ASSUME NEW m \in Manifests, Declare(m) PROVE SupplyInv'
  <2>1. VerifiedIsWhole'
    BY <1>2 DEF Declare, SupplyInv, VerifiedIsWhole
  <2>2. granted = {}
    BY <1>2 DEF Declare, SupplyInv, GrantIsOfManifest
  <2>3. GrantIsOfManifest'
    BY <1>2, <2>2 DEF Declare, GrantIsOfManifest
  <2> QED
    BY <2>1, <2>3 DEF SupplyInv
<1>3. ASSUME NEW planes \in Planes, Intersect(planes) PROVE SupplyInv'
  <2>1. VerifiedIsWhole'
    BY <1>3 DEF Intersect, SupplyInv, VerifiedIsWhole
  <2>2. PICK m \in manifest :
          /\ granted' = {[planes |-> planes, grant |-> Grant({Requested(m)} \cup planes)]}
          /\ UNCHANGED manifest
    BY <1>3 DEF Intersect
  <2>3. m \in Manifests /\ manifest = {m} /\ Consistent(m)
    BY <2>2 DEF SupplyInv, GrantIsOfManifest
  <2>4. granted' \subseteq GrantedOf(m)
    BY <2>2 DEF GrantedOf
  <2> QED
    BY <2>1, <2>2, <2>3, <2>4 DEF SupplyInv, GrantIsOfManifest
<1>4. CASE Build
  <2>1. index' # Unlisted /\ verdict = "none" /\ verdict' = "none"
    BY <1>4, IndexIsListed DEF Build, SupplyInv, VerifiedIsWhole
  <2> QED
    BY <1>4, <2>1 DEF Build, SupplyInv, VerifiedIsWhole, GrantIsOfManifest
<1>5. CASE HarmIndex
  <2>1. index' # Unlisted
    BY <1>5, IndexIsListed DEF HarmIndex
  <2> QED
    BY <1>5, <2>1 DEF HarmIndex, UnderWay, SupplyInv, VerifiedIsWhole, GrantIsOfManifest
<1>6. CASE Verify
  <2>1. verdict' = "verified" => BlobsMatch /\ SignatureHolds /\ SbomFound /\ SbomCovers
    BY <1>6 DEF Verify
  <2>2. ASSUME BlobsMatch, SignatureHolds, SbomFound, SbomCovers
        PROVE  /\ \A b \in Blobs \ {"config"} : blobs[b] = "whole"
               /\ blobs["config"] # "damaged" /\ index.listed[1] = "image"
    BY <2>2 DEF BlobsMatch, SignatureHolds, SbomFound, SbomCovers, Present, Blobs
  <2>3. index # Unlisted /\ UNCHANGED <<manifest, granted, blobs, index>>
    BY <1>6 DEF Verify, UnderWay
  <2> QED
    BY <2>1, <2>2, <2>3 DEF SupplyInv, VerifiedIsWhole, GrantIsOfManifest
<1>7. ASSUME NEW b \in Blobs, NEW outcome \in {"damaged", "lost"}, HarmBlob(b, outcome) PROVE SupplyInv'
  BY <1>7 DEF HarmBlob, UnderWay, SupplyInv, VerifiedIsWhole, GrantIsOfManifest
<1> QED
  BY <1>1, <1>2, <1>3, <1>4, <1>5, <1>6, <1>7 DEF SupplyNext

(* What every plane and the manifest give, no more and no less. *)
LEMMA GrantGives ==
  ASSUME NEW m, NEW planes, NEW g, g = [planes |-> planes, grant |-> Grant({Requested(m)} \cup planes)]
  PROVE  /\ m.network = "none" => g.grant.network = "none"
         /\ \A p \in g.planes : /\ g.grant.access => p.access
                                /\ g.grant.hosts \subseteq p.hosts \cap m.hosts
                                /\ p.network = "none" => g.grant.network = "none"
         /\ \A h \in m.hosts : (\A p \in g.planes : h \in p.hosts) => h \in g.grant.hosts
<1> DEFINE r == Requested(m)
           every == {r} \cup planes
           given == Grant(every)
<1>1. r.network = m.network /\ r.access = m.access /\ r.hosts = m.hosts
  BY DEF Requested
<1>2. g.planes = planes /\ g.grant = given
  <2> HIDE DEF given
  <2> QED
    BY DEF given
<1> HIDE DEF r
<1>3. /\ given.network = (IF \E p \in every : p.network = "none" THEN "none" ELSE "brokered")
      /\ given.access = (\A p \in every : p.access)
      /\ given.hosts = Hosts(every)
  <2> DEFINE n == IF \E p \in every : p.network = "none" THEN "none" ELSE "brokered"
             a == \A p \in every : p.access
             h == Hosts(every)
  <2>1. given = [network |-> n, access |-> a, hosts |-> h]
    BY DEF Grant
  <2> HIDE DEF n, a, h, given
  <2>2. given.network = n /\ given.access = a /\ given.hosts = h
    BY <2>1
  <2> QED
    BY <2>2 DEF n, a, h
<1>4. r \in every /\ \A p \in planes : p \in every
  OBVIOUS
<1>5. m.network = "none" => given.network = "none"
  BY <1>1, <1>3, <1>4
<1>6. ASSUME NEW p \in planes
      PROVE  /\ given.access => p.access
             /\ given.hosts \subseteq p.hosts \cap m.hosts
             /\ p.network = "none" => given.network = "none"
  <2>1. given.access => p.access
    BY <1>3, <1>4
  <2>2. given.hosts \subseteq p.hosts \cap m.hosts
    BY <1>1, <1>3, <1>4 DEF Hosts
  <2> QED
    BY <1>3, <1>4, <2>1, <2>2
<1>7. ASSUME NEW h \in m.hosts, \A p \in planes : h \in p.hosts PROVE h \in given.hosts
  <2>1. \A p \in every : h \in p.hosts
    BY <1>1, <1>7
  <2>2. h \in UNION {p.hosts : p \in every}
    BY <1>1, <1>4
  <2> QED
    BY <1>3, <2>1, <2>2 DEF Hosts
<1> HIDE DEF given
<1> QED
  BY <1>2, <1>5, <1>6, <1>7

(* A tier that is declared is one of four, and its manifest agrees with it. *)
LEMMA DeclaredProjects ==
  ASSUME NEW m \in Manifests, Consistent(m), m.tier # "undeclared"
  PROVE  Projects(m)
<1>1. m.tier \in {"text-only", "executable", "brokered", "highest"}
  BY SupplyAssumption
<1>2. m.tier # "brokered" => m.network # "brokered"
  BY <1>1 DEF Consistent, TierAgrees
<1>3. m.tier = "brokered" => m.network = "brokered"
  BY DEF Consistent, TierAgrees
<1> QED
  BY <1>1, <1>2, <1>3 DEF Projects, RunTier

(* Nothing on the way to the sandbox widens what was declared              *)
(* (plugins/packaging.py, plugins/manifest.py): whatever is damaged or     *)
(* lost, an image that verifies is what was built, and a grant is the      *)
(* intersection of every plane with the manifest.                          *)
THEOREM SupplyCorrect == SupplySpec => []SupplyIsSound
<1>1. SupplyInv => SupplyIsSound
  <2> SUFFICES ASSUME SupplyInv PROVE SupplyIsSound
    OBVIOUS
  <2>1. ASSUME NEW m \in manifest
        PROVE  /\ m.tier # "undeclared" => Projects(m)
               /\ \A g \in granted :
                    /\ m.network = "none" => g.grant.network = "none"
                    /\ \A p \in g.planes : /\ g.grant.access => p.access
                                           /\ g.grant.hosts \subseteq p.hosts \cap m.hosts
                                           /\ p.network = "none" => g.grant.network = "none"
                    /\ \A h \in m.hosts : (\A p \in g.planes : h \in p.hosts) => h \in g.grant.hosts
    <3>1. m \in Manifests /\ Consistent(m) /\ granted \subseteq GrantedOf(m)
      BY DEF SupplyInv, GrantIsOfManifest
    <3>2. \A g \in granted : \E planes : g = [planes |-> planes, grant |-> Grant({Requested(m)} \cup planes)]
      BY <3>1 DEF GrantedOf
    <3> QED
      BY <3>1, <3>2, DeclaredProjects, GrantGives
  <2>2. verdict = "verified" => /\ \A b \in Blobs \ {"config"} : blobs[b] = "whole"
                                /\ blobs["config"] # "damaged" /\ index.listed[1] = "image"
    BY DEF SupplyInv, VerifiedIsWhole
  <2> QED
    BY <2>1, <2>2 DEF SupplyIsSound
<1> QED
  BY <1>1, SupplyStarts, SupplyKept, PTL DEF SupplySpec

-----------------------------------------------------------------------------
(* The gates.  What the scanners find of a bundle, code by code, is how it *)
(* is spelled: each finding is about one file or one statement.            *)
GatesSpec == GatesInit /\ [][GatesNext]_gateVars

(* What admission lets through *)
Contained ==
  /\ TotalBytes <= MaxTotalBytes
  /\ \A entry \in Range(bundle) :
       /\ entry.kind \in {"file", "directory"} /\ ~entry.path.absolute
       /\ ".." \notin Range(entry.path.parts)
       /\ entry.expands <= MaxTotalBytes
OpaqueWrite == \E s \in Scanned : OpaqueTarget \in SpelledWrites(s)
NothingHidden(s) == SaysAll(s) => Tame(s.does, s.loads, s.writes)
GatesInv == bundle \in Seq(Entries) /\ PassedIsContained

LEMMA EntriesOfBundle ==
  ASSUME bundle \in Seq(Entries)
  PROVE  Range(bundle) \subseteq Entries /\ Range(bundle) = {bundle[i] : i \in DOMAIN bundle}
BY DEF Range

LEMMA AdmittedIsContained ==
  ASSUME bundle \in Seq(Entries), NEW declared, Admitted(declared)
  PROVE  Contained
<1>1. ASSUME NEW entry \in Range(bundle)
      PROVE  /\ entry.kind \in {"file", "directory"} /\ ~entry.path.absolute
             /\ ".." \notin Range(entry.path.parts)
             /\ entry.expands <= MaxTotalBytes
  <2>1. entry \in Entries /\ ~EntryRefused(entry, declared)
    BY EntriesOfBundle DEF Admitted
  <2>2. entry.kind \in {"file", "directory", "symlink", "device"} /\ entry.expands \in Nat /\ MaxTotalBytes \in Nat
    BY <2>1, EntryAssumption
  <2>3. ~ShapeRefused(entry.path) /\ entry.kind \notin {"symlink", "device"} /\ ~Expands(entry)
    BY <2>1 DEF EntryRefused
  <2>4. ~(entry.expands > MaxTotalBytes)
    BY <2>3 DEF Expands
  <2>5. ~entry.path.absolute /\ ".." \notin Range(entry.path.parts)
    BY <2>3 DEF ShapeRefused, Range
  <2> QED
    BY <2>2, <2>3, <2>4, <2>5
<1>2. TotalBytes <= MaxTotalBytes
  BY DEF Admitted
<1> QED
  BY <1>1, <1>2 DEF Contained

Blockers == Codes \ {"opaque_path_write"}

LEMMA BlockedBy ==
  Blocked(AnalysisReport) <=> \E code \in Blockers : \E i \in DOMAIN bundle : EntryFinds(bundle[i], code)
BY DEF Blocked, AnalysisReport, SeverityOf, Blockers

LEMMA CoversIsNotApart == \A name : Covers(name) <=> ~Apart(name)
BY DEF Covers, Apart

(* an import *)
LEMMA ImportsFound ==
  ASSUME NEW name
  PROVE  (\E code \in Blockers : ImportFinds(name, code))
           <=> ~(Apart(name) /\ name[1] \notin NetworkRoots \cup ProcessRoots)
BY CoversIsNotApart DEF ImportFinds, Blockers, Codes

(* a target that is written *)
LEMMA TargetsFound ==
  ASSUME NEW s
  PROVE  (\E code \in Blockers : WriteFinds(s, code))
           <=> ~(\A path \in TargetsOf(s) \ {OpaqueTarget} : Apart(ModuleOf(path)) /\ path \in Allowed)
<1>1. \A path : CoversPath(path) <=> ~Apart(ModuleOf(path))
  BY CoversIsNotApart DEF CoversPath
<1> QED
  BY <1>1 DEF WriteFinds, ProtectedWrite, MaskWrite, Blockers, Codes

(* What one statement looks like *)
LooksTame(s) == Tame(SpelledDoes(s), SpelledLoads(s), SpelledWrites(s) \ {OpaqueTarget})

StatementFinds(s, code) ==
  \/ CallFinds(s, code)
  \/ s.form = "import" /\ \E name \in Range(s.names) : ImportFinds(name, code)

SpellsWrite(s) == \/ s.form = "mutate" /\ s.call = "attribute"
                  \/ s.form = "open" /\ s.call = "name" /\ s.mode = "writes"

LEMMA StatementsFound ==
  ASSUME NEW s
  PROVE  (\E code \in Blockers : StatementFinds(s, code)) <=> ~LooksTame(s)
<1> DEFINE found == \E code \in Blockers : StatementFinds(s, code)
           acts == \/ s.form = "dynamic" /\ s.call \in {"name", "attribute"}
                   \/ s.form = "spawn" /\ s.call = "attribute"
           wrong == SpellsWrite(s) /\ \E code \in Blockers : WriteFinds(s, code)
           loads == s.form = "import" /\ \E name \in Range(s.names) : \E code \in Blockers : ImportFinds(name, code)
<1>1. wrong <=> ~(\A path \in SpelledWrites(s) \ {OpaqueTarget} : Apart(ModuleOf(path)) /\ path \in Allowed)
  <2>1. SpelledWrites(s) = IF SpellsWrite(s) THEN TargetsOf(s) ELSE {}
    BY DEF SpelledWrites, SpellsWrite
  <2> QED
    BY <2>1, TargetsFound
<1>2. acts <=> SpelledDoes(s) # {}
  BY DEF SpelledDoes
<1>3. loads <=> ~(\A name \in SpelledLoads(s) : Apart(name) /\ name[1] \notin NetworkRoots \cup ProcessRoots)
  <2>1. SpelledLoads(s) = IF s.form = "import" THEN Range(s.names) ELSE {}
    BY DEF SpelledLoads
  <2> QED
    BY <2>1, ImportsFound
<1>4. "dynamic_exec" \in Blockers /\ "subprocess_spawn" \in Blockers
  BY DEF Blockers, Codes
<1>5. acts => found
  <2>1. CASE s.form = "dynamic" /\ s.call \in {"name", "attribute"}
    <3>1. StatementFinds(s, "dynamic_exec")
      BY <2>1 DEF StatementFinds, CallFinds, NamedCallFinds, AttributeCallFinds
    <3> QED
      BY <1>4, <3>1
  <2>2. CASE s.form = "spawn" /\ s.call = "attribute"
    <3>1. StatementFinds(s, "subprocess_spawn")
      BY <2>2 DEF StatementFinds, CallFinds, AttributeCallFinds
    <3> QED
      BY <1>4, <3>1
  <2> QED
    BY <2>1, <2>2
<1>6. wrong => found
  <2> SUFFICES ASSUME SpellsWrite(s), NEW code \in Blockers, WriteFinds(s, code)
               PROVE  StatementFinds(s, code)
    OBVIOUS
  <2> QED
    BY DEF StatementFinds, CallFinds, NamedCallFinds, AttributeCallFinds, OpenFinds, SpellsWrite
<1>7. ASSUME NEW code \in Blockers, CallFinds(s, code) PROVE acts \/ wrong
  <2>1. CASE s.call = "name" /\ NamedCallFinds(s, code)
    BY <2>1 DEF NamedCallFinds, OpenFinds, SpellsWrite
  <2>2. CASE s.call = "attribute" /\ AttributeCallFinds(s, code)
    BY <2>2 DEF AttributeCallFinds, SpellsWrite
  <2> QED
    BY <1>7, <2>1, <2>2 DEF CallFinds
<1>8. found <=> (\E code \in Blockers : CallFinds(s, code)) \/ loads
  BY DEF StatementFinds
<1> HIDE DEF found, wrong, acts, loads
<1>9. found <=> acts \/ wrong \/ loads
  BY <1>5, <1>6, <1>7, <1>8
<1>10. found <=> ~LooksTame(s)
  BY <1>1, <1>2, <1>3, <1>9 DEF LooksTame, Tame
<1> QED
  BY <1>10 DEF found

(* a source file *)
LEMMA SourcesFound ==
  ASSUME NEW entry \in Entries
  PROVE  (\E code \in Blockers : SourceFinds(entry, code))
           <=> ~(\A s \in Range(entry.source) : s.form # "garbled" /\ LooksTame(s))
<1>1. Garbled(entry) <=> \E s \in Range(entry.source) : s.form = "garbled"
  BY DEF Garbled, Range
<1>2. CASE Garbled(entry)
  <2>1. "unparseable_source" \in Blockers /\ SourceFinds(entry, "unparseable_source")
    BY <1>2 DEF Blockers, Codes, SourceFinds
  <2> QED
    BY <1>1, <1>2, <2>1
<1>3. CASE ~Garbled(entry)
  <2>1. \A code : SourceFinds(entry, code) <=> \E s \in Range(entry.source) : StatementFinds(s, code)
    BY <1>3 DEF SourceFinds, StatementFinds
  <2> QED
    BY <1>1, <1>3, <2>1, StatementsFound
<1> QED
  BY <1>2, <1>3

(* an entry *)
LEMMA EntriesFound ==
  ASSUME bundle \in Seq(Entries), NEW i \in DOMAIN bundle
  PROVE  (\E code \in Blockers : EntryFinds(bundle[i], code))
           <=> ~(/\ bundle[i].path # Nowhere /\ Apart(ModuleOf(bundle[i].path))
                 /\ bundle[i].path.python => \A s \in Range(bundle[i].source) : s.form # "garbled" /\ LooksTame(s))
<1> DEFINE entry == bundle[i]
<1>1. entry \in Entries /\ entry.path \in Allowed
  BY DEF Allowed
<1>2. CoversPath(entry.path) <=> ~Apart(ModuleOf(entry.path))
  BY CoversIsNotApart DEF CoversPath
<1> HIDE DEF entry
<1>3. \A code : EntryFinds(entry, code) <=> \/ code = "mask_path_write" /\ entry.path = Nowhere
                                            \/ code = "protected_module_write" /\ CoversPath(entry.path)
                                            \/ entry.path.python /\ SourceFinds(entry, code)
  BY <1>1 DEF EntryFinds, MaskWrite, ProtectedWrite
<1>4. "mask_path_write" \in Blockers /\ "protected_module_write" \in Blockers
  BY DEF Blockers, Codes
<1>5. (\E code \in Blockers : EntryFinds(entry, code))
        <=> \/ entry.path = Nowhere \/ CoversPath(entry.path)
            \/ entry.path.python /\ \E code \in Blockers : SourceFinds(entry, code)
  BY <1>3, <1>4
<1>6. (\E code \in Blockers : EntryFinds(entry, code))
        <=> ~(/\ entry.path # Nowhere /\ Apart(ModuleOf(entry.path))
              /\ entry.path.python => \A s \in Range(entry.source) : s.form # "garbled" /\ LooksTame(s))
  BY <1>1, <1>2, <1>5, SourcesFound
<1> QED
  BY <1>6 DEF entry

LEMMA HarmlessIsTame ==
  ASSUME bundle \in Seq(Entries)
  PROVE  LooksHarmless <=> \A i \in DOMAIN bundle :
                        /\ bundle[i].path # Nowhere /\ Apart(ModuleOf(bundle[i].path))
                        /\ bundle[i].path.python =>
                             \A s \in Range(bundle[i].source) : s.form # "garbled" /\ LooksTame(s)
<1>1. LooksHarmless <=> /\ \A entry \in Range(bundle) : entry.path # Nowhere /\ Apart(ModuleOf(entry.path))
                   /\ \A s \in Scanned : s.form # "garbled" /\ LooksTame(s)
  BY DEF LooksHarmless, LooksTame
<1>2. (\A s \in Scanned : s.form # "garbled" /\ LooksTame(s))
        <=> \A i \in DOMAIN bundle :
              bundle[i].path.python => \A s \in Range(bundle[i].source) : s.form # "garbled" /\ LooksTame(s)
  <2>1. \A s : s \in Scanned <=> \E i \in DOMAIN bundle : bundle[i].path.python /\ s \in Range(bundle[i].source)
    BY EntriesOfBundle DEF Scanned
  <2> QED
    BY <2>1
<1>3. (\A entry \in Range(bundle) : entry.path # Nowhere /\ Apart(ModuleOf(entry.path)))
        <=> \A i \in DOMAIN bundle : bundle[i].path # Nowhere /\ Apart(ModuleOf(bundle[i].path))
  BY EntriesOfBundle
<1> QED
  BY <1>1, <1>2, <1>3

(* The analysis blocks what does harm, and nothing else; *)
LEMMA BlockedIsHarmful ==
  ASSUME bundle \in Seq(Entries)
  PROVE  ~Blocked(AnalysisReport) <=> LooksHarmless
  BY BlockedBy, EntriesFound, HarmlessIsTame

(* and reports a write that it cannot resolve. *)
LEMMA OpaqueIsReported ==
  ASSUME bundle \in Seq(Entries), ~Blocked(AnalysisReport), OpaqueWrite
  PROVE  AnalysisReport # {}
<1>0. PICK i \in DOMAIN bundle :
        \E s \in Range(bundle[i].source) : bundle[i].path.python /\ OpaqueTarget \in SpelledWrites(s)
  BY EntriesOfBundle DEF OpaqueWrite, Scanned
<1>1. PICK s \in Range(bundle[i].source) : bundle[i].path.python /\ OpaqueTarget \in SpelledWrites(s)
  BY <1>0
<1> DEFINE entry == bundle[i]
<1>2. entry \in Entries /\ s \in Range(entry.source) /\ entry.path.python
  BY <1>1
<1>3. ~Garbled(entry)
  <2>1. s.form # "garbled" /\ \A r \in Range(entry.source) : r.form # "garbled"
    BY <1>1, BlockedIsHarmful, HarmlessIsTame
  <2> QED
    BY <2>1 DEF Garbled, Range
<1>4. SpellsWrite(s) /\ OpaqueTarget \in TargetsOf(s)
  BY <1>1 DEF SpelledWrites, SpellsWrite
<1>6. WriteFinds(s, "opaque_path_write")
  BY <1>4 DEF WriteFinds
<1>7. CallFinds(s, "opaque_path_write")
  BY <1>4, <1>6 DEF SpellsWrite, CallFinds, NamedCallFinds, AttributeCallFinds, OpenFinds
<1>8. EntryFinds(entry, "opaque_path_write")
  BY <1>2, <1>3, <1>7 DEF EntryFinds, SourceFinds
<1> QED
  BY <1>8 DEF AnalysisReport, Codes

(* Of a bundle that looks harmless, a statement that says all it does is.  *)
LEMMA NothingIsHidden ==
  ASSUME LooksHarmless, NEW s \in Scanned
  PROVE  NothingHidden(s)
BY DEF LooksHarmless, NothingHidden, SaysAll, Tame

LEMMA BundleStays ==
  ASSUME bundle' = bundle
  PROVE  /\ LooksHarmless' <=> LooksHarmless
         /\ (\A s \in Scanned : NothingHidden(s))' <=> \A s \in Scanned : NothingHidden(s)
         /\ Contained' <=> Contained
         /\ OpaqueWrite' <=> OpaqueWrite
<1>1. Scanned' = Scanned /\ Allowed' = Allowed
  BY DEF Scanned, Allowed
<1>2. TotalBytes' = TotalBytes
  BY DEF TotalBytes
<1> QED
  BY <1>1, <1>2 DEF LooksHarmless, Tame, NothingHidden, Contained, OpaqueWrite

LEMMA ContainedUnfolds ==
  PassedIsContained <=>
    (ruling # Undecided =>
       /\ ruling.gate = "analysis" => /\ ruling.passed <=> LooksHarmless
                                      /\ ruling.passed => \A s \in Scanned : NothingHidden(s)
                                      /\ ruling.passed /\ OpaqueWrite => ruling.report # {}
       /\ ruling.passed => Contained)
  BY DEF PassedIsContained, OpaqueWrite, NothingHidden, Contained

LEMMA GatesKept == GatesInv /\ [GatesNext]_gateVars => GatesInv'
<1> SUFFICES ASSUME GatesInv, [GatesNext]_gateVars PROVE GatesInv'
  OBVIOUS
<1>1. bundle \in Seq(Entries) /\ PassedIsContained
  BY DEF GatesInv
<1>2. CASE UNCHANGED gateVars
  <2>1. bundle' = bundle /\ ruling' = ruling
    BY <1>2 DEF gateVars
  <2> QED
    BY <1>1, <2>1, BundleStays, ContainedUnfolds DEF GatesInv, PassedIsContained, OpaqueWrite, NothingHidden, Contained
<1>3. ASSUME NEW entry \in Entries, Bring(entry) PROVE GatesInv'
  <2>1. bundle' \in Seq(Entries) /\ ruling' = Undecided
    BY <1>1, <1>3 DEF Bring
  <2> QED
    BY <2>1 DEF GatesInv, PassedIsContained, Undecided
<1>4. CASE GateCandidate
  <2> DEFINE report == AnalysisReport
             passed == ~Blocked(AnalysisReport)
             turnedDown == [gate |-> "admission", passed |-> FALSE, report |-> {}]
             judged == [gate |-> "analysis", passed |-> passed, report |-> report]
  <2>1. bundle' = bundle /\ ruling' = IF ~Admitted({}) THEN turnedDown ELSE judged
    BY <1>4 DEF GateCandidate
  <2>2. /\ passed <=> LooksHarmless
        /\ passed => \A s \in Scanned : NothingHidden(s)
        /\ passed /\ OpaqueWrite => report # {}
        /\ Admitted({}) => Contained
    BY <1>1, BlockedIsHarmful, NothingIsHidden, OpaqueIsReported, AdmittedIsContained
  <2> HIDE DEF report, passed
  <2>3. CASE ~Admitted({})
    BY <1>1, <2>1, <2>3 DEF GatesInv, PassedIsContained
  <2>4. CASE Admitted({})
    <3>1. ruling'.gate = "analysis" /\ ruling'.passed = passed /\ ruling'.report = report
      BY <2>1, <2>4
    <3> QED
      BY <1>1, <2>1, <2>2, <2>4, <3>1, BundleStays
         DEF GatesInv, PassedIsContained, OpaqueWrite, NothingHidden, Contained
  <2> QED
    BY <2>3, <2>4
<1>5. ASSUME NEW declared \in DeclaredSets, AdmitOutputs(declared) PROVE GatesInv'
  <2> DEFINE passed == Admitted(declared)
  <2>1. bundle' = bundle /\ ruling' = [gate |-> "outputs", passed |-> passed, report |-> {}]
    BY <1>5 DEF AdmitOutputs
  <2>2. passed => Contained
    BY <1>1, AdmittedIsContained
  <2> HIDE DEF passed
  <2>3. ruling'.gate = "outputs" /\ ruling'.passed = passed
    BY <2>1
  <2> QED
    BY <1>1, <2>1, <2>2, <2>3, BundleStays DEF GatesInv, PassedIsContained, Contained
<1> QED
  BY <1>2, <1>3, <1>4, <1>5 DEF GatesNext

(* "Executable candidates must be analyzed before any execution"           *)
(* (plugins/static_analysis.py): the analysis passes a candidate exactly   *)
(* when no file of it is protected and no statement of it looks harmful,   *)
(* whatever entries and roots there are; so of what passes, a statement    *)
(* does harm only if its spelling does not say so.  And what admission     *)
(* lets through is files below the root.                                   *)
THEOREM GatesCorrect == GatesSpec => []PassedIsContained
<1>1. GatesInit => GatesInv
  BY DEF GatesInit, GatesInv, PassedIsContained
<1>2. GatesInv => PassedIsContained
  BY DEF GatesInv
<1> QED
  BY <1>1, <1>2, GatesKept, PTL DEF GatesSpec

-----------------------------------------------------------------------------
(* The union.  Each service starts in an initial state of its own, and     *)
(* every step of the union is one of its steps, or leaves it at rest.      *)
LEMMA EachBegins ==
  ASSUME Init
  PROVE  /\ HandleInit /\ TransportInit /\ MemoryInit /\ SelectionInit /\ GraduationInit /\ ClaimInit /\ WorkerInit
         /\ SpecInit /\ RollbackInit /\ RegistryInit /\ DeletionInit /\ FleetInit /\ PlansInit /\ PoliciesInit
         /\ OutcomesInit /\ SwapInit /\ GraphInit /\ HarnessInit /\ PromotionInit /\ ArchiveInit /\ SupplyInit
         /\ GatesInit /\ OwnershipInit /\ TraceInit /\ ViewInit /\ TablesInit /\ AnalysisInit
  BY DEF Init

LEMMA EachMoves ==
  ASSUME [Next]_subsystemVars
  PROVE  /\ [HandleNext]_handleVars /\ [TransportNext]_transportVars /\ [MemoryNext]_memoryVars
         /\ [SelectionNext]_selectionVars /\ [GraduationNext]_graduationVars /\ [ClaimNext]_claimVars
         /\ [WorkerNext]_workerVars /\ [SpecNext]_specVars /\ [RollbackNext]_rollbackVars
         /\ [RegistryNext]_registryVars /\ [DeletionNext]_deletionVars /\ [FleetNext]_fleetVars
         /\ [PlansNext]_planVars /\ [PoliciesNext]_policyVars /\ [OutcomesNext]_outcomeVars /\ [SwapNext]_swapVars
         /\ [GraphNext]_graphVars /\ [HarnessNext]_runVars /\ [PromotionNext]_promotionVars
         /\ [ArchiveNext]_archiveVars /\ [SupplyNext]_supplyVars /\ [GatesNext]_gateVars
         /\ [OwnershipNext]_ownershipVars /\ [TraceNext]_traceVars
         /\ [ViewNext]_viewVars /\ [TableStep]_<<viewVars, tableVars>> /\ [AnalysisNext]_analysisVars
<1>1. CASE UNCHANGED subsystemVars
  BY <1>1 DEF subsystemVars
<1>2. CASE Next
  <2> OthersAtRest
    BY <1>2 DEF Next
  <2>1. focus = "holdout" => HandleNext
    BY <1>2 DEF Next
  <2>2. focus = "plugin" => TransportNext
    BY <1>2 DEF Next
  <2>3. focus = "memory" => MemoryNext
    BY <1>2 DEF Next
  <2>4. focus = "selection" => SelectionNext
    BY <1>2 DEF Next
  <2>5. focus = "graduation" => GraduationNext
    BY <1>2 DEF Next
  <2>6. focus = "claim" => ClaimNext
    BY <1>2 DEF Next
  <2>7. focus = "worker" => WorkerNext
    BY <1>2 DEF Next
  <2>8. focus = "spec" => SpecNext
    BY <1>2 DEF Next
  <2>9. focus = "rollback" => RollbackNext
    BY <1>2 DEF Next
  <2>10. focus = "registry" => RegistryNext
    BY <1>2 DEF Next
  <2>11. focus = "deletion" => DeletionNext
    BY <1>2 DEF Next
  <2>12. focus = "fleet" => FleetNext
    BY <1>2 DEF Next
  <2>13. focus = "plans" => PlansNext
    BY <1>2 DEF Next
  <2>14. focus = "policies" => PoliciesNext
    BY <1>2 DEF Next
  <2>15. focus = "outcomes" => OutcomesNext
    BY <1>2 DEF Next
  <2>16. focus = "pointer" => SwapNext
    BY <1>2 DEF Next
  <2>17. focus = "lineage" => GraphNext
    BY <1>2 DEF Next
  <2>18. focus = "harness" => HarnessNext
    BY <1>2 DEF Next
  <2>19. focus = "promotion" => PromotionNext
    BY <1>2 DEF Next
  <2>20. focus = "archive" => ArchiveNext
    BY <1>2 DEF Next
  <2>21. focus = "supply" => SupplyNext
    BY <1>2 DEF Next
  <2>22. focus = "gates" => GatesNext
    BY <1>2 DEF Next
  <2>23. focus = "journal" => OwnershipNext
    BY <1>2 DEF Next
  <2>24. focus = "trace" => TraceNext
    BY <1>2 DEF Next
  <2>25. focus = "views" => ViewNext
    BY <1>2 DEF Next
  <2>26. focus = "tables" => TablesNext
    BY <1>2 DEF Next
  <2>27. TablesNext => TableStep /\ [ViewNext]_viewVars
    BY DEF TablesNext, TableStep, ViewNext, Rebuild, SpoilRow
  <2>28. [ViewNext]_viewVars /\ [TableStep]_<<viewVars, tableVars>>
    BY <2>25, <2>26, <2>27 DEF OthersAtRest, TableStep
  <2>29. focus = "analysis" => AnalysisNext
    BY <1>2 DEF Next
  <2> QED
    BY <2>1, <2>2, <2>3, <2>4, <2>5, <2>6, <2>7, <2>8, <2>9, <2>10, <2>11, <2>12, <2>13, <2>14, <2>15, <2>16, <2>17,
       <2>18, <2>19, <2>20, <2>21, <2>22, <2>23, <2>24, <2>28, <2>29
       DEF OthersAtRest
<1> QED
  BY <1>1, <1>2

THEOREM EachRuns ==
  SubsystemsSpec =>
    /\ HandleSpec /\ TransportSpec /\ MemorySpec /\ SelectionSpec /\ GraduationSpec /\ ClaimSpec /\ WorkerSpec
    /\ SpecSpec /\ RollbackSpec /\ RegistrySpec /\ DeletionSpec /\ FleetSpec /\ PlansSpec /\ PoliciesSpec
    /\ OutcomesSpec /\ SwapSpec /\ GraphSpec /\ HarnessSpec /\ PromotionSpec /\ ArchiveSpec /\ SupplySpec /\ GatesSpec
    /\ OwnershipSpec /\ TraceSpec /\ ViewSpec /\ TablesSpec /\ AnalysisSpec
  BY EachBegins, EachMoves, PTL
     DEF SubsystemsSpec, HandleSpec, TransportSpec, MemorySpec, SelectionSpec, GraduationSpec, ClaimSpec, WorkerSpec,
         SpecSpec, RollbackSpec, RegistrySpec, DeletionSpec, FleetSpec, PlansSpec, PoliciesSpec, OutcomesSpec, SwapSpec,
         GraphSpec, HarnessSpec, PromotionSpec, ArchiveSpec, SupplySpec, GatesSpec, OwnershipSpec, TraceSpec,
         ViewSpec, TablesSpec, AnalysisSpec

(* What the services promise one by one they promise side by side.         *)
THEOREM ServicesKeep ==
  SubsystemsSpec =>
    [](/\ HoldoutAccessIsEarned /\ DeliveredInBudget /\ MemoryIsSound /\ NomineesFollowTheRule /\ RiskNeverClimbs
       /\ ClaimsAreBacked /\ PassMeansCleanRun /\ RegistrySound /\ EvidenceIsSound /\ SupplyIsSound
       /\ PassedIsContained /\ CountedAttemptsFitBudget /\ JournalHasOneOwner)
  BY EachRuns, HoldoutCorrect, TransportCorrect, MemoryCorrect, SelectionCorrect, GraduationCorrect, ClaimsCorrect,
     WorkerCorrect, RegistryCorrect, ArchiveCorrect, SupplyCorrect, GatesCorrect, HarnessCorrect,
     OwnershipCorrect, PTL

(* A rollback is discharged by what was restored, and a gate opened by     *)
(* what was executed.                                                      *)
THEOREM RollbacksCorrect == SubsystemsSpec => []RollbacksAreEarned
<1>1. DischargedIsRestored /\ PlansAreEvidenced => RollbacksAreEarned
  BY DEF RollbacksAreEarned
<1> QED
  BY <1>1, EachRuns, RollbackCorrect, PlansCorrect, PTL

(* What is pinned or signed means later what it meant when it was.         *)
THEOREM SignedCorrect == SubsystemsSpec => []SignedIsMeant
<1>1. PinnedSpecsHold /\ PoliciesAreKept /\ AttestedAsGraded /\ TraceTellsTheRun => SignedIsMeant
  BY DEF SignedIsMeant, OutcomesAreProved
<1> QED
  BY <1>1, EachRuns, SpecsCorrect, PoliciesCorrect, AttestationCorrect, TracesCorrect, PTL

(* Ancestry is exact, and no copy outlives the deletion that covers it.    *)
THEOREM LineageCorrect == SubsystemsSpec => []LineageSound
<1>1. AncestryIsExact /\ CopiesAreCovered /\ DeadlinesFollow => LineageSound
  BY DEF LineageSound
<1> QED
  BY <1>1, EachRuns, AncestryCorrect, DeletionCorrect, PTL

(* A release rests on results that ran, moves with its audit, and is heard *)
(* of by every worker.                                                     *)
THEOREM ReleasesCorrect == SubsystemsSpec => []ReleasesRestOnWhatRan
<1>1. PromotedOnWhatRan /\ FleetIsHonest /\ PointerIsAsAudited => ReleasesRestOnWhatRan
  BY DEF ReleasesRestOnWhatRan
<1> QED
  BY <1>1, EachRuns, PromotionCorrect, FleetHonest, PointerCorrect, PTL

(* What is read back - from the trace store, and from the journal of one   *)
(* path that two adapters opened - is what was written.                    *)
THEOREM ReadBackCorrect == SubsystemsSpec => []TracesReadBack
<1>1. TracesAreFaithful /\ JournalHasOneOwner => TracesReadBack
  BY DEF TracesReadBack
<1> QED
  BY <1>1, EachRuns, DiscoveryCorrect, OwnershipCorrect, PTL

(* Nothing is reported but what the evidence says: registrations follow the *)
(* rules, what is computed of the evidence favours nobody, and a stored    *)
(* table tells when it is not of it.                                       *)
THEOREM ReportsCorrect == SubsystemsSpec => []ReportsAreSound
<1>1. EvidenceIsSound /\ ViewsAreFair /\ TablesTellDrift => ReportsAreSound
  BY DEF ReportsAreSound
<1> QED
  BY <1>1, EachRuns, ArchiveCorrect, ViewsCorrect, TablesCorrect, PTL

(* What an experiment says of its arms rests on matched runs: every attempt *)
(* counted fits the one budget, and the comparison is of the runs.         *)
THEOREM EvaluationsCorrect == SubsystemsSpec => []EvaluationsAreMatched
<1>1. CountedAttemptsFitBudget /\ AnalysisIsHonest => EvaluationsAreMatched
  BY DEF EvaluationsAreMatched
<1> QED
  BY <1>1, EachRuns, HarnessCorrect, AnalysisCorrect, PTL
=============================================================================
