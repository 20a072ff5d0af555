----------------------------- MODULE CampaignSpecs -----------------------------
(***************************************************************************)
(* Campaign specs (campaign/spec.py): documents of three schema versions,  *)
(* two of them accepted inside migration windows only, are validated,      *)
(* brought to one canonical form, pinned and signed, and stored; every     *)
(* later use parses the stored form again, on another day, under another   *)
(* deployment (api/service.py).  Masks (campaign/masks.py) then decide     *)
(* which files of a candidate the pinned spec lets through.                *)
(*                                                                         *)
(* A digest is its canonical form and a signature is the deployment's.     *)
(* Names, images, digests, thresholds and other fields that only have to   *)
(* be of the right shape are one flag, "shaped".  A path is a value; which *)
(* paths are absolute or traverse is a constant, which are protected is    *)
(* the deployment's business.                                              *)
(***************************************************************************)
EXTENDS Integers, Sequences, FiniteSets

CONSTANTS
  Documents,      (* what authors submit *)
  Improper,       (* paths that are absolute, traverse, or are empty or untrimmed *)
  ProtectedSets,  (* sets of paths a deployment may protect *)
  MaxCampaigns, MaxSpecRefusals    (* bounds of the model *)

VARIABLES
  day,            (* 0: both windows are open; 1: version 1 is closed; 2: version 2 too *)
  protectedPaths, (* ProtectedModulesDocument.default() of the deployment *)
  research,       (* is the tenant a research tenant in the deployment's policies *)
  campaigns,      (* campaign_records: the authored document, the spec pinned, the form stored *)
  specRefusals    (* tenant_policy_refusals of the two boundaries *)

specVars == <<day, protectedPaths, research, campaigns, specRefusals>>

ArtifactTypes == {"prompt_bundle", "harness_patch", "scaffold"}
Controls == {"incumbent", "retry-self-consistency", "one-shot-control", "strategy"}
DefaultSandboxExecutions == 240

SpecInit ==
  /\ day \in 0..2 /\ protectedPaths \in ProtectedSets /\ research \in BOOLEAN
  /\ campaigns = <<>> /\ specRefusals = <<>>

(* What a mapping has to have to be read at all: its keys, lists where     *)
(* lists are expected, and the keys of arms and evaluators                 *)
DocumentKeys == {"version", "field", "shaped", "incumbent", "artifacts", "environment", "tier4", "classes",
                 "holdout", "arms", "family", "sample", "plan", "evaluators", "sandbox"}
ArmKeys == {"id", "kind", "attempts", "component", "editor"}
ASSUME SpecAssumption ==
  \A d \in Documents :
    /\ DOMAIN d = DocumentKeys
    /\ Len(d.artifacts) \in Nat /\ DOMAIN d.artifacts = 1..Len(d.artifacts)
    /\ \A i \in DOMAIN d.arms : DOMAIN d.arms[i] = ArmKeys
    /\ \A i \in DOMAIN d.evaluators : "stage" \in DOMAIN d.evaluators[i]

-----------------------------------------------------------------------------
(* Bindings: each is checked as it is constructed, before the spec is      *)

Distinct(s) == \A i, j \in DOMAIN s : s[i] = s[j] => i = j
IdsOf(s) == [i \in DOMAIN s |-> s[i].id]
TypesOf(s) == [i \in DOMAIN s |-> s[i].type]

ProperPaths(paths) == paths # {} /\ paths \cap Improper = {} /\ paths \cap protectedPaths = {}

MutableSet(artifacts) ==
  /\ artifacts # <<>>
  /\ \A i \in DOMAIN artifacts : artifacts[i].type \in ArtifactTypes /\ ProperPaths(artifacts[i].paths)
  /\ Distinct(TypesOf(artifacts))

(* CompensationActionSpec: who takes a hook, and who must be a scaffold *)
ActionShaped(a) ==
  /\ a.type \in ArtifactTypes
  /\ a.hook = (a.action = "run_compensation_hook")
  /\ a.action \in {"rerun_conformance_suite", "restore_scaffold_source"} => a.type = "scaffold"

(* CompensationPlanSection: one action per type, or the scaffold's pair *)
ScaffoldActions(actions) == SelectSeq(actions, LAMBDA a : a.type = "scaffold")
PlanShaped(actions) ==
  LET pair == [i \in DOMAIN ScaffoldActions(actions) |-> ScaffoldActions(actions)[i].action] IN
  /\ actions # <<>> /\ \A i \in DOMAIN actions : ActionShaped(actions[i])
  /\ Distinct(TypesOf(SelectSeq(actions, LAMBDA a : a.type # "scaffold")))
  /\ Len(pair) > 1 => pair = <<"restore_scaffold_source", "rerun_conformance_suite">>

(* Arm: a field of one kind is refused on the others *)
ArmShaped(a) ==
  /\ a.kind \in Controls \cup {"ablation", "fixed-editor"}
  /\ (a.component # "none") = (a.kind = "ablation")
  /\ (a.editor # "none") = (a.kind = "fixed-editor")
  /\ a.attempts >= 1 /\ (a.kind # "retry-self-consistency" => a.attempts = 1)

(* MutationClassBinding, DatasetBindings: the holdout is a sealed handle *)
IsolationTiers == {"text-only", "brokered", "executable", "highest"}
ClassesBound(s) == \A i \in DOMAIN s.classes : s.classes[i].tier \in IsolationTiers
DatasetsBound(s) == s.holdout = "sealed"
EvaluatorsBound(s) == \A i \in DOMAIN s.evaluators : s.evaluators[i].stage >= 0
BudgetsBound(s) == s.sandbox >= 1
StatisticsBound(s) == Distinct(s.family)

Bound(s) ==
  /\ MutableSet(s.artifacts) /\ s.incumbent \in ArtifactTypes
  /\ \A i \in DOMAIN s.arms : ArmShaped(s.arms[i])
  /\ ClassesBound(s) /\ DatasetsBound(s)
  /\ StatisticsBound(s) /\ EvaluatorsBound(s) /\ BudgetsBound(s)
  /\ s.plan # <<>> => PlanShaped(s.plan)

-----------------------------------------------------------------------------
(* CampaignSpec.__post_init__ *)

HasScaffold(s) == \E i \in DOMAIN s.artifacts : s.artifacts[i].type = "scaffold"
OfKind(s, k) == Cardinality({i \in DOMAIN s.arms : s.arms[i].kind = k})

PrimaryUnique(s) == Cardinality({i \in DOMAIN s.artifacts : s.artifacts[i].type = s.incumbent}) = 1

EnvironmentKnown(s) == s.environment \in {"none", "research", "production"}
EnvironmentRefused(s) == HasScaffold(s) /\ s.environment # "research"

ArmsValid(s) ==
  /\ Distinct(IdsOf(s.arms))
  /\ \A k \in Controls : OfKind(s, k) = 1
  /\ HasScaffold(s) => OfKind(s, "fixed-editor") = 1
  /\ \A i \in DOMAIN s.arms : s.arms[i].kind = "ablation" =>
       \E j \in DOMAIN s.family : s.family[j] = s.arms[i].component

ClassesDeclared(s) == HasScaffold(s) => s.classes # <<>>
Tier4Pinned(s) == (s.tier4 # "none") = HasScaffold(s)

(* a campaign can only compensate what it mutates *)
CompensatesItsOwn(s) ==
  \A i \in DOMAIN s.plan : \E j \in DOMAIN s.artifacts : s.artifacts[j].type = s.plan[i].type

Valid(s) ==
  /\ Distinct(IdsOf(s.classes)) /\ PrimaryUnique(s)
  /\ EnvironmentKnown(s) /\ ~EnvironmentRefused(s)
  /\ ClassesDeclared(s) /\ Tier4Pinned(s)
  /\ ArmsValid(s) /\ CompensatesItsOwn(s)
  /\ s.evaluators # <<>>

-----------------------------------------------------------------------------
(* from_mapping.  An optional field of a document is absent, null or given; *)
(* an arm's own may not be null, a sample size may.                        *)

Optional(x) == IF x \in {"absent", "null"} THEN "none" ELSE x
Given(x) == IF x = "absent" THEN "none" ELSE x
Or(x, default) == IF x = -1 THEN default ELSE x        (* -1: absent *)

(* _parse_mutable_artifacts: the version decides which field is read, and  *)
(* the day which version                                                   *)
Accepted(d) ==
  \/ d.version = 3 /\ d.field = "mutable_artifacts"
  \/ d.version = 2 /\ d.field = "mutable_artifacts" /\ day <= 1
  \/ d.version = 1 /\ d.field = "mutable_artifact" /\ day = 0

Parsed(d) ==
  [incumbent |-> d.incumbent, artifacts |-> d.artifacts, environment |-> Optional(d.environment),
   tier4 |-> Optional(d.tier4), classes |-> d.classes, holdout |-> d.holdout,
   arms |-> [i \in DOMAIN d.arms |-> [d.arms[i] EXCEPT !.component = Given(@), !.editor = Given(@),
                                                       !.attempts = Or(@, 1)]],
   family |-> d.family, sample |-> Optional(d.sample), plan |-> d.plan,
   evaluators |-> [i \in DOMAIN d.evaluators |-> [d.evaluators[i] EXCEPT !.stage = Or(@, 0)]],
   sandbox |-> Or(d.sandbox, DefaultSandboxExecutions)]

(* the rounds, policy reference and thresholds that only have to be of the right shape *)
Shaped(d) == d.shaped
Typed(d) == Shaped(d) /\ \A i \in DOMAIN d.arms : d.arms[i].component # "null" /\ d.arms[i].editor # "null"

Binds(d) == Accepted(d) /\ Typed(d) /\ Bound(Parsed(d))
Loads(d) == Binds(d) /\ Valid(Parsed(d))

(* to_canonical_dict: always version 3 and always the same keys, except    *)
(* those of arms and the sample size, omitted when unset                   *)
Key(x, unset) == IF x = "none" THEN unset ELSE x
CanonicalNulls(s) ==
  [version |-> 3, field |-> "mutable_artifacts", shaped |-> TRUE, incumbent |-> s.incumbent,
   artifacts |-> s.artifacts, environment |-> Key(s.environment, "null"), tier4 |-> Key(s.tier4, "null"),
   classes |-> s.classes, holdout |-> s.holdout,
   arms |-> [i \in DOMAIN s.arms |-> [s.arms[i] EXCEPT !.component = Key(@, "null"), !.editor = Key(@, "null")]],
   family |-> s.family, sample |-> Key(s.sample, "absent"), plan |-> s.plan,
   evaluators |-> s.evaluators, sandbox |-> s.sandbox]
Canonical(s) ==
  [version |-> 3, field |-> "mutable_artifacts", shaped |-> TRUE, incumbent |-> s.incumbent,
   artifacts |-> s.artifacts, environment |-> Key(s.environment, "null"), tier4 |-> Key(s.tier4, "null"),
   classes |-> s.classes, holdout |-> s.holdout,
   arms |-> [i \in DOMAIN s.arms |-> [s.arms[i] EXCEPT !.component = Key(@, "absent"), !.editor = Key(@, "absent")]],
   family |-> s.family, sample |-> Key(s.sample, "absent"), plan |-> s.plan,
   evaluators |-> s.evaluators, sandbox |-> s.sandbox]

(* pin_and_sign: the campaign row holds the spec, the form it is stored in *)
(* and its digest, of the same canonical form                              *)
PinAndSign(d) ==
  [authored |-> d, spec |-> Parsed(d), stored |-> Canonical(Parsed(d)), digest |-> Canonical(Parsed(d)),
   inResearch |-> research]

(* PinnedCampaignSpec.verify, of a stored campaign: _rebuild_orchestrator  *)
StillSigned(s, digest) == Canonical(s) = digest
Verifies(c) == Loads(c.stored) /\ StillSigned(Parsed(c.stored), c.digest)

-----------------------------------------------------------------------------
(* create_campaign.  A scaffold spec is refused where it does not claim    *)
(* the research environment, by the constructor, and where the tenant is   *)
(* not a research tenant; both refusals are on the ledger.  Validation     *)
(* alone (validate_campaign_spec) and an invalid document leave no trace.  *)

RefusedBoundary(d) ==
  IF Binds(d) /\ PrimaryUnique(Parsed(d)) /\ EnvironmentKnown(Parsed(d)) /\ EnvironmentRefused(Parsed(d))
    /\ Distinct(IdsOf(d.classes)) THEN "spec_construction"
  ELSE IF Loads(d) /\ HasScaffold(Parsed(d)) /\ ~research THEN "campaign_creation" ELSE "none"

RefuseCampaign(d) ==
  /\ Len(specRefusals) < MaxSpecRefusals
  /\ RefusedBoundary(d) # "none"
  /\ specRefusals' = Append(specRefusals, RefusedBoundary(d))
  /\ UNCHANGED <<day, protectedPaths, research, campaigns>>

CreateCampaign(d) ==
  /\ Len(campaigns) < MaxCampaigns
  /\ Loads(d) /\ RefusedBoundary(d) = "none"
  /\ campaigns' = Append(campaigns, PinAndSign(d))
  /\ UNCHANGED <<day, protectedPaths, research, specRefusals>>

DayPasses == day < 2 /\ day' = day + 1 /\ UNCHANGED <<protectedPaths, research, campaigns, specRefusals>>

(* a new deployment: another deny-list, another tenant policy *)
DeploySpecs ==
  /\ protectedPaths' \in ProtectedSets /\ research' \in BOOLEAN
  /\ UNCHANGED <<day, campaigns, specRefusals>>

SpecNext == DayPasses \/ DeploySpecs \/ \E d \in Documents : RefuseCampaign(d) \/ CreateCampaign(d)

-----------------------------------------------------------------------------
(* Masks: a file entry [path, type] of a candidate, type "none" when it    *)
(* declares none.  One mask is enforced whatever the entry declares.       *)

MaskFor(s, f) ==
  IF Len(s.artifacts) = 1 THEN {1} ELSE {i \in DOMAIN s.artifacts : s.artifacts[i].type = f.type}

InMask(s, f) == f.path \notin Improper /\ \E i \in MaskFor(s, f) : f.path \in s.artifacts[i].paths

(* validate takes a candidate's files; render takes a patch, whose files    *)
(* declare no type: the member it is rendered for may be named instead      *)
Accepts(s, files) == \A f \in files : InMask(s, f)

MemberFor(s, type) ==
  IF type # "none" THEN {i \in DOMAIN s.artifacts : s.artifacts[i].type = type}
  ELSE IF Len(s.artifacts) = 1 THEN {1} ELSE {}
Renders(s, type, paths) == \E i \in MemberFor(s, type) : paths \subseteq s.artifacts[i].paths \ Improper

FileEntries == [path : Improper \cup UNION ProtectedSets \cup
                        UNION {UNION {d.artifacts[i].paths : i \in DOMAIN d.artifacts} : d \in Documents},
                type : ArtifactTypes \cup {"none"}]

-----------------------------------------------------------------------------
SpecTypes ==
  /\ day \in 0..2 /\ protectedPaths \in ProtectedSets /\ research \in BOOLEAN
  /\ \A c \in DOMAIN campaigns : campaigns[c].authored \in Documents
  /\ \A r \in DOMAIN specRefusals : specRefusals[r] \in {"spec_construction", "campaign_creation"}

(* The document of version 3 that says what an older one says *)
Upgraded(d) == [d EXCEPT !.version = 3, !.field = "mutable_artifacts"]

(* A pinned spec stays one: "a v1 or v2 document and the equivalent v3     *)
(* document pin to the same digest" (spec.py:21-30), and on whatever day,  *)
(* long after its window closed, the stored form parses to the spec that   *)
(* was signed - as long as the deployment protects none of its paths; a    *)
(* scaffold campaign was created in a research tenant; and what its masks  *)
(* let through is declared, for its own class when there are several; and  *)
(* what one enforcement point renders the other accepts, several masks or  *)
(* one.                                                                    *)
PinnedSpecsHold ==
  \A c \in DOMAIN campaigns :
    LET row == campaigns[c] IN
    /\ row.digest = Canonical(Parsed(Upgraded(row.authored)))
    /\ (\A i \in DOMAIN row.spec.artifacts : row.spec.artifacts[i].paths \cap protectedPaths = {}) =>
         Verifies(row) /\ Parsed(row.stored) = row.spec
    /\ HasScaffold(row.spec) => row.inResearch /\ row.spec.environment = "research"
    /\ \A f \in FileEntries : InMask(row.spec, f) =>
         \E i \in DOMAIN row.spec.artifacts :
           /\ f.path \in row.spec.artifacts[i].paths
           /\ Len(row.spec.artifacts) > 1 => row.spec.artifacts[i].type = f.type
    /\ \A f, g \in FileEntries : f.type = g.type =>
         /\ Renders(row.spec, f.type, {f.path, g.path}) => Accepts(row.spec, {f, g})
         /\ Len(row.spec.artifacts) > 1 /\ Accepts(row.spec, {f, g}) => Renders(row.spec, f.type, {f.path, g.path})

=============================================================================
