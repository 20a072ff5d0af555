------------------------------ MODULE MCSubsystems ------------------------------
(***************************************************************************)
(* The subsystems that share nothing while they work - each is reached     *)
(* through its own service and keeps its own tables - checked side by      *)
(* side: an execution follows one of them, "focus", and leaves the others  *)
(* at rest, so that TLC explores the sum of their states and not the       *)
(* product.                                                                *)
(***************************************************************************)
EXTENDS HoldoutHandles, EvalHarness, PluginTransport, MemoryPlane, EvidenceArchive,
        Selection, RecursiveClaim, ExecutionWorker, CampaignSpecs, ScaffoldRollback,
        TraceDiscovery, ArtifactRegistry, LineageStore, CandidateGates, PluginSupply,
        SearchStrategies, EvidenceDistillers, FleetConvergence, CompensationPlans, ArchiveViews,
        ExperimentAnalysis, SignedPolicies, OutcomeAttestations, JournalOwnership, PointerSwap, MCPromotion

VARIABLE focus

Foci == {"holdout", "harness", "plugin", "memory", "archive", "selection", "graduation", "claim", "worker",
         "spec", "rollback", "promotion", "trace", "registry", "lineage", "deletion",
         "gates", "supply", "search", "distill", "fleet", "plans", "views", "analysis", "tables",
         "policies", "outcomes", "journal", "pointer"}

(* Holdouts: an evaluator of the tenant, one of another, and the candidate *)
MCPrincipals == {[role |-> "evaluator", tenant |-> "own"], [role |-> "evaluator", tenant |-> "other"],
                 [role |-> "candidate_runner", tenant |-> "own"]}

(* Experiments: a scripted incumbent, live retries, a scripted one-shot *)
MCArms == <<[kind |-> "incumbent", maxAttempts |-> 1, live |-> FALSE],
            [kind |-> "retry", maxAttempts |-> 3, live |-> TRUE],
            [kind |-> "one_shot", maxAttempts |-> 1, live |-> FALSE]>>
MCLimit == [input |-> 4, output |-> 3, calls |-> 2, wall |-> 1]

(* Memory: its two callers are alike *)
CallerSymmetry == Permutations(Callers)

MCContents == {[type |-> "prompt", clean |-> TRUE], [type |-> "scaffold", clean |-> TRUE]}

Result(a, c, score, cost) == [arm |-> a, candidate |-> c, score |-> score, cost |-> cost]
MCResults == {Result(1, 1, 2, 2), Result(1, 2, 2, 1), Result(1, 2, 2, 2),
              Result(1, 3, 1, 0), Result(2, 1, 2, 2), Result(2, 2, 1, 1)}

Dossier(artifact, radius, isolation, reversible, maxTier, genuine) ==
  [artifact |-> artifact, radius |-> radius, isolation |-> isolation, reversible |-> reversible,
   compensable |-> TRUE, maxTier |-> maxTier, genuine |-> genuine]
MCDossiers == {Dossier("prompt_bundle", "suggestion", 0, TRUE, 3, TRUE),
               Dossier("workflow_graph", "runtime", 2, FALSE, 2, TRUE),
               Dossier("harness_patch", "self_source", 3, TRUE, 3, TRUE),
               Dossier("memory_entry", "kept_state", 1, TRUE, 1, TRUE),
               Dossier("harness_patch", "runtime", 2, TRUE, 3, TRUE),
               Dossier("prompt_bundle", "suggestion", 0, TRUE, 3, FALSE)}

Comparison(delta, p, above) == [delta |-> delta, p |-> p, above |-> above]
MCComparisons == {Comparison(2, 1, TRUE), Comparison(1, 3, FALSE)}
MCMinimums == {NoNumber, 1}
Stated == [successive |-> TRUE, budget |-> TRUE, inheritance |-> TRUE, oneShotAdvantage |-> TRUE,
           noInheritanceArm |-> TRUE, editorArm |-> TRUE, editorAdvantage |-> 1, editorMinimum |-> 0,
           editorSignificant |-> TRUE]
MCSubmissions == {Stated, [Stated EXCEPT !.successive = FALSE], [Stated EXCEPT !.budget = FALSE],
                  [Stated EXCEPT !.inheritance = FALSE], [Stated EXCEPT !.noInheritanceArm = FALSE],
                  [Stated EXCEPT !.editorSignificant = FALSE], [Stated EXCEPT !.editorArm = FALSE]} \cup
  {[Stated EXCEPT !.editorAdvantage = a, !.editorMinimum = m] : a \in {NoNumber, -1, 0}, m \in {NoNumber, -2, 0}}

MCRequests == {[refused |-> FALSE, brokered |-> TRUE, outputs |-> 1],
               [refused |-> FALSE, brokered |-> FALSE, outputs |-> 2],
               [refused |-> TRUE, brokered |-> FALSE, outputs |-> 0]}

(* Specs: a document of each version, and each with one thing wrong or left *)
(* unsaid; a scaffold campaign with all its arms and actions                *)
Mutable(type, paths) == [type |-> type, paths |-> paths]
ArmOf(id, armKind, attempts, component, editor) ==
  [id |-> id, kind |-> armKind, attempts |-> attempts, component |-> component, editor |-> editor]
BaseArms == <<ArmOf("i", "incumbent", -1, "absent", "absent"),
              ArmOf("r", "retry-self-consistency", 3, "absent", "absent"),
              ArmOf("o", "one-shot-control", 1, "absent", "absent"),
              ArmOf("s", "strategy", -1, "absent", "absent")>>
EditorArms == <<ArmOf("f", "fixed-editor", -1, "absent", "frozen"), ArmOf("a", "ablation", -1, "c1", "absent")>>
ActionOf(type, name, hook) == [type |-> type, action |-> name, hook |-> hook]
RestoreAction == ActionOf("scaffold", "restore_scaffold_source", FALSE)
RerunAction == ActionOf("scaffold", "rerun_conformance_suite", FALSE)
HookAction == ActionOf("prompt_bundle", "run_compensation_hook", TRUE)
EditClass == [id |-> "edit", tier |-> "highest"]
Prompt == [version |-> 3, field |-> "mutable_artifacts", shaped |-> TRUE, incumbent |-> "prompt_bundle",
           artifacts |-> <<Mutable("prompt_bundle", {"p"})>>, environment |-> "absent", tier4 |-> "absent",
           classes |-> <<>>, holdout |-> "sealed", arms |-> BaseArms, family |-> <<"c1">>,
           sample |-> "absent", plan |-> <<HookAction>>, evaluators |-> <<[stage |-> -1]>>, sandbox |-> -1]
Scaffolded ==
  [Prompt EXCEPT !.incumbent = "scaffold", !.environment = "research", !.tier4 = "digest", !.classes = <<EditClass>>,
                 !.artifacts = <<Mutable("scaffold", {"s"}), Mutable("prompt_bundle", {"p"})>>,
                 !.arms = BaseArms \o EditorArms, !.plan = <<RestoreAction, RerunAction, HookAction>>,
                 !.sample = "powered"]
FirstOf(d) == [d EXCEPT !.version = 1, !.field = "mutable_artifact"]
SecondOf(d) == [d EXCEPT !.version = 2]
MCDocuments ==
  {Prompt, FirstOf(Prompt), SecondOf(Prompt), Scaffolded, SecondOf(Scaffolded)} \cup
  {[FirstOf(Prompt) EXCEPT !.version = 3], [Prompt EXCEPT !.version = 1], [Prompt EXCEPT !.version = 4],
   [Prompt EXCEPT !.environment = "null", !.tier4 = "null", !.sample = "null", !.sandbox = 240],
   [Prompt EXCEPT !.environment = "production", !.evaluators = <<[stage |-> 0], [stage |-> 1]>>],
   [Prompt EXCEPT !.arms[1].component = "null"], [Prompt EXCEPT !.arms[1].component = "c1"],
   [Prompt EXCEPT !.arms[4].kind = "incumbent"], [Prompt EXCEPT !.artifacts[1].paths = {"p", "q"}],
   [Prompt EXCEPT !.artifacts[1].paths = {"../p"}], [Prompt EXCEPT !.plan = <<RestoreAction, RerunAction>>],
   [Prompt EXCEPT !.tier4 = "digest"], [Prompt EXCEPT !.shaped = FALSE], [Prompt EXCEPT !.holdout = "named"],
   [Prompt EXCEPT !.incumbent = "harness_patch"]} \cup
  {[Scaffolded EXCEPT !.environment = "absent"], [Scaffolded EXCEPT !.plan = <<RerunAction, RestoreAction>>],
   [Scaffolded EXCEPT !.classes = <<>>], [Scaffolded EXCEPT !.classes[1].tier = "none"],
   [Scaffolded EXCEPT !.family = <<>>], [Scaffolded EXCEPT !.arms = BaseArms],
   [Scaffolded EXCEPT !.plan = <<>>]}
MCProtectedSets == {{"sec"}, {"sec", "q"}}

(* Rollbacks: two modules, one of which may end its lines with \r\n *)
MCPinned == [a |-> "c1", b |-> "c2"]

(* Traces: two failed ones, the first of which shows activity after both *)
EventOf(trace, task, campaign, time, type, name, ok) ==
  [trace |-> trace, task |-> task, campaign |-> campaign, time |-> time, type |-> type, name |-> name, ok |-> ok]
MCEvents == {EventOf(1, 2, "c1", 1, "claimed", "unknown", "no"), EventOf(2, 1, "c1", 2, "claimed", "unknown", "no"),
             EventOf(1, 2, "c1", 3, "ended", "unknown", "yes"), EventOf(2, 1, "c2", 4, "tool", "test", "no")}
MCTaxonomy == [task \in {} |-> "localization"]

(* The registry: a lesson (l) over an artifact (a), the same lesson over    *)
(* nothing (m), a lesson over both (t) whose bytes are those of a, a        *)
(* scaffold, and an algorithm that the gates refuse                         *)
DesignOf(type, body, deps, clean) == [type |-> type, body |-> body, deps |-> deps, clean |-> clean]
MCDesign == [a |-> DesignOf("prompt", "b1", <<>>, TRUE), l |-> DesignOf("lesson", "b2", <<"a">>, TRUE),
             m |-> DesignOf("lesson", "b2", <<>>, TRUE), t |-> DesignOf("lesson", "b1", <<"a", "l">>, TRUE),
             s |-> DesignOf("scaffold", "b1", <<>>, TRUE), x |-> DesignOf("algorithm", "b2", <<>>, FALSE)]
Ask(n, claim, parent) == [for |-> n, claim |-> claim, parent |-> parent]
MCRegistrations == {Ask("a", Nothing, Nothing), Ask("l", Nothing, Nothing), Ask("l", "a", Nothing),
                    Ask("t", "t", Nothing), Ask("m", Nothing, "a"), Ask("x", Nothing, "a"),
                    Ask("s", Nothing, Nothing)}
MCReleaseSets == {{"t"}, {"s"}}

(* The gates: a file that passes, and one for each way not to *)
PathOf(parts, python) == [absolute |-> FALSE, parts |-> parts, python |-> python, looks |-> parts]
MainPath == PathOf(<<"main">>, TRUE)
NotesPath == PathOf(<<"notes">>, FALSE)
SigningPath == PathOf(<<"src", "rt", "sec", "sign">>, TRUE)
OutsidePath == PathOf(<<"..", "main">>, TRUE)
(* as spelled, and what it does *)
Statement(by, form, names, mode, args, does, loads, writes) ==
  [call |-> by, form |-> form, names |-> names, mode |-> mode, args |-> args,
   does |-> does, loads |-> loads, writes |-> writes]
Import(names, loads) == Statement("none", "import", names, "reads", <<>>, {}, loads, {})
Load(names) == Import(names, {names[i] : i \in DOMAIN names})
Runs(by, form, what) == Statement(by, form, <<>>, "reads", <<>>, {what}, {}, {})
Writing(by, form, mode, args, writes) == Statement(by, form, <<>>, mode, args, {}, {}, writes)
Garbage == Statement("none", "garbled", <<>>, "reads", <<>>, {}, {}, {})
Source(path, size, source) ==
  [path |-> path, kind |-> "file", size |-> size, sparse |-> FALSE, executable |-> FALSE, expands |-> 0,
   source |-> source]
OutputOf(sort, sparse, executable, expands) ==
  [Source(NotesPath, 1, <<>>) EXCEPT !.kind = sort, !.sparse = sparse, !.executable = executable, !.expands = expands]
MCEntries ==
  {Source(MainPath, 1, <<Load(<<<<"rt", "sdk">>, <<"json">>>>),
                         Writing("name", "open", "writes", <<MainPath>>, {MainPath})>>),
   Source(MainPath, 1, <<Load(<<<<"json">>, <<"rt", "sec", "sign">>>>)>>),
   Source(MainPath, 1, <<Load(<<<<"socket", "x">>>>)>>), Source(MainPath, 1, <<Load(<<<<"pty">>>>)>>),
   (* "from rt import sec" *)
   Source(MainPath, 1, <<Import(<<<<"rt">>>>, {<<"rt">>, <<"rt", "sec">>})>>),
   Source(MainPath, 1, <<Runs("name", "dynamic", "dynamic")>>),
   Source(MainPath, 1, <<Runs("attribute", "dynamic", "dynamic"),
                         Writing("attribute", "other", "writes", <<SigningPath>>, {SigningPath})>>),
   Source(MainPath, 1, <<Runs("attribute", "spawn", "spawn")>>),
   (* "from os import system": the call is of a name *)
   Source(MainPath, 1, <<Load(<<<<"os">>>>), Runs("name", "spawn", "spawn")>>),
   Source(MainPath, 1, <<Writing("name", "open", "writes", <<NotesPath>>, {NotesPath}),
                         Writing("name", "open", "reads", <<SigningPath>>, {})>>),
   Source(MainPath, 1, <<Writing("attribute", "mutate", "reads", <<SigningPath>>, {SigningPath})>>),
   (* "shutil.copy": the second argument is what is written *)
   Source(MainPath, 1, <<Writing("attribute", "mutate", "reads", <<MainPath, SigningPath>>, {SigningPath})>>),
   Source(MainPath, 1, <<Writing("attribute", "mutate", "reads", <<NotesPath, MainPath>>, {MainPath})>>),
   Source(MainPath, 1, <<Writing("attribute", "mutate", "reads", <<OpaqueTarget>>, {SigningPath}),
                         Writing("name", "open", "keyword", <<SigningPath>>, {SigningPath})>>),
   Source(MainPath, 1, <<Garbage, Runs("attribute", "spawn", "spawn")>>),
   Source(NotesPath, 2, <<Runs("attribute", "spawn", "spawn")>>), Source(NotesPath, 4, <<>>),
   Source(SigningPath, 1, <<>>), Source(OutsidePath, 1, <<>>), Source(Nowhere, 1, <<>>),
   Source([MainPath EXCEPT !.looks = <<"rt">>], 1, <<>>), Source([NotesPath EXCEPT !.absolute = TRUE], 1, <<>>),
   OutputOf("file", FALSE, TRUE, 0), OutputOf("symlink", FALSE, FALSE, 0), OutputOf("directory", FALSE, FALSE, 0),
   OutputOf("file", TRUE, FALSE, 0), OutputOf("file", FALSE, FALSE, 2), OutputOf("file", FALSE, FALSE, 3)}
MCDeclaredSets == {{}, {NotesPath}}
MCRoots == {<<"rt", "sec">>, <<"rt", "data">>}

(* Supply: every network posture under every tier, and one flaw at a time *)
ManifestOf(network, access, hosts, tier) ==
  [executes |-> FALSE, requires |-> FALSE, network |-> network, access |-> access, hosts |-> hosts, tier |-> tier,
   min |-> 1, max |-> 2, pinned |-> TRUE, deterministic |-> FALSE, seeded |-> FALSE]
Plain == ManifestOf("none", FALSE, {}, "undeclared")
MCManifests ==
  {ManifestOf(network, access, hosts, tier) :
     network \in {"none", "brokered"}, access \in BOOLEAN, hosts \in {{}, {"h", "g"}},
     tier \in {"undeclared", "text-only", "executable", "brokered", "highest"}} \cup
  {[Plain EXCEPT !.executes = TRUE], [Plain EXCEPT !.executes = TRUE, !.requires = TRUE], [Plain EXCEPT !.max = 0],
   [Plain EXCEPT !.max = 1], [Plain EXCEPT !.pinned = FALSE], [Plain EXCEPT !.deterministic = TRUE]}
PlaneOf(network, access, hosts) == [network |-> network, access |-> access, hosts |-> hosts]
MCPlanes == {{}, {PlaneOf("brokered", TRUE, {"h"}), PlaneOf("brokered", TRUE, {"h", "g"})},
             {PlaneOf("none", FALSE, {"g"})}}

(* Strategies: cascades of two stages, cells that lie apart or touch; node  *)
(* scores that prune either seed node or the one added; two prompt modules  *)
Mark(stage, name, passed, score) == [stage |-> stage, name |-> name, passed |-> passed, score |-> score]
Trial(marks, at) == [marks |-> marks, at |-> at]
MCTrials ==
  {Trial(<<Mark(0, "lint", TRUE, -1), Mark(1, "bench", TRUE, score)>>, at) :
     score \in {1, 2}, at \in {<<0, 0>>, <<4, 3>>}} \cup
  {Trial(<<Mark(0, "lint", FALSE, -1), Mark(1, "bench", TRUE, 3)>>, <<0, 0>>),
   Trial(<<Mark(0, "lint", TRUE, 3)>>, <<3, 4>>),
   Trial(<<Mark(0, "lint", FALSE, -1), Mark(0, "types", TRUE, 2), Mark(1, "bench", TRUE, -1)>>, <<2, 2>>),
   Trial(<<>>, <<2, 2>>)}
MCPlansPinned ==
  {<<>>, <<[stage |-> 0, name |-> "lint", short |-> FALSE], [stage |-> 1, name |-> "bench", short |-> TRUE]>>}
MCNodeScores == {<<>>, <<0, 2>>, <<1, 0>>, <<2, 2, 0>>, [n \in {3} |-> 0], <<1, 1>>}
MCMinibatches == {<<>>, [i \in {"p"} |-> 1], [i \in {"p", "q"} |-> IF i = "p" THEN 0 ELSE 2]}
MCModuleNames == <<"one", "two">>
MCModuleFor == [p |-> "one", q |-> "two"]
Row(digest, passed, tokens) == [digest |-> digest, passed |-> passed, tokens |-> tokens]
MCLineageRows == {Row(1, TRUE, 2), Row(1, FALSE, -1), Row(2, TRUE, 1), Row(2, TRUE, -1), Row(3, FALSE, 1)}
MCObservedMost == [evolution |-> 3, graph |-> 4, mutator |-> 4, gepa |-> 3]

(* Evidence: a sound item with two edits, and three flawed in a trade or another *)
ItemOf(id, flaws, tokens, edits) == [id |-> id, flaws |-> flaws, tokens |-> tokens, edits |-> edits]
MCEvidenceItems ==
  {ItemOf(1, {}, 2, <<{}, {}>>), ItemOf(2, {"object", "pair"}, 1, <<>>),
   ItemOf(3, {"pair", "approved", "list"}, 1, <<{}>>),
   ItemOf(4, {"outcome", "labels"}, 1, <<{"section", "text"}, {}>>)}

(* The fleet: a quick worker and a slow one *)
MCLatency == [quick |-> 1, slow |-> 2]

(* a plan of one hook and one revocation, one with a name nobody knows *)
MCPlanSections ==
  {<<[artifactType |-> "prompt_bundle", action |-> "run_compensation_hook"],
     [artifactType |-> "tool", action |-> "revoke_artifact"]>>,
   <<[artifactType |-> "prompt_bundle", action |-> "notify_partners"],
     [artifactType |-> "prompt_bundle", action |-> "run_compensation_hook"]>>}
MCArtifactSets == {[prompt_bundle |-> "a1", tool |-> "a2"], [tool |-> "a2"]}
MCPlanDrafts ==
  {<<[artifact |-> "a1", action |-> "run_compensation_hook", mode |-> "cas", executed |-> TRUE]>>,
   <<[artifact |-> "", action |-> "revoke_artifact", mode |-> "cas", executed |-> FALSE]>>}

(* a rewrite of x and its reverse, x again under another class, an artifact of another kind *)
MCIdeas ==
  {[id |-> 1, artifact |-> "x", parent |-> "y", campaign |-> "c1", slices |-> [task_type |-> "t1"], class |-> "k1"],
   [id |-> 2, artifact |-> "y", parent |-> "x", campaign |-> "c1", slices |-> <<>>, class |-> "k1"],
   [id |-> 3, artifact |-> "x", parent |-> "z", campaign |-> "c1", slices |-> <<>>, class |-> ""],
   [id |-> 4, artifact |-> "z", parent |-> "z", campaign |-> "c1", slices |-> <<>>, class |-> "k2"]}
FindingOf(x, outcome, m) == [artifact |-> x, outcome |-> outcome, metrics |-> m, slices |-> [task_type |-> "t2"]]
MCFindings ==
  {FindingOf("x", "pass", [tokens |-> 1, fitness |-> 1]), FindingOf("x", "fail", [fitness |-> 3]),
   FindingOf("x", "pass", [tokens |-> 2, cost_usd |-> 1]),
   FindingOf("y", "pass", [tokens |-> 2, fitness |-> 2]), FindingOf("y", "fail", [tokens |-> 1, cost_usd |-> 2]),
   FindingOf("z", "pass", [tokens |-> 2]), FindingOf("z", "pass", [cost_usd |-> 1])}

MCTableIdeas == {i \in MCIdeas : i.id # 4}
MCTableFindings == {f \in MCFindings : f.artifact # "z" /\ f.metrics # [tokens |-> 2, cost_usd |-> 1]}

ArmOfKind(id, k) ==
  [id |-> id, kind |-> k, component |-> IF k = "ablation" THEN "memory" ELSE "",
   editor |-> IF k = "fixed-editor" THEN "v1" ELSE "", attempts |-> IF k = "retry" THEN 2 ELSE 1]
DraftOf(armSeq, declared, where) ==
  [arms |-> armSeq, family |-> declared, seeds |-> 2, partition |-> where, alpha |-> 5, multiplicity |-> "bonferroni"]
(* an ablation; two of one component; a control and an editor; an ablation nobody declared; sealed tasks *)
MCExperimentDrafts ==
  LET base == ArmOfKind("i", "incumbent") IN
  {DraftOf(<<base, ArmOfKind("a", "ablation")>>, {"memory"}, "dev"),
   DraftOf(<<base, ArmOfKind("a", "ablation"), ArmOfKind("b", "ablation")>>, {"memory"}, "probe"),
   DraftOf(<<base, ArmOfKind("f", "fixed-editor")>>, {}, "probe"),
   DraftOf(<<base, ArmOfKind("a", "ablation")>>, {}, "dev"),
   DraftOf(<<base, ArmOfKind("r", "retry")>>, {}, "holdout")}
MCTaskSources ==
  LET one == <<[id |-> "t1", slice |-> "easy"]>>
      two == <<[id |-> "t1", slice |-> "easy"], [id |-> "t2", slice |-> ""]>> IN
  {{[kind |-> "dev", tasks |-> two, disclosed |-> TRUE], [kind |-> "probe", tasks |-> one, disclosed |-> TRUE],
    [kind |-> "holdout", tasks |-> <<[id |-> "t3", slice |-> "easy"]>>, disclosed |-> TRUE]},
   {[kind |-> "dev", tasks |-> two \o one, disclosed |-> TRUE]}}

(* tenant documents, one of them no production tenant may have; a deny-list *)
(* in two orders and a ragged one; names in two spellings                  *)
TenantPaper(plane, tiers, auto, review) ==
  [kind |-> "tenant", tenant |-> "t", environment |-> plane, tiers |-> tiers, recursive |-> FALSE,
   auto |-> auto, review |-> review]
MCTenantDrafts ==
  {TenantPaper("research", 1..4, 4, FALSE), TenantPaper("production", 1..4, 4, FALSE),
   TenantPaper("production", {1, 3}, 3, FALSE), TenantPaper("production", 1..3, 0, TRUE),
   TenantPaper("production", 1..3, 2, TRUE)}
RootOf(name, ragged) == [name |-> name, ragged |-> ragged]
MCRootLists ==
  {<<RootOf(<<"rt", "sec">>, FALSE), RootOf(<<"rt", "dlp">>, TRUE)>>,
   <<RootOf(<<"rt", "dlp">>, FALSE), RootOf(<<"rt", "sec">>, FALSE)>>,
   <<RootOf(<<"rt", "dlp">>, FALSE)>>, <<RootOf(<<"rt", "sec">>, FALSE), RootOf(<<"rt", "sec">>, TRUE)>>, <<>>}
MCModules == {<<"rt", "sec", "policy">>, <<"rt", "dlp">>, <<"rt">>}
MCRetentionDrafts ==
  {[kind |-> "retention", payload |-> 30, follows |-> f, derived |-> 24, backup |-> 30, forever |-> ever] :
     f \in BOOLEAN, ever \in {{"attestations", "admissions", "ledger", "tombstones"}, {"ledger"}}}
MCAdmissionRequests == {[digest |-> "d1", requester |-> "Ann"], [digest |-> "d2", requester |-> "bob"]}
MCApprovalLists == {<<"ann", "Bob">>, <<"cy", "Cy">>, <<"ann", "cy">>, <<"Bob", "cy">>, <<"cy">>}
MCSpelled == [ann |-> "ann", Ann |-> "ann", bob |-> "bob", Bob |-> "bob", cy |-> "cy", Cy |-> "cy"]

(* a plan that fixes the code, one that weakens the tests and puts them    *)
(* back, one that fails on the way                                         *)
PlanStep(act, path, old, new) == [kind |-> act, path |-> path, old |-> old, new |-> new]
MCPlans ==
  [mend |-> <<PlanStep("read", "code", "", ""), PlanStep("edit", "code", "broken", "fixed"),
              PlanStep("test", "", "", "")>>,
   weaken |-> <<PlanStep("edit", "test", "strict", "weak"), PlanStep("test", "", "", "")>>,
   restore |-> <<PlanStep("shell", "test", "", "strict"), PlanStep("test", "", "", "")>>,
   stray |-> <<PlanStep("edit", "code", "absent", "fixed"), PlanStep("read", "../code", "", ""),
               PlanStep("read", "code", "", "")>>]
MCWorkspace == [code |-> "broken", test |-> "strict"]
MCVerifiers == {[role |-> "evaluator", key |-> "evaluator"], [role |-> "evaluator", key |-> "other"],
                [role |-> "candidate", key |-> "evaluator"]}

(* a subsystem that is not followed starts in one state *)
Init ==
  /\ focus \in Foci
  /\ HandleInit
  /\ HarnessInit
  /\ TransportInit
  /\ MemoryInit
  /\ ArchiveInit /\ (focus # "archive" => environment = "research")
  /\ SelectionInit /\ (focus # "selection" => rule.metric = "selection_score")
  /\ GraduationInit /\ (focus # "graduation" => production = {})
  /\ ClaimInit /\ (focus # "claim" => policy = Unmapped)
  /\ WorkerInit
  /\ SpecInit /\ (focus # "spec" => day = 0 /\ research /\ protectedPaths = {"sec"})
  /\ RollbackInit /\ (focus # "rollback" => crlf = {})
  /\ TraceInit /\ RegistryInit
  /\ SwapInit
  /\ OwnershipInit
  /\ OutcomesInit
  /\ PoliciesInit
  /\ TablesInit /\ (focus # "tables" => archive = "productivity")
  /\ AnalysisInit
  /\ ViewInit
  /\ PlansInit
  /\ FleetInit
  /\ DistillInit /\ (focus # "distill" => bundleItems = <<>> /\ room = 0 /\ trade = "distill")
  /\ SearchInit /\ (focus # "search" => searching = "gepa")
  /\ SupplyInit
  /\ GatesInit
  /\ DeletionInit /\ (focus # "deletion" => place = "primary")
  /\ GraphInit
  /\ PromotionInit /\ (focus # "promotion" => cascade = {Stg(0, TRUE), Stg(0, FALSE)})

OthersAtRest ==
  /\ UNCHANGED focus
  /\ IF focus = "holdout" THEN TRUE ELSE UNCHANGED handleVars
  /\ IF focus = "harness" THEN TRUE ELSE UNCHANGED runVars
  /\ IF focus = "plugin" THEN TRUE ELSE UNCHANGED transportVars
  /\ IF focus = "memory" THEN TRUE ELSE UNCHANGED memoryVars
  /\ IF focus = "archive" THEN TRUE ELSE UNCHANGED archiveVars
  /\ IF focus = "selection" THEN TRUE ELSE UNCHANGED selectionVars
  /\ IF focus = "graduation" THEN TRUE ELSE UNCHANGED graduationVars
  /\ IF focus = "claim" THEN TRUE ELSE UNCHANGED claimVars
  /\ IF focus = "worker" THEN TRUE ELSE UNCHANGED workerVars
  /\ IF focus = "spec" THEN TRUE ELSE UNCHANGED specVars
  /\ IF focus = "rollback" THEN TRUE ELSE UNCHANGED rollbackVars
  /\ IF focus = "trace" THEN TRUE ELSE UNCHANGED traceVars
  /\ IF focus = "registry" THEN TRUE ELSE UNCHANGED registryVars
  /\ IF focus = "lineage" THEN TRUE ELSE UNCHANGED graphVars
  /\ IF focus = "deletion" THEN TRUE ELSE UNCHANGED deletionVars
  /\ IF focus = "gates" THEN TRUE ELSE UNCHANGED gateVars
  /\ IF focus = "supply" THEN TRUE ELSE UNCHANGED supplyVars
  /\ IF focus = "search" THEN TRUE ELSE UNCHANGED searchVars
  /\ IF focus = "distill" THEN TRUE ELSE UNCHANGED distillVars
  /\ IF focus = "fleet" THEN TRUE ELSE UNCHANGED fleetVars
  /\ IF focus = "plans" THEN TRUE ELSE UNCHANGED planVars
  /\ IF focus \in {"views", "tables"} THEN TRUE ELSE UNCHANGED viewVars
  /\ IF focus = "analysis" THEN TRUE ELSE UNCHANGED analysisVars
  /\ IF focus = "tables" THEN TRUE ELSE UNCHANGED tableVars
  /\ IF focus = "policies" THEN TRUE ELSE UNCHANGED policyVars
  /\ IF focus = "outcomes" THEN TRUE ELSE UNCHANGED outcomeVars
  /\ IF focus = "journal" THEN TRUE ELSE UNCHANGED ownershipVars
  /\ IF focus = "pointer" THEN TRUE ELSE UNCHANGED swapVars
  /\ IF focus = "promotion" THEN TRUE ELSE UNCHANGED promotionVars

Next ==
  \/ focus = "holdout" /\ HandleNext /\ OthersAtRest
  \/ focus = "harness" /\ HarnessNext /\ OthersAtRest
  \/ focus = "plugin" /\ TransportNext /\ OthersAtRest
  \/ focus = "memory" /\ MemoryNext /\ OthersAtRest
  \/ focus = "archive" /\ ArchiveNext /\ OthersAtRest
  \/ focus = "selection" /\ SelectionNext /\ OthersAtRest
  \/ focus = "graduation" /\ GraduationNext /\ OthersAtRest
  \/ focus = "claim" /\ ClaimNext /\ OthersAtRest
  \/ focus = "worker" /\ WorkerNext /\ OthersAtRest
  \/ focus = "spec" /\ SpecNext /\ OthersAtRest
  \/ focus = "rollback" /\ RollbackNext /\ OthersAtRest
  \/ focus = "trace" /\ TraceNext /\ OthersAtRest
  \/ focus = "registry" /\ RegistryNext /\ OthersAtRest
  \/ focus = "lineage" /\ GraphNext /\ OthersAtRest
  \/ focus = "deletion" /\ DeletionNext /\ OthersAtRest
  \/ focus = "gates" /\ GatesNext /\ OthersAtRest
  \/ focus = "supply" /\ SupplyNext /\ OthersAtRest
  \/ focus = "search" /\ SearchNext /\ OthersAtRest
  \/ focus = "distill" /\ DistillNext /\ OthersAtRest
  \/ focus = "fleet" /\ FleetNext /\ OthersAtRest
  \/ focus = "plans" /\ PlansNext /\ OthersAtRest
  \/ focus = "views" /\ ViewNext /\ OthersAtRest
  \/ focus = "analysis" /\ AnalysisNext /\ OthersAtRest
  \/ focus = "tables" /\ TablesNext /\ OthersAtRest
  \/ focus = "policies" /\ PoliciesNext /\ OthersAtRest
  \/ focus = "outcomes" /\ OutcomesNext /\ OthersAtRest
  \/ focus = "journal" /\ OwnershipNext /\ OthersAtRest
  \/ focus = "pointer" /\ SwapNext /\ OthersAtRest
  \/ focus = "promotion" /\ PromotionNext /\ OthersAtRest

subsystemVars ==
  <<focus, handleVars, runVars, transportVars, memoryVars, archiveVars, selectionVars, graduationVars,
    claimVars, workerVars, specVars, rollbackVars, traceVars, registryVars, graphVars, deletionVars,
    gateVars, supplyVars, searchVars, distillVars, fleetVars, planVars, viewVars, analysisVars, tableVars,
    policyVars, outcomeVars, ownershipVars, swapVars, promotionVars>>
SubsystemsSpec == Init /\ [][Next]_subsystemVars

(* Every subsystem keeps its types.  One that is not in focus stays as it  *)
(* began, and is asked for nothing.                                        *)
SubsystemTypes ==
  /\ focus \in Foci
  /\ focus = "holdout" => HandleTypes
  /\ focus = "harness" => HarnessTypes
  /\ focus = "plugin" => TransportTypes
  /\ focus = "memory" => MemoryTypes
  /\ focus = "archive" => ArchiveTypes
  /\ focus = "selection" => SelectionTypes
  /\ focus = "graduation" => GraduationTypes
  /\ focus = "claim" => ClaimTypes
  /\ focus = "worker" => WorkerTypes
  /\ focus = "spec" => SpecTypes
  /\ focus = "rollback" => RollbackTypes
  /\ focus = "lineage" => GraphTypes
  /\ focus = "deletion" => DeletionTypes
  /\ focus = "gates" => GatesTypes
  /\ focus = "supply" => SupplyTypes
  /\ focus = "search" => SearchTypes
  /\ focus = "distill" => DistillTypes
  /\ focus = "fleet" => FleetTypes
  /\ focus = "plans" => PlansTypes
  /\ focus = "views" => ViewTypes
  /\ focus = "analysis" => AnalysisTypes
  /\ focus = "tables" => TablesTypes
  /\ focus = "policies" => PoliciesTypes
  /\ focus = "outcomes" => OutcomesTypes
  /\ focus = "journal" => OwnershipTypes
  /\ focus = "pointer" => SwapTypes
  /\ focus = "promotion" => PromotionTypes
  /\ focus = "trace" => TraceTypes
  /\ focus = "registry" => RegistryTypes

(* Events journaled before a crash (sdk/journal.py), and traces once they  *)
(* are stored (db/trace_reads.py), are read back as they were: nothing is  *)
(* lost to a second adapter that the lock can tell, damage shows, and      *)
(* discovery says the same of the same traces.                             *)
TracesReadBack ==
  /\ focus = "trace" => TracesAreFaithful
  /\ focus = "journal" => JournalHasOneOwner

(* The lineage services keep what they promise about their tables          *)
(* (lineage/service.py, lineage/backup.py, lineage/purge.py): ancestry is  *)
(* resolved exactly and inside a tenant, no copy of deleted bytes escapes  *)
(* both the audit and the age-out, and each deadline is kept.              *)
LineageSound ==
  /\ focus = "lineage" => AncestryIsExact
  /\ focus = "deletion" => CopiesAreCovered
  /\ focus = "deletion" => DeadlinesFollow

(* What an experiment says of its arms rests on matched runs (eval/): every *)
(* attempt counted fits the one budget, and the comparison is of the runs.  *)
EvaluationsAreMatched ==
  /\ focus = "harness" => CountedAttemptsFitBudget
  /\ focus = "analysis" => AnalysisIsHonest

(* From submission to report (api/service.py, selection/*_archive.py):      *)
(* nothing is registered but by the rules, nothing reported but what        *)
(* evidence says, and what is computed of it favours nobody.               *)
ReportsAreSound ==
  /\ focus = "archive" => EvidenceIsSound
  /\ focus = "views" => ViewsAreFair
  /\ focus = "tables" => TablesTellDrift

(* A rollback is discharged by what was restored, and a gate opened by what *)
(* was executed (campaign/scaffold_compensation.py, compensation.py)       *)
RollbacksAreEarned ==
  /\ focus = "rollback" => DischargedIsRestored
  /\ focus = "plans" => PlansAreEvidenced

(* What is pinned or signed means later what it meant when it was: specs   *)
(* (campaign/spec.py), policies (security/, tenancy/), and the outcome of  *)
(* an agent's run (sdk/attestation.py).                                    *)
SignedIsMeant ==
  /\ focus = "spec" => PinnedSpecsHold
  /\ focus = "policies" => PoliciesAreKept
  /\ focus = "outcomes" => OutcomesAreProved

(* What is released rests on what ran, and a fleet that serves it says what *)
(* it serves (eval/cascade.py, selection/policy.py, release/)              *)
ReleasesRestOnWhatRan ==
  /\ focus = "promotion" => PromotedOnWhatRan
  /\ focus = "fleet" => FleetIsHonest
  /\ focus = "pointer" => PointerIsAsAudited

(* A plugin's code is contained before it runs (plugins/manifest.py,       *)
(* plugins/packaging.py, api/service.py gate_executable_candidate): what   *)
(* is verified is what was built, nothing is granted that a plane denies,  *)
(* and a candidate that passed its gates does no more than they look for.  *)
PluginsAreContained ==
  /\ focus = "supply" => SupplyIsSound
  /\ focus = "gates" => PassedIsContained
  /\ focus = "search" => StrategiesLearn
  /\ focus = "distill" => DistillersAreSound

=============================================================================
