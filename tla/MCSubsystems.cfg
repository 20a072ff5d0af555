SPECIFICATION SubsystemsSpec
CONSTANTS
  Principals <- MCPrincipals
  AlphaTotal = 3
  AlphaPerQuery = 2
  MaxHandles = 2
  MaxTokens = 3
  MaxLedger = 2
  Arms <- MCArms
  Limit <- MCLimit
  MaxPerCall = 2
  MaxCost = 2
  Timeout = 1
  MaxRequests = 3
  MaxStray = 1
  MaxProposals = 3
  Statements = {"yes", "no"}
  Callers = {u1, u2}
  MaxEntries = 2
  MaxTombstones = 1
  MaxCalls = 4
  MaxLinks = 1
  Contents <- MCContents
  Kinds = {"mutation"}
  Readers = {r1, r2}
  MaxRegistrations = 2
  MaxAttestations = 1
  MaxRebuilds = 2
  MaxRefusals = 1
  Results <- MCResults
  Floors = {1}
  MaxObservations = 3
  MaxOthers = 1
  Dossiers <- MCDossiers
  Comparisons <- MCComparisons
  Minimums <- MCMinimums
  Submissions <- MCSubmissions
  NoNumber = NoNumber
  Alpha = 5
  MaxClaims = 1
  Requests <- MCRequests
  MaxRuns = 2
  MaxDenials = 1
  Documents <- MCDocuments
  Improper = {"../p"}
  ProtectedSets <- MCProtectedSets
  MaxCampaigns = 2
  MaxSpecRefusals = 1
  Pinned <- MCPinned
  Strays = {"new"}
  Scribbles = {"edit"}
  Noise <- MCNoise
  MaxDamage = 2
  Cascades <- MCCascades
  Suites <- MCSuites
  Families <- MCFamilies
  Baselines <- MCBaselines
  PolicyDocuments <- MCPolicyDocuments
  Reports <- MCReports
  Releases <- MCReleases
  Approvals <- MCApprovals
  MaxPromotions = 1
  Events <- MCEvents
  Campaigns = {"all", "c1"}
  TaxonomyOf <- MCTaxonomy
  PageSize = 2
  MaxRepresentatives = 1
  Discoverers = {d1, d2}
  MaxEvents = 3
  MaxLost = 1
  MaxDiscoveries = 2
  Design <- MCDesign
  Registrations <- MCRegistrations
  ReleaseSets <- MCReleaseSets
  Clients = {c1, c2}
  MaxManifests = 2
  MaxAsides = 1
  Owners = {t1, t2}
  MaxDepth = 2
  MaxNodes = 4
  MaxEdges = 4
  AccessSla = 1
  DerivedSetting = 1
  PrimaryDays = 1
  BackupWindows = {1, 2}
  MaxTime = 3
  MaxRequested = 2
  Entries <- MCEntries
  DeclaredSets <- MCDeclaredSets
  Roots <- MCRoots
  ProtectedNames = {"rt", "src"}
  NetworkRoots = {"socket"}
  ProcessRoots = {"pty"}
  MaxFiles = 2
  MaxFileBytes = 3
  MaxTotalBytes = 3
  MaxRatio = 2
  Manifests <- MCManifests
  Planes <- MCPlanes
  RuntimeVersion = 2
  MaxHarm = 1
  Trials <- MCTrials
  NodeScores <- MCNodeScores
  Minibatches <- MCMinibatches
  LineageRows <- MCLineageRows
  PlansPinned <- MCPlansPinned
  ModuleNames <- MCModuleNames
  ModuleFor <- MCModuleFor
  ObservedMost <- MCObservedMost
  RowsMost = 3
  EvidenceItems <- MCEvidenceItems
  MaxBundle = 3
  MaxRoom = 2
  MaxEdits = 2
  MaxJudged = 2
  Latency <- MCLatency
  Sessions = {s1, s2}
  Digests = {"d1", "d2"}
  StateKeys = {"k"}
  MaxClock = 3
  MaxMoves = 3
  PlanSections <- MCPlanSections
  ArtifactSets <- MCArtifactSets
  PlanDrafts <- MCPlanDrafts
  PlanIds = {"p1", "p2"}
  MaxBuilt = 2
  MaxWalks = 2
  MaxHandled = 2
  Ideas <- MCIdeas
  Findings <- MCFindings
  CostMetrics = {"tokens", "cost_usd"}
  Dimensions = {"task_type"}
  MaxFindings = 3
  ExperimentDrafts <- MCExperimentDrafts
  TaskSources <- MCTaskSources
  LeastSeeds = 2
  MaxBreaks = 1
  Archives = {"productivity", "pareto", "mutation"}
  TableIdeas <- MCTableIdeas
  TableFindings <- MCTableFindings
  MaxListed = 2
  Signers = {"evaluator", "other"}
  TenantDrafts <- MCTenantDrafts
  RootLists <- MCRootLists
  RetentionDrafts <- MCRetentionDrafts
  AdmissionRequests <- MCAdmissionRequests
  ApprovalLists <- MCApprovalLists
  Spelled <- MCSpelled
  Modules <- MCModules
  MaxPapers = 2
  MaxAsks = 2
  WorkFiles = {"code", "test"}
  Start <- MCWorkspace
  Plans <- MCPlans
  Verifiers <- MCVerifiers
  Published = "evaluator"
  MaxAgentRuns = 2
  MaxOutcomes = 2
  MaxSessions = 2
  MaxJournaled = 3
  Movers = {w1, w2}
  SwapManifests = {m1, m2}
  NoDigest = NoDigest
  MaxAttempts = 3
SYMMETRY CallerSymmetry
INVARIANTS
  SubsystemTypes
  HoldoutAccessIsEarned
  EvaluationsAreMatched
  DeliveredInBudget
  MemoryIsSound
  ReportsAreSound
  NomineesFollowTheRule
  RiskNeverClimbs
  ClaimsAreBacked
  
  SignedIsMeant
  RollbacksAreEarned
  ReleasesRestOnWhatRan
  TracesReadBack
  RegistrySound
  LineageSound
  PluginsAreContained
CHECK_DEADLOCK FALSE
