INIT PromotionInit
NEXT PromotionNext
CONSTANTS
  Cascades <- MCCascades
  Suites <- MCSuites
  Families <- MCFamilies
  Baselines <- MCBaselines
  PolicyDocuments <- MCPolicyDocuments
  Reports <- MCReports
  Releases <- MCReleases
  Approvals <- MCApprovals
  MaxPromotions = 1
INVARIANTS
  WithinLatency
CHECK_DEADLOCK FALSE
