CONSTANTS
  r1 = r1 r2 = r2 None = None Overlap = Overlap NotApplicable = NotApplicable
  Requests <- TwoRequests
  Ids <- FewIds
  Kinds <- AllKinds
  Sizes <- OneSize
  Responses <- FewResponses
  Configs <- FewConfigs
  MaxFaults = 1
SPECIFICATION Spec
CHECK_DEADLOCK FALSE
INVARIANT AccountingNeverBreaks EvidenceIsPersisted ChargeIsExact
