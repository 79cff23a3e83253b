SPECIFICATION ReplayFairSpec
CONSTANTS
  a = a
  b = b
  c = c
  d = d
  x = x
  e1 = e1
  e2 = e2
  None = None
  Requests <- AllRequests
  Record <- DiamondAndOne
  EndpointList <- MCEndpointList
  TenantHash <- MCTenantHash
  WeightOverrides <- MCNoOverrides
  Capacity = 2
  Policy = "tenant_affinity"
  Isolation = "per_tenant"
  Scale = 100
  MaxTime = 1
  TimeNum = 1
  TimeDen = 1
INVARIANTS
  ReplayTypeOK
  DependencyOrder
  OutcomesAgree
  FailurePropagates
  CleanShutdown
  LedgerMatchesResults
PROPERTIES
  ReplayEnds
  ImplementsWorkflowOutcome
