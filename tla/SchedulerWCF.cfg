SPECIFICATION Spec
CONSTANTS
  a = a
  b = b
  c = c
  d = d
  e1 = e1
  e2 = e2
  None = None
  Requests <- MCRequests
  Record <- MCRecord
  EndpointList <- MCEndpointList
  TenantHash <- MCTenantHash
  WeightOverrides <- MCNoOverrides
  Capacity = 2
  Policy = "workflow_cache_fair"
  Isolation = "per_tenant"
  Scale = 100
  MaxTime = 2
INVARIANTS
  PredictorMatchesHistory
  ServiceMatchesAdmissions
  DecisionIsUnique
  LocalityStaysInNestedDomains
