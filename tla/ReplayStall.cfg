SPECIFICATION ReplayFairSpec
CONSTANTS
  a = a
  b = b
  c = c
  d = d
  x = x
  e1 = e1
  e2 = e2
  None = None
  Requests <- CrowdOfThree
  Record <- Crowd
  EndpointList <- MCEndpointList
  TenantHash <- MCTenantHash
  WeightOverrides <- MCNoOverrides
  Capacity = 1
  Policy = "workflow_cache_fair"
  Isolation = "per_tenant"
  Scale = 100
  MaxTime = 1
  TimeNum = 1
  TimeDen = 1
PROPERTIES
  AdmissionProgress
