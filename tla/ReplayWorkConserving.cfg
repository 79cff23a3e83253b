SPECIFICATION ReplaySpec
CONSTANTS
  a = a
  b = b
  c = c
  d = d
  x = x
  e1 = e1
  e2 = e2
  None = None
  Requests <- DiamondRequests
  Record <- Crowd
  EndpointList <- MCEndpointList
  TenantHash <- MCTenantHash
  WeightOverrides <- MCNoOverrides
  Capacity = 2
  Policy = "round_robin"
  Isolation = "per_tenant"
  Scale = 100
  MaxTime = 0
  TimeNum = 1
  TimeDen = 1
INVARIANTS
  WorkConserving
