SPECIFICATION FairSpec
CONSTANTS
  a = a
  b = b
  c = c
  d = d
  e1 = e1
  e2 = e2
  None = None
  Requests <- MCRequests
  Record <- MCRecord
  EndpointList <- MCEndpointList
  TenantHash <- MCTenantHash
  WeightOverrides <- MCNoOverrides
  Capacity = 2
  Policy = "round_robin"
  Isolation = "per_tenant"
  Scale = 100
  MaxTime = 0
INVARIANTS
  TypeOK
  QueueMatchesCallers
  SlotAccounting
  NoLostWakeup
PROPERTIES
  AdmissionProgress
  ImplementsBoundedAdmission
