SPECIFICATION GenSpec
CONSTANTS
  Bad = Bad
  Absent = Absent
  Traces <- NoTraces
  Mappings <- MCMappings
  Gaps <- MCGaps
INVARIANTS
  GenTypeOK
  AcceptedConfigIsUsable
  GeneratedTraceIsValid
  WorkflowsAreJoined
  SearchStaysShallow
