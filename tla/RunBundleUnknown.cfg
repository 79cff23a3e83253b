SPECIFICATION Spec
CONSTANTS
  None = None
  p = p
  q = q
  Requests <- MCRequests
  Record <- MCRecord
  Lines <- MCLines
  Answers <- FewAnswers
  TtftSlo = 1
  TpotSlo = 1
  MaxRuns = 1
INVARIANT
  UnknownIsNotZero
