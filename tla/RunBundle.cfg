SPECIFICATION FairSpec
CONSTANTS
  None = None
  p = p
  q = q
  Requests <- MCRequests
  Record <- MCRecord
  Lines <- MCLines
  Answers <- MCAnswers
  TtftSlo = 1
  TpotSlo = 1
  MaxRuns = 2
INVARIANTS
  TypeOK
  VerifiedBundleIsWhole
  EventsAreOneRun
  ReportIsTrue
  SloNeedsEvidence
  PercentilesAreNearestRank
PROPERTY
  RunsEndVerified
