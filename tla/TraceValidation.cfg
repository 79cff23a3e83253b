SPECIFICATION FairSpec
CONSTANTS
  Bad = Bad
  Traces <- MCTraces
INVARIANTS
  TypeOK
  VerdictIsRight
  SearchIsSound
PROPERTY
  ValidationEnds
