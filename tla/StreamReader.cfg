SPECIFICATION FairSpec
CONSTANTS
  None = None
  Lines <- MCLines
  SaltRequired = TRUE
  MaxLines = 3
  MaxTime = 2
INVARIANTS
  TypeOK
  AgreesWithTranscript
  ResultIsJustified
PROPERTY
  ImplementsEndpointCall
