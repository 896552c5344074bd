\* Two concurrent runs that share the step counter, one of them governed.
CONSTANTS
  Runs <- MCRuns
  Governed = {"governed"}
  MaxSteps <- MCMaxSteps
  MaxEvents = 3
SPECIFICATION AuditSpec
INVARIANTS
  ParentsAreEarlierSteps
  NewestTraceIsUnambiguous
  SealedRecordAgrees
CHECK_DEADLOCK FALSE
