\* Two concurrent runs that share the step counter, one of them governed.
CONSTANTS
  Runs <- MCRuns
  Governed = {"governed"}
  MaxSteps <- MCMaxSteps
  MaxEvents = 3
SPECIFICATION AuditSpec
INVARIANT StoredEnvelopeVerifies
CHECK_DEADLOCK FALSE
