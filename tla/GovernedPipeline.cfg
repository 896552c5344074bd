\* Every property of the governed run, two tool calls, all the
\* budget policies of MCPolicies.
CONSTANTS
  PromptEstimate = 1
  Reserve = 1
  MaxUsage = 2
  MaxCalls = 2
  TTL = 2
  MaxTime = 3
  Policies <- MCPolicies
SPECIFICATION FairSpec
INVARIANTS
  TypeOK
  EnvelopeSettlesPermissions
  EnvelopeAccountsAgree
  SuccessIsComplete
  RefusalIsFinal
  StepAndToolBudgetNeverOverspent
PROPERTIES
  ExecutionIsAuthorised
  StoppedRunTakesNoAuthority
  KeepsThePromise
  RunEnds
