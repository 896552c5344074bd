\* Safety, refinement and liveness of chat and coder runs: two tool calls a plan, one repair.
CONSTANTS
  PromptEstimate = 1
  Reserve = 1
  MaxUsage = 1
  MaxCalls = 2
  MaxRepairs = 1
  Policies <- MCPolicies
SPECIFICATION FairSpec
INVARIANTS
  RunSafety
  ReportMatchesTheRun
PROPERTIES
  StoppedRunWindsDown
  KeepsThePromise
  RunEnds
