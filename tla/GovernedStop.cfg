\* Is a tool started after a forced stop?
CONSTANTS
  PromptEstimate = 1
  Reserve = 1
  MaxUsage = 1
  MaxCalls = 2
  TTL = 2
  MaxTime = 2
  Policies <- MCFewPolicies
SPECIFICATION FairSpec
PROPERTY NoToolAfterForcedStop
