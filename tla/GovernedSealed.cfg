\* Does a run that is stopped end in a sealed envelope?
CONSTANTS
  PromptEstimate = 1
  Reserve = 1
  MaxUsage = 1
  MaxCalls = 2
  TTL = 2
  MaxTime = 2
  Policies <- MCStepLimits
SPECIFICATION FairSpec
INVARIANT EveryStoppedRunIsSealed
