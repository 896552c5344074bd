\* Every stream of chunks of text, against every budget of MCPolicies.
CONSTANTS
  PromptEstimate = 1
  Reserve = 1
  MaxUsage = 21
  Deltas = {0, 1, 3, 5}
  MaxDecodedChars = 6
  MaxBurst = 3
  Policies <- MCPolicies
SPECIFICATION FairSpec
INVARIANTS
  LeavesAnLLMResult
  OvershootIsBounded
PROPERTIES
  StopIsKept
  TextEndsTheCall
