\* Every fallback configuration, chosen at the start.
CONSTANTS
  Operations <- MCOperations
  Rules <- MCRules
  Fallbacks <- MCFallbacks
  NoFallback = "none"
  Hidden <- MCHidden
SPECIFICATION OpaFairSpec
INVARIANT FailsClosed
PROPERTIES
  KeepsTheOracle
  CallsAreAnswered
