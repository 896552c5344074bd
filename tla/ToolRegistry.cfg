\* Concurrent calls of one tool that is registered up to three times.
CONSTANTS
  k1 = k1
  k2 = k2
  a = a
  b = b
  c = c
  Calls <- MCCalls
  Args <- MCArgs
  MaxRegistrations = 3
  Accepts <- MCAccepts
  Broken <- MCBroken
  InScope <- MCScope
  Authorities <- MCAuthorities
  Categories <- MCCategories
SPECIFICATION FairSpec
INVARIANTS
  StartedOnAnEarlierContract
PROPERTIES
  ValidatorsOnlyGetNewer
  AnswerIsFinal
  CallsAreAnswered
CHECK_DEADLOCK FALSE
