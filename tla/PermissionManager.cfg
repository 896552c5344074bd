\* Three permissions, two lifetimes, a clock that is set back at will.
CONSTANTS
  p1 = p1
  p2 = p2
  p3 = p3
  Ids = {p1, p2, p3}
  TTLs = {1, 2}
  MaxTime = 4
SPECIFICATION Spec
SYMMETRY Symmetry
INVARIANTS
  LogTellsTheStory
PROPERTIES
  SettledIsFinal
  ConsumedInsideItsWindow
