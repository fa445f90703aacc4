SPECIFICATION FairSpec
CONSTANTS
  Calls = {c1, c2}
  Roots = {"r1", "r2", "r3"}
  NoRoot = "none"
  ProjectMax = 2
  MaxCalls = 4
INVARIANTS
  CacheIsExact
  LoadsAreJustified
PROPERTIES
  AnswersTheRequestedProject
  EveryCallReturns
\* The model stops after MaxCalls requests.
CHECK_DEADLOCK FALSE
