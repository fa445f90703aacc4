SPECIFICATION Spec
CONSTANTS
  Calls = {c1, c2}
  c1 = c1
  c2 = c2
  None = None
  IdSpace = 3
  LengthSpace = 4
  DefaultTimeout = 1
  DefaultMax = 4
  Timeouts = {0}
  ContextTimeouts = {None, 1}
  ConnectTimeout = 1
  Limits = {0, 2}
  Answers <- MCAnswers
  MaxTime = 2
INVARIANTS TypeOK OwnAnswer ExchangeWithinTimeout ErrorsOfSentRequests
SYMMETRY Symmetry
CHECK_DEADLOCK FALSE
