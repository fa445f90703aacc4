SPECIFICATION Spec
CONSTANTS
  SessionIds = {s1, s2, s3, s4}
  Cap = 3
  TTL = 1
  History = 2
  MaxTime = 3
  MaxCaptures = 3
SYMMETRY IdSymmetry
INVARIANTS
  HistoryIsRecentCaptures
PROPERTIES
  DroppedStaysDropped
  EvictsLeastRecentlyUsed
