SPECIFICATION FairSpec
CONSTANTS
  Callers = {c1, c2, c3}
  Targets = {t1, t2}
  GlobalEnv <- MCGlobalEnv
  PerTargetEnv <- MCPerTargetEnv
  TimeoutEnv <- MCTimeoutEnv
INVARIANTS
  CountersMatchHolders
  NoLostWakeup
PROPERTIES
  ImplementsBulkhead
  EveryCallSettles
