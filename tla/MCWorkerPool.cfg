\* Three rows compete for one slot: the code raises a configured 0 to 1.
CONSTANTS
  Tasks = {r1, r2, r3}
  MaxConcurrentTasks = 0
SPECIFICATION FairSpec
INVARIANTS
  TypeOK
  ConcurrencyBound
  NothingLeftBehind
PROPERTIES
  ImplementsPool
  EveryCallReturns
