CONSTANTS
  Thread = {0, 1, 2}
  Main = 0
  Limit = 4
  None = None
SPECIFICATION FairSpec
INVARIANTS EveryCallbackOnce PoolOutlivesCallbacks TestAtexitPasses
PROPERTY ThreadsGo
