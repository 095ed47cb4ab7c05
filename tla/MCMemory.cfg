CONSTANTS
  Area = {a1, a2, a3}
  SlicesPerArea = 3
  PAGE_SIZE = 4096
SPECIFICATION Spec
INVARIANTS PoolIntact NeverUnmapsUsed  ListsAreSequences
PROPERTY AllocatesUnused
CHECK_DEADLOCK FALSE
