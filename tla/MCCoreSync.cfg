\* the two cores of the K210, two levels of the lock, three units
CONSTANTS
  Cores = {c1, c2}
  NoCore = NoCore
  MaxDepth = 2
  Amounts <- OneOrTwo
  MaxUnits = 3
SPECIFICATION FairSpec
INVARIANTS LockSafe SemaphoreSafe
PROPERTIES ImplementsRecursiveLock LockMoves UnitsTaken
CHECK_DEADLOCK FALSE
