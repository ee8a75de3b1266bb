CONSTANTS
  Keys = {1, 2}
  HashOf <- MCHashOf
  Threads = {t1, t2, t3}
  NoThread = NoThread
  MaxRecursion = 2
  MaxNest = 3
  MaxOps = 3
  TheSet = set
  BitSize = 1

SPECIFICATION FairSpec

INVARIANTS
  TypeOK
  HeldMatchesLockCount
  IterationNeverInvalidated

PROPERTIES
  EveryThreadReturns
