SPECIFICATION Spec
CONSTANTS
  k1 = k1
  k2 = k2
  Keys = {k1, k2}
  MaxKeys = 2
  MaxActives = 1
  OperationBytes = 4
  MaxSafeInteger = 4
  trx = trx
  trc20 = trc20
  good = good
  double = double
  Asks = {trx, trc20}
  heavy = heavy
  twice = twice
  Drafts = {good, double}
  Foreign = {heavy, twice}
  TokenOf <- MCTokenOf
  AccountOf <- MCAccountOf
  IdOf <- MCIdOf
  StructureOf <- MCStructureOf
  Structures <- MCStructures
  None = None
  MaxRetries = 1
  MaxStrange = 1
INVARIANTS
  PaidOnce
  SentIsSaved
  ReviewedIsExecuted
  OnlyForeignDuplicatesLockOut
\* When everything is paid there is nothing left to do.
CHECK_DEADLOCK FALSE
