SPECIFICATION FairSpec
CONSTANTS
  Hash = {h1}
  Order = {orderA}
  Settled = {"confirmed", "dropped"}
  None = None
  Writer = {w1, w2}
  Reader = {r1}
  Damage = {"none", "entries", "text"}
  MaxFaults = 1
  MaxCrashes = 1
INVARIANTS
  DamageIsKept
PROPERTIES
  MutationsKeepRecords
  EveryCallEnds
  ImplementsAtomicStore
\* The calls are finitely many, so the store may come to rest.
CHECK_DEADLOCK FALSE
