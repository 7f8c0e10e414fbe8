SPECIFICATION Spec
CONSTANTS
  Wallet = {w1, w2}
  Key = {k1, k2}
  Call = {c1, c2}
  None = None
  MaxFaults = 1
  MaxCrashes = 1
  MaxUninstalls = 1
SYMMETRY SymmetricVault
INVARIANTS
  KeyFitsVault
  CurrentIsStored
  LegacyIsPurged
  OldWalletsRecoverable
PROPERTIES
  ContentIsDurable
  FailsForCause
\* The calls are finitely many, so the vault may come to rest.
CHECK_DEADLOCK FALSE
