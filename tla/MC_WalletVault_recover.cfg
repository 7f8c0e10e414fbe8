SPECIFICATION Spec
CONSTANTS
  Wallet = {w1}
  Key = {k1, k2}
  Call = {c1}
  None = None
  MaxFaults = 2
  MaxCrashes = 0
  MaxUninstalls = 0
INVARIANTS
  OldWalletsRecoverable
\* The calls are finitely many, so the vault may come to rest.
CHECK_DEADLOCK FALSE
