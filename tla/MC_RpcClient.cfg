SPECIFICATION FairSpec
CONSTANTS
  Transports = 2
  MaxAttempts = 2
  Broadcast = {b1}
  Wait = {w1}
  Confirmations = 2
  MaxPolls = 1
  MaxHeight = 2
  MaxFaults = 2
INVARIANTS
  KnownIsFound
  FailOverIsComplete
  ReceiptIsDeep
PROPERTIES
  CallsEnd
\* The calls are finitely many, so they may all be over.
CHECK_DEADLOCK FALSE
