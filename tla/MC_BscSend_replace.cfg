SPECIFICATION Spec
CONSTANTS
  o1 = o1
  o2 = o2
  q1 = q1
  q2 = q2
  toAnn = toAnn
  orderA = orderA
  orderB = orderB
  Op = {o1, o2}
  Quote = {q1}
  Payload = {toAnn}
  Order <- MCOrder
  PayloadOf <- OnePayment
  OrderOf <- ForOrder
  Cancel = Cancel
  None = None
  MaxNonce = 0
  MaximumGasPrice = 2
  MaxQueueDepth = 2
  MaxRememberedQuotes = 2
  BroadcastAttempts = 1
  MaxFaults = 1
  MaxCrashes = 1
SYMMETRY SymmetricOps
INVARIANTS
  SubmittingIsRecoverable
  SettledTruthfully
  ReplacedHasSuccessor
PROPERTIES
  ImplementsLifecycle
\* The calls are finitely many, so the service may come to rest.
CHECK_DEADLOCK FALSE
