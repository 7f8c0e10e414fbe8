SPECIFICATION Spec
CONSTANTS
  o1 = o1
  o2 = o2
  q1 = q1
  q2 = q2
  toAnn = toAnn
  orderA = orderA
  orderB = orderB
  Op = {o1, o2}
  Quote = {q1, q2}
  Payload = {toAnn}
  Order <- MCOrder
  PayloadOf <- SamePayment
  OrderOf <- TwoOrders
  Cancel = Cancel
  None = None
  MaxNonce = 0
  MaximumGasPrice = 1
  MaxQueueDepth = 2
  MaxRememberedQuotes = 2
  BroadcastAttempts = 1
  MaxFaults = 0
  MaxCrashes = 0
SYMMETRY SymmetricOps
INVARIANTS
  SubmittingIsRecoverable
\* The calls are finitely many, so the service may come to rest.
CHECK_DEADLOCK FALSE
