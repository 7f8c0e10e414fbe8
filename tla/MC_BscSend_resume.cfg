SPECIFICATION FairResume
CONSTANTS
  o1 = o1
  o2 = o2
  q1 = q1
  q2 = q2
  toAnn = toAnn
  orderA = orderA
  orderB = orderB
  Op = {o1, o2}
  Quote = {q1}
  Payload = {toAnn}
  Order <- MCOrder
  PayloadOf <- OnePayment
  OrderOf <- ForOrder
  Cancel = Cancel
  None = None
  MaxNonce = 0
  MaximumGasPrice = 2
  MaxQueueDepth = 1
  MaxRememberedQuotes = 2
  BroadcastAttempts = 1
  MaxFaults = 0
  MaxCrashes = 1
PROPERTIES
  CallsSettle
  UncertaintyEnds
  MinedIsReported
\* The calls are finitely many, so the service may come to rest.
CHECK_DEADLOCK FALSE
