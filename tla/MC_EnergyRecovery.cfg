SPECIFICATION FairSpec
CONSTANTS
  orderA = orderA
  orderB = orderB
  w1 = w1
  w2 = w2
  s1 = s1
  s2 = s2
  s3 = s3
  Payment <- MCPayment
  Order = {orderA, orderB}
  Wallet = {w1, w2}
  OrderOf <- MCOrderOf
  WalletOf <- MCWalletOf
  Sweep = {s1, s2, s3}
  SweptBy <- MCSweptBy
  None = None
  MaxFaults = 1
  MaxCrashes = 1
INVARIANTS
  AttachedIsBoundOrUnnamed
  AnswersAreHeeded
PROPERTIES
  PaymentsAreAttached
\* When all payments are attached there is nothing left to do.
CHECK_DEADLOCK FALSE
