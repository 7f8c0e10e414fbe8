SPECIFICATION FairSpec
CONSTANTS
  c1 = c1
  c2 = c2
  c3 = c3
  c4 = c4
  c5 = c5
  checksummed = checksummed
  lower = lower
  other = other
  Call <- MCCall
  Address <- MCAddress
  Key <- MCKey
  LowerCase <- MCLowerCase
  AddressOf <- MCAddressOf
  MaxQueueDepth = 3
  NoCall = NoCall
INVARIANTS
  DepthExact
  TailRegisteredWhileBusy
PROPERTIES
  ImplementsSection
  JoinedCallsFinish
\* Every call is made at most once, so a behaviour ends when all are over.
CHECK_DEADLOCK FALSE
