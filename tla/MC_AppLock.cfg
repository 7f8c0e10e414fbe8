SPECIFICATION FairSpec
CONSTANTS
  pin4 = pin4
  a = a
  b = b
  Pins = {pin4, a, b}
  Legacy = {pin4}
  None = None
  ShortDelay = 1
  FiveLock = 2
  TenLock = 2
  FifteenLock = 2
  LongLock = 3
  Earlier = {0, 3, 18}
  MaxWrong = 3
  MaxSets = 2
  MaxFaults = 1
  MaxCrashes = 1
INVARIANTS
  PinIsKnown
  AnsweredIsCounted
  AnnouncedLockComes
PROPERTIES
  RightPinOpens
\* Nothing is left to do when the app was installed anew and no PIN may be set any more.
CHECK_DEADLOCK FALSE
