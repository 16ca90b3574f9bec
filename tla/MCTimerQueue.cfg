SPECIFICATION Spec
CONSTANTS
  caller1 = caller1
  Callers <- MCCallers
  Addresses <- MCAddresses
  Delays <- MCDelays
  Intervals <- MCIntervals
  MaxTimers = 2
  MaxTime = 3
  MaxSteps = 1
  MaxCalls = 2
  Null = Null
INVARIANTS
  TypeOK
  NoAssertFails
  ArmedForEarliest
  TimersKept
  GoneStaysGone
PROPERTIES
  TimersExpire
CHECK_DEADLOCK FALSE
