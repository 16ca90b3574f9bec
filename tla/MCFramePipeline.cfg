SPECIFICATION Spec
CONSTANTS
  io1 = io1
  io2 = io2
  IoThreads <- MCIoThreads
  MaxFrames = 2
  Sizes <- MCSizes
  InitialCapacity = 2
  Align = 2
  MaxFaults = 1
  Camera = Camera
  Null = Null
INVARIANTS
  TypeOK
  GuardedBuffers
  ServedWhole
  ServedFresh
PROPERTIES
  RequestsFinish
