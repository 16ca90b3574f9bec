SPECIFICATION Spec
CONSTANTS
  Second = 4
  DefaultInterval = 3
  Rates <- MCRates
  ClockBack = 2
  JpegSize = 2
  PartHeader = 1
INVARIANTS
  TypeOK
  OneRefresh
  OnSchedule
PROPERTIES
  PictureReturns
