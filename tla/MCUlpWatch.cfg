CONSTANTS
  CountMax = 3
  Thresholds <- MCThresholds
  Consumers <- MCConsumers
  HeartbeatPeriod = 2
  MaxEvents = 4
  MaxSwitches = 1
SPECIFICATION FairSpec
CHECK_DEADLOCK FALSE
INVARIANTS
  TypeOK
  T2Stops
  PollMissesNothing
  MeasuringRaisesNoTC
PROPERTIES
  WatchStarts
