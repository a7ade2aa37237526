CONSTANTS
  CountMax = 3
  Thresholds <- MCThresholds
  Consumers <- MCGuard
  HeartbeatPeriod = 2
  MaxEvents = 5
  MaxSwitches = 1
SPECIFICATION Spec
CHECK_DEADLOCK FALSE
INVARIANTS
  T2AlwaysStops
