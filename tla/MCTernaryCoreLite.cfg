CONSTANTS
  CountMax = 3
  Thresholds <- MCThresholds
SPECIFICATION Spec
INVARIANTS
  TypeOK
  BitExact
  ValidMeansReference
  StreakAlarms
  AlarmIsEarned
