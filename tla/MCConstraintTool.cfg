SPECIFICATION Spec
CHECK_DEADLOCK FALSE
CONSTANTS
  Packages <- MCPackages
  Objects <- MCObjects
  EventParams <- MCEventParams
  Word = 1048576
  Unset = Unset
INVARIANTS
  TypeOK
  AdmittedMeetsPackage
  RefusedBreaksPackage
  NoRowIsShadowed
  CommittedTablesAreGenerated
PROPERTY LtlHoldsAtRuntime
