SPECIFICATION Spec
CONSTANTS
  Deployers = {d1, d2}
  Contents = {good, invalid, colliding, rejected}
  Invalid = {invalid}
  Colliding = {colliding}
  Rejected = {rejected}
  NoFile = NoFile
  Plans <- MCPlans
  Faults = {"api_error", "os_error", "kill"}
  MaxRepublished = 1
SYMMETRY Symmetry
INVARIANTS
  TypeOK
  RestorePoint
PROPERTIES
  FailureRestoresFile
  SuccessIsServed
CHECK_DEADLOCK FALSE
