SPECIFICATION Spec
CONSTANTS
  Paths = {1, 2, 3}
  Slugs <- MCSlugs
  Absent = Absent
  Invalid = Invalid
  Broken = Broken
  MaxRetries = 2
  MaxRuns = 3
  MaxEdits = 2
INVARIANTS
  TypeOK
  SuccessfulRunLoads
  OverwriteRunHeals
CHECK_DEADLOCK FALSE
