SPECIFICATION Spec
CONSTANTS
  R = R
  S = S
  Word = Word
  Rules = {R, S}
  Words = {Word}
  Template = Template
  Absent = Absent
  NoReport = NoReport
  Suites <- MCDocumented
  MaxPolls = 2
  MaxRuns = 1
PROPERTY OwnAlertFound
CHECK_DEADLOCK FALSE
