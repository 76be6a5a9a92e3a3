SPECIFICATION FairSpec
CONSTANTS
  R = R
  S = S
  Word = Word
  Rules = {R, S}
  Words = {Word}
  Template = Template
  Absent = Absent
  NoReport = NoReport
  Suites <- MCSuites
  MaxPolls = 2
  MaxRuns = 2
INVARIANTS
  TypeOK
  PassedOnOwnEvidence
  ReportTruthful
PROPERTIES
  OwnAlertFound
  RunsEnd
CHECK_DEADLOCK FALSE
