SPECIFICATION Spec
CONSTANTS
  p = p
  q = q
  Processes = {p, q}
  Identities = {1, 2, 3, 4}
  Sources = {{1, 2, 3}, {1, 2, 4}}
  Unsupported = {3}
  Warned = {2}
  FirstId = 1
  LastId = 3
  NumChunks = 2
  Agenda <- MCAgenda
  NoFile = NoFile
  NoStage = NoStage
  Missing = Missing
  MaxRuleId = 9999999
  MaxRegexLength = 10
  CommonGroups = {}
  CommonDecoders = {}
  MaxEdits = 1
  MaxFaults = 1
SYMMETRY Symmetry
INVARIANTS
  TypeOK
  SoloRunRestores
  SmokeReportTruthful
PROPERTIES
  PreflightGates
CHECK_DEADLOCK FALSE
