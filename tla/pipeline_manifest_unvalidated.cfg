SPECIFICATION Spec
CONSTANTS
  p = p
  q = q
  Processes = {p}
  Identities = {1, 2, 3, 4}
  Sources = {{1, 4}}
  Unsupported = {3}
  Warned = {2}
  FirstId = 1
  LastId = 3
  NumChunks = 2
  Agenda <- MCRepublished
  NoFile = NoFile
  NoStage = NoStage
  Missing = Missing
  MaxRuleId = 9999999
  MaxRegexLength = 10
  CommonGroups = {}
  CommonDecoders = {}
  MaxEdits = 1
  MaxFaults = 0
PROPERTY
  ManifestAwaitsValidation
CHECK_DEADLOCK FALSE
