SPECIFICATION Spec
CONSTANTS
  NoValue = NoValue
  Missing = Missing
  Letters = {300, 301, 302}
  MaxRuleId = 9999999
  MaxRegexLength = 7
  CommonGroups = {}
  CommonDecoders = {}
  Builtin <- WindowsFieldMappings
  Configs <- MCConfigs
  Directories <- MCDirectories
  CustomMappings <- MCCustomMappings
  Batches <- MCBatches
  Samples <- MCSamples
  MaxPatternLength = 8
  MaxAdded = 2
INVARIANTS
  TypeOK
  StrictStaysVerified
  PatternsExact
  EmittedPassesValidator
CHECK_DEADLOCK FALSE
