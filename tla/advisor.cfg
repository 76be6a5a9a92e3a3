SPECIFICATION FairSpec
CONSTANTS
  Plain = Plain
  Delicate = Delicate
  Model = Model
  Rules = {Plain, Delicate}
  Features <- MCFeatures
  Outputs <- MCOutputs
  Configs <- MCConfigs
  Models = {Model}
  NoModel = NoModel
  NoOutput = NoOutput
  NoEntry = NoEntry
  Damaged = Damaged
  NoDecision = NoDecision
  MaxRetries = 1
  MaxRuns = 2
INVARIANTS
  TypeOK
  CountedCallsBounded
  HitAgrees
  OnlyApplyChangesLevels
PROPERTIES
  OnlyFinishedOutcomesCached
  AdviceEnds
CHECK_DEADLOCK FALSE
