SPECIFICATION Spec
CONSTANTS
  NumFiles = 2
  Identities = {i1, i2}
  Versions = {"v1", "double"}
  Branches <- MCBranches
  Oversized = {}
  Invalid = {}
  NoRule = NoRule
  Mappings = {"m1"}
  Parents = {"p1"}
  RuleIdStart = 1
  RuleIdEnd = 6
  StrictModes = {FALSE}
  Faults = {}
  Budget = 3
PROPERTIES
  UnchangedRulesKept
