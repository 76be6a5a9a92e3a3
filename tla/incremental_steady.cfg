SPECIFICATION FairSpec
CONSTANTS
  NumFiles = 2
  Identities = {i1, i2, i3}
  Versions = {"v1", "v2"}
  Branches <- MCSingle
  Oversized = {}
  Invalid = {}
  NoRule = NoRule
  Mappings = {"m1"}
  Parents = {"p1"}
  RuleIdStart = 1
  RuleIdEnd = 4
  StrictModes = {TRUE, FALSE}
  Faults = {"damaged_entry", "lost_manifest"}
  Budget = 3
INVARIANTS
  TypeOK
PROPERTIES
  UnchangedRulesKept
  PublishedIdsStable
  RetiredOnlyIfGone
  Converges
