SPECIFICATION Spec
CONSTANTS
  NumFiles = 2
  Identities = {i1, i2}
  Versions = {"v1", "double", "huge", "unsupported", "invalid"}
  Branches <- MCBranches
  Oversized = {"huge"}
  Invalid = {"invalid"}
  NoRule = NoRule
  Mappings = {"m1", "m2"}
  Parents = {"p1"}
  RuleIdStart = 1
  RuleIdEnd = 3
  StrictModes = {TRUE, FALSE}
  Faults = {"crash", "cache_write", "xml_write", "chunk_write", "manifest_write", "damaged_entry"}
  Budget = 3
SYMMETRY Symmetry
INVARIANTS
  ManifestSound
  PublishedIdsUnique
  PublishedAgreesWithManifest
  ElementsCurrent
PROPERTIES
  ImplementsStableIds
