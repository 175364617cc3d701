SPECIFICATION Spec
CONSTANTS
  MaxSeq = 5
  MaxLosses = 2
INVARIANTS
  OldOrNew
  ShadowProtocol
PROPERTIES
  Commits
