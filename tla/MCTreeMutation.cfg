SPECIFICATION FsckSpec
CONSTANTS
  r1 = r1
  r2 = r2
  r3 = r3
  r4 = r4
  r5 = r5
  Rows = {r1, r2, r3, r4, r5}
  Indexes <- Sound
  RowsPerPage = 2
  ChildrenPerPage = 2
  BatchSize = 1
  DuplicateIds = FALSE
  Nil = Nil
SYMMETRY FreshRows
INVARIANTS
  LiveExtentsIntact
  FsckClean
  RowsKeepCopies
  ReopenSeesSame
PROPERTIES
  StepsProgress
  RepairRestores
