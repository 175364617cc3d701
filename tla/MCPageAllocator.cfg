SPECIFICATION Spec
CONSTANTS
  MaxPages = 5
  Reserved = 1
  Coverage = 4
  MaxCount = 2
  Nil = Nil
  Data = Data
INVARIANTS
  BitmapExact
  LiveDisjoint
  FreeCountExact
  FreeListNeverGarbage
  CommittedBitmapExact
CHECK_DEADLOCK FALSE
