SPECIFICATION Spec
CONSTANTS
  Nil = Nil
  j1 = j1
  j2 = j2
  f1 = f1
  f2 = f2
  x = x
  y = y
  A = A
  B = B
  C = C
  D = D
  n1 = n1
  n2 = n2
  m = m
  half = half
  some = some
  rare = rare
  absent = absent
  Jobs = {j1, j2, f1, f2}
  Modes <- Sound
  Chunk = 1
  MaxPool = 2
INVARIANTS
  MatchesSearch
  PoolContainsHeap
  SweptOnce
  PinsFollowUse
  DirectedProbesAll
PROPERTIES
  EventuallyReturns
CHECK_DEADLOCK FALSE
