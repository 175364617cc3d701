SPECIFICATION Spec
CONSTANTS
  q1 = q1
  q2 = q2
  q3 = q3
  a = a
  b = b
  red = red
  blue = blue
  Queries = {q1, q2, q3}
  Modes <- Sound
  MaxWindowQueries = 2
  MaxInflight = 1
  Shortlist = 3
  Nil = Nil
  Broken = Broken
INVARIANTS
  Conserved
  
  StopDrains
PROPERTIES
  UrgentFirst
  EventuallyAnswered
CHECK_DEADLOCK FALSE
