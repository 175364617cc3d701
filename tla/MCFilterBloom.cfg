SPECIFICATION Spec
CONSTANTS
  a = a
  b = b
  c = c
  Null = Null
  Ids = {1, 2, 3, 4}
  Row <- MCRow
  Strings = {a, b, c}
  Hash <- MCHash
  Comparands = {0, 4, 8}
  Built = {1, 2, 3}
  LeafCap = 1
  BloomThreshold = 2
  MaxOps = 1
INVARIANTS
  NeverFalseNegative
CHECK_DEADLOCK FALSE
