SPECIFICATION Spec
CONSTANTS
  a = a
  b = b
  c = c
  Null = Null
  Ids = {1, 2, 3, 4}
  Row <- MCRow
  Strings = {a, b, c}
  Hash <- MCHash
  Comparands <- MCComparands
  Built = {1, 2, 3}
  LeafCap = 1
  BloomThreshold = 2
  MaxOps = 3
INVARIANTS
  LeafSummarySound
  BuiltRowsFound
CHECK_DEADLOCK FALSE
