SPECIFICATION Spec
CONSTANTS
  Threads = {t1, t2}
  Workloads <- Sound
  Pages <- PageIds
  Stripes = 1
  Frequencies <- Hotness
  MaxWindow = 0
  MaxPages = 3
  MaxPins = 1
  MaxEntries = 6
  Word = 64
  Nil = Nil
SYMMETRY Searchers
INVARIANTS
  PinsValid
  ShardConsistent
  FreedExactlyOnce
  MainWithinBudget
