SPECIFICATION Spec
CONSTANTS
  Threads = {1, 2}
  Blocks = {1, 2, 3, 4, 5}
  Configs <- Caches
INVARIANTS
  EntriesSound
  CapacityHeld
PROPERTIES
  OpsFinish
