CONSTANTS
  MaxItems = 6
  CACHE_THRESHOLD = 1
  IndexMod = 16
SPECIFICATION StorageSpec
INVARIANTS FindsItems
