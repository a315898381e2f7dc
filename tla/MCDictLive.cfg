CONSTANTS
  k1 = k1
  k2 = k2
  k3 = k3
  Keys <- MCKeys
  Hash <- MCHash
  DICT_HT_INITIAL_SIZE = 1
  DictForceResizeRatio = 5
  HashtableMinFill = 50
  CursorBits = 3
  MaxIterators = 1

SPECIFICATION OwnedSpec

PROPERTY OwnedRehashCompletes

