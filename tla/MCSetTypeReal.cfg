CONSTANTS
  k1 = k1
  k2 = k2
  ks = ks
  a = a
  b = b
  NIL = NIL
  Keys <- MCOneKey
  StrKeys <- MCNoStrKeys
  Members <- MCSevenMembers
  Counts <- MCRealCounts
  MaxArgs = 2
  SetMaxIntsetEntries = 4
  SPOP_MOVE_STRATEGY_MUL = 5
  SRANDMEMBER_SUB_STRATEGY_MUL = 3
  LongBits = 4
  UIntBits = 3

SPECIFICATION Spec
VIEW View

INVARIANT TypeOK
INVARIANT NoEmptySets
INVARIANT IntsetOK
PROPERTY SetKeyspaceRefinement
