CONSTANTS
  k1 = k1
  k2 = k2
  ks = ks
  a = a
  b = b
  NIL = NIL
  Keys <- MCKeys
  StrKeys <- MCStrKeys
  Members <- MCMembers
  Counts <- MCCounts
  MaxArgs = 2
  SetMaxIntsetEntries = 1
  SPOP_MOVE_STRATEGY_MUL = 1
  SRANDMEMBER_SUB_STRATEGY_MUL = 3
  LongBits = 3
  UIntBits = 2
  MaxBacklog = 1

SPECIFICATION ReplSpec
VIEW ReplView

INVARIANT ReplTypeOK
INVARIANT NoEmptySets
INVARIANT IntsetOK
INVARIANT ReplicaConsistent
PROPERTY SetKeyspaceRefinement
