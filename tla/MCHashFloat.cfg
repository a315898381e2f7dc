CONSTANTS
  NUL = NUL
  NULL = NULL
  NIL = NIL
  MantBits = 14
  ExpSpan = 10
  UnitExp = 16
  Prec = 2
  BufLen = 6
  IncrStrs <- MCIncrStrs

SPECIFICATION Spec

INVARIANT FieldHoldsSum
