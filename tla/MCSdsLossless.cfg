CONSTANTS
  Bits = 8
  NUL = NUL
  NULL = NULL
  Chars = {"a", ".", "x"}
  CsetChars = {"a", "."}
  MaxLen = 4
  MantBits = 14
  ExpSpan = 10
  UnitExp = 16
  Prec = 2
  BufLen = 256
  LdMants <- MCLdMants
  TypedQs <- MCTypedQs

SPECIFICATION Spec

INVARIANT Ld2stringLossless
