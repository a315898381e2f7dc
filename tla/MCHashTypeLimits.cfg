CONSTANTS
  fa = fa
  fb = fb
  flong = flong
  sx = sx
  slong = slong
  NIL = NIL
  Fields <- MCFields
  FieldLen <- MCFieldLen
  StrValues <- MCStrValues
  StrLen <- MCStrLen
  InputValues <- MCInputValues
  LongBits = 3
  IncrValues <- MCIncrValues
  FloatIncrValues = {1}
  FloatBound = 5
  MaxArgs = 2
  HashMaxZiplistEntries = 2
  HashMaxZiplistValue = 1

SPECIFICATION Spec
VIEW View
INVARIANT ZiplistWithinLimits
