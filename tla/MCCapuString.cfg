CONSTANTS
  Strs = {x1, x2}
  CStrs <- MCCStrs
  Null = Null
  UIntBits = 4
  MaxLen = 3

SPECIFICATION Spec

INVARIANTS
  TypeOK
  LengthMatchesCStr
