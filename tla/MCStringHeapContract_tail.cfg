CONSTANTS
  Strs = {x1, x2}
  Tmp = Tmp
  Ret = Ret
  CStrs <- MCCStrs
  Null = Null
  Bufs = {1, 2, 3, 4, 5}
  NoBuf = NoBuf
  MaxLen = 3

SPECIFICATION HSpecPastEnd

INVARIANTS
  ContentsMatchUnderAliasing
