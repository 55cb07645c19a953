SPECIFICATION Spec
CONSTANTS
  a = a
  b = b
  c = c
  x = x
  y = y
  w = w
  z = z
  Objs = {a, b, c}
  NoObj = NoObj
  Names = {x, y, w, z}
  NoName = NoName
  Length <- MCLength
  Exports <- MCExports
  Wants <- MCWants
  BlockRecs = 4
  NameBytes = 16
  RecBytes = 28
  PtrBytes = 4
  MaxBlocks = 2
INVARIANT
  PatchedRight
CHECK_DEADLOCK FALSE
