SPECIFICATION Spec
CHECK_DEADLOCK FALSE
CONSTANTS
  v = v
  f = f
  w = w
  g = g
  x = x
  zero = zero
  one = one
  junk = junk
  Vars = {v}
  Fields = {f, g}
  Windows = {}
  Values <- ItemValues
  Zero = zero
  Garbage = junk
  Literals <- OneLiteral
  ArrayForms = {"literal"}
  ArrayLen = 2
  WindowBounds <- OnlySecond
  AppendBounds <- Whole
  Indexes <- SomeIndexes
  WindowIndexes = {0, 1}
  ConstIndexes = {1}
  Word = 16
  ItemSize <- StringSize
  Stride <- StringSize
  SliceSize <- HeaderSize
  MaxArrays = 3
  MaxCap = 4
PROPERTIES
  CopiedBeforeAltered
