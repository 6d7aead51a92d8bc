SPECIFICATION Spec
CHECK_DEADLOCK FALSE
CONSTANTS
  v = v
  f = f
  w = w
  g = g
  x = x
  zero = zero
  one = one
  junk = junk
  Vars = {v}
  Fields = {f}
  Windows = {x}
  Values <- ItemValues
  Zero = zero
  Garbage = junk
  Literals <- TwoLiteral
  ArrayForms = {"literal"}
  ArrayLen = 2
  WindowBounds = {}
  AppendBounds = {}
  Indexes <- SomeIndexes
  WindowIndexes = {0, 1}
  ConstIndexes = {1}
  Word = 16
  ItemSize <- InterfaceSize
  Stride <- InterfaceSize
  SliceSize <- HeaderSize
  MaxArrays = 3
  MaxCap = 4
INVARIANTS
  InBounds
