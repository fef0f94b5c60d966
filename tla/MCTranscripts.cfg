SPECIFICATION Spec
CONSTANTS
  None = None
  Id = {i1, i2}
  Sub = {s1}
  Text = {short, long}
  short = short
  long = long
  huge = huge
  Size <- MCSize
  MaxDepth = 1
  Request = {r1, r2}
  Key = {}
  MaxBytes = 2
  Ttl = 0
  MaxNow = 1
SYMMETRY Symmetry
INVARIANTS BytesExact
PROPERTIES RememberHolds
CHECK_DEADLOCK FALSE
