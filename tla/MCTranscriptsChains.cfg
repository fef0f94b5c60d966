SPECIFICATION Spec
CONSTANTS
  None = None
  Id = {i1, i2, i3}
  Sub = {s1}
  Text = {short, huge}
  short = short
  long = long
  huge = huge
  Size <- MCSize
  MaxDepth = 1
  Request = {r1}
  Key = {k1}
  MaxBytes = 2
  Ttl = 1
  MaxNow = 2
SYMMETRY Symmetry
INVARIANTS ToldIsRemembered
PROPERTIES ConversationsWhole
CHECK_DEADLOCK FALSE
