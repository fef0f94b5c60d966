SPECIFICATION Spec
CONSTANTS
  None = None
  Permanent = Permanent
  Transient = Transient
  Request = {r1}
  Engine = Engine
  Cell = {k1, k2}
  MaxGeneration = 2
  MaxEvents = 2
INVARIANTS NeedsLoginMeansDead
CHECK_DEADLOCK FALSE
