SPECIFICATION Spec
CONSTANTS
  None = None
  Junk = Junk
  Percent = {0, 90, 120}
  Gate <- MCGate
  Changes = 1
INVARIANTS CeilingHolds
CHECK_DEADLOCK FALSE
