SPECIFICATION FairSpec
CONSTANTS
  None = None
  Permanent = Permanent
  Transient = Transient
  Request = {r1, r2}
  Engine = Engine
  Cell = {k1, k2}
  MaxGeneration = 1
  MaxEvents = 1
INVARIANTS OneRefreshInFlight
PROPERTIES WaiterReleased PortComesFree ActivityShows
CHECK_DEADLOCK FALSE
