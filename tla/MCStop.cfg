SPECIFICATION Spec
CONSTANTS
  Pid = {1, 2}
  None = None
  MaxActs = 4
INVARIANTS StoppedMeansStopped
CHECK_DEADLOCK FALSE
