SPECIFICATION FairSpec
CONSTANTS
  Key = {alice}
  None = None
  Malformed = Malformed
  Routings = {FALSE}
  Valid <- MCValid
  Resolves <- MCResolves
  Loopback <- MCLoopback
  DefaultBind = "loop"
  Edits <- MCEdits
  ServeProxy = TRUE
  MaxId = 1
PROPERTIES EditTakesEffect
CHECK_DEADLOCK FALSE
