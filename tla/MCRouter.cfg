SPECIFICATION MCSpec
CONSTANTS
  None = None
  BlindExhaustion = 1
  Sub = {1, 2}
  Provider = {"codex"}
  ProviderOf <- MCProviderOf
  Request = {r1, r2}
  r1 = r1
  r2 = r2
  Settings <- MCSettings
  Gate <- MCGate
  Arrival <- MCArrival
  Reading <- MCReading
  MaxTime = 1
  MaxEngine = 2
  MaxRequests = 2
SYMMETRY Symmetry
INVARIANTS TypeOK CurrentIsRoutable ServedWithinRequest
PROPERTIES NoQuarantinedSelection QuarantineHasCause QuarantineEndsForCause
CHECK_DEADLOCK FALSE
