SPECIFICATION MCSpec
CONSTANTS
  None = None
  BlindExhaustion = 1
  Sub = {1, 2}
  Provider = {"codex"}
  ProviderOf <- MCProviderOf
  Request = {r1, r2}
  r1 = r1
  r2 = r2
  Settings <- FrozenSettings
  Gate <- NoGate
  Arrival <- PlainArrival
  Reading <- MCReading
  MaxTime = 0
  MaxEngine = 0
  MaxRequests = 2
PROPERTIES FrozenIdentity
CHECK_DEADLOCK FALSE
