SPECIFICATION MCFairSpec
CONSTANTS
  None = None
  BlindExhaustion = 1
  Sub = {1, 2}
  Provider = {"codex"}
  ProviderOf <- MCProviderOf
  Request = {r1, r2}
  r1 = r1
  r2 = r2
  Settings <- FairSettings
  Gate <- NoGate
  Arrival <- PlainArrival
  Reading <- MCReading
  MaxTime = 1
  MaxEngine = 1
  MaxRequests = 2
PROPERTIES EveryRequestAnswered
CHECK_DEADLOCK FALSE
