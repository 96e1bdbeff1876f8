SPECIFICATION FairSpec
CONSTANTS
  Handlers = {h1, h2}
  None = None
  Attempts = 3
  FlightCap = 2
  SockCap = 2
INVARIANTS TypeOK InStepUntilLate MutexOwners
PROPERTY RequestsAnswered
