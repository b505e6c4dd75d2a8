CONSTANTS
  Clients = {1, 2}
  Header = 1
  Cap = 5
  EventSize = 2
  Openings <- MCOpenings
  Rounds <- MCRounds
  AskFrom = {0}
  MaxEvents = 5
  MaxGames = 2
  MaxQueue = 2
SPECIFICATION DeliverySpec
INVARIANTS
  DeliveryTypeOK
  NothingLost
  BroadcastNeverHalfSent
PROPERTIES
  EventuallySent
CHECK_DEADLOCK FALSE
