CONSTANTS
  Addrs = {1, 2}
  Sessions <- MCSessions
  Names = {1, 2}
  TurnValues = {0, 1}
  MaxPlayers = 2
  Header = 1
  Cap = 7
  EventSize <- MCEventSize
  Clients <- MCClients
  Silent = {1}
  AskFrom = {0}
  MaxEvents = 6
  MaxQueue = 3
  MaxGames = 2
SPECIFICATION ServerSpec
INVARIANTS
  PartsAgree
  RoundsAnnounced
  WokenToSend
  BroadcastsWhole
CHECK_DEADLOCK FALSE
