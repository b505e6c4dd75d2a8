CONSTANTS
  a1 = a1
  a2 = a2
  a3 = a3
  Addrs = {a1, a2, a3}
  Names = {1, 2, 3}
  Sessions <- MCSessions
  TurnValues = {0, 1}
  MaxPlayers = 2
SYMMETRY AddrSymmetry
SPECIFICATION LobbySpec
INVARIANTS
  LobbyTypeOK
  NamesMatchClients
  AtMostMaxPlayers
  StartsWhenAllReady
PROPERTIES
  NoInterference
  OnlyOwnerSteers
CHECK_DEADLOCK FALSE
