CONSTANTS
  GameIds = {1, 2}
  EventNos = {1, 2}
  Size = 2
  MaxOffset = 3
  MaxGames = 2
  MaxSent = 2
  MaxKeys = 3
  SessionId <- MCSessionId
  PlayerName <- MCPlayerName
SPECIFICATION ClientSpec
INVARIANTS
  ClientTypeOK
  KeyTypeOK
  RestIsKept
  TurnFollowsKeys
  MessageIsMeant
PROPERTIES
  KeepsTrying
