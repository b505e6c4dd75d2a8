CONSTANTS
  GameIds = {1, 2}
  EventNos = {1, 2}
  Size = 2
  MaxOffset = 3
  MaxGames = 2
  MaxSent = 2
  MaxKeys = 1
  SessionId <- MCSessionId
  PlayerName <- MCPlayerName
SPECIFICATION ClientSpec
PROPERTIES
  NewGameIntegrated
