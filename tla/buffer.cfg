CONSTANTS
  GameIds = {1, 2}
  EventNos = {1, 2, 4}
  Size = 2
  MaxOffset = 3
  MaxGames = 3
  MaxSent = 5
SPECIFICATION BufferSpec
INVARIANTS
  BufferTypeOK
  NoHoles
  NothingDropped
  OldGamesFirst
  AsksFromFirstGap
PROPERTIES
  CaughtUp
