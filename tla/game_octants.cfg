CONSTANTS
  Width = 2
  Height = 2
  Unit = 10
  Delta <- OctantDelta
  TurningSpeed = 45
  Headings <- Octants
  MaxPlayers = 2
  MaxGames = 1
SPECIFICATION Spec
INVARIANTS
  AliveOnTrail
PROPERTIES
  GameEnds
CHECK_DEADLOCK FALSE
