CONSTANTS
  Width = 2
  Height = 2
  Unit = 2
  Delta <- QuadrantDelta
  TurningSpeed = 90
  Headings <- Quadrants
  MaxPlayers = 2
  MaxGames = 1
SPECIFICATION Spec
INVARIANTS
  InsideBoard
CHECK_DEADLOCK FALSE
