CONSTANTS
  Width = 2
  Height = 2
  Unit = 2
  Delta <- QuadrantDelta
  TurningSpeed = 90
  Headings <- Downward
  MaxPlayers = 3
  MaxGames = 2
SPECIFICATION Spec
INVARIANTS
  TypeOK
  DeadCounted
  DeadIsAnnounced
  OverIffFinished
  RoundReported
  RosterComplete
  BoardIsHistory
  NumberedConsecutively
PROPERTIES
  ImplementsArena
CHECK_DEADLOCK FALSE
