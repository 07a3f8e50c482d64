CONSTANTS
  Initial = 2
  MaxKeys = 2
  MaxMoves = 1
  MaxTroubles = 0
  MaxAsking = 1
  Loose = {"switch"}
SPECIFICATION ControllerSpec
CHECK_DEADLOCK FALSE
INVARIANTS OwnText
