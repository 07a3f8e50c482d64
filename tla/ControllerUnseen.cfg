CONSTANTS
  Initial = 2
  MaxKeys = 2
  MaxMoves = 1
  MaxTroubles = 1
  MaxAsking = 1
  Loose = {"unseen"}
SPECIFICATION ControllerSpec
CHECK_DEADLOCK FALSE
INVARIANTS NothingLost
