CONSTANTS
  Initial = 2
  MaxKeys = 2
  MaxMoves = 1
  MaxTroubles = 1
  MaxAsking = 1
  Loose = {}
SPECIFICATION ControllerSpec
CHECK_DEADLOCK FALSE
INVARIANTS OwnText NothingLost QuietScreenIsStored
PROPERTY EventuallySynced
