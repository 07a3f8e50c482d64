CONSTANTS
  Initial = 2
  MaxKeys = 2
  MaxMoves = 2
  MaxCrashes = 0
  Loose = {"switch"}
SPECIFICATION EditorSpec
CHECK_DEADLOCK FALSE
INVARIANTS OwnText
