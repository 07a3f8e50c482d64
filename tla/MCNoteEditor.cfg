CONSTANTS
  Initial = 2
  MaxKeys = 3
  MaxMoves = 2
  MaxCrashes = 2
  Loose = {}
SPECIFICATION EditorSpec
CHECK_DEADLOCK FALSE
INVARIANTS OwnText TypedSurvives QuietEditorIsStored
PROPERTY TypedIsStored
