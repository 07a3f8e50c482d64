CONSTANTS
  User = {"u"}
  Device = {"d1", "d2"}
  MaxRequests = 3
  MaxFailures = 2
  Unguarded = {"signup"}
SPECIFICATION AccountsSpec
CHECK_DEADLOCK FALSE
INVARIANTS MirrorNeverBlocked
