SPECIFICATION KeyringSpec
CONSTANTS
  x = x
  y = y
  d1 = d1
  d2 = d2
  Account = {x, y}
  Browser = {d1, d2}
  Record = {1}
  Legacy = {x}
  Otp = {x}
  SessionOnly = {d2}
  NoOne = NoOne
  None = None
  MaxPw = 2
  MaxKeys = 3
  MaxEdits = 2
  MaxStops = 1
  Loose = {}
CHECK_DEADLOCK FALSE
INVARIANTS OpensAsAWhole
