CONSTANTS
  k1 = k1
  a1 = a1
  u1 = u1
  f = f
  g = g
  ops = ops
  admin = admin
  NoEntry = NoEntry
  Keep = Keep
  NoSource = NoSource
  Blank = 0
  Rendered <- MCRendered
  Fields = {"title", "properties"}
  Editable = {"title"}
  Creates = {k1}
  Attaches = {a1}
  Updates = {u1}
  Logbooks = {ops, admin}
  Allowed = {ops}
  Texts <- MCTexts
  Files = {f, g}
  Folded <- MCFolded
  Limit = 1
  MaxOutside = 1
  MaxDeaths = 1
SPECIFICATION MCSpec
INVARIANTS TypeOK OnlyAllowedBooks UndisturbedLosesNothing RecordTrue AppliedAtMostOnce
PROPERTIES EveryWriteEnds GateRefined
CHECK_DEADLOCK FALSE
