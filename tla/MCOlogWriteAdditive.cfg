CONSTANTS
  a1 = a1
  a2 = a2
  f = f
  ops = ops
  admin = admin
  NoEntry = NoEntry
  Keep = Keep
  NoSource = NoSource
  Blank = 0
  Rendered <- MCRendered
  Fields = {"title", "properties"}
  Editable = {"title"}
  Creates = {}
  Attaches = {a1, a2}
  Updates = {}
  Logbooks = {ops, admin}
  Allowed = {ops}
  Texts <- MCTexts
  Files = {f}
  Folded <- MCFolded
  Limit = 2
  MaxOutside = 0
  MaxDeaths = 0
SPECIFICATION MCRaceSpec
INVARIANT AttachIsAdditive
CHECK_DEADLOCK FALSE
