CONSTANTS
  a1 = a1
  f = f
  ops = ops
  admin = admin
  NoEntry = NoEntry
  Keep = Keep
  NoSource = NoSource
  Blank = 0
  Rendered <- MCRendered
  Fields = {"title", "properties"}
  Editable = {"title"}
  Creates = {}
  Attaches = {a1}
  Updates = {}
  Logbooks = {ops, admin}
  Allowed = {ops}
  Texts <- MCTexts
  Files = {f}
  Folded <- MCFolded
  Limit = 1
  MaxOutside = 0
  MaxDeaths = 0
SPECIFICATION MCRaceSpec
INVARIANT AttachKeepsBody
CHECK_DEADLOCK FALSE
