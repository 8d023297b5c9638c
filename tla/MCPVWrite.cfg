CONSTANTS
  c1 = c1
  c2 = c2
  p = p
  q = q
  Outsider = Outsider
  Itself = Itself
  NoLimits = NoLimits
  NoSample = NoSample
  Calls = {c1, c2}
  PVs = {p, q}
  Writable = {p}
  Commands = {p}
  Idle = 1
  Cast <- MCCast
  Near <- MCNear
  Values <- MCValues
  Ranges <- MCRanges
  Limit = 1
  MaxBoots = 2
  MaxOutside = 1
SPECIFICATION MCFairSpec
INVARIANTS TypeOK OnlySanctionedLands AllowMeansLanded LandsAtMostOnce TrailLegal NoDanglingAttempt ReadbackExplained
PROPERTIES EveryCallEnds AuditRefined
CHECK_DEADLOCK FALSE
