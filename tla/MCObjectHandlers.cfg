SPECIFICATION Spec
CONSTANTS
  p1 = p1
  p2 = p2
  k1 = k1
  bad = bad
  xy = xy
  zz = zz
  w = w
  NoKey = NoKey
  NoObject = NoObject
  Nothing = Nothing
  Unanswered = Unanswered
  Done = Done
  Refused = Refused
  Procs = {p1, p2}
  Keys = {k1}
  BadKeys = {bad}
  Bodies = {xy, zz, w}
  Content <- MCContent
  Requests <- MCRequests
  Seeds <- MCSeeds
  TicksPerSecond = 3
  Epoch = 1
  FailRate = TRUE
  MaxKeysLimit = 3
  MaxOffset = 2
  MaxClock = 3
  MaxRequests = 3
SYMMETRY Symmetry
CHECK_DEADLOCK FALSE
INVARIANTS TypeOK ServedFromOneVersion NotModifiedIsTrue OwnValidatorsHold BulkDeleteIsTrue RepliesTellEffects
