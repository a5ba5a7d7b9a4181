SPECIFICATION FairSpec
CONSTANTS
  p1 = p1
  p2 = p2
  k1 = k1
  k2 = k2
  x = x
  y = y
  m1 = m1
  m2 = m2
  Sniffed = Sniffed
  None = None
  NoFile = NoFile
  Absent = Absent
  Empty = Empty
  Garbled = Garbled
  Partial = Partial
  Size <- MCSize
  Metas <- MCMetas
  Birth <- MCBirth
  Epoch = 2
  ClockSteps <- OneTick
  Procs <- TwoProcs
  Keys <- TwoKeys
  Bodies <- TwoBodies
  Requests <- Everything
  Seeds <- StoredOnly
  Crowded = FALSE
  EditsMidWrite = FALSE
  MaxRequests = 3
  MaxEdits = 1
  MaxCrashes = 0
INVARIANTS TypeOK InfoCoherent QuietKeyCoherent
PROPERTIES EveryRequestEnds ImplementsAtomicObjects
