SPECIFICATION Spec
CONSTANTS
  p1 = p1
  p2 = p2
  k1 = k1
  k2 = k2
  x = x
  y = y
  m1 = m1
  m2 = m2
  Sniffed = Sniffed
  None = None
  NoFile = NoFile
  Absent = Absent
  Empty = Empty
  Garbled = Garbled
  Partial = Partial
  Size <- MCSize
  Metas <- MCMetas
  Birth <- MCBirth
  Epoch = 2
  ClockSteps <- OneTick
  Procs <- TwoProcs
  Keys <- OneKey
  Bodies <- TwoBodies
  Requests <- PutAndList
  Seeds <- StoredOnly
  Crowded = TRUE
  EditsMidWrite = FALSE
  MaxRequests = 2
  MaxEdits = 0
  MaxCrashes = 0
INVARIANTS QuietKeyCoherent
