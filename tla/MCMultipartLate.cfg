SPECIFICATION Spec
CONSTANTS
  p1 = p1
  p2 = p2
  k1 = k1
  k2 = k2
  u1 = u1
  u2 = u2
  x = x
  y = y
  s = s
  Nothing = Nothing
  Procs <- TwoProcs
  Keys <- TwoKeys
  Uploads <- TwoUploads
  Numbers <- Parts12
  Bodies <- Contents
  Small <- SmallOnes
  Requests <- LateRequests
  Seeds <- TwoStaged
  LateParts = TRUE
  MaxRequests = 3
  MaxCrashes = 0
INVARIANT ETagMatchesBytes
