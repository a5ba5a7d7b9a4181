SPECIFICATION FairSpec
CONSTANTS
  p1 = p1
  p2 = p2
  k1 = k1
  k2 = k2
  u1 = u1
  u2 = u2
  x = x
  y = y
  s = s
  Nothing = Nothing
  Procs <- TwoProcs
  Keys <- TwoKeys
  Uploads <- TwoUploads
  Numbers <- Parts12
  Bodies <- Contents
  Small <- SmallOnes
  Requests <- ClientRequests
  Seeds <- TwoStaged
  LateParts = FALSE
  MaxRequests = 3
  MaxCrashes = 1
INVARIANTS TypeOK ETagMatchesBytes CompletedAsListed FailedCompleteIsAllOrNothing CompletedOnce EndedIsGone
PROPERTY EveryRequestEnds
