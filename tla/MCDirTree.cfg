SPECIFICATION Spec
CONSTANTS
  p1 = p1
  p2 = p2
  p3 = p3
  Procs <- ThreeProcs
  Keys <- MCKeys
  AutoCreate = TRUE
  Workloads <- Peaceful
  MaxRequests = 3
SYMMETRY Symmetry
INVARIANTS TypeOK DeleteOnlyOwn NoStrayDirs ListIsHonest
