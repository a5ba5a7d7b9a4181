SPECIFICATION FairSpec
CONSTANTS
  g1 = g1
  g2 = g2
  g3 = g3
  a = a
  b = b
  e1 = e1
  e2 = e2
  e3 = e3
  Nil = Nil
  Procs <- MCProcs
  Names <- MCNames
  Entries <- MCEntries
INVARIANTS TypeOK MapIsInFlight
PROPERTIES ImplementsNamedLocks EveryLockIsGranted
