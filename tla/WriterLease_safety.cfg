SPECIFICATION Spec
CONSTANTS
  p1 = p1
  p2 = p2
  p3 = p3
  None = None
  Procs = {p1, p2, p3}
  Host <- TwoHosts
  LeaseDuration = 1
  StaleGrace = 1
  Confirmations = 2
  LegacyStarts = FALSE
  RaceAttempts = 2
  MaxTime = 3
  MaxRevision = 1
SYMMETRY LocalSymmetry
INVARIANTS MutualExclusion HolderOwnsLease
  MirrorNeverNamesAnother
PROPERTIES StealsOnlyStale ImplementsLock
CHECK_DEADLOCK FALSE
