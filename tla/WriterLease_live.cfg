SPECIFICATION FairSpec
CONSTANTS
  p1 = p1
  p2 = p2
  p3 = p3
  None = None
  Procs = {p1, p2}
  Host <- LocalHost
  LeaseDuration = 1
  StaleGrace = 1
  Confirmations = 2
  LegacyStarts = TRUE
  RaceAttempts = 3
  MaxTime = 3
  MaxRevision = 1
INVARIANT LegacyExcluded
PROPERTIES AcquisitionEnds ReleaseCompletes
CHECK_DEADLOCK FALSE
