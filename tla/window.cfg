\* The window of the range run: late commits, failed runs, retention of runs.
SPECIFICATION Spec
CONSTANTS
  None = None
  ca = ca
  cb = cb
  CabSessions = {ca, cb}
  Overlap = 1
  FirstLookback = 2
  NightlyLookback = 4
  KeepRuns = 3
  CommitDelay = 1
  MaxTime = 7
INVARIANTS
  NoneMissed
PROPERTY
  GapNeedsLongOutage
