SPECIFICATION Spec
CONSTANTS
  e1 = e1
  e2 = e2
  t1 = t1
  t2 = t2
  None = None
  Events <- TwoEvents
  Threads <- TwoThreads
  MaxAttempts = 2
  Live = FALSE
  MaxFailures = 3
  MaxCrashes = 2
  MaxDiskErrors = 1
SYMMETRY Symmetry
INVARIANT NothingLost
INVARIANT SentIsIngested
INVARIANT GivesUpLate
INVARIANT AttemptsCount
