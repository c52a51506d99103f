CONSTANTS
  j1 = j1
  j2 = j2
  w1 = w1
  w2 = w2
  NoWorker = NoWorker
  Jobs <- TwoJobs
  Workers <- TwoWorkers
  Mode <- LegacyMode
  Slow <- SlowBoth
  MaxAttempts = 2
  MaxFaults = 0
  MaxCopies = 1
  MaxCrashes = 1
SPECIFICATION Spec
SYMMETRY FullSymmetry
PROPERTY ResetOnlyStale
