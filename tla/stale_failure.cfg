CONSTANTS
  j1 = j1
  j2 = j2
  w1 = w1
  w2 = w2
  NoWorker = NoWorker
  Jobs <- OneJob
  Workers <- TwoWorkers
  Mode <- LegacyMode
  Slow <- SlowWork
  MaxAttempts = 2
  MaxFaults = 0
  MaxCopies = 1
  MaxCrashes = 0
SPECIFICATION Spec
INVARIANT VerdictKept
