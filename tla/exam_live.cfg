SPECIFICATION FairSpec
CONSTANTS
  c1 = c1
  k1 = k1
  a1 = a1
  Questions = {a1}
  Kind <- KindMC
  Drafts = {"d"}
  Worth <- WorthMC
  Mark = 1
  Web = {w1}
  Scanners = {s1}
  Workers = {j1}
  s1 = s1
  j1 = j1
  w1 = w1
  w2 = w2
  Slow = {"handin", "scan"}
  Acts = {"manual", "reopen", "override", "regrade"}
  MaxAttempts = 2
  MaxSaves = 1
  MaxRequests = 2
  MaxFaults = 2
  MaxCrashes = 1
  Broken <- SoundMC
CHECK_DEADLOCK FALSE
PROPERTIES AttemptEnds
