SPECIFICATION Spec
CONSTANTS
  c1 = c1
  k1 = k1
  a1 = a1
  Questions = {c1, k1, a1}
  Kind <- KindMC
  Drafts = {"d"}
  Worth <- WorthMC
  Mark = 1
  Web = {w1, w2}
  Scanners = {s1}
  Workers = {j1}
  s1 = s1
  j1 = j1
  w1 = w1
  w2 = w2
  Slow = {"save", "handin", "scan"}
  Acts = {"reopen"}
  MaxAttempts = 2
  MaxSaves = 2
  MaxRequests = 2
  MaxFaults = 1
  MaxCrashes = 1
  Broken <- SoundMC
CHECK_DEADLOCK FALSE
SYMMETRY Tabs
INVARIANTS ScoresAddUp
PROPERTIES ClosedWhenDone FinishedStays NoHoleInPromotion AttemptLifecycle
