CONSTANTS
  j1 = j1
  j2 = j2
  w1 = w1
  w2 = w2
  NoWorker = NoWorker
  Jobs <- OneJob
  Workers <- TwoWorkers
  Mode <- MixedMode
  Slow <- NoneSlow
  MaxAttempts = 3
  MaxFaults = 1
  MaxCopies = 2
  MaxCrashes = 2
  r1 = r1
  r2 = r2
  k1 = k1
  k2 = k2
  Questions = {k1, k2}
  Desks = {w1, w2}
  Takers = {"ann"}
  MaxAsked = 7
  Items = {k1, k2}
  NoItem = NoItem
  MaxTyped = 1
  MaxPosted = 3
  MaxSelects = 2
  Lessons = {"lesson"}
  Modules = {"m", "n"}
  Templates = {k1, k2}
  Clerks = {r1, r2}
  MaxVersions = 1
  MaxRequests = 6
  Attempts = {1, 2}
  Resolved = {k1, k2}
  MaxUpsets = 2
  u1 = u1
  u2 = u2
  Users = {u1, u2}
  MaxTokens = 3
  MaxClicks = 2
  MaxDrops = 1
  MaxBumps = 1
  MaxUsed = 3
  Navigate = FALSE
  Pupils = {u1, u2}
  Exercises = {k1, k2}
  MaxEdits = 2
  MaxHanded = 2
  MaxHour = 3
SPECIFICATION CourseworkSpec
SYMMETRY CourseworkSymmetry
CHECK_DEADLOCK FALSE
INVARIANTS SingleOwner AttemptsBounded VerdictKept PromptInv GradedAsShown PanelKeepsApart EntriesSound SessionsSound ImageSound PagesSound
PROPERTIES VerdictFinal
