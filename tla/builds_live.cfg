SPECIFICATION FairSpec
CONSTANTS
  w1 = w1
  w2 = w2
  Workers = {w1, w2}
  Versions <- OneVersion
  Jobs <- TwoJobs
  Specs = {"empty", "numpy"}
  NoSpec = "empty"
  Locks = {"l1", "l2"}
  NoLock = "nolock"
  Modes = {"v2", "legacy"}
  m1 = m1
  m2 = m2
  Admins = {m1, m2}
  MaxEdits <- DraftEdit
  MaxTroubles <- Troubles
  MaxSpent <- ThreeInAll
CHECK_DEADLOCK FALSE
PROPERTY BuildEnds
