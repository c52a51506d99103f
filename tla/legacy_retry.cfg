SPECIFICATION Spec
CONSTANTS
  w1 = w1
  w2 = w2
  Workers = {w1, w2}
  Versions <- OneVersion
  Jobs <- ThreeJobs
  Specs = {"empty", "numpy"}
  NoSpec = "empty"
  Locks = {"l1", "l2"}
  NoLock = "nolock"
  Modes = {"legacy"}
  m1 = m1
  m2 = m2
  Admins = {m1}
  MaxEdits <- DraftEdit
  MaxTroubles <- TwoTroubles
  MaxSpent <- ThreeInAll
CHECK_DEADLOCK FALSE
PROPERTY DigestFrozen
