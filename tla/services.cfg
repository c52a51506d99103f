SPECIFICATION Spec
CONSTANTS
  r1 = r1
  r2 = r2
  t1 = t1
  t2 = t2
  c1 = c1
  c2 = c2
  k1 = k1
  k2 = k2
  w1 = w1
  w2 = w2
  Requests = {r1, r2}
  MaxTimeouts = 2
  MaxRestarts = 1
  MaxCrashes = 1
  MaxDeaths = 1
  Tabs = {t1, t2}
  Cells = {c1, c2}
  MaxEdits = 2
  MaxSubmits = 2
  MaxTroubles = 1
  MaxEvents = 4
  Keys = {k1, k2}
  Writers = {w1, w2}
  NoKey = NoKey
  MaxFuss = 1
  Editors = {t1, t2}
  MaxChanges = 2
  MaxStudioClicks = 3
  MaxUnheard = 1
  Pupils = {"ann"}
  Classes = {w1, w2}
  Offices = {r1, r2}
  MaxRoster = 3
  MaxSettings = 2
SYMMETRY Alike
CHECK_DEADLOCK FALSE
INVARIANTS KernelReady RecordKeepsWord RowsMatchFiles DraftsSound RosterSound
PROPERTIES LeaksAreFound
