\* Two workers, two new rows.
CONSTANTS
  MACs = {m1, m2}
  BadMACs = {}
  InitAbsent = {}
  Cfgs = {c1}
  NumSlots = 2
  MaxRows = 2
  MaxEdits = 0
  MaxPlugs = 0
  MaxFaults = 0
  ScanMayFail = FALSE
  MaxWorkers = 2
  MaxSignals = 0
  MaxCrashes = 0
  NoRow = NoRow
  NoFile = NoFile
  Truncated = Truncated
  Unnamed = Unnamed
  Absent = Absent
  NoSlot = NoSlot
  Plain = Plain
SPECIFICATION Spec
PROPERTY ValidatedIsReal
