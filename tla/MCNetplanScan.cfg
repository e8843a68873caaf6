\* One row; one scan of it may fail.
CONSTANTS
  MACs = {m1}
  BadMACs = {}
  InitAbsent = {}
  Cfgs = {c1}
  NumSlots = 1
  MaxRows = 1
  MaxEdits = 0
  MaxPlugs = 0
  MaxFaults = 1
  ScanMayFail = TRUE
  MaxWorkers = 1
  MaxSignals = 0
  MaxCrashes = 0
  NoRow = NoRow
  NoFile = NoFile
  Truncated = Truncated
  Unnamed = Unnamed
  Absent = Absent
  NoSlot = NoSlot
  Plain = Plain
SPECIFICATION Spec
PROPERTY CleanupSparesListed
