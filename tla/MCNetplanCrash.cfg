\* One row is edited; the process is killed once.
CONSTANTS
  MACs = {m1}
  BadMACs = {}
  InitAbsent = {}
  Cfgs = {c1, c2}
  NumSlots = 1
  MaxRows = 1
  MaxEdits = 1
  MaxPlugs = 0
  MaxFaults = 0
  ScanMayFail = FALSE
  MaxWorkers = 1
  MaxSignals = 0
  MaxCrashes = 1
  NoRow = NoRow
  NoFile = NoFile
  Truncated = Truncated
  Unnamed = Unnamed
  Absent = Absent
  NoSlot = NoSlot
  Plain = Plain
SPECIFICATION FairSpec
PROPERTY Convergence
