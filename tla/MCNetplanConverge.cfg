\* One worker; a device comes or goes, and the process is told to stop.
CONSTANTS
  MACs = {m1, m2}
  BadMACs = {}
  InitAbsent = {m2}
  Cfgs = {c1, c2}
  NumSlots = 2
  MaxRows = 2
  MaxEdits = 1
  MaxPlugs = 1
  MaxFaults = 1
  ScanMayFail = FALSE
  MaxWorkers = 1
  MaxSignals = 1
  MaxCrashes = 0
  NoRow = NoRow
  NoFile = NoFile
  Truncated = Truncated
  Unnamed = Unnamed
  Absent = Absent
  NoSlot = NoSlot
  Plain = Plain
SPECIFICATION FairSpec
PROPERTIES
  CleanupSparesListed
  Convergence
