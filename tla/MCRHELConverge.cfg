\* Two workers; an operation fails.
CONSTANTS
  MACs = {m1, m2}
  BadMACs = {}
  InitAbsent = {}
  Cfgs = {c1, c2}
  NumSlots = 2
  MaxRows = 2
  MaxEdits = 1
  MaxPlugs = 0
  MaxFaults = 1
  ScanMayFail = FALSE
  MaxWorkers = 2
  MaxSignals = 0
  MaxCrashes = 0
  NoRow = NoRow
  NoFile = NoFile
  Truncated = Truncated
  Unnamed = Unnamed
  Absent = Absent
  NoSlot = NoSlot
  Plain = Plain
SPECIFICATION FairSpec
INVARIANT OneFilePerMac
PROPERTIES
  ValidatedIsReal
  Convergence
