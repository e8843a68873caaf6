\* Two workers; everything but faults of single operations.  Row m3 is malformed.
CONSTANTS
  MACs = {m1, m2, m3}
  BadMACs = {m3}
  InitAbsent = {}
  Cfgs = {c1}
  NumSlots = 2
  MaxRows = 2
  MaxEdits = 1
  MaxPlugs = 1
  MaxFaults = 0
  ScanMayFail = FALSE
  MaxWorkers = 2
  MaxSignals = 1
  MaxCrashes = 1
  NoRow = NoRow
  NoFile = NoFile
  Truncated = Truncated
  Unnamed = Unnamed
  Absent = Absent
  NoSlot = NoSlot
  Plain = Plain
SPECIFICATION Spec
SYMMETRY MacSymmetry
INVARIANT TypeOK
PROPERTIES
  ValidatedIsReal
  CleanupSparesListed
