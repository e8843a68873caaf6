\* One worker, three rows for two names: kills, faults and edits, no hot plug.
CONSTANTS
  MACs = {m1, m2, m3}
  BadMACs = {}
  InitAbsent = {}
  Cfgs = {c1, c2}
  NumSlots = 2
  MaxRows = 3
  MaxEdits = 1
  MaxPlugs = 0
  MaxFaults = 1
  ScanMayFail = FALSE
  MaxWorkers = 1
  MaxSignals = 0
  MaxCrashes = 1
  NoRow = NoRow
  NoFile = NoFile
  Truncated = Truncated
  Unnamed = Unnamed
  Absent = Absent
  NoSlot = NoSlot
  Plain = Plain
SPECIFICATION Spec
SYMMETRY MacSymmetry
INVARIANTS
  TypeOK
  OneFilePerMac
PROPERTIES
  ValidatedIsReal
  OthersKeepTheirFiles
  ServedUndisturbed
  ImplementsNodeSync
