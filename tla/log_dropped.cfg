SPECIFICATION Spec

CONSTANTS
  Logger = {l1, l2}
  Conn = {c1}
  l1 = l1
  l2 = l2
  c1 = c1
  NoConn = NoConn
  Capacity = 1
  MaxEntries = 2
  MaxCrashes = 0
  FaultKinds = {}
  MaxFaults = 0

SYMMETRY Symmetry

INVARIANT StreamComplete
