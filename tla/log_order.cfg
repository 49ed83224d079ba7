SPECIFICATION Spec

CONSTANTS
  Logger = {l1, l2}
  Conn = {c1, c2}
  l1 = l1
  l2 = l2
  c1 = c1
  c2 = c2
  NoConn = NoConn
  Capacity = 4
  MaxEntries = 2
  MaxCrashes = 1
  FaultKinds = {"fetch"}
  MaxFaults = 0

SYMMETRY Symmetry

INVARIANT NothingMissed
INVARIANT InOrder
