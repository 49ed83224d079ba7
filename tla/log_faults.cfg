SPECIFICATION FairBuildSpec

CONSTANTS
  Logger = {l1, l2}
  Conn = {c1}
  l1 = l1
  l2 = l2
  c1 = c1
  NoConn = NoConn
  Capacity = 1
  MaxEntries = 1
  MaxCrashes = 1
  FaultKinds = {"fetch", "lookup", "history", "write", "start", "child", "long_line", "descendant"}
  MaxFaults = 1

INVARIANT BuildTypeOK
INVARIANT NoSendOnClosed
INVARIANT OutputComplete
PROPERTY LoggerNeverBlocked
PROPERTY StreamStarts
PROPERTY BuildReturns
