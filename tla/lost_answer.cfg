SPECIFICATION Spec
CONSTANTS
  Deployment = {d1, d2}
  Main = main
  Port = {p1, p2}
  NoPort = NoPort
  Host = {h1}
  NoHost = NoHost
  FaultKinds = {"lost"}
  MaxFaults = 1
  CaddyRestarts = FALSE
  MaxActive = 1
  MaxCrashes = 0
SYMMETRY Symmetry
INVARIANTS RunningHasContainer
