SPECIFICATION Spec
CONSTANTS
  Deployment = {d1, d2}
  Main = main
  Port = {p1, p2}
  NoPort = NoPort
  Host = {h1}
  NoHost = NoHost
  FaultKinds = {"stage"}
  MaxFaults = 0
  CaddyRestarts = FALSE
  MaxActive = 2
  MaxCrashes = 0
SYMMETRY Symmetry
INVARIANTS RunningIsRouted
