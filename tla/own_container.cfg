SPECIFICATION Spec
CONSTANTS
  Deployment = {d1, d2, d3}
  Main = main
  Port = {p1, p2}
  NoPort = NoPort
  Host = {h1}
  NoHost = NoHost
  FaultKinds = {"stage", "read", "write", "run", "run_lost", "health", "rm", "boot", "file", "caddy", "reload", "reload_lost", "probe", "caddy_lost", "caddy_stop"}
  MaxFaults = 2
  CaddyRestarts = FALSE
  MaxActive = 1
  MaxCrashes = 1
SYMMETRY Symmetry
INVARIANTS RunningHasContainer RunningIsServed CaddyfileCovers
