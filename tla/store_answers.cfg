SPECIFICATION FairSpec
CONSTANTS
  Deployment = {d1, d2}
  Main = main
  Port = {p1, p2}
  NoPort = NoPort
  Host = {h1}
  NoHost = NoHost
  FaultKinds = {"stage", "run", "health", "boot", "file", "caddy", "reload", "reload_lost", "caddy_stop", "caddy_lost", "probe"}
  MaxFaults = 2
  CaddyRestarts = TRUE
  MaxActive = 2
  MaxCrashes = 0
INVARIANTS FailedStageIsMarked FailedHasStopped
PROPERTIES DeploySettles
