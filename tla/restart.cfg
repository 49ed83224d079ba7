SPECIFICATION FairSpec
CONSTANTS
  Deployment = {d1, d2}
  Main = main
  Port = {p1, p2}
  NoPort = NoPort
  Host = {h1, h2}
  NoHost = NoHost
  FaultKinds = {"stage", "write", "run_lost", "health", "exit", "lost", "read", "file", "caddy", "reload", "reload_lost", "caddy_stop", "caddy_lost"}
  MaxFaults = 1
  CaddyRestarts = TRUE
  MaxActive = 1
  MaxCrashes = 2
INVARIANTS StartupRestoresIngress RunningIsRouted FailedIsUnrouted
PROPERTIES StartupServes
