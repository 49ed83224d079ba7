SPECIFICATION Spec

CONSTANTS
  Inputs <- InputsMC
  Instants <- InstantsMC
  DefaultPort = 8080
  MaxRestarts = 1
  MaxLabel = 5
  Lower <- LowerCases
  NoRepo = "none"
  GoodNames = {"PORT", "A"}
  MaxScanned = 2

INVARIANT DataTypeOK
INVARIANT RejectedOnlyInvalid
INVARIANT HostsDistinct
INVARIANT ListedByTime
INVARIANT EnvDelivered
INVARIANT AppReachable
INVARIANT CacheKeyPerRepo
INVARIANT StartCommandIsBest
INVARIANT HintsAgree
