SPECIFICATION FairSpec
CONSTANTS
  Caller = {c1, c2}
  None = None
  Deployment = {d1, d2}
  EnvKey = {k1}
  FaultKinds = {"exec", "scan"}
  MaxFaults = 1
  MaxCrashes = 1
INVARIANTS TypeOK NoSelfWait AnswersComplete RefusedOnlyOnFault SchemaComplete
PROPERTIES CallsReturn CreateIsAtomic
