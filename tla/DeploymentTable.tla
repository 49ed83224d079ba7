--------------------------- MODULE DeploymentTable ---------------------------
(***************************************************************************)
(* What readers of the store may rely on: a deployment appears in one      *)
(* step together with all its environment variables, and neither changes   *)
(* nor goes away, also over restarts.                                      *)
(***************************************************************************)
CONSTANTS Deployment, EnvKey

VARIABLES
  stored,       \* the deployments in the table
  envKeys       \* the names of the variables of each of them

Init ==
  /\ stored = {}
  /\ envKeys = [d \in Deployment |-> {}]

Create(d, keys) ==
  /\ d \notin stored
  /\ stored' = stored \cup {d}
  /\ envKeys' = [envKeys EXCEPT ![d] = keys]

Next == \E d \in Deployment, keys \in SUBSET EnvKey : Create(d, keys)

Spec == Init /\ [][Next]_<<stored, envKeys>>
=============================================================================
