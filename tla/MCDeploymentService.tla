------------------------- MODULE MCDeploymentService -------------------------
(***************************************************************************)
(* Definitions for the TLC runs of DeploymentService.                      *)
(***************************************************************************)
EXTENDS DeploymentService, TLC

\* Deployments, ports and ingress hosts are interchangeable.
Symmetry ==
  Permutations(Deployment) \cup Permutations(Port) \cup Permutations(Host)
=============================================================================
