------------------------- MODULE DeploymentLifecycle -------------------------
(***************************************************************************)
(* What the rest of the program may rely on about a deployment's status:   *)
(* a row appears as "pending" and from then on only moves along the edges  *)
(* of the state engine, one edge at a time.  README.md:317 promises this   *)
(* ("prevents invalid state jumps"); DeploymentService implements it.      *)
(***************************************************************************)
EXTENDS StateEngine

CONSTANT Deployment

VARIABLE status   \* the status of each deployment, "absent" before its row

Init == status = [d \in Deployment |-> "absent"]

Create(d) ==
  /\ status[d] = "absent"
  /\ status' = [status EXCEPT ![d] = "pending"]

Move(d, next) ==
  /\ CanTransition(status[d], next)
  /\ status' = [status EXCEPT ![d] = next]

Next == \E d \in Deployment : Create(d) \/ \E next \in Status : Move(d, next)

Spec == Init /\ [][Next]_status
=============================================================================
