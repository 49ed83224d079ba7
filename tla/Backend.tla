------------------------------- MODULE Backend -------------------------------
(***************************************************************************)
(* The control state shared by the parts of the deployment service.  An    *)
(* actor is a thread of control: the goroutine runFakeDeployment of one    *)
(* deployment, named by the deployment, or Main, the startup code of       *)
(* cmd/server.  Its pc is the call it will make next.                      *)
(***************************************************************************)
EXTENDS Faults

CONSTANTS
  Deployment,   \* deployment IDs, each used by at most one Create
  Main,         \* the startup code
  Port, NoPort, \* host ports; NoPort is host_port = 0
  Host, NoHost  \* ingress configurations; NoHost is an empty live_url

ASSUME BackendAssumption ==
  /\ Main \notin Deployment
  /\ NoPort \notin Port
  /\ NoHost \notin Host

VARIABLE pc     \* the next call of each actor

Actor == Deployment \cup {Main}

At(a, label) == pc[a] = label
Goto(a, label) == pc' = [pc EXCEPT ![a] = label]
=============================================================================
