---------------------------- MODULE DockerRuntime ----------------------------
(***************************************************************************)
(* internal/docker/runtime.go: the call Run of a deployment's worker, from *)
(* label "run" to one of the labels "ran" (a healthy container) and        *)
(* "run_failed" (an error), and the Docker daemon behind it.  Containers   *)
(* have deterministic names, so each deployment has at most one.           *)
(***************************************************************************)
EXTENDS Backend

VARIABLES
  container,   \* none | created | running | exited, as the daemon holds it
  hostPort     \* the host port chosen for each container

runtimeVars == <<container, hostPort>>

SetContainer(d, state) == container' = [container EXCEPT ![d] = state]

\* A running container publishes its port; a created or exited one does not.
PortBusy(p) == \E d \in Deployment : container[d] = "running" /\ hostPort[d] = p

\* Mutant: the port asked for (0) is used, not the port the listener was given.
FindPortUnresolved(d) ==
  /\ At(d, "run")
  /\ SetContainer(d, "none")
  /\ NoFault
  /\ Goto(d, "docker_run")
  /\ UNCHANGED hostPort

\* Mutant: the name given to docker rm -f matches the containers of all deployments.
FindPortRemovesAll(d) ==
  /\ At(d, "run")
  /\ container' = [e \in Deployment |-> "none"]
  /\ NoFault
  /\ \E p \in Port : hostPort' = [hostPort EXCEPT ![d] = p]
  /\ Goto(d, "docker_run")

(***************************************************************************)
(* docker rm -f of the name, detectContainerPort and findFreePort.  The    *)
(* listener findFreePort opens is closed before it returns, and under      *)
(* docker compose it looks at the backend's own network namespace, so the  *)
(* port is not reserved and may be in use by another container.            *)
(***************************************************************************)
FindPort(d) ==
  /\ At(d, "run")
  /\ SetContainer(d, "none")
  /\ \/ /\ NoFault
        /\ \E p \in Port : hostPort' = [hostPort EXCEPT ![d] = p]
        /\ Goto(d, "docker_run")
     \/ /\ Fault("run")
        /\ Goto(d, "run_failed")
        /\ UNCHANGED hostPort

(***************************************************************************)
(* docker run -d.  The daemon creates the container and then binds the     *)
(* port: when another container holds the port, the command fails and the  *)
(* created container stays.  "run_lost" is the deadline killing the CLI    *)
(* after the daemon has started the container.                             *)
(***************************************************************************)
DockerRun(d) ==
  /\ At(d, "docker_run")
  /\ \/ /\ NoFault
        /\ ~PortBusy(hostPort[d])
        /\ SetContainer(d, "running")
        /\ Goto(d, "health")
     \/ /\ NoFault
        /\ PortBusy(hostPort[d])
        /\ SetContainer(d, "created")
        /\ Goto(d, "run_failed")
     \/ /\ Fault("run")
        /\ \E left \in {"none", "created"} : SetContainer(d, left)
        /\ Goto(d, "run_failed")
     \/ /\ Fault("run_lost")
        /\ ~PortBusy(hostPort[d])
        /\ SetContainer(d, "running")
        /\ Goto(d, "run_failed")
  /\ UNCHANGED hostPort

\* Mutant: the container is not looked at again, only waited for.
isContainerRunningForever(d) ==
  /\ At(d, "health")
  /\ NoFault
  /\ container[d] = "running"
  /\ Goto(d, "probe")
  /\ UNCHANGED runtimeVars

(***************************************************************************)
(* waitForHealthy alternates two calls until the probe succeeds, the       *)
(* container is found ended, or the 45 s run out ("health").  The first    *)
(* asks the daemon for the container, the second asks the host port, and   *)
(* takes the answer of whatever container holds that port by then.         *)
(* "probe" is an answer that is not good, or none, although the port is    *)
(* held: it is asked again.                                                *)
(***************************************************************************)
isContainerRunning(d) ==
  /\ At(d, "health")
  /\ \/ NoFault /\ container[d] = "running" /\ Goto(d, "probe")
     \/ NoFault /\ container[d] # "running" /\ Goto(d, "capture")
     \/ Fault("health") /\ Goto(d, "capture")
  /\ UNCHANGED runtimeVars

\* Mutant: the timed out health check does not capture and remove the container.
probeHealthTargetsNoCapture(d) ==
  /\ At(d, "probe")
  /\ \/ NoFault /\ PortBusy(hostPort[d]) /\ Goto(d, "ran")
     \/ Fault("probe") /\ Goto(d, "health")
     \/ Fault("health") /\ Goto(d, "run_failed")
  /\ UNCHANGED runtimeVars

probeHealthTargets(d) ==
  /\ At(d, "probe")
  /\ \/ NoFault /\ PortBusy(hostPort[d]) /\ Goto(d, "ran")
     \/ NoFault /\ ~PortBusy(hostPort[d]) /\ Goto(d, "health")
     \/ Fault("probe") /\ Goto(d, "health")
     \/ Fault("health") /\ Goto(d, "capture")
  /\ UNCHANGED runtimeVars

\* docker rm -f, whose error is ignored.
Remove(d) ==
  \/ NoFault /\ SetContainer(d, "none")
  \/ Fault("rm") /\ UNCHANGED container

\* Runs under a context of its own, so an expired deadline does not skip it.
captureStartupFailure(d) ==
  /\ At(d, "capture")
  /\ Remove(d)
  /\ Goto(d, "run_failed")
  /\ UNCHANGED hostPort

Run(d) ==
  \/ FindPort(d)
  \/ DockerRun(d)
  \/ isContainerRunning(d)
  \/ probeHealthTargets(d)
  \/ captureStartupFailure(d)

\* The program in a container ends by itself, while it boots or later.
ContainerExits(d) ==
  /\ container[d] = "running"
  /\ Fault(IF pc[d] \in {"health", "probe"} THEN "boot" ELSE "exit")
  /\ SetContainer(d, "exited")
  /\ UNCHANGED <<pc, hostPort>>
=============================================================================
