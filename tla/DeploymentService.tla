-------------------------- MODULE DeploymentService --------------------------
(***************************************************************************)
(* The deployment service: one goroutine runFakeDeployment per deployment, *)
(* all of them over one store, one Docker daemon and one Caddyfile, and    *)
(* the startup code that resynchronises the ingress                        *)
(* (internal/services/deployment_service.go, deployment_pipeline.go and    *)
(* deployment_failures.go, cmd/server/main.go).                            *)
(*                                                                         *)
(* A step is one call that leaves the process: a query, an UPDATE, a file  *)
(* operation, a docker command.  Between two calls other actors may run.   *)
(***************************************************************************)
EXTENDS DeploymentStore, DockerRuntime, CaddyRouter

CONSTANTS
  MaxActive,    \* bound: workers at the same time
  MaxCrashes    \* bound: crashes of the backend

ASSUME ServiceAssumption == MaxActive \in Nat /\ MaxCrashes \in Nat

VARIABLES
  resync,       \* the actor's ApplyRoutes is SyncCaddyRoutes': Main's always is,
                \* a worker's after it has failed
  todo,         \* the deployments SyncCaddyRoutes has still to save
  host,         \* the ingress configuration of this process
  crashes       \* crashes so far

serviceVars == <<resync, todo, host, crashes>>
vars == <<pc, faults, row, runtimeVars, routerVars, serviceVars>>

Ended == {"idle", "returned", "rejected", "killed"}

Label ==
  Ended \cup {"load", "clone", "save_source", "inspect", "start_build",
    "set_building", "build", "save_image", "start_deploy", "set_deploying",
    "env_vars", "run", "docker_run", "health", "probe", "capture", "ran", "run_failed",
    "routes", "open", "write", "ensure", "reload", "applied", "apply_failed",
    "complete", "cleanup", "cleanup_resync", "fail_check", "fail",
    "sync_list", "sync_save", "serving"}

Active == {d \in Deployment : pc[d] \notin Ended}

Init ==
  /\ pc = [a \in Actor |-> IF a = Main THEN "sync_list" ELSE "idle"]
  /\ faults = 0
  /\ row = [d \in Deployment |-> NoRow]
  /\ container = [d \in Deployment |-> "none"]
  /\ hostPort = [d \in Deployment |-> NoPort]
  /\ routes = [a \in Actor |-> {}]
  /\ caddyfile = [routes |-> {}, torn |-> FALSE]
  /\ \E up \in BOOLEAN : caddy = [up |-> up, routes |-> {}]
  /\ resync = [a \in Actor |-> a = Main]
  /\ todo = [a \in Actor |-> {}]
  /\ host \in Host
  /\ crashes = 0

-----------------------------------------------------------------------------
(***************************************************************************)
(* CreateDeployment.  The row is committed before it is read back: when    *)
(* the read-back fails, the request is rejected and no worker starts.      *)
(***************************************************************************)
CreateDeployment(d) ==
  /\ At(Main, "serving")
  /\ At(d, "idle")
  /\ Cardinality(Active) < MaxActive
  /\ \/ NoFault /\ row' = [row EXCEPT ![d] = NewRow] /\ Goto(d, "load")
     \/ Fault("write") /\ UNCHANGED <<row, pc>>
     \/ Fault("lost") /\ row' = [row EXCEPT ![d] = NewRow] /\ Goto(d, "rejected")
  /\ UNCHANGED <<runtimeVars, routerVars, serviceVars>>

\* An UPDATE of columns that are not part of Row.
touch(d, next, onError) == updateAndGet(d, d, row[d], next, onError)

\* Mutant: a failed stage is only logged.
StageOnlyLogs(d, next) ==
  /\ \/ NoFault /\ Goto(d, next)
     \/ Fault("stage") /\ Goto(d, "returned")
  /\ UNCHANGED row

\* A stage of the pipeline outside the store: it succeeds or fails.
Stage(d, next) ==
  /\ \/ NoFault /\ Goto(d, next)
     \/ Fault("stage") /\ Goto(d, "fail_check")
  /\ UNCHANGED row

\* A row that cannot be loaded is only logged; a bad URL fails the deployment.
loadDeploymentForPipeline(d) ==
  /\ At(d, "load")
  /\ Query(d, "clone", "returned") \/ Stage(d, "clone")

Clone(d) ==
  /\ At(d, "clone")
  /\ Stage(d, "save_source")

SaveDeploymentSourcePath(d) ==
  /\ At(d, "save_source")
  /\ touch(d, "inspect", "fail_check")

inspectDeploymentSource(d) ==
  /\ At(d, "inspect")
  /\ touch(d, "start_build", "fail_check")

(***************************************************************************)
(* TransitionDeployment reads the row, asks the engine and, in a second    *)
(* transaction, writes the status.  The pipeline only logs its errors.     *)
(***************************************************************************)
ValidateTransition(d, next, ok, onError) ==
  Query(d, IF CanTransition(row[d].status, next) THEN ok ELSE onError, onError)

StartBuild(d) ==
  /\ At(d, "start_build")
  /\ ValidateTransition(d, "building", "set_building", "returned")

SetBuilding(d) ==
  /\ At(d, "set_building")
  /\ updateAndGet(d, d, SetStatus(row[d], "building"), "build", "returned")

Build(d) ==
  /\ At(d, "build")
  /\ Stage(d, "save_image")

SaveDeploymentImageTag(d) ==
  /\ At(d, "save_image")
  /\ updateAndGet(d, d, SaveImageTag(row[d]), "start_deploy", "fail_check")

StartDeploy(d) ==
  /\ At(d, "start_deploy")
  /\ ValidateTransition(d, "deploying", "set_deploying", "returned")

SetDeploying(d) ==
  /\ At(d, "set_deploying")
  /\ updateAndGet(d, d, SetStatus(row[d], "deploying"), "env_vars", "returned")

GetEnvVars(d) ==
  /\ At(d, "env_vars")
  /\ Query(d, "run", "fail_check")

SaveDeploymentRuntime(d) ==
  /\ At(d, "ran")
  /\ updateAndGet(d, d, SaveRuntime(row[d], hostPort[d]), "routes", "cleanup")

\* CompleteDeployment, after ApplyRoutes has succeeded: check, then write.
CheckComplete(d) ==
  /\ At(d, "applied")
  /\ ~resync[d]
  /\ ValidateTransition(d, "running", "complete", "cleanup_resync")

CompleteDeployment(d) ==
  /\ At(d, "complete")
  /\ updateAndGet(d, d, Complete(row[d], host), "returned", "cleanup_resync")

-----------------------------------------------------------------------------
\* Mutant: no resynchronisation after a failure.
AfterFailNoResync(d) == "returned"

\* What follows markDeploymentFailed, whether or not it succeeded.
AfterFail(d) == IF resync[d] THEN "sync_list" ELSE "returned"

\* Mutant: FailDeployment does not ask the engine.
MayFailAlways(status) == TRUE

MayFail(status) == CanTransition(status, "failed") \/ status = "failed"

CheckFail(d) ==
  /\ At(d, "fail_check") \/ At(d, "run_failed")
  /\ Query(d, IF MayFail(row[d].status) THEN "fail" ELSE AfterFail(d), AfterFail(d))

FailDeployment(d) ==
  /\ At(d, "fail")
  /\ updateAndGet(d, d, Fail(row[d]), AfterFail(d), AfterFail(d))

\* runtime.Cleanup, with no deadline, before the deployment is marked failed.
Cleanup(d) ==
  /\ \/ At(d, "cleanup") /\ UNCHANGED resync
     \/ /\ At(d, "cleanup_resync") \/ (At(d, "apply_failed") /\ ~resync[d])
        /\ resync' = [resync EXCEPT ![d] = TRUE]
  /\ Remove(d)
  /\ Goto(d, "fail_check")
  /\ UNCHANGED <<row, hostPort, routerVars, todo, host, crashes>>

-----------------------------------------------------------------------------
\* The rows that caddyRoutes turns into routes.
caddyRoutes ==
  {[dep |-> d, host |-> host, port |-> row[d].port] :
     d \in {e \in ListRunning : row[e].port # NoPort}}

\* Mutants: the new port replaces every port; the running rows are left out.
caddyRoutesWithOnePort(d, port) ==
  {[r EXCEPT !.port = port] : r \in caddyRoutes}
    \cup {[dep |-> d, host |-> host, port |-> port]}
caddyRoutesWithoutOthers(d, port) == {[dep |-> d, host |-> host, port |-> port]}

caddyRoutesWith(d, port) ==
  {r \in caddyRoutes : r.dep # d} \cup {[dep |-> d, host |-> host, port |-> port]}

configureDeploymentIngress(d) ==
  /\ At(d, "routes")
  /\ Query(d, "open", "cleanup")
  /\ routes' = [routes EXCEPT ![d] = caddyRoutesWith(d, hostPort[d])]
  /\ UNCHANGED <<runtimeVars, caddyfile, caddy, serviceVars>>

\* SyncCaddyRoutes ends: its caller only logs the error it may return.
SyncEnd(a) == IF a = Main THEN "serving" ELSE "returned"

SyncList(a) ==
  /\ At(a, "sync_list")
  /\ Query(a, "sync_save", SyncEnd(a))
  /\ routes' = [routes EXCEPT ![a] = caddyRoutes]
  /\ todo' = [todo EXCEPT ![a] = {r.dep : r \in caddyRoutes}]
  /\ UNCHANGED <<runtimeVars, caddyfile, caddy, resync, host, crashes>>

SyncSave(a) ==
  /\ At(a, "sync_save")
  /\ \/ /\ todo[a] = {}
        /\ Goto(a, "open")
        /\ UNCHANGED <<faults, row, todo>>
     \/ \E d \in todo[a] :
          /\ updateAndGet(a, d, SaveLiveURL(row[d], host), "sync_save", SyncEnd(a))
          /\ todo' = [todo EXCEPT ![a] = @ \ {d}]
  /\ UNCHANGED <<runtimeVars, routerVars, resync, host, crashes>>

\* Mutant: an error of the startup resynchronisation is fatal.
SyncReturnFatal(a) ==
  /\ At(a, "applied") \/ At(a, "apply_failed")
  /\ resync[a]
  /\ Goto(a, IF At(a, "applied") THEN SyncEnd(a) ELSE "killed")
  /\ UNCHANGED <<faults, row, runtimeVars, routerVars, serviceVars>>

SyncReturn(a) ==
  /\ At(a, "applied") \/ At(a, "apply_failed")
  /\ resync[a]
  /\ Goto(a, SyncEnd(a))
  /\ UNCHANGED <<faults, row, runtimeVars, routerVars, serviceVars>>
-----------------------------------------------------------------------------
\* The steps that only touch the store.
StoreStep(d) ==
  /\ \/ loadDeploymentForPipeline(d) \/ SaveDeploymentSourcePath(d)
     \/ inspectDeploymentSource(d) \/ StartBuild(d) \/ SetBuilding(d)
     \/ SaveDeploymentImageTag(d) \/ StartDeploy(d) \/ SetDeploying(d)
     \/ GetEnvVars(d) \/ SaveDeploymentRuntime(d) \/ CheckComplete(d)
     \/ CompleteDeployment(d) \/ CheckFail(d) \/ FailDeployment(d)
  /\ UNCHANGED <<runtimeVars, routerVars, serviceVars>>

\* Commands of the pipeline that no deadline bounds: git clone and the build,
\* whose output is read to its end before its process is waited for.
StageStep(d) ==
  /\ Clone(d) \/ Build(d)
  /\ UNCHANGED <<runtimeVars, routerVars, serviceVars>>

RunStep(d) == Run(d) /\ UNCHANGED <<row, routerVars, serviceVars>>

ApplyStep(a) == ApplyRoutes(a) /\ UNCHANGED <<row, runtimeVars, serviceVars>>

SyncStep(a) == SyncList(a) \/ SyncSave(a) \/ SyncReturn(a)

(***************************************************************************)
(* The backend process dies and is started again.  Goroutines and locals   *)
(* are gone and no code resumes a pipeline; the rows, the containers, the  *)
(* Caddyfile and Caddy stay as they are.  The environment of the new       *)
(* process may configure another ingress host.  A start that cannot open   *)
(* the store ends at once and changes nothing, so it is no step here.      *)
(***************************************************************************)
Restart ==
  /\ crashes < MaxCrashes
  /\ crashes' = crashes + 1
  /\ pc' = [a \in Actor |-> IF a = Main THEN "sync_list"
                             ELSE IF a \in Active THEN "killed" ELSE pc[a]]
  /\ routes' = [a \in Actor |-> {}]
  /\ todo' = [a \in Actor |-> {}]
  /\ resync' = [a \in Actor |-> a = Main]
  /\ host' \in Host
  /\ UNCHANGED <<faults, row, runtimeVars, caddyfile, caddy>>

\* The server waits for requests: no actor is in the middle of its work.
AwaitRequests ==
  /\ Active = {} /\ At(Main, "serving")
  /\ UNCHANGED vars

WorkerStep(d) ==
  StoreStep(d) \/ RunStep(d) \/ configureDeploymentIngress(d)

Environment(d) == ContainerExits(d) /\ UNCHANGED <<row, routerVars, serviceVars>>

CaddyStep == (CaddyStops \/ CaddyStarts) /\ UNCHANGED <<row, runtimeVars, serviceVars>>

Next ==
  \/ \E d \in Deployment :
       \/ CreateDeployment(d) \/ WorkerStep(d) \/ StageStep(d) \/ Cleanup(d)
       \/ Environment(d)
  \/ \E a \in Actor : ApplyStep(a) \/ SyncStep(a)
  \/ CaddyStep
  \/ Restart
  \/ AwaitRequests

Spec == Init /\ [][Next]_vars

(***************************************************************************)
(* A goroutine that can run is eventually run, and SQLite, file operations *)
(* and docker commands under a deadline return.  Clone, Build and Cleanup  *)
(* are not bounded by a deadline that is certain to end them: no fairness. *)
(***************************************************************************)
Fairness ==
  /\ \A d \in Deployment : WF_vars(WorkerStep(d))
  /\ \A a \in Actor : WF_vars(ApplyStep(a) \/ SyncStep(a))

FairSpec == Spec /\ Fairness

-----------------------------------------------------------------------------
TypeOK ==
  /\ pc \in [Actor -> Label]
  /\ faults \in 0..MaxFaults
  /\ row \in [Deployment -> Row]
  /\ container \in [Deployment -> {"none", "created", "running", "exited"}]
  /\ hostPort \in [Deployment -> Port \cup {NoPort}]
  /\ routes \in [Actor -> SUBSET Route]
  /\ caddyfile \in [routes : SUBSET Route, torn : BOOLEAN]
  /\ caddy \in [up : BOOLEAN, routes : SUBSET Route]
  /\ resync \in [Actor -> BOOLEAN]
  /\ todo \in [Actor -> SUBSET Deployment]
  /\ host \in Host
  /\ crashes \in 0..MaxCrashes

(***************************************************************************)
(* The statuses of the rows implement the abstract life cycle.  Each       *)
(* change is checked in one transaction and written in another, and        *)
(* FailDeployment also runs after CompleteDeployment has reported an       *)
(* error, so this depends on the order of the calls, not on one check.     *)
(***************************************************************************)
Lifecycle ==
  INSTANCE DeploymentLifecycle WITH status <- [d \in Deployment |-> row[d].status]

LifecycleSpec == Lifecycle!Spec

(***************************************************************************)
(* A route never sends a deployment's traffic to a port other than the one *)
(* saved in its row, in the arguments of an ApplyRoutes under way, in the  *)
(* file and in Caddy, although routes are computed from rows read earlier  *)
(* and a file may hold the blocks of two writers.                          *)
(***************************************************************************)
CarriesSavedPort(rs) == \A r \in rs : r.port = row[r.dep].port

RoutesCarrySavedPort ==
  /\ \A a \in Actor : CarriesSavedPort(routes[a])
  /\ CarriesSavedPort(caddyfile.routes)
  /\ CarriesSavedPort(caddy.routes)

(***************************************************************************)
(* A row marked running has everything the resynchronisation and the API   *)
(* need of it, whatever calls failed or lost their answer on the way: an   *)
(* image, the port its container was given, and a live URL.                *)
(***************************************************************************)
RunningRowComplete ==
  \A d \in ListRunning :
    row[d].image /\ row[d].port = hostPort[d] /\ row[d].port # NoPort /\ row[d].live # NoHost

(***************************************************************************)
(* README.md:85: "Caddy routing is generated and reloaded so traffic       *)
(* reaches the running container".  While Caddy is up, it serves a route   *)
(* of every deployment marked running.  It holds when deployments run one  *)
(* after the other and Caddy comes up by ensureContainer only; a Caddy     *)
(* that Docker restarts while the Caddyfile is truncated serves none.      *)
(***************************************************************************)
RunningIsServed ==
  caddy.up => ListRunning \subseteq {r.dep : r \in caddy.routes}

(***************************************************************************)
(* The same at the moments when nobody is between truncating the Caddyfile *)
(* and the end of the reload and the startup resynchronisation is over: a  *)
(* route that is lost in between has come back.  It holds, with Caddy      *)
(* restarting at any time, when deployments run one after the other and    *)
(* one failure happens; of two workers that overlap, the second one's      *)
(* reload can take the first one's route away for good.                    *)
(***************************************************************************)
InApply(a) == pc[a] \in {"write", "ensure", "reload"}

RunningIsRouted ==
  (At(Main, "serving") /\ \A d \in Deployment : ~InApply(d)) => RunningIsServed

(***************************************************************************)
(* What a restarting Caddy reads: a Caddyfile that is not torn has a route *)
(* of every deployment marked running, whatever has failed and wherever    *)
(* the backend has died, when deployments run one after the other.         *)
(***************************************************************************)
CaddyfileCovers ==
  ~caddyfile.torn => ListRunning \subseteq {r.dep : r \in caddyfile.routes}

(***************************************************************************)
(* When the worker of a failed deployment has ended, Caddy has no route of *)
(* it: the resynchronisation takes back a reload that was applied although *)
(* it reported an error.                                                   *)
(***************************************************************************)
FailedIsUnrouted ==
  \A d \in Deployment :
    (At(d, "returned") /\ row[d].status = "failed")
      => d \notin {r.dep : r \in caddy.routes}

(***************************************************************************)
(* README.md:89: "If any stage fails, the deployment is marked failed".  A *)
(* worker ends, and a request is rejected, only with a row in a final      *)
(* status.  It holds while the store answers: a query that fails while the *)
(* row is loaded or its status is moved is only logged.                    *)
(***************************************************************************)
FailedStageIsMarked ==
  \A d \in Deployment :
    pc[d] \in {"returned", "rejected"} => row[d].status \in {"running", "failed"}

(***************************************************************************)
(* A deployment marked failed has no running container left, because the   *)
(* error paths remove the container before they mark the row.              *)
(***************************************************************************)
FailedHasStopped ==
  \A d \in Deployment : row[d].status = "failed" => container[d] # "running"

(***************************************************************************)
(* A deployment marked running has its container running (programs that    *)
(* end later on their own aside): the probe that let it through was        *)
(* answered by its own container and nothing removed it since.  It holds   *)
(* when deployments run one after the other and no UPDATE loses its        *)
(* answer: an overlapping worker can take the port over between the two    *)
(* calls of waitForHealthy, and a worker whose CompleteDeployment was      *)
(* applied but reports an error removes the container.                     *)
(***************************************************************************)
RunningHasContainer == \A d \in ListRunning : container[d] = "running"

(***************************************************************************)
(* When the startup resynchronisation has succeeded, Caddy serves exactly  *)
(* the running deployments, under the host configured for this process,    *)
(* and every one of them shows that host in its live URL.                  *)
(***************************************************************************)
StartupRestoresIngress ==
  At(Main, "applied") =>
    /\ caddy.up => caddy.routes = {[dep |-> d, host |-> host, port |-> row[d].port] : d \in ListRunning}
    /\ \A d \in ListRunning : row[d].live = host

(***************************************************************************)
(* A restart leads to a serving API, also when the startup                 *)
(* resynchronisation fails (main.go only logs its error).                  *)
(***************************************************************************)
StartupServes == At(Main, "sync_list") ~> At(Main, "serving")

(***************************************************************************)
(* A deployment whose container is being started ends up running or        *)
(* failed, or waits in the docker rm of Cleanup, which has no deadline.    *)
(***************************************************************************)
DeploySettles ==
  \A d \in Deployment :
    (row[d].status = "deploying") ~>
      \/ row[d].status \in {"running", "failed"}
      \/ pc[d] \in {"cleanup", "cleanup_resync", "apply_failed"}
=============================================================================
