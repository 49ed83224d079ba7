----------------------- MODULE DeploymentServiceProofs -----------------------
(***************************************************************************)
(* Theorems about DeploymentService, for any sets of deployments, ports    *)
(* and hosts, any kinds of failure and any bounds: type correctness, the   *)
(* ports that routes carry, what a running row holds, and that the         *)
(* statuses implement DeploymentLifecycle.  The inductive invariants are   *)
(* PortInv and StatusInv; each has one lemma per group of steps.           *)
(***************************************************************************)
EXTENDS DeploymentService, TLAPS

(***************************************************************************)
(* The columns each UPDATE sets, and the ones it leaves alone.             *)
(***************************************************************************)
LEMMA SetStatusRow ==
  ASSUME NEW r \in Row, NEW s \in Status
  PROVE  /\ SetStatus(r, s) \in Row /\ SetStatus(r, s).status = s
         /\ SetStatus(r, s).port = r.port
BY DEF SetStatus, Row

\* SaveImageTag sets the image.
LEMMA SaveImageTagRow ==
  ASSUME NEW r \in Row
  PROVE  /\ SaveImageTag(r) \in Row /\ SaveImageTag(r).status = r.status
         /\ SaveImageTag(r).port = r.port /\ SaveImageTag(r).live = r.live
         /\ SaveImageTag(r).image = TRUE
BY DEF SaveImageTag, Row

\* SaveRuntime sets the port.
LEMMA SaveRuntimeRow ==
  ASSUME NEW r \in Row, NEW p \in Port \cup {NoPort}
  PROVE  /\ SaveRuntime(r, p) \in Row /\ SaveRuntime(r, p).status = r.status
         /\ SaveRuntime(r, p).port = p
BY DEF SaveRuntime, Row

\* Complete sets the status, the image and the live URL.
LEMMA CompleteRow ==
  ASSUME NEW r \in Row, NEW h \in Host
  PROVE  /\ Complete(r, h) \in Row /\ Complete(r, h).status = "running"
         /\ Complete(r, h).port = r.port /\ Complete(r, h).image = TRUE
         /\ Complete(r, h).live = h
BY DEF Complete, Row, Status

\* SaveLiveURL sets the live URL.
LEMMA SaveLiveURLRow ==
  ASSUME NEW r \in Row, NEW h \in Host
  PROVE  /\ SaveLiveURL(r, h) \in Row /\ SaveLiveURL(r, h).status = r.status
         /\ SaveLiveURL(r, h).port = r.port /\ SaveLiveURL(r, h).live = h
         /\ SaveLiveURL(r, h).image = r.image
BY DEF SaveLiveURL, Row

\* Fail sets the status.
LEMMA FailRow ==
  ASSUME NEW r \in Row
  PROVE  Fail(r) \in Row /\ Fail(r).status = "failed" /\ Fail(r).port = r.port
BY DEF Fail, Row, Status

PcMoves(a, labels) ==
  /\ pc[a] \in Label
  /\ pc' \in [Actor -> Label]
  /\ pc'[a] \in labels
  /\ \A b \in Actor \ {a} : pc'[b] = pc[b]

\* Goto moves the actor and nobody else.
LEMMA GotoEffect ==
  ASSUME TypeOK, NEW a \in Actor, NEW l \in Label, Goto(a, l)
  PROVE  PcMoves(a, {l})
BY DEF TypeOK, Goto, PcMoves

\* The count of failures stays within its bound.
LEMMA FaultEffect ==
  ASSUME TypeOK, NEW k, Fault(k) \/ NoFault
  PROVE  faults' \in 0..MaxFaults
BY FaultAssumption DEF TypeOK, Fault, NoFault, FaultAssumption

\* A query moves its actor to one of two labels and leaves the rows alone.
LEMMA QueryEffect ==
  ASSUME TypeOK, NEW a \in Actor, NEW next \in Label, NEW onError \in Label,
         Query(a, next, onError)
  PROVE  /\ PcMoves(a, {next, onError})
         /\ faults' \in 0..MaxFaults
         /\ row' = row
<1>1. faults' \in 0..MaxFaults /\ row' = row
  BY FaultEffect DEF Query
<1>2. PcMoves(a, {next, onError})
  BY GotoEffect DEF Query, PcMoves
<1> QED BY <1>1, <1>2

\* An UPDATE, answered or not, changes at most one row, to the value given.
LEMMA UpdateEffect ==
  ASSUME TypeOK, NEW a \in Actor, NEW d \in Deployment, NEW new \in Row,
         NEW next \in Label, NEW onError \in Label,
         updateAndGet(a, d, new, next, onError)
  PROVE  /\ PcMoves(a, {next, onError})
         /\ pc'[a] = onError \/ row'[d] = new
         /\ faults' \in 0..MaxFaults
         /\ row' \in [Deployment -> Row]
         /\ row'[d] \in {row[d], new}
         /\ \A e \in Deployment \ {d} : row'[e] = row[e]
<1>1. faults' \in 0..MaxFaults
  BY FaultEffect DEF updateAndGet
<1>2. PcMoves(a, {next, onError})
  BY GotoEffect DEF updateAndGet, PcMoves
<1>3. CASE row' = [row EXCEPT ![d] = new]
  BY <1>1, <1>2, <1>3 DEF TypeOK
<1>4. CASE UNCHANGED row /\ Goto(a, onError)
  <2>1. pc'[a] = onError BY <1>4, GotoEffect DEF PcMoves
  <2> QED BY <1>1, <1>2, <1>4, <2>1 DEF TypeOK
<1> QED BY <1>3, <1>4 DEF updateAndGet

-----------------------------------------------------------------------------
\* What type correctness says of one row.
LEMMA RowOf == ASSUME TypeOK, NEW d \in Deployment
               PROVE  /\ row[d] \in Row /\ d \in Actor /\ row[d].status \in Status \cup {"absent"}
BY DEF TypeOK, Row, Actor

\* Type correctness holds initially.
LEMMA InitType == Init => TypeOK
<1> SUFFICES ASSUME Init PROVE TypeOK OBVIOUS
<1>1. pc \in [Actor -> Label] BY DEF Init, Label, Ended
<1>2. row \in [Deployment -> Row] BY DEF Init, Row, NoRow, Status
<1>3. routes \in [Actor -> SUBSET Route] /\ todo \in [Actor -> SUBSET Deployment]
      /\ resync \in [Actor -> BOOLEAN]
  BY DEF Init
<1>4. caddyfile \in [routes : SUBSET Route, torn : BOOLEAN]
      /\ caddy \in [up : BOOLEAN, routes : SUBSET Route]
  BY DEF Init
<1> QED
  BY <1>1, <1>2, <1>3, <1>4, FaultAssumption, ServiceAssumption
  DEF Init, TypeOK, FaultAssumption, ServiceAssumption

StoreTyped ==
  pc' \in [Actor -> Label] /\ faults' \in 0..MaxFaults /\ row' \in [Deployment -> Row]

\* Type correctness: the steps that only touch the store.
LEMMA StoreType ==
  ASSUME TypeOK, NEW d \in Deployment, StoreStep(d)
  PROVE  TypeOK'
<1>a. UNCHANGED <<runtimeVars, routerVars, serviceVars>> BY DEF StoreStep
<1> SUFFICES StoreTyped
  BY <1>a DEF TypeOK, runtimeVars, routerVars, serviceVars, StoreTyped
<1>q. ASSUME NEW a \in Actor, NEW next \in Label, NEW onError \in Label, Query(a, next, onError)
      PROVE  StoreTyped
  BY <1>q, QueryEffect DEF PcMoves, TypeOK, StoreTyped
<1>u. ASSUME NEW a \in Actor, NEW new \in Row, NEW next \in Label, NEW onError \in Label,
             updateAndGet(a, d, new, next, onError)
      PROVE  StoreTyped
  BY <1>u, UpdateEffect DEF PcMoves, StoreTyped
<1> USE RowOf DEF Label, Ended
<1>l. AfterFail(d) \in Label BY DEF AfterFail
<1>s. "building" \in Status /\ "deploying" \in Status /\ host \in Host
      /\ hostPort[d] \in Port \cup {NoPort}
  BY DEF Status, TypeOK
<1>1. CASE loadDeploymentForPipeline(d)
  <2>1. CASE Query(d, "clone", "returned") BY <2>1, <1>q
  <2>2. CASE Stage(d, "clone") BY <2>2, GotoEffect, FaultEffect DEF Stage, PcMoves, StoreTyped, TypeOK
  <2> QED BY <1>1, <2>1, <2>2 DEF loadDeploymentForPipeline
<1>2. CASE SaveDeploymentSourcePath(d) BY <1>2, <1>u DEF SaveDeploymentSourcePath, touch
<1>3. CASE inspectDeploymentSource(d) BY <1>3, <1>u DEF inspectDeploymentSource, touch
<1>4. CASE StartBuild(d) BY <1>4, <1>q DEF StartBuild, ValidateTransition
<1>5. CASE SetBuilding(d) BY <1>5, <1>u, <1>s, SetStatusRow DEF SetBuilding
<1>6. CASE SaveDeploymentImageTag(d) BY <1>6, <1>u, <1>s, SaveImageTagRow DEF SaveDeploymentImageTag
<1>7. CASE StartDeploy(d) BY <1>7, <1>q DEF StartDeploy, ValidateTransition
<1>8. CASE SetDeploying(d) BY <1>8, <1>u, <1>s, SetStatusRow DEF SetDeploying
<1>9. CASE GetEnvVars(d) BY <1>9, <1>q DEF GetEnvVars
<1>10. CASE SaveDeploymentRuntime(d) BY <1>10, <1>u, <1>s, SaveRuntimeRow DEF SaveDeploymentRuntime
<1>11. CASE CheckComplete(d) BY <1>11, <1>q DEF CheckComplete, ValidateTransition
<1>12. CASE CompleteDeployment(d) BY <1>12, <1>u, <1>s, CompleteRow DEF CompleteDeployment
<1>13. CASE CheckFail(d) BY <1>13, <1>q, <1>l DEF CheckFail
<1>14. CASE FailDeployment(d) BY <1>14, <1>u, <1>l, <1>s, FailRow DEF FailDeployment
<1> QED
  BY <1>1, <1>2, <1>3, <1>4, <1>5, <1>6, <1>7, <1>8, <1>9, <1>10, <1>11, <1>12, <1>13,
     <1>14, StoreStep(d) DEF StoreStep

\* Type correctness: CreateDeployment.
LEMMA CreateType ==
  ASSUME TypeOK, NEW d \in Deployment, CreateDeployment(d)
  PROVE  TypeOK'
<1>1. NewRow \in Row BY DEF NewRow, NoRow, Row, Status
<1>2. "load" \in Label /\ "rejected" \in Label BY DEF Label, Ended
<1>3. faults' \in 0..MaxFaults BY FaultEffect DEF CreateDeployment
<1>4. row' \in [Deployment -> Row] BY <1>1 DEF CreateDeployment, TypeOK
<1>5. pc' \in [Actor -> Label]
  BY <1>2, RowOf, GotoEffect DEF CreateDeployment, TypeOK, PcMoves
<1> QED
  BY <1>3, <1>4, <1>5
  DEF CreateDeployment, TypeOK, runtimeVars, routerVars, serviceVars

\* Type correctness: git clone and the build.
LEMMA StageType ==
  ASSUME TypeOK, NEW d \in Deployment, StageStep(d)
  PROVE  TypeOK'
<1>1. "save_source" \in Label /\ "save_image" \in Label /\ "fail_check" \in Label
  BY DEF Label
<1>2. faults' \in 0..MaxFaults /\ row' = row
  BY FaultEffect DEF StageStep, Clone, Build, Stage
<1>3. pc' \in [Actor -> Label]
  BY <1>1, RowOf, GotoEffect DEF StageStep, Clone, Build, Stage, PcMoves
<1> QED
  BY <1>2, <1>3 DEF StageStep, TypeOK, runtimeVars, routerVars, serviceVars

\* Type correctness: the steps of runtime.Run.
LEMMA RunType ==
  ASSUME TypeOK, NEW d \in Deployment, RunStep(d)
  PROVE  TypeOK'
<1> DEFINE States == {"none", "created", "running", "exited"}
<1>1. faults' \in 0..MaxFaults
  BY FaultEffect
  DEF RunStep, Run, FindPort, DockerRun, isContainerRunning, probeHealthTargets, captureStartupFailure, Remove
<1>2. pc' \in [Actor -> Label]
  <2>1. \A l \in {"docker_run", "health", "probe", "ran", "capture", "run_failed"} : l \in Label
    BY DEF Label
  <2> QED
    BY <2>1, RowOf, GotoEffect
    DEF RunStep, Run, FindPort, DockerRun, isContainerRunning, probeHealthTargets, captureStartupFailure, PcMoves
<1>3. hostPort' \in [Deployment -> Port \cup {NoPort}]
  BY DEF RunStep, Run, FindPort, DockerRun, isContainerRunning, probeHealthTargets, captureStartupFailure,
         runtimeVars, TypeOK
<1>4. container' \in [Deployment -> States]
  <2>1. ASSUME NEW c \in States, SetContainer(d, c) PROVE container' \in [Deployment -> States]
    BY <2>1 DEF SetContainer, TypeOK
  <2>2. container' = container \/ \E c \in States : SetContainer(d, c)
    BY DEF RunStep, Run, FindPort, DockerRun, isContainerRunning, probeHealthTargets, captureStartupFailure,
           runtimeVars, Remove
  <2> QED BY <2>1, <2>2 DEF TypeOK
<1> QED
  BY <1>1, <1>2, <1>3, <1>4 DEF RunStep, TypeOK, routerVars, serviceVars

\* Type correctness: runtime.Cleanup.
LEMMA CleanupType ==
  ASSUME TypeOK, NEW d \in Deployment, Cleanup(d)
  PROVE  TypeOK'
<1>1. faults' \in 0..MaxFaults BY FaultEffect DEF Cleanup, Remove
<1>2. pc' \in [Actor -> Label]
  BY RowOf, GotoEffect DEF Cleanup, PcMoves, Label
<1>3. container' \in [Deployment -> {"none", "created", "running", "exited"}]
  BY DEF Cleanup, Remove, SetContainer, TypeOK
<1>4. resync' \in [Actor -> BOOLEAN] BY DEF Cleanup, TypeOK
<1> QED BY <1>1, <1>2, <1>3, <1>4 DEF Cleanup, TypeOK, routerVars

\* caddyRoutes skips rows without a port, so what it returns are routes.
LEMMA RoutesOfRunning == ASSUME TypeOK PROVE caddyRoutes \subseteq Route
<1> SUFFICES ASSUME NEW d \in ListRunning, row[d].port # NoPort
             PROVE  [dep |-> d, host |-> host, port |-> row[d].port] \in Route
  BY DEF caddyRoutes
<1>1. d \in Deployment /\ row[d].port \in Port BY DEF TypeOK, Row, ListRunning
<1> QED BY <1>1 DEF Route, TypeOK

\* Type correctness: configureDeploymentIngress, once the port is chosen.
LEMMA IngressType ==
  ASSUME TypeOK, NEW d \in Deployment, configureDeploymentIngress(d), hostPort[d] \in Port
  PROVE  TypeOK'
<1>1. "open" \in Label /\ "cleanup" \in Label BY DEF Label
<1>2. PcMoves(d, {"open", "cleanup"}) /\ faults' \in 0..MaxFaults /\ row' = row
  BY <1>1, RowOf, QueryEffect DEF configureDeploymentIngress
<1>3. caddyRoutesWith(d, hostPort[d]) \in SUBSET Route
  BY RoutesOfRunning DEF caddyRoutesWith, Route, TypeOK
<1>4. routes' \in [Actor -> SUBSET Route]
  BY <1>3, RowOf DEF configureDeploymentIngress, TypeOK
<1> QED
  BY <1>2, <1>4
  DEF configureDeploymentIngress, PcMoves, TypeOK, runtimeVars, serviceVars

\* What Caddy loads from the file is a set of routes.
LEMMA LoadType ==
  ASSUME TypeOK, Load
  PROVE  caddy' \in [up : BOOLEAN, routes : SUBSET Route]
<1>1. PICK served \in Loaded(caddyfile) : caddy' = [up |-> TRUE, routes |-> served]
  BY DEF Load
<1>2. served \in SUBSET Route BY DEF Loaded, TypeOK
<1> QED BY <1>1, <1>2

\* Type correctness: the steps of ApplyRoutes.
LEMMA ApplyType ==
  ASSUME TypeOK, NEW a \in Actor, ApplyStep(a)
  PROVE  TypeOK'
<1>1. faults' \in 0..MaxFaults
  BY FaultEffect DEF ApplyStep, ApplyRoutes, OpenConfig, writeConfig, ensureContainer, Reload
<1>2. pc' \in [Actor -> Label]
  <2>1. \A l \in {"write", "ensure", "reload", "applied", "apply_failed"} : l \in Label
    BY DEF Label
  <2> QED
    BY <2>1, GotoEffect
    DEF ApplyStep, ApplyRoutes, OpenConfig, writeConfig, ensureContainer, Reload, PcMoves
<1>3. caddyfile' \in [routes : SUBSET Route, torn : BOOLEAN]
  <2>1. caddyfile.routes \in SUBSET Route /\ routes[a] \in SUBSET Route BY DEF TypeOK
  <2>2. Overwrite(caddyfile.routes, routes[a]) \in [routes : SUBSET Route, torn : BOOLEAN]
    BY <2>1 DEF Overwrite
  <2>3. \/ UNCHANGED caddyfile
        \/ caddyfile' = [routes |-> {}, torn |-> TRUE]
        \/ caddyfile' = Overwrite(caddyfile.routes, routes[a])
        \/ caddyfile' = [routes |-> caddyfile.routes \cup routes[a], torn |-> TRUE]
    BY DEF ApplyStep, ApplyRoutes, OpenConfig, writeConfig, ensureContainer, Reload
  <2>4. caddyfile \in [routes : SUBSET Route, torn : BOOLEAN] BY DEF TypeOK
  <2>5. [routes |-> {}, torn |-> TRUE] \in [routes : SUBSET Route, torn : BOOLEAN]
    OBVIOUS
  <2>6. [routes |-> caddyfile.routes \cup routes[a], torn |-> TRUE]
          \in [routes : SUBSET Route, torn : BOOLEAN]
    BY <2>1
  <2> QED BY <2>2, <2>3, <2>4, <2>5, <2>6, Zenon
<1>4. caddy' \in [up : BOOLEAN, routes : SUBSET Route]
  <2>1. UNCHANGED caddy \/ Load
    BY DEF ApplyStep, ApplyRoutes, OpenConfig, writeConfig, ensureContainer, Reload
  <2> QED BY <2>1, LoadType DEF TypeOK
<1>5. UNCHANGED routes
  BY DEF ApplyStep, ApplyRoutes, OpenConfig, writeConfig, ensureContainer, Reload
<1> QED
  BY <1>1, <1>2, <1>3, <1>4, <1>5 DEF ApplyStep, TypeOK, runtimeVars, serviceVars

\* Type correctness: the steps of SyncCaddyRoutes.
LEMMA SyncType ==
  ASSUME TypeOK, NEW a \in Actor, SyncStep(a)
  PROVE  TypeOK'
<1>l. /\ \A l \in {"open", "serving", "returned", "sync_save"} : l \in Label
      /\ SyncEnd(a) \in Label
  BY DEF Label, Ended, SyncEnd
<1>1. CASE SyncList(a)
  <2>1. PcMoves(a, {"sync_save", SyncEnd(a)}) /\ faults' \in 0..MaxFaults /\ row' = row
    BY <1>1, <1>l, QueryEffect DEF SyncList
  <2>2. {r.dep : r \in caddyRoutes} \in SUBSET Deployment BY RoutesOfRunning DEF Route
  <2>3. routes' \in [Actor -> SUBSET Route] /\ todo' \in [Actor -> SUBSET Deployment]
    BY <1>1, <2>2, RoutesOfRunning DEF SyncList, TypeOK
  <2> QED BY <1>1, <2>1, <2>3 DEF SyncList, PcMoves, TypeOK, runtimeVars
<1>2. CASE SyncSave(a)
  <2>1. CASE todo[a] = {} /\ Goto(a, "open") /\ UNCHANGED <<faults, row, todo>>
    BY <1>2, <2>1, <1>l, GotoEffect DEF SyncSave, PcMoves, TypeOK, runtimeVars, routerVars
  <2>2. CASE \E d \in todo[a] :
               /\ updateAndGet(a, d, SaveLiveURL(row[d], host), "sync_save", SyncEnd(a))
               /\ todo' = [todo EXCEPT ![a] = @ \ {d}]
    <3>1. PICK d \in todo[a] :
               /\ updateAndGet(a, d, SaveLiveURL(row[d], host), "sync_save", SyncEnd(a))
               /\ todo' = [todo EXCEPT ![a] = @ \ {d}]
      BY <2>2
    <3>2. d \in Deployment BY DEF TypeOK
    <3>3. SaveLiveURL(row[d], host) \in Row
      BY <3>2, RowOf, SaveLiveURLRow DEF TypeOK
    <3>4. /\ PcMoves(a, {"sync_save", SyncEnd(a)}) /\ faults' \in 0..MaxFaults
          /\ row' \in [Deployment -> Row]
      BY <3>1, <3>2, <3>3, <1>l, UpdateEffect
    <3> QED BY <1>2, <3>1, <3>4 DEF SyncSave, PcMoves, TypeOK, runtimeVars, routerVars
  <2> QED BY <1>2, <2>1, <2>2 DEF SyncSave
<1>3. CASE SyncReturn(a)
  BY <1>3, <1>l, GotoEffect
  DEF SyncReturn, PcMoves, TypeOK, runtimeVars, routerVars, serviceVars
<1> QED BY <1>1, <1>2, <1>3 DEF SyncStep

\* Type correctness: a crash and restart.
LEMMA RestartType == ASSUME TypeOK, Restart PROVE TypeOK'
<1>1. pc' \in [Actor -> Label] BY DEF Restart, TypeOK, Label, Ended
<1>2. crashes' \in 0..MaxCrashes
  BY ServiceAssumption DEF Restart, TypeOK, ServiceAssumption
<1>3. /\ routes' \in [Actor -> SUBSET Route] /\ todo' \in [Actor -> SUBSET Deployment]
      /\ resync' \in [Actor -> BOOLEAN]
  BY DEF Restart
<1> QED BY <1>1, <1>2, <1>3 DEF Restart, TypeOK, runtimeVars

\* Type correctness: what happens to containers and to Caddy by themselves.
LEMMA EnvironmentType ==
  ASSUME TypeOK, (\E d \in Deployment : Environment(d)) \/ CaddyStep
  PROVE  TypeOK'
<1>1. CASE \E d \in Deployment : Environment(d)
  BY <1>1, FaultEffect
  DEF Environment, ContainerExits, SetContainer, TypeOK, routerVars, serviceVars
<1>2. CASE CaddyStep
  <2>1. caddy' \in [up : BOOLEAN, routes : SUBSET Route]
    <3>1. CASE CaddyStops BY <3>1 DEF CaddyStops
    <3>2. CASE CaddyStarts BY <3>2, LoadType DEF CaddyStarts
    <3> QED BY <1>2, <3>1, <3>2 DEF CaddyStep
  <2>2. faults' \in 0..MaxFaults
    BY <1>2, FaultEffect DEF CaddyStep, CaddyStops, CaddyStarts, TypeOK
  <2> QED
    BY <1>2, <2>1, <2>2
    DEF CaddyStep, CaddyStops, CaddyStarts, TypeOK, runtimeVars, serviceVars
<1> QED BY <1>1, <1>2

-----------------------------------------------------------------------------
(***************************************************************************)
(* Where a saved port comes from.  Until SaveDeploymentRuntime the row has *)
(* no port, afterwards it has the port of the container, and no call that  *)
(* changes hostPort comes after it.  The labels from "routes" on are       *)
(* reached with resync FALSE only after the port is saved; with resync     *)
(* TRUE, which is set before a worker resynchronises, they are not about   *)
(* the worker's own port.                                                  *)
(***************************************************************************)
BeforeSave ==
  {"idle", "load", "clone", "save_source", "inspect", "start_build", "set_building",
   "build", "save_image", "start_deploy", "set_deploying", "env_vars", "run",
   "docker_run", "health", "probe", "capture", "ran"}

Applying == {"open", "write", "ensure", "reload", "applied", "apply_failed"}

PortAt(d) ==
  /\ pc[d] \in BeforeSave => row[d].port = NoPort
  /\ row[d].port \in {NoPort, hostPort[d]}
  /\ pc[d] \in {"docker_run", "health", "probe", "ran"} => hostPort[d] \in Port
  /\ pc[d] \in {"sync_list", "sync_save"} => resync[d]
  /\ (pc[d] \in {"routes", "complete"} \/ (pc[d] \in Applying /\ ~resync[d]))
       => row[d].port = hostPort[d] /\ hostPort[d] \in Port

PortInv == \A d \in Deployment : PortAt(d)

\* Only the worker of d, and Restart, change what PortAt(d) is about.
Keeps(d) ==
  /\ pc'[d] = pc[d]
  /\ row'[d].port = row[d].port
  /\ hostPort'[d] = hostPort[d]
  /\ resync'[d] = resync[d]

\* PortAt(d) is kept by a step that leaves all it mentions alone.
LEMMA PortKept == ASSUME NEW d \in Deployment, PortAt(d), Keeps(d) PROVE PortAt(d)'
BY DEF PortAt, Keeps

\* Labels that PortAt says nothing of, but for the saved port being absent.
Plain ==
  {"load", "clone", "save_source", "inspect", "start_build", "set_building", "build",
   "save_image", "start_deploy", "set_deploying", "env_vars", "run", "capture",
   "run_failed", "cleanup", "cleanup_resync", "fail_check", "fail", "returned",
   "rejected", "killed"}

\* PortAt(d) is kept by a move to a plain label that writes no port.
LEMMA PortPlain ==
  ASSUME NEW d \in Deployment, PortAt(d), row'[d].port = row[d].port,
         hostPort'[d] = hostPort[d], pc'[d] \in Plain,
         pc[d] \in BeforeSave \/ pc'[d] \notin BeforeSave
  PROVE  PortAt(d)'
BY DEF PortAt, Plain, BeforeSave, Applying

\* A step of the worker of d has only PortAt(d) to establish.
LEMMA PortOthers ==
  ASSUME NEW d \in Deployment, NEW labels, PortInv, PcMoves(d, labels),
         \A e \in Deployment \ {d} :
           row'[e].port = row[e].port /\ hostPort'[e] = hostPort[e] /\ resync'[e] = resync[e],
         PortAt(d)'
  PROVE  PortInv'
<1> SUFFICES ASSUME NEW e \in Deployment \ {d} PROVE PortAt(e)' BY DEF PortInv
<1>1. Keeps(e) BY DEF Keeps, PcMoves, Actor
<1> QED BY <1>1, PortKept DEF PortInv

\* The saved port: the steps that only touch the store.
LEMMA StorePort ==
  ASSUME TypeOK, PortInv, NEW d \in Deployment, StoreStep(d)
  PROVE  PortInv'
<1>a. hostPort' = hostPort /\ resync' = resync
  BY DEF StoreStep, runtimeVars, serviceVars
<1>b. PortAt(d) /\ row[d] \in Row /\ d \in Actor BY RowOf DEF PortInv
<1>q. ASSUME NEW next \in Label, NEW onError \in Label, Query(d, next, onError),
             {next, onError} \subseteq Plain,
             pc[d] \in BeforeSave \/ {next, onError} \cap BeforeSave = {}
      PROVE  PortInv'
  <2>1. PcMoves(d, {next, onError}) /\ row' = row BY <1>q, <1>b, QueryEffect
  <2>2. PortAt(d)' BY <1>a, <1>b, <1>q, <2>1, PortPlain DEF PcMoves
  <2> QED BY <1>a, <2>1, <2>2, PortOthers
<1>u. ASSUME NEW new \in Row, NEW next \in Label, NEW onError \in Label,
             updateAndGet(d, d, new, next, onError), new.port = row[d].port,
             {next, onError} \subseteq Plain,
             pc[d] \in BeforeSave \/ {next, onError} \cap BeforeSave = {}
      PROVE  PortInv'
  <2>1. /\ PcMoves(d, {next, onError}) /\ row'[d] \in {row[d], new}
        /\ \A e \in Deployment \ {d} : row'[e] = row[e]
    BY <1>u, <1>b, UpdateEffect
  <2>2. PortAt(d)' BY <1>a, <1>b, <1>u, <2>1, PortPlain DEF PcMoves
  <2> QED BY <1>a, <2>1, <2>2, PortOthers
<1>s. "building" \in Status /\ "deploying" \in Status /\ host \in Host
      /\ hostPort[d] \in Port \cup {NoPort}
  BY DEF Status, TypeOK
<1>1. CASE loadDeploymentForPipeline(d)
  <2>1. CASE Query(d, "clone", "returned")
    BY <1>1, <2>1, <1>q DEF loadDeploymentForPipeline, At, Label, Ended, Plain, BeforeSave
  <2>2. CASE Stage(d, "clone")
    <3>1. PcMoves(d, {"clone", "fail_check"}) /\ row' = row
      BY <2>2, <1>b, GotoEffect DEF Stage, PcMoves, Label
    <3>2. PortAt(d)'
      BY <1>1, <1>a, <1>b, <3>1, PortPlain
      DEF loadDeploymentForPipeline, At, PcMoves, Plain, BeforeSave
    <3> QED BY <1>a, <3>1, <3>2, PortOthers
  <2> QED BY <1>1, <2>1, <2>2 DEF loadDeploymentForPipeline
<1>2. CASE SaveDeploymentSourcePath(d)
  BY <1>2, <1>b, <1>u
  DEF SaveDeploymentSourcePath, touch, At, Label, Ended, Plain, BeforeSave
<1>3. CASE inspectDeploymentSource(d)
  BY <1>3, <1>b, <1>u
  DEF inspectDeploymentSource, touch, At, Label, Ended, Plain, BeforeSave
<1>4. CASE StartBuild(d)
  BY <1>4, <1>q DEF StartBuild, ValidateTransition, At, Label, Ended, Plain, BeforeSave
<1>5. CASE SetBuilding(d)
  BY <1>5, <1>b, <1>s, <1>u, SetStatusRow
  DEF SetBuilding, At, Label, Ended, Plain, BeforeSave
<1>6. CASE SaveDeploymentImageTag(d)
  BY <1>6, <1>b, <1>s, <1>u, SaveImageTagRow
  DEF SaveDeploymentImageTag, At, Label, Ended, Plain, BeforeSave
<1>7. CASE StartDeploy(d)
  BY <1>7, <1>q DEF StartDeploy, ValidateTransition, At, Label, Ended, Plain, BeforeSave
<1>8. CASE SetDeploying(d)
  BY <1>8, <1>b, <1>s, <1>u, SetStatusRow
  DEF SetDeploying, At, Label, Ended, Plain, BeforeSave
<1>9. CASE GetEnvVars(d)
  BY <1>9, <1>q DEF GetEnvVars, At, Label, Ended, Plain, BeforeSave
<1>10. CASE SaveDeploymentRuntime(d)
  <2>1. SaveRuntime(row[d], hostPort[d]) \in Row
        /\ SaveRuntime(row[d], hostPort[d]).port = hostPort[d]
    BY <1>b, <1>s, SaveRuntimeRow
  <2>2. /\ PcMoves(d, {"routes", "cleanup"})
        /\ pc'[d] = "cleanup" \/ row'[d] = SaveRuntime(row[d], hostPort[d])
        /\ row'[d] \in {row[d], SaveRuntime(row[d], hostPort[d])}
        /\ \A e \in Deployment \ {d} : row'[e] = row[e]
    <3>1. updateAndGet(d, d, SaveRuntime(row[d], hostPort[d]), "routes", "cleanup")
      BY <1>10 DEF SaveDeploymentRuntime
    <3>2. "routes" \in Label /\ "cleanup" \in Label BY DEF Label
    <3>3. SaveRuntime(row[d], hostPort[d]) \in Row BY <2>1
    <3> QED BY <1>b, <3>1, <3>2, <3>3, UpdateEffect
  <2>3. PortAt(d)'
    BY <1>10, <1>a, <1>b, <2>1, <2>2
    DEF SaveDeploymentRuntime, At, PortAt, PcMoves, BeforeSave, Applying
  <2> QED BY <1>a, <2>2, <2>3, PortOthers
<1>11. CASE CheckComplete(d)
  <2>1. PcMoves(d, {"complete", "cleanup_resync"}) /\ row' = row
    <3> DEFINE next == IF CanTransition(row[d].status, "running") THEN "complete" ELSE "cleanup_resync"
    <3>1. Query(d, next, "cleanup_resync")
      BY <1>11 DEF CheckComplete, ValidateTransition
    <3>2. "complete" \in Label /\ "cleanup_resync" \in Label
      BY DEF Label
    <3>3. next \in {"complete", "cleanup_resync"}
      OBVIOUS
    <3> HIDE DEF next
    <3>4. PcMoves(d, {next, "cleanup_resync"}) /\ row' = row
      BY <1>b, <3>1, <3>2, <3>3, QueryEffect
    <3> QED BY <3>3, <3>4 DEF PcMoves
  <2>2. PortAt(d)'
    BY <1>11, <1>a, <1>b, <2>1 DEF CheckComplete, At, PortAt, PcMoves, BeforeSave, Applying
  <2> QED BY <1>a, <2>1, <2>2, PortOthers
<1>12. CASE CompleteDeployment(d)
  BY <1>12, <1>b, <1>s, <1>u, CompleteRow
  DEF CompleteDeployment, At, Label, Ended, Plain, BeforeSave, Status
<1>13. CASE CheckFail(d)
  <2>1. PcMoves(d, {"fail", AfterFail(d)}) /\ row' = row
    <3> DEFINE next == IF MayFail(row[d].status) THEN "fail" ELSE AfterFail(d)
    <3>1. Query(d, next, AfterFail(d))
      BY <1>13 DEF CheckFail
    <3>2. AfterFail(d) \in Label /\ "fail" \in Label
      BY DEF AfterFail, Label, Ended
    <3>3. next \in {"fail", AfterFail(d)}
      OBVIOUS
    <3> HIDE DEF next
    <3>4. PcMoves(d, {next, AfterFail(d)}) /\ row' = row
      BY <1>b, <3>1, <3>2, <3>3, QueryEffect
    <3> QED BY <3>3, <3>4 DEF PcMoves
  <2>2. PortAt(d)'
    BY <1>13, <1>a, <1>b, <2>1
    DEF CheckFail, At, PortAt, PcMoves, BeforeSave, Applying, AfterFail
  <2> QED BY <1>a, <2>1, <2>2, PortOthers
<1>14. CASE FailDeployment(d)
  <2>1. Fail(row[d]) \in Row /\ Fail(row[d]).port = row[d].port
    BY <1>b, <1>s, FailRow DEF Status, TypeOK
  <2>2. /\ PcMoves(d, {AfterFail(d), AfterFail(d)}) /\ row'[d] \in {row[d], Fail(row[d])}
        /\ \A e \in Deployment \ {d} : row'[e] = row[e]
    <3>1. updateAndGet(d, d, Fail(row[d]), AfterFail(d), AfterFail(d))
      BY <1>14 DEF FailDeployment
    <3>2. AfterFail(d) \in Label BY DEF AfterFail, Label, Ended
    <3>3. Fail(row[d]) \in Row BY <2>1
    <3> QED BY <1>b, <3>1, <3>2, <3>3, UpdateEffect
  <2>3. PortAt(d)'
    BY <1>14, <1>a, <1>b, <2>1, <2>2
    DEF FailDeployment, At, PortAt, PcMoves, BeforeSave, Applying, AfterFail
  <2> QED BY <1>a, <2>2, <2>3, PortOthers
<1> QED
  BY <1>1, <1>2, <1>3, <1>4, <1>5, <1>6, <1>7, <1>8, <1>9, <1>10, <1>11, <1>12, <1>13,
     <1>14, StoreStep(d) DEF StoreStep

\* The saved port: CreateDeployment.
LEMMA CreatePort ==
  ASSUME TypeOK, PortInv, NEW d \in Deployment, CreateDeployment(d)
  PROVE  PortInv'
<1>b. PortAt(d) /\ d \in Actor BY RowOf DEF PortInv
<1>a. hostPort' = hostPort /\ resync' = resync
  BY DEF CreateDeployment, runtimeVars, serviceVars
<1>1. CASE UNCHANGED <<row, pc>>
  BY <1>1, <1>a, PortKept DEF PortInv, Keeps
<1>2. CASE row' = [row EXCEPT ![d] = NewRow] /\ (Goto(d, "load") \/ Goto(d, "rejected"))
  <2>1. PcMoves(d, {"load", "rejected"})
    BY <1>2, <1>b, GotoEffect DEF PcMoves, Label, Ended
  <2>2. /\ row'[d].port = NoPort /\ row[d].port = NoPort
        /\ \A e \in Deployment \ {d} : row'[e] = row[e]
    BY <1>2, <1>b DEF CreateDeployment, At, PortAt, BeforeSave, TypeOK, NewRow, NoRow
  <2>3. PortAt(d)'
    BY <1>a, <1>b, <2>1, <2>2, PortPlain DEF CreateDeployment, At, PcMoves, BeforeSave, Plain
  <2> QED BY <1>a, <2>1, <2>2, <2>3, PortOthers
<1> QED BY <1>1, <1>2 DEF CreateDeployment

\* The saved port: git clone and the build.
LEMMA StagePort ==
  ASSUME TypeOK, PortInv, NEW d \in Deployment, StageStep(d)
  PROVE  PortInv'
<1>b. PortAt(d) /\ d \in Actor BY RowOf DEF PortInv
<1>1. hostPort' = hostPort /\ resync' = resync /\ row' = row
  BY DEF StageStep, Clone, Build, Stage, runtimeVars, serviceVars
<1>2. PcMoves(d, {"save_source", "save_image", "fail_check"})
  BY <1>b, GotoEffect DEF StageStep, Clone, Build, Stage, PcMoves, Label
<1>3. pc[d] \in BeforeSave BY DEF StageStep, Clone, Build, At, BeforeSave
<1>4. PortAt(d)' BY <1>b, <1>1, <1>2, <1>3, PortPlain DEF PcMoves, Plain
<1> QED BY <1>1, <1>2, <1>4, PortOthers

\* The saved port: the steps of runtime.Run.
LEMMA RunPort ==
  ASSUME TypeOK, PortInv, NEW d \in Deployment, RunStep(d)
  PROVE  PortInv'
<1>b. PortAt(d) /\ d \in Actor BY RowOf DEF PortInv
<1>a. row' = row /\ resync' = resync BY DEF RunStep, serviceVars
<1>1. CASE FindPort(d)
  <2>1. PcMoves(d, {"docker_run", "run_failed"})
    BY <1>1, <1>b, GotoEffect DEF FindPort, PcMoves, Label
  <2>2. /\ \A e \in Deployment \ {d} : hostPort'[e] = hostPort[e]
        /\ hostPort'[d] \in Port \/ pc'[d] = "run_failed"
    BY <1>1, <1>b, GotoEffect DEF FindPort, TypeOK, PcMoves, Label
  <2>3. row[d].port = NoPort BY <1>1, <1>b DEF FindPort, At, PortAt, BeforeSave
  <2>4. PortAt(d)'
    BY <1>a, <1>b, <2>1, <2>2, <2>3 DEF PortAt, PcMoves, BeforeSave, Applying
  <2> QED BY <1>a, <2>1, <2>2, <2>4, PortOthers
<1>2. CASE ~FindPort(d)
  <2>1. hostPort' = hostPort
    BY <1>2 DEF RunStep, Run, DockerRun, isContainerRunning, probeHealthTargets, captureStartupFailure, runtimeVars
  <2>2. \/ pc[d] = "docker_run" /\ PcMoves(d, {"health", "run_failed"})
        \/ pc[d] = "health" /\ PcMoves(d, {"probe", "capture"})
        \/ pc[d] = "probe" /\ PcMoves(d, {"ran", "health", "capture"})
        \/ pc[d] = "capture" /\ PcMoves(d, {"run_failed"})
    BY <1>2, <1>b, GotoEffect
    DEF RunStep, Run, DockerRun, isContainerRunning, probeHealthTargets, captureStartupFailure, At, PcMoves, Label
  <2>3. PortAt(d)'
    BY <1>a, <1>b, <2>1, <2>2 DEF PortAt, PcMoves, BeforeSave, Applying
  <2> QED BY <1>a, <2>1, <2>2, <2>3, PortOthers
<1> QED BY <1>1, <1>2

\* The saved port: runtime.Cleanup.
LEMMA CleanupPort ==
  ASSUME TypeOK, PortInv, NEW d \in Deployment, Cleanup(d)
  PROVE  PortInv'
<1>b. PortAt(d) /\ d \in Actor BY RowOf DEF PortInv
<1>1. hostPort' = hostPort /\ row' = row BY DEF Cleanup
<1>2. PcMoves(d, {"fail_check"}) BY <1>b, GotoEffect DEF Cleanup, Label
<1>3. \A e \in Deployment \ {d} : resync'[e] = resync[e] BY DEF Cleanup, TypeOK, Actor
<1>4. PortAt(d)' BY <1>b, <1>1, <1>2, PortPlain DEF PcMoves, Plain, BeforeSave
<1> QED BY <1>1, <1>2, <1>3, <1>4, PortOthers

\* The saved port: configureDeploymentIngress.
LEMMA IngressPort ==
  ASSUME TypeOK, PortInv, NEW d \in Deployment, configureDeploymentIngress(d)
  PROVE  PortInv'
<1>b. PortAt(d) /\ d \in Actor BY RowOf DEF PortInv
<1>1. hostPort' = hostPort /\ resync' = resync
  BY DEF configureDeploymentIngress, runtimeVars, serviceVars
<1>2. PcMoves(d, {"open", "cleanup"}) /\ row' = row
  BY <1>b, QueryEffect DEF configureDeploymentIngress, Label
<1>3. PortAt(d)'
  BY <1>b, <1>1, <1>2
  DEF configureDeploymentIngress, At, PortAt, PcMoves, BeforeSave, Applying
<1> QED BY <1>1, <1>2, <1>3, PortOthers

\* The saved port: the steps of ApplyRoutes.
LEMMA ApplyPort ==
  ASSUME TypeOK, PortInv, NEW a \in Actor, ApplyStep(a)
  PROVE  PortInv'
<1>1. UNCHANGED <<row, hostPort, resync>> BY DEF ApplyStep, runtimeVars, serviceVars
<1>2. pc[a] \in Applying /\ PcMoves(a, Applying)
  BY GotoEffect
  DEF ApplyStep, ApplyRoutes, OpenConfig, writeConfig, ensureContainer, Reload, At, PcMoves,
      Applying, Label
<1> SUFFICES ASSUME NEW e \in Deployment PROVE PortAt(e)' BY DEF PortInv
<1>3. CASE e = a
  BY <1>1, <1>2, <1>3 DEF PortInv, PortAt, PcMoves, Applying, BeforeSave
<1>4. CASE e # a
  BY <1>1, <1>2, <1>4, PortKept DEF PortInv, PcMoves, Keeps, Actor
<1> QED BY <1>3, <1>4

\* The saved port: the steps of SyncCaddyRoutes.
LEMMA SyncPort ==
  ASSUME TypeOK, PortInv, NEW a \in Actor, SyncStep(a)
  PROVE  PortInv'
<1>l. SyncEnd(a) \in Label /\ "sync_save" \in Label /\ "open" \in Label
  BY DEF SyncEnd, Label, Ended
<1>1. hostPort' = hostPort /\ resync' = resync
  BY DEF SyncStep, SyncList, SyncSave, SyncReturn, runtimeVars, serviceVars
<1> DEFINE Moves == /\ PcMoves(a, {"open", "sync_save", SyncEnd(a)})
                    /\ \A d \in Deployment : row'[d].port = row[d].port
<1>2. Moves
  <2>1. CASE SyncList(a)
    BY <2>1, <1>l, QueryEffect DEF SyncList, PcMoves
  <2>2. CASE SyncSave(a)
    <3>1. CASE Goto(a, "open") /\ UNCHANGED row
      BY <3>1, <1>l, GotoEffect DEF PcMoves
    <3>2. ASSUME NEW d \in todo[a],
                 updateAndGet(a, d, SaveLiveURL(row[d], host), "sync_save", SyncEnd(a))
          PROVE  Moves
      <4>1. d \in Deployment /\ row[d] \in Row BY RowOf DEF TypeOK
      <4>2. SaveLiveURL(row[d], host) \in Row /\ SaveLiveURL(row[d], host).port = row[d].port
        BY <4>1, SaveLiveURLRow DEF TypeOK
      <4> QED BY <3>2, <4>1, <4>2, <1>l, UpdateEffect DEF PcMoves
    <3> QED BY <2>2, <3>1, <3>2 DEF SyncSave
  <2>3. CASE SyncReturn(a)
    BY <2>3, <1>l, GotoEffect DEF SyncReturn, PcMoves
  <2> QED BY <2>1, <2>2, <2>3 DEF SyncStep
<1>3. a \in Deployment => resync[a] /\ pc[a] \notin BeforeSave
  BY DEF SyncStep, SyncList, SyncSave, SyncReturn, At, PortInv, PortAt, BeforeSave
<1> SUFFICES ASSUME NEW e \in Deployment PROVE PortAt(e)' BY DEF PortInv
<1>4. CASE e = a
  BY <1>1, <1>2, <1>3, <1>4 DEF PortInv, PortAt, PcMoves, Applying, BeforeSave, SyncEnd
<1>5. CASE e # a
  BY <1>1, <1>2, <1>5, PortKept DEF PortInv, PcMoves, Keeps, Actor
<1> QED BY <1>4, <1>5

\* The saved port: a crash and restart.
LEMMA RestartPort ==
  ASSUME TypeOK, PortInv, Restart
  PROVE  PortInv'
<1> SUFFICES ASSUME NEW e \in Deployment PROVE PortAt(e)' BY DEF PortInv
<1>1. PortAt(e) /\ row' = row /\ hostPort' = hostPort /\ e # Main /\ e \in Actor
  BY BackendAssumption DEF PortInv, Restart, runtimeVars, BackendAssumption, Actor
<1>2. pc'[e] = "killed" \/ (pc[e] \in Ended /\ pc'[e] = pc[e])
  BY <1>1 DEF Restart, Active
<1> QED BY <1>1, <1>2 DEF PortAt, Ended, BeforeSave, Applying

\* The saved port: what happens to containers and to Caddy by themselves.
LEMMA EnvironmentPort ==
  ASSUME TypeOK, PortInv, (\E d \in Deployment : Environment(d)) \/ CaddyStep
  PROVE  PortInv'
BY PortKept
DEF PortInv, Keeps, Environment, ContainerExits, CaddyStep, CaddyStops, CaddyStarts, runtimeVars,
    serviceVars

-----------------------------------------------------------------------------
\* The cases of a step, one for each lemma about steps.
LEMMA NextCases ==
  ASSUME [Next]_vars
  PROVE  \/ \E d \in Deployment :
              \/ CreateDeployment(d) \/ StoreStep(d) \/ RunStep(d)
              \/ configureDeploymentIngress(d) \/ StageStep(d) \/ Cleanup(d)
         \/ \E a \in Actor : ApplyStep(a) \/ SyncStep(a)
         \/ (\E d \in Deployment : Environment(d)) \/ CaddyStep
         \/ Restart
         \/ UNCHANGED vars
BY DEF Next, WorkerStep, AwaitRequests

\* TypeOK and PortInv together are inductive.
LEMMA TypePortStep ==
  ASSUME TypeOK, PortInv, [Next]_vars
  PROVE  TypeOK' /\ PortInv'
<1>1. ASSUME NEW d \in Deployment, CreateDeployment(d) PROVE TypeOK' /\ PortInv'
  BY <1>1, CreateType, CreatePort
<1>2. ASSUME NEW d \in Deployment, StoreStep(d) PROVE TypeOK' /\ PortInv'
  BY <1>2, StoreType, StorePort
<1>3. ASSUME NEW d \in Deployment, RunStep(d) PROVE TypeOK' /\ PortInv'
  BY <1>3, RunType, RunPort
<1>4. ASSUME NEW d \in Deployment, configureDeploymentIngress(d) PROVE TypeOK' /\ PortInv'
  <2>1. hostPort[d] \in Port
    BY <1>4 DEF configureDeploymentIngress, At, PortInv, PortAt
  <2> QED BY <1>4, <2>1, IngressType, IngressPort
<1>5. ASSUME NEW d \in Deployment, StageStep(d) PROVE TypeOK' /\ PortInv'
  BY <1>5, StageType, StagePort
<1>6. ASSUME NEW d \in Deployment, Cleanup(d) PROVE TypeOK' /\ PortInv'
  BY <1>6, CleanupType, CleanupPort
<1>7. ASSUME NEW a \in Actor, ApplyStep(a) PROVE TypeOK' /\ PortInv'
  BY <1>7, ApplyType, ApplyPort
<1>8. ASSUME NEW a \in Actor, SyncStep(a) PROVE TypeOK' /\ PortInv'
  BY <1>8, SyncType, SyncPort
<1>9. CASE (\E d \in Deployment : Environment(d)) \/ CaddyStep
  BY <1>9, EnvironmentType, EnvironmentPort
<1>10. CASE Restart
  BY <1>10, RestartType, RestartPort
<1>11. CASE UNCHANGED vars
  BY <1>11
  DEF vars, TypeOK, PortInv, PortAt, runtimeVars, routerVars, serviceVars
<1> QED
  BY <1>1, <1>2, <1>3, <1>4, <1>5, <1>6, <1>7, <1>8, <1>9, <1>10, <1>11, NextCases

\* No port is saved or chosen initially.
LEMMA InitPort == Init => PortInv
<1> SUFFICES ASSUME Init, NEW d \in Deployment PROVE PortAt(d) BY DEF PortInv
<1>1. pc[d] = "idle" BY BackendAssumption DEF Init, Actor, BackendAssumption
<1>2. row[d].port = NoPort BY DEF Init, NoRow
<1> QED BY <1>1, <1>2 DEF PortAt, BeforeSave, Applying

(***************************************************************************)
(* Every state of the service is of its type, and the port in a row comes  *)
(* from where PortAt says.  The two are proved together: a route built at  *)
(* "routes" is only a Route because the port has been chosen by then.      *)
(***************************************************************************)
THEOREM TypeCorrect == Spec => [](TypeOK /\ PortInv)
<1>1. Init => TypeOK /\ PortInv BY InitType, InitPort
<1>2. TypeOK /\ PortInv /\ [Next]_vars => TypeOK' /\ PortInv' BY TypePortStep
<1> QED BY <1>1, <1>2, PTL DEF Spec

-----------------------------------------------------------------------------
(***************************************************************************)
(* The writes to a row: each one but SaveLiveURL is made at its own label  *)
(* of the deployment's own worker.                                         *)
(***************************************************************************)
RowStep(d) ==
  \/ row'[d] = row[d]
  \/ pc[d] = "idle" /\ row'[d] = NewRow
  \/ pc[d] = "set_building" /\ row'[d] = SetStatus(row[d], "building")
  \/ pc[d] = "save_image" /\ row'[d] = SaveImageTag(row[d])
  \/ pc[d] = "set_deploying" /\ row'[d] = SetStatus(row[d], "deploying")
  \/ pc[d] = "ran" /\ row'[d] = SaveRuntime(row[d], hostPort[d])
  \/ pc[d] = "complete" /\ row'[d] = Complete(row[d], host)
  \/ pc[d] = "fail" /\ row'[d] = Fail(row[d])
  \/ row'[d] = SaveLiveURL(row[d], host)

OneRow == \E d \in Deployment :
            RowStep(d) /\ \A e \in Deployment \ {d} : row'[e] = row[e]

\* A step changes at most one row, in one of the ways of RowStep.
LEMMA RowChanges ==
  ASSUME TypeOK, [Next]_vars
  PROVE  row' = row \/ OneRow
<1>u. ASSUME NEW a, NEW d \in Deployment, NEW new, NEW next, NEW onError,
             updateAndGet(a, d, new, next, onError)
      PROVE  \/ row' = row
             \/ row'[d] = new /\ \A e \in Deployment \ {d} : row'[e] = row[e]
  BY <1>u DEF updateAndGet, TypeOK
<1>1. ASSUME NEW d \in Deployment, CreateDeployment(d) PROVE row' = row \/ OneRow
  BY <1>1 DEF CreateDeployment, At, OneRow, RowStep, TypeOK
<1>2. ASSUME NEW d \in Deployment, StoreStep(d) PROVE row' = row \/ OneRow
  <2>1. CASE row' = row BY <2>1
  <2>2. CASE SaveDeploymentSourcePath(d) \/ inspectDeploymentSource(d)
    BY <2>2, <1>u DEF SaveDeploymentSourcePath, inspectDeploymentSource, touch, OneRow, RowStep
  <2>3. CASE SetBuilding(d) BY <2>3, <1>u DEF SetBuilding, At, OneRow, RowStep
  <2>4. CASE SaveDeploymentImageTag(d)
    BY <2>4, <1>u DEF SaveDeploymentImageTag, At, OneRow, RowStep
  <2>5. CASE SetDeploying(d) BY <2>5, <1>u DEF SetDeploying, At, OneRow, RowStep
  <2>6. CASE SaveDeploymentRuntime(d)
    BY <2>6, <1>u DEF SaveDeploymentRuntime, At, OneRow, RowStep
  <2>7. CASE CompleteDeployment(d) BY <2>7, <1>u DEF CompleteDeployment, At, OneRow, RowStep
  <2>8. CASE FailDeployment(d) BY <2>8, <1>u DEF FailDeployment, At, OneRow, RowStep
  <2> QED
    BY <1>2, <2>1, <2>2, <2>3, <2>4, <2>5, <2>6, <2>7, <2>8
    DEF StoreStep, loadDeploymentForPipeline, Stage, StartBuild, StartDeploy, GetEnvVars,
        CheckComplete, CheckFail, ValidateTransition, Query
<1>3. ASSUME NEW a \in Actor, SyncStep(a) PROVE row' = row \/ OneRow
  <2>1. CASE row' = row BY <2>1
  <2>2. ASSUME NEW d \in todo[a],
               updateAndGet(a, d, SaveLiveURL(row[d], host), "sync_save", SyncEnd(a))
        PROVE  row' = row \/ OneRow
    <3>1. d \in Deployment BY DEF TypeOK
    <3> QED BY <2>2, <3>1, <1>u DEF OneRow, RowStep
  <2> QED BY <1>3, <2>1, <2>2 DEF SyncStep, SyncList, SyncSave, SyncReturn, Query
<1> QED
  BY <1>1, <1>2, <1>3, NextCases
  DEF RunStep, configureDeploymentIngress, StageStep, Clone, Build, Stage, Cleanup, ApplyStep,
      Environment, CaddyStep, Restart, vars, Query

\* A port that is in a row stays: only SaveDeploymentRuntime writes one, once.
PortsStay ==
  \A d \in Deployment : row'[d].port = row[d].port \/ row[d].port = NoPort

\* A saved port is never changed by a step.
LEMMA NextPortsStay ==
  ASSUME TypeOK, PortInv, [Next]_vars
  PROVE  PortsStay
<1>1. ASSUME NEW d \in Deployment, RowStep(d)
      PROVE  row'[d].port = row[d].port \/ row[d].port = NoPort
  <2>1. row[d] \in Row /\ host \in Host /\ "building" \in Status /\ "deploying" \in Status
    BY RowOf DEF TypeOK, Status
  <2>2. pc[d] \in {"idle", "ran"} => row[d].port = NoPort BY DEF PortInv, PortAt, BeforeSave
  <2>3. NewRow.port = NoPort BY DEF NewRow, NoRow
  <2>4. /\ SetStatus(row[d], "building").port = row[d].port
        /\ SetStatus(row[d], "deploying").port = row[d].port
        /\ SaveImageTag(row[d]).port = row[d].port
    BY <2>1, SetStatusRow, SaveImageTagRow
  <2>5. /\ Complete(row[d], host).port = row[d].port
        /\ SaveLiveURL(row[d], host).port = row[d].port
    BY <2>1, CompleteRow, SaveLiveURLRow
  <2>6. Fail(row[d]).port = row[d].port
    BY <2>1, FailRow
  <2> QED BY <1>1, <2>2, <2>3, <2>4, <2>5, <2>6 DEF RowStep
<1> QED BY <1>1, RowChanges DEF OneRow, PortsStay

\* Routes that carry the saved ports go on carrying them.
LEMMA CarriedStays ==
  ASSUME TypeOK, PortInv, [Next]_vars, NEW rs \in SUBSET Route, CarriesSavedPort(rs)
  PROVE  \A r \in rs : r.port = row'[r.dep].port
<1> SUFFICES ASSUME NEW r \in rs PROVE r.port = row'[r.dep].port OBVIOUS
<1>1. r.dep \in Deployment /\ r.port \in Port /\ r.port = row[r.dep].port
  BY DEF Route, CarriesSavedPort
<1>2. r.port # NoPort BY <1>1, BackendAssumption DEF BackendAssumption
<1> QED BY <1>1, <1>2, NextPortsStay DEF PortsStay

\* caddyRoutes takes the ports from the rows as they are.
LEMMA CaddyRoutesCarry == ASSUME TypeOK PROVE CarriesSavedPort(caddyRoutes)
BY DEF CarriesSavedPort, caddyRoutes

(***************************************************************************)
(* A step takes every set of routes from the sets there were, or builds it *)
(* from the rows.                                                          *)
(***************************************************************************)
Built(rs) == row' = row /\ CarriesSavedPort(rs)

RoutesFrom(rs) ==
  \/ Built(rs)
  \/ \E a \in Actor : rs \subseteq caddyfile.routes \cup routes[a]
  \/ rs = caddy.routes

\* Every set of routes after a step comes from one before it or from the rows.
LEMMA RoutesStep ==
  ASSUME TypeOK, PortInv, [Next]_vars
  PROVE  /\ \A a \in Actor : RoutesFrom(routes'[a])
         /\ RoutesFrom(caddyfile'.routes)
         /\ RoutesFrom(caddy'.routes)
<1> DEFINE Goal == /\ \A a \in Actor : RoutesFrom(routes'[a])
                   /\ RoutesFrom(caddyfile'.routes)
                   /\ RoutesFrom(caddy'.routes)
<1>0. Main \in Actor BY DEF Actor
<1>1. CASE UNCHANGED routerVars
  BY <1>1, <1>0 DEF routerVars, RoutesFrom
<1>2. ASSUME NEW d \in Deployment, configureDeploymentIngress(d) PROVE Goal
  <2>1. row[d].port = hostPort[d] /\ d \in Actor
    BY <1>2, RowOf DEF configureDeploymentIngress, At, PortInv, PortAt
  <2>2. Built(caddyRoutesWith(d, hostPort[d]))
    BY <1>2, <2>1, CaddyRoutesCarry
    DEF Built, CarriesSavedPort, caddyRoutesWith, configureDeploymentIngress, Query
  <2>3. routes'[d] = caddyRoutesWith(d, hostPort[d])
        /\ \A b \in Actor \ {d} : routes'[b] = routes[b]
    BY <1>2, <2>1 DEF configureDeploymentIngress, TypeOK
  <2> QED
    BY <1>0, <1>2, <2>2, <2>3 DEF RoutesFrom, configureDeploymentIngress
<1>3. ASSUME NEW a \in Actor, SyncList(a) PROVE Goal
  <2>1. Built(caddyRoutes) BY <1>3, CaddyRoutesCarry DEF Built, SyncList, Query
  <2>2. routes'[a] = caddyRoutes /\ \A b \in Actor \ {a} : routes'[b] = routes[b]
    BY <1>3 DEF SyncList, TypeOK
  <2> QED BY <1>0, <1>3, <2>1, <2>2 DEF RoutesFrom, SyncList
<1>4. ASSUME NEW a \in Actor, ApplyStep(a) PROVE Goal
  <2>1. routes' = routes
    BY <1>4 DEF ApplyStep, ApplyRoutes, OpenConfig, writeConfig, ensureContainer, Reload
  <2>2. RoutesFrom(caddyfile'.routes)
    <3>1. \/ UNCHANGED caddyfile
          \/ caddyfile' = [routes |-> {}, torn |-> TRUE]
          \/ caddyfile' = Overwrite(caddyfile.routes, routes[a])
          \/ caddyfile' = [routes |-> caddyfile.routes \cup routes[a], torn |-> TRUE]
      BY <1>4 DEF ApplyStep, ApplyRoutes, OpenConfig, writeConfig, ensureContainer, Reload
    <3>2. caddyfile'.routes \subseteq caddyfile.routes \cup routes[a]
      BY <3>1 DEF Overwrite
    <3> QED BY <3>2 DEF RoutesFrom
  <2>3. RoutesFrom(caddy'.routes)
    <3>1. UNCHANGED caddy \/ Load
      BY <1>4 DEF ApplyStep, ApplyRoutes, OpenConfig, writeConfig, ensureContainer, Reload
    <3>2. CASE Load
      <4>1. caddy'.routes \subseteq caddyfile.routes BY <3>2 DEF Load, Loaded
      <4> QED BY <4>1 DEF RoutesFrom
    <3> QED BY <3>1, <3>2 DEF RoutesFrom
  <2> QED BY <2>1, <2>2, <2>3 DEF RoutesFrom
<1>5. CASE CaddyStep
  <2>1. UNCHANGED <<routes, caddyfile>> BY <1>5 DEF CaddyStep, CaddyStops, CaddyStarts
  <2>2. caddy'.routes \subseteq caddyfile.routes
    BY <1>5 DEF CaddyStep, CaddyStops, CaddyStarts, Load, Loaded
  <2> QED BY <1>0, <2>1, <2>2 DEF RoutesFrom
<1>6. CASE Restart
  <2>1. UNCHANGED <<caddyfile, caddy>> /\ \A a \in Actor : routes'[a] = {}
    BY <1>6 DEF Restart
  <2> QED BY <1>0, <2>1 DEF RoutesFrom
<1> QED
  BY <1>1, <1>2, <1>3, <1>4, <1>5, <1>6, NextCases
  DEF CreateDeployment, StoreStep, RunStep, StageStep, Cleanup, SyncStep, SyncSave, SyncReturn,
      Environment, vars

\* RoutesCarrySavedPort is kept by every step.
LEMMA RoutesPortStep ==
  ASSUME TypeOK, PortInv, RoutesCarrySavedPort, [Next]_vars
  PROVE  RoutesCarrySavedPort'
<1>1. ASSUME NEW rs \in SUBSET Route, RoutesFrom(rs)
      PROVE  \A r \in rs : r.port = row'[r.dep].port
  <2>1. CASE Built(rs) BY <2>1 DEF Built, CarriesSavedPort
  <2>2. CASE CarriesSavedPort(rs) BY <2>2, CarriedStays
  <2>3. RoutesFrom(rs) => Built(rs) \/ CarriesSavedPort(rs)
    BY DEF RoutesFrom, RoutesCarrySavedPort, CarriesSavedPort
  <2> QED BY <1>1, <2>1, <2>2, <2>3
<1>2. TypeOK' BY TypePortStep
<1>3. \A a \in Actor : routes'[a] \in SUBSET Route BY <1>2 DEF TypeOK
<1>4. caddyfile'.routes \in SUBSET Route /\ caddy'.routes \in SUBSET Route
  BY <1>2 DEF TypeOK
<1> QED BY <1>1, <1>3, <1>4, RoutesStep DEF RoutesCarrySavedPort, CarriesSavedPort

(***************************************************************************)
(* No set of routes, under way, in the file or in Caddy, sends the traffic *)
(* of a deployment to a port other than the one saved in its row, for any  *)
(* number of workers, failures and restarts.                               *)
(***************************************************************************)
THEOREM RoutesPortCorrect == Spec => []RoutesCarrySavedPort
<1>1. Init => RoutesCarrySavedPort BY DEF Init, RoutesCarrySavedPort, CarriesSavedPort
<1>2. TypeOK /\ PortInv /\ RoutesCarrySavedPort /\ [Next]_vars => RoutesCarrySavedPort'
  BY RoutesPortStep
<1> QED BY <1>1, <1>2, TypeCorrect, PTL DEF Spec

(***************************************************************************)
(* A running row keeps what it got when it was completed: the steps that   *)
(* could take it away come before SaveDeploymentRuntime, when the row has  *)
(* no port yet.                                                            *)
(***************************************************************************)
LEMMA RunningRowStep ==
  ASSUME TypeOK, PortInv, RunningRowComplete, [Next]_vars
  PROVE  RunningRowComplete'
<1> SUFFICES ASSUME NEW d \in Deployment, row'[d].status = "running"
             PROVE  row'[d].image /\ row'[d].port = hostPort'[d] /\ row'[d].port # NoPort
                    /\ row'[d].live # NoHost
  BY DEF RunningRowComplete, ListRunning
<1>1. row[d] \in Row /\ host \in Host /\ PortAt(d) /\ host # NoHost
      /\ "building" \in Status /\ "deploying" \in Status /\ hostPort[d] \in Port \cup {NoPort}
  BY RowOf, BackendAssumption DEF TypeOK, PortInv, Status, BackendAssumption
<1>2. hostPort'[d] = hostPort[d] \/ (pc[d] = "run" /\ row' = row)
  <2>1. \A e \in Deployment : RunStep(e) => row' = row /\ (hostPort' = hostPort \/ FindPort(e))
    BY DEF RunStep, Run, DockerRun, isContainerRunning, probeHealthTargets, captureStartupFailure, runtimeVars
  <2>2. \A e \in Deployment : FindPort(e) => hostPort'[d] = hostPort[d] \/ e = d
    BY DEF FindPort, TypeOK
  <2>3. hostPort' = hostPort \/ \E e \in Deployment : RunStep(e)
    BY NextCases
    DEF CreateDeployment, StoreStep, configureDeploymentIngress, StageStep, Cleanup, ApplyStep,
        SyncStep, SyncList, SyncSave, SyncReturn, Environment, ContainerExits, CaddyStep,
        Restart, vars, runtimeVars
  <2>4. ASSUME NEW e \in Deployment, RunStep(e), hostPort' # hostPort
        PROVE  hostPort'[d] = hostPort[d] \/ (pc[d] = "run" /\ row' = row)
    <3>1. row' = row /\ FindPort(e) BY <2>1, <2>4
    <3>2. CASE e = d BY <3>1, <3>2 DEF FindPort, At
    <3>3. CASE e # d BY <3>1, <3>3, <2>2
    <3> QED BY <3>2, <3>3
  <2>5. CASE hostPort' = hostPort BY <2>5
  <2>6. CASE hostPort' # hostPort BY <2>3, <2>4, <2>6
  <2> QED BY <2>5, <2>6
<1>3. CASE row'[d] = row[d]
  <2>1. row[d].image /\ row[d].port = hostPort[d] /\ row[d].port # NoPort /\ row[d].live # NoHost
    BY <1>3 DEF RunningRowComplete, ListRunning
  <2>2. pc[d] # "run" BY <1>1, <2>1 DEF PortAt, BeforeSave
  <2> QED BY <1>2, <1>3, <2>1, <2>2
<1>4. CASE pc[d] = "complete" /\ row'[d] = Complete(row[d], host)
  <2>1. row[d].port = hostPort[d] /\ hostPort[d] # NoPort
    BY <1>1, <1>4, BackendAssumption DEF PortAt, BackendAssumption
  <2>2. /\ row'[d].image /\ row'[d].live = host
        /\ row'[d].port = row[d].port
    <3>1. row[d] \in Row /\ host \in Host
      BY <1>1
    <3>2. /\ Complete(row[d], host).image = TRUE
          /\ Complete(row[d], host).live = host
          /\ Complete(row[d], host).port = row[d].port
      BY <3>1, CompleteRow
    <3> QED BY <1>4, <3>2
  <2>3. hostPort'[d] = hostPort[d]
    BY <1>2, <1>4
  <2> QED BY <1>1, <2>1, <2>2, <2>3
<1>5. CASE row[d].status = "running" /\ row'[d] \in {SaveImageTag(row[d]), SaveLiveURL(row[d], host)}
  <2>1. row[d].image /\ row[d].port = hostPort[d] /\ row[d].port # NoPort /\ row[d].live # NoHost
    BY <1>5 DEF RunningRowComplete, ListRunning
  <2>2. pc[d] # "run" BY <1>1, <2>1 DEF PortAt, BeforeSave
  <2>3. CASE row'[d] = SaveImageTag(row[d]) BY <1>1, <1>2, <2>1, <2>2, <2>3, SaveImageTagRow
  <2>4. CASE row'[d] = SaveLiveURL(row[d], host)
    <3>1. row'[d].live = host /\ row'[d].port = row[d].port BY <1>1, <2>4, SaveLiveURLRow
    <3>2. row'[d].image = row[d].image BY <1>1, <2>4, SaveLiveURLRow
    <3>3. row[d].image = TRUE BY <1>1, <2>1 DEF Row
    <3> QED BY <1>1, <1>2, <2>1, <2>2, <3>1, <3>2, <3>3
  <2> QED BY <1>5, <2>3, <2>4
<1>6. CASE pc[d] = "ran" /\ row'[d] = SaveRuntime(row[d], hostPort[d])
  <2>1. row[d].status = "running" BY <1>1, <1>6, SaveRuntimeRow
  <2>2. row[d].port # NoPort BY <2>1 DEF RunningRowComplete, ListRunning
  <2> QED BY <1>1, <1>6, <2>2 DEF PortAt, BeforeSave
<1>7. row'[d] = row[d] \/ RowStep(d) BY RowChanges DEF OneRow
<1>8. /\ row'[d] # NewRow
      /\ row'[d] # SetStatus(row[d], "building")
      /\ row'[d] # SetStatus(row[d], "deploying")
      /\ row'[d] # Fail(row[d])
  BY <1>1, SetStatusRow, FailRow DEF NewRow, NoRow
<1>9. /\ row'[d] = SaveImageTag(row[d]) => row[d].status = "running"
      /\ row'[d] = SaveLiveURL(row[d], host) => row[d].status = "running"
  <2>1. SaveImageTag(row[d]).status = row[d].status BY <1>1, SaveImageTagRow
  <2>2. SaveLiveURL(row[d], host).status = row[d].status BY <1>1, SaveLiveURLRow
  <2> QED BY <2>1, <2>2
<1> QED BY <1>3, <1>4, <1>5, <1>6, <1>7, <1>8, <1>9 DEF RowStep

(***************************************************************************)
(* A row marked running has an image, its container's port and a live URL, *)
(* whatever failed on the way.                                             *)
(***************************************************************************)
THEOREM RunningRowCorrect == Spec => []RunningRowComplete
<1>1. Init => RunningRowComplete
  <2> SUFFICES ASSUME Init PROVE RunningRowComplete OBVIOUS
  <2>1. \A d \in Deployment : row[d].status = "absent" BY DEF Init, NoRow
  <2> QED BY <2>1 DEF RunningRowComplete, ListRunning
<1>2. TypeOK /\ PortInv /\ RunningRowComplete /\ [Next]_vars => RunningRowComplete'
  BY RunningRowStep
<1> QED BY <1>1, <1>2, TypeCorrect, PTL DEF Spec

-----------------------------------------------------------------------------
(***************************************************************************)
(* At a label that writes a status, the row still has the status that the  *)
(* check before it accepted: the other workers and the resynchronisation   *)
(* never write the status of d.                                            *)
(***************************************************************************)
Writes == {"idle", "set_building", "set_deploying", "complete", "fail"}

StatusAt(d) ==
  LET status == row[d].status
  IN  /\ pc[d] = "idle" => status = "absent"
      /\ pc[d] = "set_building" => CanTransition(status, "building")
      /\ pc[d] = "set_deploying" => CanTransition(status, "deploying")
      /\ pc[d] = "complete" => CanTransition(status, "running")
      /\ pc[d] = "fail" => MayFail(status)

StatusInv == \A d \in Deployment : StatusAt(d)

\* A step of the worker of d has only StatusAt(d) to establish.
LEMMA StatusOthers ==
  ASSUME NEW d \in Deployment, NEW labels, StatusInv, PcMoves(d, labels),
         \A e \in Deployment \ {d} : row'[e] = row[e], StatusAt(d)'
  PROVE  StatusInv'
<1> SUFFICES ASSUME NEW e \in Deployment \ {d} PROVE StatusAt(e)' BY DEF StatusInv
<1> QED BY DEF StatusInv, StatusAt, PcMoves, Actor

\* StatusInv is kept by a step that ends at no label that writes a status.
LEMMA StatusQuiet ==
  ASSUME NEW d \in Deployment, NEW labels, StatusInv, PcMoves(d, labels),
         labels \cap Writes = {}, \A e \in Deployment \ {d} : row'[e] = row[e]
  PROVE  StatusInv'
<1>1. StatusAt(d)' BY DEF StatusAt, PcMoves, Writes
<1> QED BY <1>1, StatusOthers

\* The checked status: the steps that only touch the store.
LEMMA StoreStatus ==
  ASSUME TypeOK, StatusInv, NEW d \in Deployment, StoreStep(d)
  PROVE  StatusInv'
<1>b. row[d] \in Row /\ d \in Actor /\ hostPort[d] \in Port \cup {NoPort} /\ host \in Host
      /\ "building" \in Status /\ "deploying" \in Status
      /\ AfterFail(d) \in Label /\ AfterFail(d) \notin Writes
  BY RowOf DEF TypeOK, Status, AfterFail, Label, Ended, Writes
<1>u. ASSUME NEW new \in Row, NEW next \in Label \ Writes, NEW onError \in Label \ Writes,
             updateAndGet(d, d, new, next, onError)
      PROVE  StatusInv'
  <2>1. /\ PcMoves(d, {next, onError})
        /\ \A e \in Deployment \ {d} : row'[e] = row[e]
    BY <1>u, <1>b, UpdateEffect
  <2> QED BY <2>1, StatusQuiet
<1>q. ASSUME NEW next \in Label, NEW onError \in Label \ Writes, Query(d, next, onError),
             \/ next \notin Writes
             \/ next = "set_building" /\ CanTransition(row[d].status, "building")
             \/ next = "set_deploying" /\ CanTransition(row[d].status, "deploying")
             \/ next = "complete" /\ CanTransition(row[d].status, "running")
             \/ next = "fail" /\ MayFail(row[d].status)
      PROVE  StatusInv'
  <2>1. PcMoves(d, {next, onError}) /\ row' = row BY <1>q, <1>b, QueryEffect
  <2>2. StatusAt(d)' BY <1>q, <2>1 DEF StatusAt, PcMoves, Writes
  <2> QED BY <2>1, <2>2, StatusOthers
<1> USE DEF Label, Ended, Writes
<1>1. CASE loadDeploymentForPipeline(d)
  <2>1. CASE Query(d, "clone", "returned") BY <2>1, <1>q
  <2>2. CASE Stage(d, "clone")
    <3>1. PcMoves(d, {"clone", "fail_check"}) /\ row' = row
      BY <2>2, <1>b, GotoEffect DEF Stage, PcMoves
    <3> QED BY <3>1, StatusQuiet
  <2> QED BY <1>1, <2>1, <2>2 DEF loadDeploymentForPipeline
<1>2. CASE SaveDeploymentSourcePath(d) BY <1>2, <1>b, <1>u DEF SaveDeploymentSourcePath, touch
<1>3. CASE inspectDeploymentSource(d) BY <1>3, <1>b, <1>u DEF inspectDeploymentSource, touch
<1>4. CASE StartBuild(d) BY <1>4, <1>q DEF StartBuild, ValidateTransition
<1>5. CASE SetBuilding(d) BY <1>5, <1>b, <1>u, SetStatusRow DEF SetBuilding
<1>6. CASE SaveDeploymentImageTag(d)
  BY <1>6, <1>b, <1>u, SaveImageTagRow DEF SaveDeploymentImageTag
<1>7. CASE StartDeploy(d) BY <1>7, <1>q DEF StartDeploy, ValidateTransition
<1>8. CASE SetDeploying(d) BY <1>8, <1>b, <1>u, SetStatusRow DEF SetDeploying
<1>9. CASE GetEnvVars(d) BY <1>9, <1>q DEF GetEnvVars
<1>10. CASE SaveDeploymentRuntime(d)
  BY <1>10, <1>b, <1>u, SaveRuntimeRow DEF SaveDeploymentRuntime
<1>11. CASE CheckComplete(d) BY <1>11, <1>q DEF CheckComplete, ValidateTransition
<1>12. CASE CompleteDeployment(d) BY <1>12, <1>b, <1>u, CompleteRow DEF CompleteDeployment
<1>13. CASE CheckFail(d)
  <2>1. Query(d, IF MayFail(row[d].status) THEN "fail" ELSE AfterFail(d), AfterFail(d))
    BY <1>13 DEF CheckFail
  <2>2. CASE MayFail(row[d].status) BY <1>b, <1>q, <2>1, <2>2
  <2>3. CASE ~MayFail(row[d].status) BY <1>b, <1>q, <2>1, <2>3
  <2> QED BY <2>2, <2>3
<1>14. CASE FailDeployment(d)
  <2> HIDE DEF Label, Ended, Writes
  <2> QED BY <1>14, <1>b, <1>u, FailRow DEF FailDeployment
<1> QED
  BY <1>1, <1>2, <1>3, <1>4, <1>5, <1>6, <1>7, <1>8, <1>9, <1>10, <1>11, <1>12, <1>13,
     <1>14, StoreStep(d) DEF StoreStep

\* StatusInv is inductive, given TypeOK.
LEMMA StatusStep ==
  ASSUME TypeOK, StatusInv, [Next]_vars
  PROVE  StatusInv'
<1>1. ASSUME NEW d \in Deployment, CreateDeployment(d) PROVE StatusInv'
  <2>1. CASE UNCHANGED <<row, pc>> BY <2>1 DEF StatusInv, StatusAt
  <2>2. CASE row' = [row EXCEPT ![d] = NewRow] /\ (Goto(d, "load") \/ Goto(d, "rejected"))
    <3>1. PcMoves(d, {"load", "rejected"})
      BY <2>2, RowOf, GotoEffect DEF PcMoves, Label, Ended
    <3>2. \A e \in Deployment \ {d} : row'[e] = row[e] BY <2>2 DEF TypeOK
    <3> QED BY <3>1, <3>2, StatusQuiet DEF Writes
  <2> QED BY <1>1, <2>1, <2>2 DEF CreateDeployment
<1>2. ASSUME NEW d \in Deployment, StoreStep(d) PROVE StatusInv' BY <1>2, StoreStatus
<1>3. ASSUME NEW d \in Deployment, RunStep(d) PROVE StatusInv'
  <2>1. PcMoves(d, {"docker_run", "health", "probe", "ran", "capture", "run_failed"}) /\ row' = row
    BY <1>3, RowOf, GotoEffect
    DEF RunStep, Run, FindPort, DockerRun, isContainerRunning, probeHealthTargets, captureStartupFailure, PcMoves, Label
  <2> QED BY <2>1, StatusQuiet DEF Writes
<1>4. ASSUME NEW d \in Deployment, configureDeploymentIngress(d) PROVE StatusInv'
  <2>1. PcMoves(d, {"open", "cleanup"}) /\ row' = row
    BY <1>4, RowOf, QueryEffect DEF configureDeploymentIngress, Label
  <2> QED BY <2>1, StatusQuiet DEF Writes
<1>5. ASSUME NEW d \in Deployment, StageStep(d) PROVE StatusInv'
  <2>1. PcMoves(d, {"save_source", "save_image", "fail_check"}) /\ row' = row
    BY <1>5, RowOf, GotoEffect DEF StageStep, Clone, Build, Stage, PcMoves, Label
  <2> QED BY <2>1, StatusQuiet DEF Writes
<1>6. ASSUME NEW d \in Deployment, Cleanup(d) PROVE StatusInv'
  <2>1. PcMoves(d, {"fail_check"}) /\ row' = row
    BY <1>6, RowOf, GotoEffect DEF Cleanup, Label
  <2> QED BY <2>1, StatusQuiet DEF Writes
<1>7. ASSUME NEW a \in Actor, ApplyStep(a) PROVE StatusInv'
  <2>1. PcMoves(a, Applying) /\ row' = row
    BY <1>7, GotoEffect
    DEF ApplyStep, ApplyRoutes, OpenConfig, writeConfig, ensureContainer, Reload, PcMoves,
        Applying, Label
  <2> QED BY <2>1 DEF StatusInv, StatusAt, PcMoves, Applying, Actor
<1>8. ASSUME NEW a \in Actor, SyncStep(a) PROVE StatusInv'
  <2> DEFINE Moves == /\ PcMoves(a, {"open", "sync_save", SyncEnd(a)})
                      /\ \A d \in Deployment : row'[d].status = row[d].status
  <2>l. /\ SyncEnd(a) \in Label /\ "sync_save" \in Label /\ "open" \in Label
        /\ SyncEnd(a) \in {"serving", "returned"}
    BY DEF SyncEnd, Label, Ended
  <2>1. CASE SyncList(a)
    <3>1. Moves BY <2>1, <2>l, QueryEffect DEF SyncList, PcMoves
    <3> QED BY <3>1, <2>l DEF StatusInv, StatusAt, PcMoves, Actor
  <2>2. CASE SyncSave(a)
    <3>1. CASE Goto(a, "open") /\ UNCHANGED row
      <4>1. Moves BY <3>1, <2>l, GotoEffect DEF PcMoves
      <4> QED BY <4>1, <2>l DEF StatusInv, StatusAt, PcMoves, Actor
    <3>2. ASSUME NEW d \in todo[a],
                 updateAndGet(a, d, SaveLiveURL(row[d], host), "sync_save", SyncEnd(a))
          PROVE  StatusInv'
      <4>1. d \in Deployment /\ row[d] \in Row BY RowOf DEF TypeOK
      <4>2. SaveLiveURL(row[d], host) \in Row
            /\ SaveLiveURL(row[d], host).status = row[d].status
        BY <4>1, SaveLiveURLRow DEF TypeOK
      <4>3. Moves BY <3>2, <4>1, <4>2, <2>l, UpdateEffect DEF PcMoves
      <4> QED BY <4>3, <2>l DEF StatusInv, StatusAt, PcMoves, Actor
    <3> QED BY <2>2, <3>1, <3>2 DEF SyncSave
  <2>3. CASE SyncReturn(a)
    <3>1. Moves BY <2>3, <2>l, GotoEffect DEF SyncReturn, PcMoves
    <3> QED BY <3>1, <2>l DEF StatusInv, StatusAt, PcMoves, Actor
  <2> QED BY <1>8, <2>1, <2>2, <2>3 DEF SyncStep
<1>9. CASE (\E d \in Deployment : Environment(d)) \/ CaddyStep
  BY <1>9
  DEF StatusInv, StatusAt, Environment, ContainerExits, CaddyStep, CaddyStops, CaddyStarts
<1>10. CASE Restart
  <2> SUFFICES ASSUME NEW e \in Deployment PROVE StatusAt(e)' BY DEF StatusInv
  <2>1. StatusAt(e) /\ row' = row /\ e # Main /\ e \in Actor
    BY <1>10, BackendAssumption DEF StatusInv, Restart, BackendAssumption, Actor
  <2>2. pc'[e] = "killed" \/ pc'[e] = pc[e] BY <1>10, <2>1 DEF Restart
  <2> QED BY <2>1, <2>2 DEF StatusAt
<1>11. CASE UNCHANGED vars BY <1>11 DEF vars, StatusInv, StatusAt
<1> QED
  BY <1>1, <1>2, <1>3, <1>4, <1>5, <1>6, <1>7, <1>8, <1>9, <1>10, <1>11, NextCases

\* Every worker is idle and every row absent initially.
LEMMA InitStatus == Init => StatusInv
<1> SUFFICES ASSUME Init, NEW d \in Deployment PROVE StatusAt(d) BY DEF StatusInv
<1>1. pc[d] = "idle" BY BackendAssumption DEF Init, Actor, BackendAssumption
<1>2. row[d].status = "absent" BY DEF Init, NoRow
<1> QED BY <1>1, <1>2 DEF StatusAt

\* A status is only written over the one its check accepted.
LEMMA StatusCorrect == Spec => []StatusInv
<1>1. Init => StatusInv BY InitStatus
<1>2. TypeOK /\ StatusInv /\ [Next]_vars => StatusInv' BY StatusStep
<1> QED BY <1>1, <1>2, TypeCorrect, PTL DEF Spec

\* Each way a row changes leaves its status or takes it along an edge.
LEMMA StatusMoves ==
  ASSUME TypeOK, StatusInv, NEW d \in Deployment, RowStep(d)
  PROVE  \/ row'[d].status = row[d].status
         \/ row[d].status = "absent" /\ row'[d].status = "pending"
         \/ row'[d].status \in Status /\ CanTransition(row[d].status, row'[d].status)
<1>1. row[d] \in Row /\ host \in Host /\ StatusAt(d)
      /\ hostPort[d] \in Port \cup {NoPort} 
      /\ "building" \in Status /\ "deploying" \in Status
      /\ "running" \in Status /\ "failed" \in Status
  BY RowOf DEF TypeOK, StatusInv, Status
<1>2. CASE row'[d] = row[d] \/ row'[d] = SaveImageTag(row[d])
  BY <1>1, <1>2, SaveImageTagRow
<1>3. CASE row'[d] = SaveRuntime(row[d], hostPort[d]) BY <1>1, <1>3, SaveRuntimeRow
<1>4. CASE row'[d] = SaveLiveURL(row[d], host) BY <1>1, <1>4, SaveLiveURLRow
<1>5. CASE pc[d] = "idle" /\ row'[d] = NewRow BY <1>1, <1>5 DEF StatusAt, NewRow, NoRow
<1>6. CASE pc[d] = "set_building" /\ row'[d] = SetStatus(row[d], "building")
  <2>0. SetStatus(row[d], "building").status = "building" BY <1>1, SetStatusRow
  <2>1. row'[d].status = "building" BY <1>6, <2>0
  <2>2. CanTransition(row[d].status, "building") BY <1>1, <1>6 DEF StatusAt, CanTransition, MayFail
  <2> QED BY <1>1, <2>1, <2>2 DEF CanTransition
<1>7. CASE pc[d] = "set_deploying" /\ row'[d] = SetStatus(row[d], "deploying")
  <2>0. SetStatus(row[d], "deploying").status = "deploying" BY <1>1, SetStatusRow
  <2>1. row'[d].status = "deploying" BY <1>7, <2>0
  <2>2. CanTransition(row[d].status, "deploying") BY <1>1, <1>7 DEF StatusAt, CanTransition, MayFail
  <2> QED BY <1>1, <2>1, <2>2 DEF CanTransition
<1>8. CASE pc[d] = "complete" /\ row'[d] = Complete(row[d], host)
  <2>0. Complete(row[d], host).status = "running" BY <1>1, CompleteRow
  <2>1. row'[d].status = "running" BY <1>8, <2>0
  <2>2. CanTransition(row[d].status, "running") BY <1>1, <1>8 DEF StatusAt, CanTransition, MayFail
  <2> QED BY <1>1, <2>1, <2>2 DEF CanTransition
<1>9. CASE pc[d] = "fail" /\ row'[d] = Fail(row[d])
  BY <1>1, <1>9, FailRow DEF StatusAt, MayFail
<1> QED BY <1>2, <1>3, <1>4, <1>5, <1>6, <1>7, <1>8, <1>9 DEF RowStep

(***************************************************************************)
(* The statuses of the rows implement DeploymentLifecycle: no              *)
(* interleaving of workers, failures, lost answers and restarts makes a    *)
(* row jump.                                                               *)
(***************************************************************************)
THEOREM LifecycleCorrect == Spec => LifecycleSpec
<1> DEFINE statuses == [d \in Deployment |-> row[d].status]
<1>1. Init => Lifecycle!Init BY DEF Init, Lifecycle!Init, NoRow
<1>2. ASSUME TypeOK, StatusInv, [Next]_vars PROVE [Lifecycle!Next]_statuses
  <2>1. CASE row' = row BY <2>1
  <2>2. CASE OneRow
    <3>1. PICK d \in Deployment : RowStep(d) /\ \A e \in Deployment \ {d} : row'[e] = row[e]
      BY <2>2 DEF OneRow
    <3>2. statuses' = [statuses EXCEPT ![d] = row'[d].status] BY <3>1
    <3>3. CASE row'[d].status = row[d].status BY <3>2, <3>3
    <3>4. CASE row[d].status = "absent" /\ row'[d].status = "pending"
      <4>1. Lifecycle!Create(d) BY <3>2, <3>4 DEF Lifecycle!Create
      <4> QED BY <4>1 DEF Lifecycle!Next
    <3>5. CASE row'[d].status \in Status /\ CanTransition(row[d].status, row'[d].status)
      <4>1. PICK next \in Status : next = row'[d].status BY <3>5
      <4>2. Lifecycle!Move(d, next)
        BY <3>2, <3>5, <4>1 DEF Lifecycle!Move, Lifecycle!CanTransition, CanTransition,
                                Lifecycle!allowedTransitions, allowedTransitions
      <4>3. next \in Lifecycle!Status BY DEF Lifecycle!Status, Status
      <4> QED BY <4>2, <4>3 DEF Lifecycle!Next
    <3> QED BY <1>2, <3>1, <3>3, <3>4, <3>5, StatusMoves
  <2> QED BY <1>2, <2>1, <2>2, RowChanges
<1> QED BY <1>1, <1>2, TypeCorrect, StatusCorrect, PTL DEF Spec, LifecycleSpec, Lifecycle!Spec
=============================================================================
