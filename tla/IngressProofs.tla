---------------------------- MODULE IngressProofs ----------------------------
(***************************************************************************)
(* Theorems about the ingress that DeploymentService keeps: what Caddy     *)
(* serves after a startup, for running deployments, and after a failure.   *)
(*                                                                         *)
(* The Caddyfile is written without a lock, so each of them rests on the   *)
(* writer being alone: at startup because no request is served yet, later  *)
(* because deployments are made one after the other.                       *)
(***************************************************************************)
EXTENDS PipelineProofs

Deps(rs) == {r.dep : r \in rs}

Resting == Ended \cup {"serving"}

Alone(a) == \A b \in Actor \ {a} : pc[b] \in Resting

\* The steps of one actor.
Own(a) ==
  \/ /\ a \in Deployment
     /\ \/ StoreStep(a) \/ RunStep(a) \/ configureDeploymentIngress(a)
        \/ StageStep(a) \/ Cleanup(a)
  \/ ApplyStep(a)
  \/ SyncStep(a)

\* The steps of nobody in particular.
Outside ==
  \/ \E d \in Deployment : CreateDeployment(d) \/ Environment(d)
  \/ CaddyStep
  \/ UNCHANGED vars

\* An actor that has no work takes no step of its own.
LEMMA OwnWorks ==
  ASSUME TypeOK, NEW a \in Actor, Own(a)
  PROVE  pc[a] \notin Resting
<1> USE DEF Resting, Ended
<1>1. CASE a \in Deployment /\ (StoreStep(a) \/ configureDeploymentIngress(a) \/ StageStep(a))
  <2>1. StoreMove(a) BY <1>1, StoreLocal, IngressLocal, StageLocal
  <2> QED BY <2>1 DEF StoreMove, Call, Ask, Write, Work
<1>2. CASE a \in Deployment /\ (RunStep(a) \/ Cleanup(a))
  <2>1. RunMove(a) \/ CleanupMove(a) BY <1>2, RunLocal, CleanupLocal
  <2> QED BY <2>1 DEF RunMove, CleanupMove
<1>3. CASE ApplyStep(a)
  BY <1>3 DEF ApplyStep, ApplyRoutes, OpenConfig, writeConfig, ensureContainer, Reload, At
<1>4. CASE SyncStep(a) BY <1>4 DEF SyncStep, SyncList, SyncSave, SyncReturn, At
<1> QED BY <1>1, <1>2, <1>3, <1>4 DEF Own

\* NextCases, by the actor whose step it is.
LEMMA OwnCases ==
  ASSUME [Next]_vars
  PROVE  (\E a \in Actor : Own(a)) \/ Outside \/ Restart
BY NextCases DEF Own, Outside, Actor

\* While an actor is alone, only it works.
LEMMA AloneCases ==
  ASSUME TypeOK, NEW a \in Actor, Alone(a), [Next]_vars
  PROVE  Own(a) \/ Outside \/ Restart
BY OwnWorks, OwnCases DEF Alone

\* An actor without work is given some by a request or a restart only.
LEMMA RestStays ==
  ASSUME TypeOK, [Next]_vars, NEW a \in Actor, pc[a] \in Resting
  PROVE  \/ pc'[a] \in Resting /\ (pc'[a] = "serving" => pc[a] = "serving")
         \/ pc'[a] = "load" \/ (a = Main /\ pc'[a] = "sync_list")
<1> USE DEF Resting, Ended
<1>1. ASSUME NEW b \in Actor, Own(b) PROVE pc'[a] = pc[a]
  <2>1. b # a BY <1>1, OwnWorks
  <2>2. Own(b) BY <1>1
  <2>3. CASE b \in Deployment /\ (StoreStep(b) \/ configureDeploymentIngress(b) \/ StageStep(b)
                                  \/ RunStep(b) \/ Cleanup(b))
    <3>1. \E l : Goto(b, l)
      BY <2>3
      DEF StoreStep, configureDeploymentIngress, StageStep, RunStep, Cleanup, Run, FindPort,
          DockerRun, isContainerRunning, probeHealthTargets, captureStartupFailure, Clone,
          Build, Stage, loadDeploymentForPipeline, SaveDeploymentSourcePath,
          inspectDeploymentSource, StartBuild, SetBuilding, SaveDeploymentImageTag,
          StartDeploy, SetDeploying, GetEnvVars, SaveDeploymentRuntime, CheckComplete,
          CompleteDeployment, CheckFail, FailDeployment, touch, ValidateTransition, Query,
          updateAndGet
    <3> QED BY <2>1, <3>1, GotoAt
  <2>4. CASE ApplyStep(b) \/ SyncStep(b)
    <3>1. \E l : Goto(b, l)
      BY <2>4
      DEF ApplyStep, ApplyRoutes, OpenConfig, writeConfig, ensureContainer, Reload, SyncStep,
          SyncList, SyncSave, SyncReturn, Query, updateAndGet
    <3> QED BY <2>1, <3>1, GotoAt
  <2> QED BY <2>2, <2>3, <2>4 DEF Own
<1>2. CASE Outside
  <2>1. ASSUME NEW d \in Deployment, CreateDeployment(d)
        PROVE  pc'[a] \in {pc[a], "load", "rejected"}
    BY <2>1, GotoAt DEF CreateDeployment, Actor
  <2>2. CASE UNCHANGED pc BY <2>2
  <2> QED
    BY <1>2, <2>1, <2>2
    DEF Outside, Environment, ContainerExits, CaddyStep, CaddyStops, CaddyStarts, vars
<1>3. CASE Restart BY <1>3 DEF Restart, Active, Actor
<1> QED BY <1>1, <1>2, <1>3, OwnCases

-----------------------------------------------------------------------------
(***************************************************************************)
(* Main: it accepts no request before its resynchronisation has ended.     *)
(***************************************************************************)
StartInv ==
  /\ pc[Main] # "serving" => Active = {}
  /\ pc[Main] \in Listing \cup Applying \cup {"serving"}
  /\ resync[Main]

LEMMA MainActor == Main \in Actor /\ Main \notin Deployment
BY BackendAssumption DEF Actor, BackendAssumption

\* Before it serves, Main is alone.
LEMMA MainAlone == ASSUME StartInv, pc[Main] # "serving" PROVE Alone(Main)
BY MainActor DEF StartInv, Alone, Active, Resting, Actor

\* The startup code only moves by its own steps.
LEMMA MainMoves ==
  ASSUME TypeOK, [Next]_vars
  PROVE  \/ pc'[Main] = pc[Main] /\ resync'[Main] = resync[Main]
         \/ ApplyStep(Main) \/ SyncStep(Main) \/ Restart
<1>1. ASSUME NEW d \in Deployment, StoreStep(d) \/ StageStep(d) \/ RunStep(d)
      PROVE  pc'[Main] = pc[Main] /\ resync'[Main] = resync[Main]
  <2>1. resync' = resync BY <1>1 DEF StoreStep, StageStep, RunStep, serviceVars
  <2>2. \E l : Goto(d, l)
    BY <1>1
    DEF StoreStep, StageStep, RunStep, Run, FindPort, DockerRun, isContainerRunning,
        probeHealthTargets, captureStartupFailure, Clone, Build, Stage,
        loadDeploymentForPipeline, SaveDeploymentSourcePath, inspectDeploymentSource,
        StartBuild, SetBuilding, SaveDeploymentImageTag, StartDeploy, SetDeploying, GetEnvVars,
        SaveDeploymentRuntime, CheckComplete, CompleteDeployment, CheckFail, FailDeployment,
        touch, ValidateTransition, Query, updateAndGet
  <2> QED BY <2>1, <2>2, GotoAt, MainActor DEF Actor
<1>2. ASSUME NEW d \in Deployment,
             configureDeploymentIngress(d) \/ Cleanup(d) \/ CreateDeployment(d)
      PROVE  pc'[Main] = pc[Main] /\ resync'[Main] = resync[Main]
  <2>1. resync'[Main] = resync[Main]
    BY <1>2, MainActor
    DEF configureDeploymentIngress, Cleanup, CreateDeployment, serviceVars, TypeOK
  <2>2. pc' = pc \/ \E l : Goto(d, l)
    BY <1>2 DEF configureDeploymentIngress, Cleanup, CreateDeployment, Query
  <2> QED BY <2>1, <2>2, GotoAt, MainActor DEF Actor
<1>3. ASSUME NEW a \in Actor \ {Main}, ApplyStep(a) \/ SyncStep(a)
      PROVE  pc'[Main] = pc[Main] /\ resync'[Main] = resync[Main]
  <2>1. resync' = resync
    BY <1>3 DEF ApplyStep, SyncStep, SyncList, SyncSave, SyncReturn, serviceVars
  <2>2. \E l : Goto(a, l)
    BY <1>3
    DEF ApplyStep, ApplyRoutes, OpenConfig, writeConfig, ensureContainer, Reload, SyncStep,
        SyncList, SyncSave, SyncReturn, Query, updateAndGet
  <2> QED BY <2>1, <2>2, GotoAt, MainActor
<1>4. CASE (\E d \in Deployment : Environment(d)) \/ CaddyStep \/ UNCHANGED vars
  BY <1>4
  DEF Environment, ContainerExits, CaddyStep, CaddyStops, CaddyStarts, vars, serviceVars
<1> QED BY <1>1, <1>2, <1>3, <1>4, NextCases

\* StartInv is inductive.
LEMMA StartStep ==
  ASSUME TypeOK, StartInv, [Next]_vars
  PROVE  StartInv'
<1>0. SyncEnd(Main) = "serving" BY DEF SyncEnd
<1>1. pc'[Main] \in Listing \cup Applying \cup {"serving"} /\ resync'[Main]
  <2>1. CASE ApplyStep(Main)
    BY <2>1, GotoAt, MainActor
    DEF ApplyStep, ApplyRoutes, OpenConfig, writeConfig, ensureContainer, Reload, serviceVars,
        StartInv, Applying
  <2>2. CASE SyncStep(Main)
    BY <1>0, <2>2, GotoAt, MainActor
    DEF SyncStep, SyncList, SyncSave, SyncReturn, Query, updateAndGet, serviceVars, StartInv,
        Applying, Listing
  <2>3. CASE Restart BY <2>3, MainActor DEF Restart, Listing
  <2> QED BY <2>1, <2>2, <2>3, MainMoves DEF StartInv
<1>2. ASSUME pc'[Main] # "serving" PROVE Active' = {}
  <2>1. CASE Restart BY <2>1, MainActor DEF Restart, Active, Ended, Actor
  <2>2. CASE ~Restart
    <3>1. pc[Main] # "serving"
      BY <1>2, <2>2, MainMoves
      DEF ApplyStep, ApplyRoutes, OpenConfig, writeConfig, ensureContainer, Reload, SyncStep,
          SyncList, SyncSave, SyncReturn, At
    <3>2. \A d \in Deployment : pc[d] \in Ended /\ ~CreateDeployment(d)
      BY <3>1 DEF StartInv, Active, CreateDeployment, At
    <3> QED BY <3>2, EndedStays DEF Active
  <2> QED BY <2>1, <2>2
<1> QED BY <1>1, <1>2 DEF StartInv

\* No worker exists while the backend resynchronises at startup.
LEMMA StartCorrect == Spec => []StartInv
<1>1. Init => StartInv
  BY InitLocal, MainActor DEF Init, StartInv, Active, Ended, Listing
<1>2. TypeOK /\ StartInv /\ [Next]_vars => StartInv' BY StartStep
<1> QED BY <1>1, <1>2, TypeCorrect, PTL DEF Spec

-----------------------------------------------------------------------------
(***************************************************************************)
(* There are finitely many rows, so finitely many routes: a file that was  *)
(* truncated is shorter than anything written to it.                       *)
(***************************************************************************)
Started == {d \in Deployment : pc[d] # "idle"}

FiniteInv == IsFiniteSet(Started) /\ \A a \in Actor : IsFiniteSet(routes[a])

\* The routes of finitely many rows are finitely many.
LEMMA FiniteRoutes ==
  ASSUME TypeOK, StageInv, FiniteInv
  PROVE  IsFiniteSet(caddyRoutes)
<1> DEFINE Rows == {d \in ListRunning : row[d].port # NoPort}
           f == [d \in Rows |-> [dep |-> d, host |-> host, port |-> row[d].port]]
<1>1. Rows \in SUBSET Started
  BY DEF Started, ListRunning, StageInv, StageAt
<1>2. IsFiniteSet(Rows) BY <1>1, FS_Subset DEF FiniteInv
<1>3. f \in Surjection(Rows, caddyRoutes) BY DEF Surjection, caddyRoutes
<1> QED BY <1>2, <1>3, FS_Surjection

\* Whatever is written over nothing is not torn.
LEMMA OverwriteNothing ==
  ASSUME NEW new, IsFiniteSet(new)
  PROVE  Overwrite({}, new) = [routes |-> new, torn |-> FALSE]
BY FS_EmptySet, FS_CardinalityType DEF Overwrite

\* FiniteInv is inductive.
LEMMA FiniteStep ==
  ASSUME TypeOK, StageInv, FiniteInv, [Next]_vars
  PROVE  FiniteInv'
<1>1. IsFiniteSet(Started')
  <2>1. ASSUME NEW d \in Deployment, CreateDeployment(d) PROVE IsFiniteSet(Started')
    <3>1. \A e \in Deployment \ {d} : pc'[e] = pc[e] BY <2>1, CreateLocal DEF Elsewhere
    <3>2. Started' \in SUBSET (Started \cup {d}) BY <3>1 DEF Started
    <3> QED BY <3>2, FS_AddElement, FS_Subset DEF FiniteInv
  <2>2. CASE \A d \in Deployment : ~CreateDeployment(d)
    <3>1. Started' \in SUBSET Started BY <2>2, EndedStays DEF Started, Ended
    <3> QED BY <3>1, FS_Subset DEF FiniteInv
  <2> QED BY <2>1, <2>2
<1>2. ASSUME NEW a \in Actor PROVE IsFiniteSet(routes'[a])
  <2>0. IsFiniteSet(routes[a]) /\ IsFiniteSet(caddyRoutes) BY FiniteRoutes DEF FiniteInv
  <2>1. CASE routes' = routes BY <2>0, <2>1
  <2>2. ASSUME NEW d \in Deployment, configureDeploymentIngress(d) PROVE IsFiniteSet(routes'[a])
    <3>1. {r \in caddyRoutes : r.dep # d} \in SUBSET caddyRoutes OBVIOUS
    <3>2. IsFiniteSet(caddyRoutesWith(d, hostPort[d]))
      BY <2>0, <3>1, FS_Subset, FS_AddElement DEF caddyRoutesWith
    <3> QED BY <2>0, <2>2, <3>2 DEF configureDeploymentIngress, TypeOK
  <2>3. ASSUME NEW b \in Actor, SyncList(b) PROVE IsFiniteSet(routes'[a])
    BY <2>0, <2>3 DEF SyncList, TypeOK
  <2>4. CASE Restart BY <2>4, FS_EmptySet DEF Restart
  <2> QED
    BY <2>1, <2>2, <2>3, <2>4, NextCases
    DEF CreateDeployment, StoreStep, RunStep, StageStep, Cleanup, ApplyStep, ApplyRoutes,
        OpenConfig, writeConfig, ensureContainer, Reload, SyncStep, SyncSave, SyncReturn,
        Environment, CaddyStep, CaddyStops, CaddyStarts, routerVars, vars
<1> QED BY <1>1, <1>2 DEF FiniteInv

LEMMA FiniteCorrect == Spec => []FiniteInv
<1>1. Init => FiniteInv
  <2> SUFFICES ASSUME Init PROVE FiniteInv OBVIOUS
  <2>1. Started = {} BY InitLocal DEF Started
  <2> QED BY <2>1, FS_EmptySet DEF Init, FiniteInv
<1>2. TypeOK /\ StageInv /\ FiniteInv /\ [Next]_vars => FiniteInv' BY FiniteStep
<1> QED BY <1>1, <1>2, TypeCorrect, StageCorrect, PTL DEF Spec

-----------------------------------------------------------------------------
(***************************************************************************)
(* The Caddyfile under an actor that is alone: truncated when it is about  *)
(* to be written, and exactly the routes of the actor from then on.        *)
(***************************************************************************)
FileAt(a) ==
  /\ pc[a] = "write" => caddyfile.routes = {}
  /\ pc[a] \in {"ensure", "reload", "applied"}
       => caddyfile = [routes |-> routes[a], torn |-> FALSE]

\* Another actor, or nobody, moves: what a lone actor's ingress depends on stays.
LEMMA OutsideKeeps ==
  ASSUME TypeOK, NEW a \in Actor, Outside
  PROVE  /\ UNCHANGED <<routes, caddyfile, resync, todo, host>>
         /\ pc'[a] = pc[a] \/ (pc[a] = "idle" /\ pc'[a] \in {"load", "rejected"})
         /\ UNCHANGED caddy \/ CaddyStep
<1>1. ASSUME NEW d \in Deployment, CreateDeployment(d)
      PROVE  /\ UNCHANGED <<routerVars, serviceVars>>
             /\ pc'[a] = pc[a] \/ (pc[a] = "idle" /\ pc'[a] \in {"load", "rejected"})
  BY <1>1, GotoAt DEF CreateDeployment, Actor, At
<1>2. ASSUME NEW d \in Deployment, Environment(d)
      PROVE  UNCHANGED <<routerVars, serviceVars, pc>>
  BY <1>2 DEF Environment, ContainerExits
<1>3. CASE CaddyStep BY <1>3 DEF CaddyStep, CaddyStops, CaddyStarts, serviceVars
<1>4. CASE UNCHANGED vars BY <1>4 DEF vars, routerVars, serviceVars
<1> QED BY <1>1, <1>2, <1>3, <1>4 DEF Outside, routerVars, serviceVars

\* The labels at which the file is not the actor's.
LEMMA FileElsewhere ==
  ASSUME NEW a, pc'[a] \notin {"write", "ensure", "reload", "applied"}
  PROVE  FileAt(a)'
BY DEF FileAt

\* A step of a worker outside ApplyRoutes ends outside it, or at its beginning.
LEMMA WorkElsewhere ==
  ASSUME TypeOK, NEW d \in Deployment,
         StoreStep(d) \/ RunStep(d) \/ configureDeploymentIngress(d) \/ StageStep(d) \/ Cleanup(d)
  PROVE  pc'[d] \notin {"write", "ensure", "reload", "applied", "apply_failed"}
<1>1. CASE StoreStep(d) \/ configureDeploymentIngress(d) \/ StageStep(d)
  <2>1. StoreMove(d) BY <1>1, StoreLocal, IngressLocal, StageLocal
  <2> QED BY <2>1 DEF StoreMove, Call, Ask, Write, Work, AfterFail
<1>2. CASE RunStep(d) \/ Cleanup(d)
  <2>1. RunMove(d) \/ CleanupMove(d) BY <1>2, RunLocal, CleanupLocal
  <2> QED BY <2>1 DEF RunMove, CleanupMove
<1> QED BY <1>1, <1>2

\* Where SyncCaddyRoutes may go.
LEMMA SyncLabels ==
  ASSUME TypeOK, NEW a \in Actor, SyncStep(a)
  PROVE  pc'[a] \in {"sync_save", "open", "serving", "returned"}
BY GotoAt DEF SyncStep, SyncList, SyncSave, SyncReturn, Query, updateAndGet, SyncEnd

\* FileAt is kept while the actor is alone.
LEMMA FileMove ==
  ASSUME TypeOK, FiniteInv, NEW a \in Actor, Alone(a), FileAt(a), [Next]_vars
  PROVE  FileAt(a)'
<1>1. CASE ApplyStep(a)
  <2>0. ApplyRoutes(a) /\ UNCHANGED routes
    BY <1>1 DEF ApplyStep, ApplyRoutes, OpenConfig, writeConfig, ensureContainer, Reload
  <2>1. CASE OpenConfig(a)
    BY <2>1, GotoAt DEF OpenConfig, FileAt
  <2>2. CASE writeConfig(a)
    <3>1. Overwrite(caddyfile.routes, routes[a]) = [routes |-> routes[a], torn |-> FALSE]
      BY <2>2, OverwriteNothing DEF writeConfig, At, FileAt, FiniteInv
    <3> QED BY <2>0, <2>2, <3>1, GotoAt DEF writeConfig, FileAt
  <2>3. CASE ensureContainer(a)
    BY <2>0, <2>3, GotoAt DEF ensureContainer, At, FileAt
  <2>4. CASE Reload(a) BY <2>0, <2>4, GotoAt DEF Reload, At, FileAt
  <2> QED BY <2>0, <2>1, <2>2, <2>3, <2>4 DEF ApplyRoutes
<1>2. CASE SyncStep(a) BY <1>2, SyncLabels, FileElsewhere
<1>3. CASE Own(a) /\ ~ApplyStep(a) /\ ~SyncStep(a) BY <1>3, WorkElsewhere, FileElsewhere DEF Own
<1>4. CASE Outside BY <1>4, OutsideKeeps DEF FileAt
<1>5. CASE Restart
  <2>1. pc'[a] \in {"sync_list", "killed"} \cup Ended
    BY <1>5 DEF Restart, Active, Actor
  <2> QED BY <2>1, FileElsewhere DEF Ended
<1> QED BY <1>1, <1>2, <1>3, <1>4, <1>5, AloneCases

-----------------------------------------------------------------------------
(***************************************************************************)
(* The startup resynchronisation.  What it has read of the rows stays true *)
(* to its end, since it is alone.                                          *)
(***************************************************************************)
RestoreInv ==
  /\ FileAt(Main)
  /\ pc[Main] \in {"sync_save"} \cup (Applying \ {"apply_failed"}) => routes[Main] = caddyRoutes
  /\ pc[Main] = "sync_save" => \A d \in ListRunning : d \in todo[Main] \/ row[d].live = host
  /\ pc[Main] \in Applying => \A d \in ListRunning : row[d].live = host
  /\ pc[Main] = "applied" /\ caddy.up => caddy.routes = routes[Main]

\* The routes are made of the host, and of statuses and ports.
LEMMA CaddyRoutesSame ==
  ASSUME \A d \in Deployment : SameRow(d), host' = host
  PROVE  ListRunning' = ListRunning /\ caddyRoutes' = caddyRoutes
<1>1. ListRunning' = ListRunning BY DEF SameRow, ListRunning
<1>2. \A d \in ListRunning : row'[d].port = row[d].port BY DEF SameRow, ListRunning
<1> QED BY <1>1, <1>2 DEF caddyRoutes

\* Every running row has a port, so every running deployment gets a route.
LEMMA DepsOfRunning ==
  ASSUME RunningRowComplete
  PROVE  Deps(caddyRoutes) = ListRunning
<1> DEFINE route(d) == [dep |-> d, host |-> host, port |-> row[d].port]
<1>1. \A d \in ListRunning : row[d].port # NoPort BY DEF RunningRowComplete
<1>2. caddyRoutes = {route(d) : d \in ListRunning} BY <1>1 DEF caddyRoutes
<1>3. \A d \in ListRunning : route(d) \in caddyRoutes /\ route(d).dep = d BY <1>2
<1>4. \A r \in caddyRoutes : \E d \in ListRunning : r = route(d) /\ r.dep = d BY <1>2
<1> QED BY <1>3, <1>4 DEF Deps

\* The routes of an actor's own file are loaded.
LEMMA LoadOwn ==
  ASSUME NEW a, FileAt(a), pc[a] \in {"ensure", "reload", "applied"}, Load
  PROVE  caddy' = [up |-> TRUE, routes |-> routes[a]]
<1>1. caddyfile.torn = FALSE /\ caddyfile.routes = routes[a] BY DEF FileAt
<1> QED BY <1>1 DEF Load, Loaded

\* RestoreInv, while Main goes on: each call does its part.
LEMMA RestoreApply ==
  ASSUME TypeOK, StartInv, RestoreInv, FileAt(Main)', ApplyStep(Main)
  PROVE  RestoreInv'
<1>1. UNCHANGED <<row, host, routes, todo>>
  BY DEF ApplyStep, ApplyRoutes, OpenConfig, writeConfig, ensureContainer, Reload, serviceVars
<1>2. caddyRoutes' = caddyRoutes /\ ListRunning' = ListRunning
  BY <1>1, CaddyRoutesSame DEF SameRow
<1>3. /\ pc[Main] \in Applying \ {"apply_failed", "applied"}
      /\ pc'[Main] \in Applying
      /\ pc'[Main] = "applied" => pc[Main] = "reload" /\ Load
  BY GotoAt, MainActor
  DEF ApplyStep, ApplyRoutes, OpenConfig, writeConfig, ensureContainer, Reload, At, Applying
<1>4. pc'[Main] = "applied" => caddy'.routes = routes[Main]
  BY <1>3, LoadOwn DEF RestoreInv
<1> QED BY <1>1, <1>2, <1>3, <1>4 DEF RestoreInv, Applying

LEMMA RestoreSync ==
  ASSUME TypeOK, StartInv, RunningRowComplete, RestoreInv, SyncStep(Main)
  PROVE  RestoreInv'
<1>0. FileAt(Main)' BY MainActor, SyncLabels, FileElsewhere
<1>s. \A d \in Deployment : SameRow(d) BY MainActor, SyncRows
<1>h. host' = host BY DEF SyncStep, SyncList, SyncSave, SyncReturn, serviceVars
<1>r. caddyRoutes' = caddyRoutes /\ ListRunning' = ListRunning BY <1>s, <1>h, CaddyRoutesSame
<1>e. SyncEnd(Main) = "serving" BY DEF SyncEnd
<1>1. CASE SyncList(Main)
  <2>1. pc'[Main] \in {"sync_save", "serving"}
    BY <1>1, <1>e, GotoAt, MainActor DEF SyncList, Query
  <2>2. routes'[Main] = caddyRoutes /\ todo'[Main] = Deps(caddyRoutes)
    BY <1>1, MainActor DEF SyncList, TypeOK, Deps
  <2>3. todo'[Main] = ListRunning BY <2>2, DepsOfRunning
  <2> QED BY <1>0, <1>r, <2>1, <2>2, <2>3 DEF RestoreInv, Applying
<1>2. CASE SyncSave(Main) /\ todo[Main] = {} /\ Goto(Main, "open") /\ UNCHANGED <<faults, row, todo>>
  <2>1. pc[Main] = "sync_save" /\ pc'[Main] = "open" /\ routes' = routes
    BY <1>2, GotoAt, MainActor DEF SyncSave, At, routerVars
  <2> QED BY <1>0, <1>2, <1>h, <1>r, <2>1 DEF RestoreInv, Applying
<1>3. ASSUME NEW d \in todo[Main], SyncSave(Main),
             updateAndGet(Main, d, SaveLiveURL(row[d], host), "sync_save", SyncEnd(Main)),
             todo' = [todo EXCEPT ![Main] = @ \ {d}]
      PROVE  RestoreInv'
  <2>1. pc[Main] = "sync_save" /\ routes' = routes BY <1>3 DEF SyncSave, At, routerVars
  <2>2. CASE pc'[Main] = "serving" BY <1>0, <2>2 DEF RestoreInv, Applying
  <2>3. CASE pc'[Main] # "serving"
    <3>1. row' = [row EXCEPT ![d] = SaveLiveURL(row[d], host)] /\ pc'[Main] = "sync_save"
      BY <1>3, <1>e, <2>3, GotoAt, MainActor DEF updateAndGet
    <3>2. d \in Deployment /\ row[d] \in Row /\ host \in Host BY RowOf, MainActor DEF TypeOK
    <3>3. row'[d].live = host /\ \A e \in Deployment \ {d} : row'[e] = row[e]
      BY <3>1, <3>2, SaveLiveURLRow DEF TypeOK
    <3>4. todo'[Main] = todo[Main] \ {d} BY <1>3, MainActor DEF TypeOK
    <3>5. \A e \in ListRunning : e \in todo'[Main] \/ row'[e].live = host
      BY <2>1, <3>3, <3>4 DEF RestoreInv, ListRunning
    <3> QED BY <1>0, <1>h, <1>r, <2>1, <3>1, <3>5 DEF RestoreInv, Applying
  <2> QED BY <2>2, <2>3
<1>4. CASE SyncReturn(Main)
  BY <1>0, <1>4, <1>e, GotoAt, MainActor DEF SyncReturn, RestoreInv, Applying
<1> QED BY <1>1, <1>2, <1>3, <1>4 DEF SyncStep, SyncSave

\* RestoreInv is inductive.
LEMMA RestoreStep ==
  ASSUME TypeOK, StartInv, FiniteInv, RunningRowComplete, RestoreInv, [Next]_vars
  PROVE  RestoreInv'
<1>1. CASE pc'[Main] \in {"serving", "sync_list"}
  BY <1>1 DEF RestoreInv, FileAt, Applying
<1>2. CASE pc'[Main] \notin {"serving", "sync_list"}
  <2>1. pc[Main] # "serving"
    BY <1>2, MainMoves
    DEF Restart, Actor, ApplyStep, ApplyRoutes, OpenConfig, writeConfig, ensureContainer, Reload,
        SyncStep, SyncList, SyncSave, SyncReturn, At
  <2>2. Alone(Main) BY <2>1, MainAlone
  <2>3. FileAt(Main)' BY <2>2, FileMove, MainActor DEF RestoreInv
  <2>4. CASE ApplyStep(Main) BY <2>3, <2>4, RestoreApply
  <2>5. CASE SyncStep(Main) BY <2>5, RestoreSync
  <2>6. CASE Outside
    <3>1. ~\E d \in Deployment : CreateDeployment(d)
      BY <2>1 DEF CreateDeployment, At
    <3>2. row' = row
      BY <2>6, <3>1 DEF Outside, Environment, CaddyStep, vars
    <3>3. UNCHANGED <<routes, todo, host>> BY <2>6, MainActor, OutsideKeeps
    <3>4. ListRunning' = ListRunning /\ caddyRoutes' = caddyRoutes
      BY <3>2, <3>3, CaddyRoutesSame DEF SameRow
    <3>5. pc'[Main] = pc[Main]
      BY <2>6, MainMoves, OwnWorks, OutsideKeeps, MainActor, StartInv DEF StartInv, Listing, Applying
    <3>6. UNCHANGED caddy \/ ~caddy'.up \/ Load
      BY <2>6, OutsideKeeps, MainActor DEF CaddyStep, CaddyStops, CaddyStarts
    <3>7. pc[Main] = "applied" /\ Load => caddy'.routes = routes[Main]
      BY LoadOwn DEF RestoreInv
    <3> QED BY <2>3, <3>2, <3>3, <3>4, <3>5, <3>6, <3>7 DEF RestoreInv
  <2>7. CASE Restart BY <1>2, <2>7, MainActor DEF Restart
  <2> QED BY <2>2, <2>4, <2>5, <2>6, <2>7, AloneCases, MainActor DEF Own
<1> QED BY <1>1, <1>2

\* What the startup resynchronisation has read and written so far.
LEMMA RestoreCorrect == Spec => []RestoreInv
<1>1. Init => RestoreInv
  BY MainActor DEF Init, RestoreInv, FileAt, Applying
<1>2. /\ TypeOK /\ StartInv /\ FiniteInv /\ RunningRowComplete /\ RestoreInv /\ [Next]_vars
      => RestoreInv'
  BY RestoreStep
<1> QED BY <1>1, <1>2, TypeCorrect, StartCorrect, FiniteCorrect, RunningRowCorrect, PTL DEF Spec

(***************************************************************************)
(* A startup resynchronisation that reports success has restored the       *)
(* ingress: for any workers, failures and restarts before and during it,   *)
(* and whatever they have left in the Caddyfile and in Caddy.              *)
(***************************************************************************)
THEOREM StartupRestored == Spec => []StartupRestoresIngress
<1>1. RestoreInv /\ RunningRowComplete => StartupRestoresIngress
  <2> SUFFICES ASSUME RestoreInv, RunningRowComplete, pc[Main] = "applied"
               PROVE  /\ caddy.up => caddy.routes = caddyRoutes
                      /\ \A d \in ListRunning : row[d].live = host
                      /\ caddyRoutes = {[dep |-> d, host |-> host, port |-> row[d].port]
                                          : d \in ListRunning}
    BY DEF StartupRestoresIngress, At
  <2>1. \A d \in ListRunning : row[d].port # NoPort BY DEF RunningRowComplete
  <2> QED BY <2>1 DEF RestoreInv, Applying, caddyRoutes
<1> QED BY <1>1, RestoreCorrect, RunningRowCorrect, PTL

-----------------------------------------------------------------------------
(***************************************************************************)
(* One worker at a time: whoever applies routes is alone, so the running   *)
(* deployments it has listed are the running deployments until it ends.    *)
(***************************************************************************)
Carrying == {"sync_save", "open", "write", "ensure", "reload", "applied"}

RoutesAt(a) ==
  pc[a] \in Carrying => Deps(routes[a]) = ListRunning \cup (IF resync[a] THEN {} ELSE {a})

CarryInv == \A a \in Actor : FileAt(a) /\ RoutesAt(a)

\* Somebody is alone: the worker, or else Main.
LEMMA SomebodyAlone ==
  ASSUME TypeOK, StartInv, OneActive
  PROVE  \E a \in Actor : Alone(a)
<1>1. CASE Active = {}
  <2>1. \A d \in Deployment : pc[d] \in Ended BY <1>1 DEF Active
  <2> QED BY <2>1, MainActor DEF Alone, Actor, Resting
<1>2. ASSUME NEW d \in Active PROVE Alone(d) /\ d \in Actor
  <2>1. \A e \in Deployment \ {d} : pc[e] \in Ended BY DEF OneActive, Active
  <2>2. pc[Main] = "serving" BY DEF StartInv
  <2> QED BY <2>1, <2>2 DEF Alone, Actor, Resting, Active
<1> QED BY <1>1, <1>2

\* A row is marked running by its own worker, and stays so.
LEMMA RunningMoves ==
  ASSUME TypeOK, StatusInv, [Next]_vars
  PROVE  \/ ListRunning' = ListRunning
         \/ \E d \in Deployment : pc[d] = "complete" /\ ListRunning' = ListRunning \cup {d}
<1>1. CASE row' = row BY <1>1 DEF ListRunning
<1>2. ASSUME NEW d \in Deployment, RowStep(d), \A e \in Deployment \ {d} : row'[e] = row[e]
      PROVE  \/ ListRunning' = ListRunning
             \/ pc[d] = "complete" /\ ListRunning' = ListRunning \cup {d}
  <2>1. row[d] \in Row /\ host \in Host /\ hostPort[d] \in Port \cup {NoPort}
        /\ "building" \in Status /\ "deploying" \in Status
    BY RowOf DEF TypeOK, Status
  <2>2. row[d].status = "running" => row'[d].status = "running"
    BY <1>2, StatusMoves DEF CanTransition, allowedTransitions
  <2>3. row'[d].status = "running" => row[d].status = "running" \/ pc[d] = "complete"
    <3>1. SaveLiveURL(row[d], host).status = row[d].status BY <2>1, SaveLiveURLRow
    <3> QED BY <1>2, <3>1, WriteStatus DEF RowStep
  <2> QED BY <1>2, <2>2, <2>3 DEF ListRunning
<1> QED BY <1>1, <1>2, RowChanges DEF OneRow

\* While an actor carries routes and is alone, nothing is marked running.
LEMMA RunningStays ==
  ASSUME TypeOK, StatusInv, NEW a \in Actor, Alone(a), pc[a] # "complete", [Next]_vars
  PROVE  ListRunning' = ListRunning
<1>1. \A d \in Deployment : pc[d] # "complete" BY DEF Alone, Resting, Ended, Actor
<1> QED BY <1>1, RunningMoves

\* The routes of configureDeploymentIngress: the running deployments and its own.
LEMMA DepsWith ==
  ASSUME RunningRowComplete, NEW d, NEW p
  PROVE  Deps(caddyRoutesWith(d, p)) = ListRunning \cup {d}
<1>1. Deps(caddyRoutes) = ListRunning BY DepsOfRunning
<1>2. \A r \in caddyRoutesWith(d, p) : r.dep = d \/ r \in caddyRoutes BY DEF caddyRoutesWith
<1>3. [dep |-> d, host |-> host, port |-> p] \in caddyRoutesWith(d, p) BY DEF caddyRoutesWith
<1>4. \A r \in caddyRoutes : r.dep = d \/ r \in caddyRoutesWith(d, p) BY DEF caddyRoutesWith
<1> QED BY <1>1, <1>2, <1>3, <1>4 DEF Deps

\* RoutesAt is kept while the actor is alone.
LEMMA RoutesMove ==
  ASSUME TypeOK, StageInv, StatusInv, StartInv, RunningRowComplete,
         NEW a \in Actor, Alone(a), RoutesAt(a), [Next]_vars
  PROVE  RoutesAt(a)'
<1>a. a \in Deployment \/ a = Main BY DEF Actor
<1>1. CASE a \in Deployment /\ configureDeploymentIngress(a)
  <2>1. pc[a] = "routes" /\ ~resync[a]
    BY <1>1 DEF configureDeploymentIngress, At, StageInv, StageAt, Failing, Listing, Applying
  <2>2. routes'[a] = caddyRoutesWith(a, hostPort[a]) /\ ~resync'[a]
    BY <1>1, <2>1 DEF configureDeploymentIngress, TypeOK, serviceVars
  <2>3. ListRunning' = ListRunning BY <2>1, RunningStays
  <2>4. Deps(routes'[a]) = ListRunning \cup {a} BY <2>2, DepsWith
  <2> QED BY <2>2, <2>3, <2>4 DEF RoutesAt
<1>2. CASE SyncList(a)
  <2>1. pc[a] = "sync_list" /\ resync[a]
    BY <1>2, <1>a DEF SyncList, At, StageInv, StageAt, Listing, StartInv
  <2>2. routes'[a] = caddyRoutes /\ resync'[a] BY <1>2, <2>1 DEF SyncList, TypeOK
  <2>3. ListRunning' = ListRunning BY <2>1, RunningStays
  <2>4. Deps(routes'[a]) = ListRunning BY <2>2, DepsOfRunning
  <2> QED BY <2>2, <2>3, <2>4 DEF RoutesAt
<1>3. CASE SyncSave(a) \/ ApplyStep(a)
  <2>1. pc[a] \in Carrying
    BY <1>3
    DEF SyncSave, ApplyStep, ApplyRoutes, OpenConfig, writeConfig, ensureContainer, Reload, At,
        Carrying
  <2>2. routes' = routes /\ resync' = resync
    BY <1>3
    DEF SyncSave, ApplyStep, ApplyRoutes, OpenConfig, writeConfig, ensureContainer, Reload,
        routerVars, serviceVars
  <2>3. ListRunning' = ListRunning BY <2>1, RunningStays DEF Carrying
  <2> QED BY <2>1, <2>2, <2>3 DEF RoutesAt
<1>4. CASE Outside
  <2>1. CASE pc[a] \in Carrying
    <3>1. ListRunning' = ListRunning BY <2>1, RunningStays DEF Carrying
    <3> QED BY <1>4, <2>1, <3>1, OutsideKeeps DEF RoutesAt, Carrying
  <2>2. CASE pc[a] \notin Carrying BY <1>4, <2>2, OutsideKeeps DEF RoutesAt, Carrying
  <2> QED BY <2>1, <2>2
<1>5. CASE Restart
  <2>1. pc'[a] \in {"sync_list", "killed"} \cup Ended BY <1>5 DEF Restart, Active, Actor
  <2> QED BY <2>1 DEF RoutesAt, Carrying, Ended
<1>6. CASE SyncReturn(a)
  <2>1. pc'[a] \in {"serving", "returned"} BY <1>6, GotoAt DEF SyncReturn, SyncEnd
  <2> QED BY <2>1 DEF RoutesAt, Carrying
<1>7. CASE a \in Deployment /\ (StoreStep(a) \/ StageStep(a))
  <2>1. StoreMove(a) BY <1>7, StoreLocal, StageLocal
  <2>2. pc'[a] \in Carrying => pc[a] = "routes"
    BY <2>1 DEF StoreMove, Call, Ask, Write, Work, AfterFail, Carrying
  <2>3. pc[a] # "routes"
    BY <1>7
    DEF StoreStep, StageStep, Clone, Build, loadDeploymentForPipeline,
        SaveDeploymentSourcePath, inspectDeploymentSource, StartBuild, SetBuilding,
        SaveDeploymentImageTag, StartDeploy, SetDeploying, GetEnvVars, SaveDeploymentRuntime,
        CheckComplete, CompleteDeployment, CheckFail, FailDeployment, At
  <2> QED BY <2>2, <2>3 DEF RoutesAt
<1>8. CASE a \in Deployment /\ (RunStep(a) \/ Cleanup(a))
  <2>1. RunMove(a) \/ CleanupMove(a) BY <1>8, RunLocal, CleanupLocal
  <2> QED BY <2>1 DEF RunMove, CleanupMove, RoutesAt, Carrying
<1> QED
  BY <1>1, <1>2, <1>3, <1>4, <1>5, <1>6, <1>7, <1>8, AloneCases DEF Own, SyncStep

\* An actor that rests carries nothing.
LEMMA CarryResting ==
  ASSUME TypeOK, [Next]_vars, NEW a \in Actor, pc[a] \in Resting
  PROVE  FileAt(a)' /\ RoutesAt(a)'
<1>1. pc'[a] \notin Carrying BY RestStays DEF Carrying, Resting, Ended
<1> QED BY <1>1 DEF FileAt, RoutesAt, Carrying

\* CarryInv is inductive.
LEMMA CarryStep ==
  ASSUME TypeOK, StageInv, StatusInv, StartInv, FiniteInv, OneActive, RunningRowComplete,
         CarryInv, [Next]_vars
  PROVE  CarryInv'
<1>1. PICK a \in Actor : Alone(a) BY SomebodyAlone
<1>2. FileAt(a)' /\ RoutesAt(a)' BY <1>1, FileMove, RoutesMove DEF CarryInv
<1>3. \A b \in Actor \ {a} : FileAt(b)' /\ RoutesAt(b)' BY <1>1, CarryResting DEF Alone
<1> QED BY <1>2, <1>3 DEF CarryInv

LEMMA CarryCorrect == ASSUME OneAtATime PROVE Spec => []CarryInv
<1>1. Init => CarryInv BY DEF Init, CarryInv, FileAt, RoutesAt, Carrying
<1>2. /\ TypeOK /\ StageInv /\ StatusInv /\ StartInv /\ FiniteInv /\ OneActive
      /\ RunningRowComplete /\ CarryInv /\ [Next]_vars
      => CarryInv'
  BY CarryStep
<1> QED
  BY <1>1, <1>2, TypeCorrect, StageCorrect, StatusCorrect, StartCorrect, FiniteCorrect,
     OneActiveCorrect, RunningRowCorrect, PTL DEF Spec

-----------------------------------------------------------------------------
(***************************************************************************)
(* Due is a deployment that is marked running, or is about to be without   *)
(* another look at the ingress: its route has to be there already.         *)
(***************************************************************************)
Admitted(d) == pc[d] = "complete" \/ (pc[d] = "applied" /\ ~resync[d])

Due(d) == d \in ListRunning \/ Admitted(d)

Covered == ~caddyfile.torn => \A d \in Deployment : Due(d) => d \in Deps(caddyfile.routes)

Served == caddy.up => \A d \in Deployment : Due(d) => d \in Deps(caddy.routes)

Covers == \A d \in Deployment : Due(d) => caddy.up /\ d \in Deps(caddy.routes)

\* What Caddy serves changes when it stops, and when it loads a lone actor's file.
LEMMA CaddyMoves ==
  ASSUME TypeOK, NEW a \in Actor, Alone(a), [Next]_vars
  PROVE  \/ UNCHANGED caddy /\ ~(pc[a] = "reload" /\ pc'[a] = "applied")
         \/ CaddyStep
         \/ ApplyStep(a) /\ Load /\ pc[a] \in {"ensure", "reload"}
<1>1. CASE ApplyStep(a)
  BY <1>1, GotoAt
  DEF ApplyStep, ApplyRoutes, OpenConfig, writeConfig, ensureContainer, Reload, At
<1>2. CASE SyncStep(a)
  BY <1>2, SyncLabels DEF SyncStep, SyncList, SyncSave, SyncReturn, routerVars
<1>3. CASE Own(a) /\ ~ApplyStep(a) /\ ~SyncStep(a)
  BY <1>3, WorkElsewhere
  DEF Own, StoreStep, RunStep, configureDeploymentIngress, StageStep, Cleanup, routerVars
<1>4. CASE Outside BY <1>4, OutsideKeeps
<1>5. CASE Restart BY <1>5 DEF Restart, Active, Actor
<1> QED BY <1>1, <1>2, <1>3, <1>4, <1>5, AloneCases

\* A worker is admitted by the reload it has asked for.
LEMMA AdmittedMoves ==
  ASSUME TypeOK, [Next]_vars, NEW d \in Deployment, Admitted(d)'
  PROVE  \/ Admitted(d)
         \/ pc[d] = "reload" /\ pc'[d] = "applied" /\ resync'[d] = resync[d]
<1>1. LocalMove(d) BY LocalMoves
<1> USE DEF Admitted
<1>2. CASE StoreMove(d) BY <1>2 DEF StoreMove, Call, Ask, Write, Work, AfterFail
<1>3. CASE ~StoreMove(d)
  BY <1>1, <1>3
  DEF LocalMove, Same, CreateMove, RunMove, CleanupMove, ApplyMove, SyncMove, ExitMove,
      KilledMove, Ended
<1> QED BY <1>2, <1>3

\* Nobody becomes due but by the reload that it has asked for.
LEMMA DueMoves ==
  ASSUME TypeOK, StatusInv, [Next]_vars, NEW d \in Deployment, Due(d)', ~Due(d)
  PROVE  pc[d] = "reload" /\ pc'[d] = "applied" /\ resync'[d] = resync[d] /\ ~resync[d]
<1>1. d \notin ListRunning' BY RunningMoves DEF Due, Admitted
<1>2. Admitted(d)' /\ ~Admitted(d) BY <1>1 DEF Due
<1> QED BY <1>2, AdmittedMoves DEF Admitted

\* The routes of a lone actor that applies them have all that are due after its step.
LEMMA DueRoutes ==
  ASSUME TypeOK, StatusInv, NEW a \in Actor, Alone(a), RoutesAt(a), [Next]_vars,
         pc[a] \in {"write", "ensure", "reload"}, NEW d \in Deployment, Due(d)'
  PROVE  d \in Deps(routes[a])
<1>1. Deps(routes[a]) = ListRunning \cup (IF resync[a] THEN {} ELSE {a})
  BY DEF RoutesAt, Carrying
<1>2. CASE d \in ListRunning BY <1>1, <1>2
<1>3. CASE d \notin ListRunning
  <2>1. d = a \/ pc[d] \in Resting BY DEF Alone, Actor
  <2>2. ~Due(d) BY <1>3, <2>1 DEF Due, Admitted, Resting, Ended
  <2>3. d = a /\ ~resync[a] BY <2>1, <2>2, DueMoves DEF Resting, Ended
  <2> QED BY <1>1, <2>3
<1> QED BY <1>2, <1>3

\* What a lone actor loads has all that are due.
LEMMA LoadCovers ==
  ASSUME TypeOK, StatusInv, CarryInv, NEW a \in Actor, Alone(a), [Next]_vars,
         ApplyStep(a), Load, pc[a] \in {"ensure", "reload"}
  PROVE  Covers'
<1>1. caddy' = [up |-> TRUE, routes |-> routes[a]] BY LoadOwn DEF CarryInv
<1>2. ASSUME NEW d \in Deployment, Due(d)' PROVE d \in Deps(caddy'.routes)
  BY <1>1, <1>2, DueRoutes DEF CarryInv
<1>3. caddy'.up BY <1>1
<1> QED BY <1>2, <1>3 DEF Covers

-----------------------------------------------------------------------------
(***************************************************************************)
(* The file: a write that goes through has the routes of a lone actor.     *)
(***************************************************************************)
LEMMA FileMoves ==
  ASSUME TypeOK, NEW a \in Actor, Alone(a), [Next]_vars
  PROVE  \/ caddyfile' = caddyfile
         \/ caddyfile'.torn /\ ApplyStep(a) /\ pc[a] \in {"open", "write"}
              /\ ((\A k : ~Fault(k)) => pc'[a] = "write")
         \/ ApplyStep(a) /\ pc[a] = "write" /\ pc'[a] = "ensure"
<1>1. CASE ApplyStep(a)
  <2>1. CASE OpenConfig(a) BY <1>1, <2>1, GotoAt DEF OpenConfig, At
  <2>2. CASE writeConfig(a) BY <1>1, <2>2, GotoAt DEF writeConfig, At
  <2>3. CASE ensureContainer(a) \/ Reload(a) BY <2>3 DEF ensureContainer, Reload
  <2> QED BY <1>1, <2>1, <2>2, <2>3 DEF ApplyStep, ApplyRoutes
<1>2. CASE Own(a) /\ ~ApplyStep(a)
  BY <1>2
  DEF Own, StoreStep, RunStep, configureDeploymentIngress, StageStep, Cleanup, SyncStep,
      SyncList, SyncSave, SyncReturn, routerVars
<1>3. CASE Outside BY <1>3, OutsideKeeps
<1>4. CASE Restart BY <1>4 DEF Restart
<1> QED BY <1>1, <1>2, <1>3, <1>4, AloneCases

\* Covered is inductive.
LEMMA CoveredStep ==
  ASSUME TypeOK, StageInv, StatusInv, StartInv, FiniteInv, OneActive, RunningRowComplete,
         CarryInv, Covered, [Next]_vars
  PROVE  Covered'
<1>1. PICK a \in Actor : Alone(a) BY SomebodyAlone
<1>2. CASE caddyfile' = caddyfile
  <2> SUFFICES ASSUME ~caddyfile.torn, NEW d \in Deployment, Due(d)', ~Due(d)
               PROVE  d \in Deps(caddyfile.routes)
    BY <1>2 DEF Covered
  <2>1. pc[d] = "reload" BY DueMoves
  <2>2. d = a BY <1>1, <2>1 DEF Alone, Resting, Ended, Actor
  <2>3. d \in Deps(routes[a]) BY <1>1, <2>1, <2>2, DueRoutes DEF CarryInv
  <2>4. caddyfile.routes = routes[a] BY <2>1, <2>2 DEF CarryInv, FileAt
  <2> QED BY <2>3, <2>4
<1>3. CASE caddyfile'.torn BY <1>3 DEF Covered
<1>4. CASE ApplyStep(a) /\ pc[a] = "write" /\ pc'[a] = "ensure"
  <2>1. FileAt(a)' BY CarryStep DEF CarryInv
  <2>2. routes' = routes
    BY <1>4 DEF ApplyStep, ApplyRoutes, OpenConfig, writeConfig, ensureContainer, Reload
  <2>3. caddyfile'.routes = routes[a] BY <1>4, <2>1, <2>2 DEF FileAt
  <2>4. ASSUME NEW d \in Deployment, Due(d)' PROVE d \in Deps(caddyfile'.routes)
    BY <1>1, <1>4, <2>3, <2>4, DueRoutes DEF CarryInv
  <2> QED BY <2>4 DEF Covered
<1> QED BY <1>1, <1>2, <1>3, <1>4, FileMoves

LEMMA CoveredCorrect == ASSUME OneAtATime PROVE Spec => []Covered
<1>1. Init => Covered
  <2> SUFFICES ASSUME Init PROVE Covered OBVIOUS
  <2>1. \A d \in Deployment : row[d].status = "absent" /\ pc[d] = "idle"
    BY InitLocal DEF NoRow
  <2> QED BY <2>1 DEF Covered, Due, Admitted, ListRunning
<1>2. /\ TypeOK /\ StageInv /\ StatusInv /\ StartInv /\ FiniteInv /\ OneActive
      /\ RunningRowComplete /\ CarryInv /\ Covered /\ [Next]_vars
      => Covered'
  BY CoveredStep
<1> QED
  BY <1>1, <1>2, TypeCorrect, StageCorrect, StatusCorrect, StartCorrect, FiniteCorrect,
     OneActiveCorrect, RunningRowCorrect, CarryCorrect, PTL DEF Spec

(***************************************************************************)
(* With one worker at a time, a Caddyfile that is not torn has a route of  *)
(* every deployment marked running, whatever fails and however often, and  *)
(* wherever the backend dies: a Caddy that is restarted then serves them.  *)
(***************************************************************************)
THEOREM CaddyfileCovered ==
  ASSUME OneAtATime
  PROVE  Spec => []CaddyfileCovers
<1>1. Covered => CaddyfileCovers BY DEF Covered, Due, CaddyfileCovers, Deps, ListRunning
<1> QED BY <1>1, CoveredCorrect, PTL

-----------------------------------------------------------------------------
(***************************************************************************)
(* Caddy, when only the router starts it: after its own write.             *)
(***************************************************************************)
LEMMA ServedStep ==
  ASSUME ~CaddyRestarts, TypeOK, StatusInv, StartInv, OneActive, CarryInv, Served, [Next]_vars
  PROVE  Served'
<1>1. PICK a \in Actor : Alone(a) BY SomebodyAlone
<1>2. CASE UNCHANGED caddy /\ ~(pc[a] = "reload" /\ pc'[a] = "applied")
  <2>1. ASSUME NEW d \in Deployment, Due(d)' PROVE Due(d)
    BY <1>1, <1>2, <2>1, DueMoves DEF Alone, Resting, Ended, Actor
  <2> QED BY <1>2, <2>1 DEF Served
<1>3. CASE CaddyStep BY <1>3 DEF CaddyStep, CaddyStops, CaddyStarts, Served
<1>4. CASE ApplyStep(a) /\ Load /\ pc[a] \in {"ensure", "reload"}
  BY <1>1, <1>4, LoadCovers DEF Covers, Served
<1> QED BY <1>1, <1>2, <1>3, <1>4, CaddyMoves

(***************************************************************************)
(* With one worker at a time and a Caddy that comes up through the router  *)
(* only, Caddy serves every deployment marked running whenever it is up,   *)
(* in every state, whatever fails and wherever the backend dies.           *)
(***************************************************************************)
THEOREM RunningServed ==
  ASSUME OneAtATime, ~CaddyRestarts
  PROVE  Spec => []RunningIsServed
<1>1. Init => Served
  <2> SUFFICES ASSUME Init PROVE Served OBVIOUS
  <2>1. \A d \in Deployment : row[d].status = "absent" /\ pc[d] = "idle"
    BY InitLocal DEF NoRow
  <2> QED BY <2>1 DEF Served, Due, Admitted, ListRunning
<1>2. /\ TypeOK /\ StatusInv /\ StartInv /\ OneActive /\ CarryInv /\ Served /\ [Next]_vars
      => Served'
  BY ServedStep
<1>3. Served => RunningIsServed BY DEF Served, Due, RunningIsServed, Deps, ListRunning
<1> QED
  BY <1>1, <1>2, <1>3, TypeCorrect, StatusCorrect, StartCorrect, OneActiveCorrect,
     CarryCorrect, PTL DEF Spec

-----------------------------------------------------------------------------
(***************************************************************************)
(* One failure: there is no second one after it.                           *)
(***************************************************************************)
OneFault == MaxFaults =< 1

\* Failures are counted one by one.
LEMMA FaultsGrow ==
  ASSUME TypeOK, [Next]_vars
  PROVE  faults' = faults \/ faults' = faults + 1
<1>1. ASSUME NEW d \in Deployment, StoreStep(d) \/ StageStep(d) \/ configureDeploymentIngress(d)
      PROVE  faults' = faults \/ faults' = faults + 1
  <2>1. StoreMove(d) BY <1>1, StoreLocal, StageLocal, IngressLocal
  <2> QED BY <2>1 DEF StoreMove, Call, Ask, Write, Work, NoFault, Fault
<1>2. ASSUME NEW d \in Deployment,
             RunStep(d) \/ Cleanup(d) \/ CreateDeployment(d) \/ Environment(d)
      PROVE  faults' = faults \/ faults' = faults + 1
  BY <1>2
  DEF RunStep, Run, FindPort, DockerRun, isContainerRunning, probeHealthTargets,
      captureStartupFailure, Remove, Cleanup, CreateDeployment, Environment, ContainerExits,
      NoFault, Fault
<1>3. ASSUME NEW a \in Actor, ApplyStep(a) \/ SyncStep(a)
      PROVE  faults' = faults \/ faults' = faults + 1
  BY <1>3
  DEF ApplyStep, ApplyRoutes, OpenConfig, writeConfig, ensureContainer, Reload, SyncStep,
      SyncList, SyncSave, SyncReturn, Query, updateAndGet, NoFault, Fault
<1> QED
  BY <1>1, <1>2, <1>3, NextCases
  DEF CaddyStep, CaddyStops, CaddyStarts, Restart, vars, Fault

\* When the one failure has happened, there is none left, and it stays so.
LEMMA Spent ==
  ASSUME OneFault, TypeOK, TypeOK', [Next]_vars, faults = 1
  PROVE  faults' = 1 /\ \A k : ~Fault(k)
BY FaultsGrow, FaultAssumption DEF OneFault, TypeOK, Fault, FaultAssumption

\* The first failure uses up the only one.
LEMMA FirstFault ==
  ASSUME OneFault, TypeOK, NEW k, Fault(k)
  PROVE  faults = 0 /\ faults' = 1
BY FaultAssumption DEF OneFault, TypeOK, Fault, FaultAssumption

\* Without a failure, SyncCaddyRoutes ends after its ApplyRoutes only.
LEMMA SyncUnfailing ==
  ASSUME TypeOK, NEW a \in Actor, SyncStep(a), \A k : ~Fault(k)
  PROVE  \/ pc[a] \in Listing /\ pc'[a] \in {"sync_save", "open"}
         \/ pc[a] \in {"applied", "apply_failed"} /\ resync[a]
BY GotoAt DEF SyncStep, SyncList, SyncSave, SyncReturn, Query, updateAndGet, At, Listing

\* ApplyRoutes is all that happens at its labels.
LEMMA WorkApplies ==
  ASSUME NEW d, StoreStep(d) \/ RunStep(d) \/ configureDeploymentIngress(d) \/ StageStep(d) \/ Cleanup(d)
  PROVE  pc[d] \notin {"write", "ensure", "reload"}
BY DEF StoreStep, StageStep, RunStep, Run, FindPort, DockerRun, isContainerRunning,
       probeHealthTargets, captureStartupFailure, Clone, Build, loadDeploymentForPipeline,
       SaveDeploymentSourcePath, inspectDeploymentSource, StartBuild, SetBuilding,
       SaveDeploymentImageTag, StartDeploy, SetDeploying, GetEnvVars, SaveDeploymentRuntime,
       CheckComplete, CompleteDeployment, CheckFail, FailDeployment,
       configureDeploymentIngress, Cleanup, At

-----------------------------------------------------------------------------
(***************************************************************************)
(* Caddy, when Docker starts it again at any time.  Hot is where somebody  *)
(* will reload the routes before anyone rests.  Either all that are due    *)
(* are served, or the one failure has happened, and then somebody is hot   *)
(* unless Caddy is down and has a whole file to start from.                *)
(***************************************************************************)
Hot ==
  \/ \E a \in Actor : pc[a] \in {"write", "ensure", "reload"}
  \/ pc[Main] \in Listing \cup {"open"}

RoutedInv ==
  \/ Covers /\ (faults = 0 => (caddyfile.torn => Hot))
  \/ faults = 1 /\ (caddyfile.torn \/ caddy.up => Hot)

\* What everybody is served stays so, unless Caddy stops.
LEMMA CoversStep ==
  ASSUME TypeOK, StatusInv, CarryInv, NEW a \in Actor, Alone(a), [Next]_vars,
         Covers, ~CaddyStops
  PROVE  Covers'
<1>1. CASE UNCHANGED caddy /\ ~(pc[a] = "reload" /\ pc'[a] = "applied")
  <2>1. ASSUME NEW d \in Deployment, Due(d)' PROVE Due(d)
    BY <1>1, <2>1, DueMoves DEF Alone, Resting, Ended, Actor
  <2> QED BY <1>1, <2>1 DEF Covers
<1>2. CASE CaddyStep
  <2>1. ~caddy.up /\ pc' = pc BY <1>2 DEF CaddyStep, CaddyStarts
  <2>2. ASSUME NEW d \in Deployment PROVE ~Due(d)'
    BY <2>1, DueMoves DEF Covers
  <2> QED BY <2>2 DEF Covers
<1>3. CASE ApplyStep(a) /\ Load /\ pc[a] \in {"ensure", "reload"} BY <1>3, LoadCovers
<1> QED BY <1>1, <1>2, <1>3, CaddyMoves

\* Whoever is hot goes on to a reload, without another failure.
LEMMA HotStep ==
  ASSUME TypeOK, StatusInv, StartInv, CarryInv, NEW a \in Actor, Alone(a), [Next]_vars, Hot,
         \A k : ~Fault(k)
  PROVE  Hot' \/ (~caddyfile'.torn /\ (Covers' \/ ~caddy'.up))
<1>1. pc[a] \in {"write", "ensure", "reload"} \/ (a = Main /\ pc[a] \in Listing \cup {"open"})
  BY MainActor DEF Hot, Alone, Resting, Ended, Listing
<1>2. CASE ApplyStep(a)
  <2>1. CASE pc'[a] \in {"write", "ensure", "reload"} BY <2>1 DEF Hot
  <2>2. CASE Load /\ pc[a] \in {"ensure", "reload"}
    <3>1. Covers' BY <1>2, <2>2, LoadCovers
    <3>2. caddyfile' = caddyfile
      BY <1>2, <2>2
      DEF ApplyStep, ApplyRoutes, OpenConfig, writeConfig, ensureContainer, Reload, At
    <3>3. ~caddyfile.torn BY <2>2 DEF CarryInv, FileAt
    <3> QED BY <3>1, <3>2, <3>3
  <2>3. CASE ~Load /\ pc'[a] \notin {"write", "ensure", "reload"}
    <3>1. /\ pc[a] = "reload" /\ (~caddy.up \/ caddyfile.torn)
          /\ UNCHANGED <<caddy, caddyfile>>
      BY <1>2, <2>3, GotoAt
      DEF ApplyStep, ApplyRoutes, OpenConfig, writeConfig, ensureContainer, Reload, At
    <3>2. ~caddyfile.torn BY <3>1 DEF CarryInv, FileAt
    <3> QED BY <3>1, <3>2
  <2>4. Load => pc[a] \in {"ensure", "reload"} \/ pc'[a] \in {"write", "ensure", "reload"}
    BY <1>2, GotoAt
    DEF ApplyStep, ApplyRoutes, OpenConfig, writeConfig, ensureContainer, Reload, At
  <2> QED BY <2>1, <2>2, <2>3, <2>4
<1>3. CASE SyncStep(a)
  <2>1. pc[a] \in Listing /\ pc'[a] \in {"sync_save", "open"}
    BY <1>1, <1>3, SyncUnfailing DEF Listing
  <2>2. a = Main BY <1>1, <2>1 DEF Listing
  <2> QED BY <2>1, <2>2 DEF Hot, Listing
<1>4. CASE Own(a) /\ ~ApplyStep(a) /\ ~SyncStep(a)
  <2>1. a \in Deployment /\ a # Main BY <1>4, MainActor DEF Own
  <2>2. pc[a] \in {"write", "ensure", "reload"} BY <1>1, <2>1
  <2>3. LocalMove(a) BY <2>1, LocalMoves
  <2> QED BY <1>4, <2>1, <2>2, <2>3, WorkApplies DEF Own
<1>5. CASE Outside
  <2>1. pc'[a] = pc[a] BY <1>1, <1>5, OutsideKeeps DEF Listing
  <2> QED BY <1>1, <2>1 DEF Hot
<1>6. CASE Restart BY <1>6, MainActor DEF Restart, Hot, Listing
<1> QED BY <1>2, <1>3, <1>4, <1>5, <1>6, AloneCases

\* While nobody is hot, a Caddy that is down and has a whole file comes up with it.
LEMMA ColdStep ==
  ASSUME TypeOK, NEW a \in Actor, Alone(a), [Next]_vars, ~Hot, \A k : ~Fault(k),
         Covered, ~caddyfile.torn, ~caddy.up
  PROVE  Hot' \/ (~caddyfile'.torn /\ (Covers' \/ ~caddy'.up))
<1>1. pc[a] \notin {"write", "ensure", "reload"} BY DEF Hot
<1>2. caddyfile' = caddyfile \/ Hot' BY <1>1, FileMoves DEF Hot
<1>3. caddy' = caddy \/ CaddyStep BY <1>1, CaddyMoves
<1>4. CASE CaddyStep
  <2>1. /\ caddy' = [up |-> TRUE, routes |-> caddyfile.routes]
        /\ UNCHANGED <<pc, row, resync, caddyfile>>
    BY <1>4 DEF CaddyStep, CaddyStops, CaddyStarts, Load, Loaded, serviceVars
  <2>2. ASSUME NEW d \in Deployment, Due(d)' PROVE Due(d)
    BY <2>1, <2>2 DEF Due, Admitted, ListRunning
  <2>3. ASSUME NEW d \in Deployment, Due(d)' PROVE d \in Deps(caddy'.routes)
    BY <2>1, <2>2, <2>3 DEF Covered
  <2>4. caddy'.up /\ ~caddyfile'.torn BY <2>1
  <2>5. Covers' BY <2>3, <2>4 DEF Covers
  <2> QED BY <2>4, <2>5
<1> QED BY <1>2, <1>3, <1>4

\* RoutedInv is inductive.
LEMMA RoutedStep ==
  ASSUME OneFault, TypeOK, TypeOK', StatusInv, StartInv, OneActive, CarryInv, Covered,
         RoutedInv, [Next]_vars
  PROVE  RoutedInv'
<1>1. PICK a \in Actor : Alone(a) BY SomebodyAlone
<1>f. faults \in {0, 1} /\ faults' \in {0, 1}
  BY FaultAssumption DEF OneFault, TypeOK, FaultAssumption
<1>2. CASE Covers /\ CaddyStops
  <2>1. /\ faults = 0 /\ faults' = 1 /\ ~caddy'.up
        /\ UNCHANGED <<pc, caddyfile>>
    BY <1>2, FirstFault DEF CaddyStops
  <2>2. Hot' = Hot BY <2>1 DEF Hot
  <2> QED BY <1>2, <2>1, <2>2 DEF RoutedInv
<1>3. CASE Covers /\ ~CaddyStops
  <2>1. Covers' BY <1>1, <1>3, CoversStep
  <2>2. CASE faults' = 1 BY <2>1, <2>2 DEF RoutedInv
  <2>3. CASE faults' = 0
    <3>1. faults = 0 BY <1>f, <2>3, FaultsGrow
    <3>2. \A k : ~Fault(k) BY <2>3, FirstFault
    <3>3. ASSUME Hot PROVE caddyfile'.torn => Hot' BY <1>1, <3>2, <3>3, HotStep
    <3>4. ASSUME ~Hot PROVE caddyfile'.torn => Hot'
      <4>1. ~caddyfile.torn /\ pc[a] # "write" BY <1>3, <3>1, <3>4 DEF RoutedInv, Hot
      <4> QED BY <1>1, <3>2, <3>4, <4>1, FileMoves DEF Hot
    <3>5. caddyfile'.torn => Hot' BY <3>3, <3>4
    <3> QED BY <2>1, <3>5 DEF RoutedInv
  <2> QED BY <1>f, <2>2, <2>3
<1>4. CASE ~Covers
  <2>1. faults = 1 /\ (caddyfile.torn \/ caddy.up => Hot) BY <1>4 DEF RoutedInv
  <2>2. faults' = 1 /\ \A k : ~Fault(k) BY <2>1, Spent
  <2>3. Hot' \/ (~caddyfile'.torn /\ (Covers' \/ ~caddy'.up))
    BY <1>1, <2>1, <2>2, HotStep, ColdStep
  <2> QED BY <2>2, <2>3 DEF RoutedInv
<1> QED BY <1>2, <1>3, <1>4

(***************************************************************************)
(* With one worker at a time and one failure of any kind, Caddy serves     *)
(* every deployment marked running at every moment at which nobody is      *)
(* applying routes and no startup resynchronisation is under way, although *)
(* Docker may start Caddy at any time, on a file that somebody has just    *)
(* truncated or that a crash has left empty.                               *)
(***************************************************************************)
THEOREM RunningRouted ==
  ASSUME OneAtATime, OneFault
  PROVE  Spec => []RunningIsRouted
<1>1. Init => RoutedInv
  <2> SUFFICES ASSUME Init PROVE RoutedInv OBVIOUS
  <2>1. \A d \in Deployment : row[d].status = "absent" /\ pc[d] = "idle"
    BY InitLocal DEF NoRow
  <2>2. pc[Main] = "sync_list" BY MainActor DEF Init
  <2> QED BY <2>1, <2>2 DEF RoutedInv, Covers, Due, Admitted, ListRunning, Hot, Listing
<1>2. /\ TypeOK /\ TypeOK' /\ StatusInv /\ StartInv /\ OneActive /\ CarryInv /\ Covered
      /\ RoutedInv /\ [Next]_vars
      => RoutedInv'
  BY RoutedStep
<1>3. RoutedInv => RunningIsRouted
  <2> SUFFICES ASSUME RoutedInv, pc[Main] = "serving", \A d \in Deployment : ~InApply(d)
               PROVE  RunningIsServed
    BY DEF RunningIsRouted, At
  <2>1. ~Hot BY DEF Hot, InApply, Actor, Listing
  <2> QED BY <2>1 DEF RoutedInv, Covers, Due, RunningIsServed, Deps, ListRunning
<1> QED
  BY <1>1, <1>2, <1>3, TypeCorrect, StatusCorrect, StartCorrect, OneActiveCorrect,
     CarryCorrect, CoveredCorrect, PTL DEF Spec


-----------------------------------------------------------------------------
(***************************************************************************)
(* A worker that has failed meets no second failure, so its                *)
(* resynchronisation goes through and takes back a reload that was applied *)
(* although it reported an error.                                          *)
(***************************************************************************)
\* Labels of a worker whose route may be in the Caddyfile or in Caddy.
MayServe(d) ==
  \/ pc[d] \in {"killed", "ensure", "reload", "applied", "complete", "apply_failed", "cleanup_resync"}
  \/ resync[d] /\ pc[d] \in Failing \cup Listing \cup Applying

FailedOnce(d) == resync[d] \/ pc[d] \in {"apply_failed", "cleanup_resync"}

SpentAt(d) ==
  /\ FailedOnce(d) => faults = 1
  /\ pc[d] = "reload" => caddy.up \/ (faults = 1 /\ ~resync[d])
  /\ pc[d] = "apply_failed" => ~resync[d]

UnroutedAt(d) ==
  /\ d \in Deps(caddy.routes) \cup Deps(caddyfile.routes)
       => row[d].status = "running" \/ MayServe(d)
  /\ resync[d] /\ pc[d] = "applied" => Deps(caddy.routes) \subseteq ListRunning

UnroutedInv == \A d \in Deployment : SpentAt(d) /\ UnroutedAt(d)

\* ApplyRoutes is where its labels are reached.
LEMMA ApplyOwn ==
  ASSUME TypeOK, NEW a \in Actor, Alone(a), [Next]_vars,
         pc'[a] \in {"write", "ensure", "reload", "applied", "apply_failed"}
  PROVE  pc'[a] = pc[a] \/ ApplyStep(a)
<1>1. CASE SyncStep(a) BY <1>1, SyncLabels
<1>2. CASE Own(a) /\ ~ApplyStep(a) /\ ~SyncStep(a) BY <1>2, WorkElsewhere DEF Own
<1>3. CASE Outside BY <1>3, OutsideKeeps
<1>4. CASE Restart BY <1>4 DEF Restart, Active, Actor
<1> QED BY <1>1, <1>2, <1>3, <1>4, AloneCases

\* A worker at rest has not failed by a step of somebody else.
LEMMA SpentResting ==
  ASSUME OneFault, TypeOK, TypeOK', [Next]_vars, NEW d \in Deployment, SpentAt(d),
         pc[d] \in Resting
  PROVE  SpentAt(d)'
<1>1. pc'[d] \in Resting \cup {"load"} BY RestStays, MainActor DEF Actor
<1>2. resync'[d] => resync[d]
  <2>1. LocalMove(d) BY LocalMoves
  <2>2. CASE StoreMove(d) BY <2>2 DEF StoreMove
  <2> QED
    BY <2>1, <2>2
    DEF LocalMove, Same, CreateMove, RunMove, CleanupMove, ApplyMove, SyncMove, ExitMove,
        KilledMove, Resting, Ended
<1> QED BY <1>1, <1>2, Spent DEF SpentAt, FailedOnce, Resting, Ended

\* SpentAt, for the steps of ApplyRoutes.
LEMMA SpentApply ==
  ASSUME OneFault, TypeOK, TypeOK', [Next]_vars, NEW d \in Deployment, SpentAt(d), FileAt(d),
         ApplyStep(d)
  PROVE  SpentAt(d)'
<1>0. resync' = resync /\ d \in Actor BY DEF ApplyStep, serviceVars, Actor
<1>1. faults = 1 => faults' = 1 /\ \A k : ~Fault(k) BY Spent
<1>2. \A k : Fault(k) => faults = 0 /\ faults' = 1 BY FirstFault
<1>3. pc'[d] = "reload" => caddy'.up
  BY <1>0, GotoAt
  DEF ApplyStep, ApplyRoutes, OpenConfig, writeConfig, ensureContainer, Reload, Load, At, FileAt
<1>4. ASSUME pc'[d] = "apply_failed" PROVE faults' = 1 /\ ~resync[d]
  <2>1. CASE \E k : Fault(k) BY <1>2, <2>1 DEF SpentAt, FailedOnce
  <2>2. CASE ~\E k : Fault(k)
    <3>1. pc[d] = "reload" /\ (~caddy.up \/ caddyfile.torn)
      BY <1>0, <1>4, <2>2, GotoAt
      DEF ApplyStep, ApplyRoutes, OpenConfig, writeConfig, ensureContainer, Reload, At
    <3> QED BY <1>1, <3>1 DEF SpentAt, FileAt
  <2> QED BY <2>1, <2>2
<1>5. pc'[d] # "cleanup_resync"
  BY <1>0, GotoAt DEF ApplyStep, ApplyRoutes, OpenConfig, writeConfig, ensureContainer, Reload
<1> QED BY <1>0, <1>1, <1>3, <1>4, <1>5 DEF SpentAt, FailedOnce

\* SpentAt is inductive for whoever is alone.
LEMMA SpentMove ==
  ASSUME OneFault, TypeOK, TypeOK', [Next]_vars, NEW d \in Deployment, Alone(d), StageAt(d),
         SpentAt(d), FileAt(d)
  PROVE  SpentAt(d)'
<1>0. d \in Actor BY DEF Actor
<1>1. CASE ApplyStep(d) BY <1>1, SpentApply
<1>2. CASE ~ApplyStep(d)
  <2>1. LocalMove(d) BY LocalMoves
  <2>2. pc'[d] \in {"reload", "apply_failed"} => pc'[d] = pc[d] BY <1>0, <1>2, ApplyOwn
  <2>3. faults = 1 => faults' = 1 /\ \A k : ~Fault(k) BY Spent
  <2>4. \A k : Fault(k) => faults = 0 /\ faults' = 1 BY FirstFault
  <2>5. ASSUME FailedOnce(d)' PROVE faults' = 1
    <3>1. CASE FailedOnce(d) BY <2>3, <3>1 DEF SpentAt
    <3>2. CASE ~FailedOnce(d)
      <4>1. ~resync'[d] /\ pc'[d] = "cleanup_resync" /\ StoreMove(d)
        BY <2>1, <2>2, <2>5, <3>2
        DEF FailedOnce, LocalMove, Same, CreateMove, StoreMove, RunMove, CleanupMove, ApplyMove,
            SyncMove, ExitMove, KilledMove
      <4>2. \E k : Fault(k)
        BY <3>2, <4>1
        DEF FailedOnce, StoreMove, Call, Ask, Write, Work, AfterFail, StageAt, Applying,
            CanTransition, allowedTransitions
      <4> QED BY <2>4, <4>2
    <3> QED BY <3>1, <3>2
  <2>6. ASSUME pc'[d] \in {"reload", "apply_failed"}
        PROVE  pc[d] = pc'[d] /\ resync'[d] = resync[d]
    <3>1. CASE StoreMove(d) BY <2>2, <2>6, <3>1 DEF StoreMove
    <3> QED
      BY <2>1, <2>2, <2>6, <3>1
      DEF LocalMove, Same, CreateMove, RunMove, CleanupMove, ApplyMove, SyncMove,
          ExitMove, KilledMove, Ended
  <2>7. ASSUME pc'[d] = "reload" PROVE caddy'.up \/ (faults' = 1 /\ ~resync'[d])
    <3>0. CaddyStarts => caddy'.up BY DEF CaddyStarts, Load
    <3>1. CASE CaddyStops
      <4>1. faults = 0 /\ faults' = 1 BY <2>4, <3>1 DEF CaddyStops
      <4> QED BY <2>6, <2>7, <4>1 DEF SpentAt, FailedOnce
    <3>2. CASE UNCHANGED caddy BY <2>3, <2>6, <2>7, <3>2 DEF SpentAt
    <3> QED BY <1>0, <1>2, <3>0, <3>1, <3>2, CaddyMoves DEF CaddyStep
  <2> QED BY <2>5, <2>6, <2>7 DEF SpentAt
<1> QED BY <1>1, <1>2

\* A route that may have to go stays in sight of its worker, until that one has
\* resynchronised.
LEMMA ServeStays ==
  ASSUME OneFault, TypeOK, TypeOK', [Next]_vars, NEW d \in Deployment, Alone(d), StageAt(d),
         SpentAt(d), MayServe(d), ~(resync[d] /\ pc[d] = "applied"), row[d].status # "running"
  PROVE  row'[d].status = "running" \/ MayServe(d)'
<1>0. d \in Actor BY DEF Actor
<1>r. resync[d] => faults = 1 /\ \A k : ~Fault(k) BY Spent DEF SpentAt, FailedOnce
<1> USE DEF MayServe, Failing, Listing, Applying
<1>1. CASE StoreStep(d) \/ StageStep(d) \/ configureDeploymentIngress(d)
  <2>1. StoreMove(d) BY <1>1, StoreLocal, StageLocal, IngressLocal
  <2> QED
    BY <2>1, WriteStatus
    DEF StoreMove, Call, Ask, Write, Work, AfterFail, StageAt, CanTransition, allowedTransitions
<1>2. CASE RunStep(d) BY <1>2, RunLocal DEF RunMove
<1>3. CASE Cleanup(d) BY <1>3, CleanupLocal DEF CleanupMove
<1>4. CASE ApplyStep(d) BY <1>0, <1>4, ApplyLocal DEF ApplyMove
<1>5. CASE SyncStep(d)
  <2>1. SyncMove(d) BY <1>0, <1>5, SyncLocal
  <2>2. resync[d] BY <2>1 DEF SyncMove, StageAt
  <2>3. resync'[d] BY <2>1, <2>2 DEF SyncMove
  <2>4. ~(pc[d] \in {"applied", "apply_failed"}) BY <2>2 DEF SpentAt
  <2> QED BY <1>0, <1>5, <1>r, <2>2, <2>3, <2>4, SyncUnfailing
<1>6. CASE Outside
  <2>1. resync' = resync /\ (pc'[d] = pc[d] \/ pc[d] = "idle") BY <1>0, <1>6, OutsideKeeps
  <2>2. pc[d] = "idle" => ~resync[d] BY DEF StageAt
  <2> QED BY <2>1, <2>2
<1>7. CASE Restart BY <1>7, RestartLocal DEF KilledMove, Ended, StageAt
<1> QED BY <1>0, <1>1, <1>2, <1>3, <1>4, <1>5, <1>6, <1>7, AloneCases DEF Own

\* A worker at rest keeps the route it has, if any.
LEMMA ServeResting ==
  ASSUME TypeOK, [Next]_vars, NEW d \in Deployment, StageAt(d), MayServe(d), pc[d] \in Resting
  PROVE  MayServe(d)'
<1>1. pc[d] = "killed" \/ pc[d] = "serving" BY DEF StageAt, MayServe, Resting, Ended, Failing, Listing, Applying
<1>2. pc[d] = "killed" BY <1>1 DEF StageAt, MayServe, Resting, Ended, Failing, Listing, Applying
<1>3. pc'[d] = "killed" BY <1>2, EndedStays DEF Ended, CreateDeployment, At
<1> QED BY <1>3 DEF MayServe

\* A lone resynchronisation that has ended has the running deployments in the file.
LEMMA SyncedFile ==
  ASSUME CarryInv, NEW a \in Actor, resync[a], pc[a] = "applied"
  PROVE  Deps(caddyfile.routes) = ListRunning
<1>1. FileAt(a) /\ RoutesAt(a) BY DEF CarryInv
<1>2. caddyfile.routes = routes[a] BY <1>1 DEF FileAt
<1> QED BY <1>1, <1>2 DEF RoutesAt, Carrying

\* A route in the Caddyfile or in Caddy, of a running deployment or in sight of its
\* worker, is so after any step that leaves it there.
LEMMA RouteStays ==
  ASSUME OneFault, TypeOK, TypeOK', StageInv, StatusInv, CarryInv, UnroutedInv, [Next]_vars,
         NEW a \in Actor, Alone(a), NEW d \in Deployment,
         d \in Deps(caddy.routes) \cup Deps(caddyfile.routes)
  PROVE  row'[d].status = "running" \/ MayServe(d)'
<1>0. StageAt(d) /\ SpentAt(d) /\ UnroutedAt(d) /\ d \in Actor
  BY DEF StageInv, UnroutedInv, Actor
<1>1. CASE row[d].status = "running" BY <1>1, RunningMoves DEF ListRunning
<1>2. CASE row[d].status # "running"
  <2>1. MayServe(d) BY <1>0, <1>2 DEF UnroutedAt
  <2>2. ~(resync[d] /\ pc[d] = "applied")
    <3> SUFFICES ASSUME resync[d], pc[d] = "applied" PROVE FALSE OBVIOUS
    <3>1. Deps(caddyfile.routes) = ListRunning BY <1>0, SyncedFile
    <3>2. Deps(caddy.routes) \subseteq ListRunning BY <1>0 DEF UnroutedAt
    <3> QED BY <1>2, <3>1, <3>2 DEF ListRunning
  <2>3. CASE d = a BY <1>0, <1>2, <2>1, <2>2, <2>3, ServeStays
  <2>4. CASE d # a BY <1>0, <2>1, <2>4, ServeResting DEF Alone
  <2> QED BY <2>3, <2>4
<1> QED BY <1>1, <1>2

\* What is new in the Caddyfile comes from the routes of the lone actor.
LEMMA FileDeps ==
  ASSUME TypeOK, CarryInv, NEW a \in Actor, Alone(a), [Next]_vars
  PROVE  \/ caddyfile' = caddyfile
         \/ caddyfile'.routes = {}
         \/ /\ ApplyStep(a) /\ pc[a] = "write" /\ pc'[a] \in {"ensure", "apply_failed"}
            /\ caddyfile'.routes = routes[a]
<1>0. FileAt(a) BY DEF CarryInv
<1>1. CASE OpenConfig(a) BY <1>1 DEF OpenConfig
<1>2. CASE writeConfig(a) /\ ApplyStep(a)
  <2>1. caddyfile.routes = {} BY <1>0, <1>2 DEF writeConfig, At, FileAt
  <2>2. Overwrite({}, routes[a]).routes = routes[a] BY DEF Overwrite
  <2>3. caddyfile'.routes = routes[a] /\ pc'[a] \in {"ensure", "apply_failed"}
    BY <1>2, <2>1, <2>2, GotoAt DEF writeConfig
  <2> QED BY <1>2, <2>3 DEF writeConfig, At
<1>3. CASE ApplyStep(a) /\ ~OpenConfig(a) /\ ~writeConfig(a)
  BY <1>3 DEF ApplyStep, ApplyRoutes, ensureContainer, Reload
<1>4. CASE ~ApplyStep(a) BY <1>4, FileMoves
<1> QED BY <1>1, <1>2, <1>3, <1>4 DEF ApplyStep, ApplyRoutes

\* The lone actor's routes are of running deployments and of its own.
LEMMA OwnRoutes ==
  ASSUME CarryInv, NEW a \in Actor, ApplyStep(a), pc[a] \in {"write", "ensure", "reload"},
         pc'[a] \in {"ensure", "reload", "applied", "apply_failed"},
         NEW d \in Deployment, d \in Deps(routes[a])
  PROVE  row'[d].status = "running" \/ MayServe(d)'
<1>1. Deps(routes[a]) = ListRunning \cup (IF resync[a] THEN {} ELSE {a})
  BY DEF CarryInv, RoutesAt, Carrying
<1>2. row' = row BY DEF ApplyStep
<1> QED BY <1>1, <1>2 DEF ListRunning, MayServe

\* UnroutedAt is kept, whoever is alone.
LEMMA UnroutedMove ==
  ASSUME OneFault, TypeOK, TypeOK', StageInv, StatusInv, CarryInv, UnroutedInv, [Next]_vars,
         NEW a \in Actor, Alone(a), NEW d \in Deployment
  PROVE  UnroutedAt(d)'
<1>0. UnroutedAt(d) /\ d \in Actor BY DEF UnroutedInv, Actor
<1>a. d = a \/ pc[d] \in Resting BY <1>0 DEF Alone
<1>p. ASSUME pc'[d] = "applied" PROVE (pc[d] = "applied" /\ resync'[d] = resync[d]) \/ ApplyStep(d)
  <2>1. CASE d = a
    <3>1. CASE pc[d] = "applied"
      <4>1. LocalMove(d) BY LocalMoves
      <4>2. CASE StoreMove(d) BY <3>1, <4>2 DEF StoreMove
      <4> QED
        BY <1>p, <3>1, <4>1, <4>2
        DEF LocalMove, Same, CreateMove, RunMove, CleanupMove, ApplyMove, SyncMove, ExitMove,
            KilledMove, Ended
    <3> QED BY <1>p, <2>1, <3>1, ApplyOwn
  <2>2. CASE pc[d] \in Resting BY <1>0, <1>p, <2>2, RestStays DEF Resting, Ended
  <2> QED BY <1>a, <2>1, <2>2
<1>f. ASSUME d \in Deps(caddyfile'.routes) PROVE row'[d].status = "running" \/ MayServe(d)'
  <2>1. CASE caddyfile' = caddyfile BY <1>f, <2>1, RouteStays
  <2>2. CASE caddyfile'.routes = {} BY <1>f, <2>2 DEF Deps
  <2>3. CASE /\ ApplyStep(a) /\ pc[a] = "write" /\ pc'[a] \in {"ensure", "apply_failed"}
             /\ caddyfile'.routes = routes[a]
    BY <1>f, <2>3, OwnRoutes
  <2> QED BY <2>1, <2>2, <2>3, FileDeps
<1>1. CASE UNCHANGED caddy /\ ~(pc[a] = "reload" /\ pc'[a] = "applied")
  <2>1. ASSUME d \in Deps(caddy.routes)
        PROVE  row'[d].status = "running" \/ MayServe(d)'
    BY <2>1, RouteStays
  <2>2. ASSUME resync'[d], pc'[d] = "applied" PROVE Deps(caddy.routes) \subseteq ListRunning'
    <3>1. ApplyStep(d) => pc[d] = "reload"
      BY <1>0, <2>2, GotoAt
      DEF ApplyStep, ApplyRoutes, OpenConfig, writeConfig, ensureContainer, Reload, At
    <3>2. pc[d] = "applied" /\ resync[d]
      BY <1>1, <1>a, <1>p, <2>2, <3>1 DEF Resting, Ended
    <3>3. ListRunning \subseteq ListRunning' BY RunningMoves
    <3> QED BY <1>0, <3>2, <3>3 DEF UnroutedAt
  <2> QED BY <1>1, <1>f, <2>1, <2>2 DEF UnroutedAt
<1>2. CASE CaddyStep
  <2>1. UNCHANGED <<pc, row, resync, caddyfile>>
    BY <1>2 DEF CaddyStep, CaddyStops, CaddyStarts, serviceVars
  <2>2. caddy'.routes \subseteq caddyfile.routes
    BY <1>2 DEF CaddyStep, CaddyStops, CaddyStarts, Load, Loaded
  <2>3. Deps(caddy'.routes) \subseteq Deps(caddyfile.routes) BY <2>2 DEF Deps
  <2>4. ASSUME resync'[d], pc'[d] = "applied" PROVE Deps(caddyfile.routes) = ListRunning
    <3>1. resync[d] /\ pc[d] = "applied" BY <2>1, <2>4
    <3> QED BY <1>0, <3>1, SyncedFile
  <2>5. ListRunning' = ListRunning BY <2>1 DEF ListRunning
  <2> QED BY <1>f, <2>1, <2>3, <2>4, <2>5 DEF UnroutedAt
<1>3. CASE ApplyStep(a) /\ Load /\ pc[a] \in {"ensure", "reload"}
  <2>1. caddy'.routes = routes[a] BY <1>3, LoadOwn DEF CarryInv
  <2>2. Deps(routes[a]) = ListRunning \cup (IF resync[a] THEN {} ELSE {a})
    BY <1>3 DEF CarryInv, RoutesAt, Carrying
  <2>3. row' = row /\ resync' = resync BY <1>3 DEF ApplyStep, serviceVars
  <2>4. pc'[a] \in {"reload", "applied", "apply_failed"}
    BY <1>3, GotoAt
    DEF ApplyStep, ApplyRoutes, OpenConfig, writeConfig, ensureContainer, Reload, At
  <2>5. ASSUME d \in Deps(caddy'.routes) PROVE row'[d].status = "running" \/ MayServe(d)'
    BY <1>3, <2>1, <2>4, <2>5, OwnRoutes
  <2>6. ASSUME resync'[d], pc'[d] = "applied" PROVE Deps(caddy'.routes) \subseteq ListRunning'
    <3>1. d = a
      BY <1>0, <1>a, <2>6, RestStays DEF Resting, Ended
    <3> QED BY <2>1, <2>2, <2>3, <2>6, <3>1 DEF ListRunning
  <2> QED BY <1>f, <2>5, <2>6 DEF UnroutedAt
<1> QED BY <1>1, <1>2, <1>3, CaddyMoves

\* UnroutedInv is inductive.
LEMMA UnroutedStep ==
  ASSUME OneFault, TypeOK, TypeOK', StageInv, StatusInv, StartInv, OneActive, CarryInv,
         UnroutedInv, [Next]_vars
  PROVE  UnroutedInv'
<1>1. PICK a \in Actor : Alone(a) BY SomebodyAlone
<1>2. ASSUME NEW d \in Deployment PROVE SpentAt(d)'
  <2>1. CASE d = a BY <1>1, <2>1, SpentMove DEF StageInv, CarryInv, UnroutedInv
  <2>2. CASE d # a BY <1>1, <2>2, SpentResting DEF Alone, Actor, UnroutedInv
  <2> QED BY <2>1, <2>2
<1> QED BY <1>1, <1>2, UnroutedMove DEF UnroutedInv

(***************************************************************************)
(* With one worker at a time and one failure of any kind, a deployment     *)
(* whose worker has ended with a failed row is not served: also when the   *)
(* failure was the answer of a reload that Caddy had applied, and whatever *)
(* restarts of the backend and of Caddy happen.                            *)
(***************************************************************************)
THEOREM FailedUnrouted ==
  ASSUME OneAtATime, OneFault
  PROVE  Spec => []FailedIsUnrouted
<1>1. Init => UnroutedInv
  <2> SUFFICES ASSUME Init, NEW d \in Deployment PROVE SpentAt(d) /\ UnroutedAt(d)
    BY DEF UnroutedInv
  <2>0. caddy.routes = {} /\ caddyfile.routes = {} BY DEF Init
  <2>1. caddy.routes = {} /\ caddyfile.routes = {} /\ pc[d] = "idle" /\ ~resync[d] BY <2>0, InitLocal
  <2> QED BY <2>1 DEF SpentAt, FailedOnce, UnroutedAt, Deps
<1>2. /\ TypeOK /\ TypeOK' /\ StageInv /\ StatusInv /\ StartInv /\ OneActive /\ CarryInv
      /\ UnroutedInv /\ [Next]_vars
      => UnroutedInv'
  BY UnroutedStep
<1>3. StageInv /\ UnroutedInv => FailedIsUnrouted
  BY DEF UnroutedInv, UnroutedAt, MayServe, FailedIsUnrouted, At, Deps, Failing, Listing, Applying
<1> QED
  BY <1>1, <1>2, <1>3, TypeCorrect, StageCorrect, StatusCorrect, StartCorrect,
     OneActiveCorrect, CarryCorrect, PTL DEF Spec
=============================================================================
