---------------------------- MODULE PipelineProofs ----------------------------
(***************************************************************************)
(* Theorems about how the pipelines of DeploymentService end: marked,      *)
(* stopped, or running on their own container.  Each says which failures   *)
(* it excludes, and nothing else of the constants.                         *)
(*                                                                         *)
(* The invariants are about one deployment at a time, so a step is first   *)
(* reduced to what one deployment sees of it (LocalMoves).                 *)
(***************************************************************************)
EXTENDS DeploymentServiceProofs, FiniteSetTheorems

(***************************************************************************)
(* What one deployment sees of a step: its worker makes one of the moves   *)
(* below, its container ends, the backend restarts, or nothing changes but *)
(* its live URL, which a resynchronisation saves.                          *)
(***************************************************************************)
SameRow(d) ==
  /\ row'[d].status = row[d].status
  /\ row'[d].port = row[d].port

SameContainer(d) == container'[d] = container[d] /\ hostPort'[d] = hostPort[d]

Same(d) ==
  /\ pc'[d] = pc[d]
  /\ SameRow(d)
  /\ SameContainer(d)
  /\ resync'[d] = resync[d]

CreateMove(d) ==
  /\ pc[d] = "idle"
  /\ row'[d] = NewRow
  /\ \/ NoFault /\ pc'[d] = "load"
     \/ Fault("lost") /\ pc'[d] = "rejected"
  /\ SameContainer(d) /\ resync'[d] = resync[d]

(***************************************************************************)
(* A call of the worker at a label: it succeeds, it fails without effect   *)
(* by a failure of one of the kinds, or its answer is lost.                *)
(***************************************************************************)
Call(d, label, next, new, onError, kinds) ==
  /\ pc[d] = label
  /\ \/ NoFault /\ pc'[d] = next /\ row'[d] = new
     \/ \E k \in kinds \ {"lost"} : Fault(k) /\ pc'[d] = onError /\ row'[d] = row[d]
     \/ "lost" \in kinds /\ Fault("lost") /\ pc'[d] = onError /\ row'[d] = new

Ask(d, label, next, onError) == Call(d, label, next, row[d], onError, {"read"})
Write(d, label, new, next, onError) == Call(d, label, next, new, onError, {"write", "lost"})
Work(d, label, next) == Call(d, label, next, row[d], "fail_check", {"stage"})

StoreMove(d) ==
  /\ \/ Ask(d, "load", "clone", "returned") \/ Work(d, "load", "clone")
     \/ Work(d, "clone", "save_source")
     \/ Write(d, "save_source", row[d], "inspect", "fail_check")
     \/ Write(d, "inspect", row[d], "start_build", "fail_check")
     \/ Ask(d, "start_build",
            IF CanTransition(row[d].status, "building") THEN "set_building" ELSE "returned", "returned")
     \/ Write(d, "set_building", SetStatus(row[d], "building"), "build", "returned")
     \/ Work(d, "build", "save_image")
     \/ Write(d, "save_image", SaveImageTag(row[d]), "start_deploy", "fail_check")
     \/ Ask(d, "start_deploy",
            IF CanTransition(row[d].status, "deploying") THEN "set_deploying" ELSE "returned", "returned")
     \/ Write(d, "set_deploying", SetStatus(row[d], "deploying"), "env_vars", "returned")
     \/ Ask(d, "env_vars", "run", "fail_check")
     \/ Write(d, "ran", SaveRuntime(row[d], hostPort[d]), "routes", "cleanup")
     \/ Ask(d, "routes", "open", "cleanup")
     \/ /\ ~resync[d]
        /\ Ask(d, "applied",
               IF CanTransition(row[d].status, "running") THEN "complete" ELSE "cleanup_resync",
               "cleanup_resync")
     \/ Write(d, "complete", Complete(row[d], host), "returned", "cleanup_resync")
     \/ \E label \in {"fail_check", "run_failed"} :
          Ask(d, label, IF MayFail(row[d].status) THEN "fail" ELSE AfterFail(d), AfterFail(d))
     \/ Write(d, "fail", Fail(row[d]), AfterFail(d), AfterFail(d))
  /\ SameContainer(d) /\ resync'[d] = resync[d]

\* The container after docker rm -f.
Removed(d) == container'[d] = "none" \/ (Fault("rm") /\ container'[d] = container[d])

RunMove(d) ==
  /\ \/ /\ pc[d] = "run" /\ container'[d] = "none"
        /\ pc'[d] \in {"docker_run", "run_failed"}
     \/ /\ pc[d] = "docker_run" /\ hostPort'[d] = hostPort[d]
        /\ \/ /\ pc'[d] = "health" \/ (pc'[d] = "run_failed" /\ Fault("run_lost"))
              /\ container'[d] = "running" /\ ~PortBusy(hostPort[d])
           \/ pc'[d] = "run_failed" /\ container'[d] \in {"none", "created"}
     \/ /\ pc[d] = "health" /\ SameContainer(d)
        /\ \/ pc'[d] = "probe" /\ container[d] = "running"
           \/ pc'[d] = "capture"
     \/ /\ pc[d] = "probe" /\ SameContainer(d)
        /\ \/ pc'[d] = "ran" /\ PortBusy(hostPort[d])
           \/ pc'[d] \in {"health", "capture"}
     \/ /\ pc[d] = "capture" /\ hostPort'[d] = hostPort[d]
        /\ Removed(d) /\ pc'[d] = "run_failed"
  /\ row'[d] = row[d] /\ resync'[d] = resync[d]

CleanupMove(d) ==
  /\ \/ pc[d] = "cleanup" /\ resync'[d] = resync[d]
     \/ /\ pc[d] = "cleanup_resync" \/ (pc[d] = "apply_failed" /\ ~resync[d])
        /\ resync'[d]
  /\ pc'[d] = "fail_check"
  /\ Removed(d) /\ hostPort'[d] = hostPort[d]
  /\ row'[d] = row[d]

ApplyMove(d) ==
  /\ \/ pc[d] = "open" /\ pc'[d] \in {"write", "apply_failed"}
     \/ pc[d] = "write" /\ pc'[d] \in {"ensure", "apply_failed"}
     \/ pc[d] = "ensure" /\ pc'[d] \in {"reload", "apply_failed"}
     \/ pc[d] = "reload" /\ pc'[d] \in {"applied", "apply_failed"}
  /\ row'[d] = row[d] /\ SameContainer(d) /\ resync'[d] = resync[d]

SyncMove(d) ==
  /\ \/ pc[d] = "sync_list" /\ pc'[d] \in {"sync_save", "returned"}
     \/ pc[d] = "sync_save" /\ pc'[d] \in {"sync_save", "open", "returned"}
     \/ pc[d] \in {"applied", "apply_failed"} /\ resync[d] /\ pc'[d] = "returned"
  /\ SameRow(d) /\ SameContainer(d) /\ resync'[d] = resync[d]

ExitMove(d) ==
  /\ container[d] = "running" /\ container'[d] = "exited" /\ hostPort'[d] = hostPort[d]
  /\ Fault(IF pc[d] \in {"health", "probe"} THEN "boot" ELSE "exit")
  /\ pc'[d] = pc[d] /\ row'[d] = row[d] /\ resync'[d] = resync[d]

KilledMove(d) ==
  /\ pc'[d] = IF pc[d] \in Ended THEN pc[d] ELSE "killed"
  /\ resync'[d] = FALSE
  /\ row'[d] = row[d] /\ SameContainer(d)

LocalMove(d) ==
  \/ Same(d) \/ CreateMove(d) \/ StoreMove(d) \/ RunMove(d) \/ CleanupMove(d)
  \/ ApplyMove(d) \/ SyncMove(d) \/ ExitMove(d) \/ KilledMove(d)

-----------------------------------------------------------------------------
\* A step of somebody else leaves d alone.
Elsewhere(d) ==
  /\ pc'[d] = pc[d] /\ row'[d] = row[d] /\ SameContainer(d) /\ resync'[d] = resync[d]

LEMMA ElsewhereSame == ASSUME NEW d, Elsewhere(d) PROVE LocalMove(d)
BY DEF Elsewhere, Same, SameRow, LocalMove

\* The functions of a step, at their arguments.
LEMMA GotoAt ==
  ASSUME TypeOK, NEW a \in Actor, NEW l, Goto(a, l)
  PROVE  pc'[a] = l /\ \A b \in Actor \ {a} : pc'[b] = pc[b]
BY DEF TypeOK, Goto

LEMMA ContainerAt ==
  ASSUME TypeOK, NEW d \in Deployment, NEW c, SetContainer(d, c)
  PROVE  container'[d] = c /\ \A e \in Deployment \ {d} : container'[e] = container[e]
BY DEF TypeOK, SetContainer

LEMMA QueryAt ==
  ASSUME TypeOK, NEW d \in Deployment, NEW label, At(d, label), NEW next, NEW onError,
         Query(d, next, onError)
  PROVE  Ask(d, label, next, onError)
         /\ \A e \in Deployment \ {d} : pc'[e] = pc[e] /\ row'[e] = row[e]
BY RowOf, GotoAt DEF Query, At, Ask, Call, Actor

LEMMA UpdateAt ==
  ASSUME TypeOK, NEW d \in Deployment, NEW label, At(d, label), NEW new, NEW next, NEW onError,
         updateAndGet(d, d, new, next, onError)
  PROVE  Write(d, label, new, next, onError)
         /\ \A e \in Deployment \ {d} : pc'[e] = pc[e] /\ row'[e] = row[e]
<1>1. d \in Actor /\ row \in [Deployment -> Row] BY RowOf DEF TypeOK
<1>2. \A e \in Deployment \ {d} : pc'[e] = pc[e]
  BY <1>1, GotoAt DEF updateAndGet, Actor
<1>3. \A e \in Deployment \ {d} : row'[e] = row[e]
  BY <1>1 DEF updateAndGet
<1>4. Write(d, label, new, next, onError)
  <2>1. CASE NoFault /\ row' = [row EXCEPT ![d] = new] /\ Goto(d, next)
    BY <1>1, <2>1, GotoAt DEF At, Write, Call
  <2>2. CASE Fault("write") /\ Goto(d, onError) /\ UNCHANGED row
    BY <1>1, <2>2, GotoAt DEF At, Write, Call
  <2>3. CASE Fault("lost") /\ row' = [row EXCEPT ![d] = new] /\ Goto(d, onError)
    BY <1>1, <2>3, GotoAt DEF At, Write, Call
  <2> QED BY <2>1, <2>2, <2>3 DEF updateAndGet
<1> QED BY <1>2, <1>3, <1>4

LEMMA StageAtLabel ==
  ASSUME TypeOK, NEW d \in Deployment, NEW label, At(d, label), NEW next, Stage(d, next)
  PROVE  Work(d, label, next)
         /\ \A e \in Deployment \ {d} : pc'[e] = pc[e] /\ row'[e] = row[e]
BY RowOf, GotoAt DEF Stage, At, Work, Call, Actor

LEMMA StoreLocal ==
  ASSUME TypeOK, NEW d \in Deployment, StoreStep(d)
  PROVE  StoreMove(d) /\ \A e \in Deployment \ {d} : Elsewhere(e)
<1>a. UNCHANGED <<container, hostPort, resync>> BY DEF StoreStep, runtimeVars, serviceVars
<1> SUFFICES StoreMove(d) /\ \A e \in Deployment \ {d} : pc'[e] = pc[e] /\ row'[e] = row[e]
  BY <1>a DEF Elsewhere, SameContainer
<1>s. SameContainer(d) /\ resync'[d] = resync[d] BY <1>a DEF SameContainer
<1>t. row[d] \in Row /\ row = [row EXCEPT ![d] = row[d]] BY DEF TypeOK
<1>1. CASE loadDeploymentForPipeline(d)
  <2>1. At(d, "load") /\ (Query(d, "clone", "returned") \/ Stage(d, "clone"))
    BY <1>1 DEF loadDeploymentForPipeline
  <2> QED BY <1>s, <2>1, QueryAt, StageAtLabel DEF StoreMove
<1>2. CASE SaveDeploymentSourcePath(d)
  BY <1>2, <1>s, UpdateAt DEF SaveDeploymentSourcePath, touch, StoreMove
<1>3. CASE inspectDeploymentSource(d)
  BY <1>3, <1>s, UpdateAt DEF inspectDeploymentSource, touch, StoreMove
<1>4. CASE StartBuild(d)
  BY <1>4, <1>s, QueryAt DEF StartBuild, ValidateTransition, StoreMove
<1>5. CASE SetBuilding(d) BY <1>5, <1>s, UpdateAt DEF SetBuilding, StoreMove
<1>6. CASE SaveDeploymentImageTag(d)
  BY <1>6, <1>s, UpdateAt DEF SaveDeploymentImageTag, StoreMove
<1>7. CASE StartDeploy(d)
  BY <1>7, <1>s, QueryAt DEF StartDeploy, ValidateTransition, StoreMove
<1>8. CASE SetDeploying(d) BY <1>8, <1>s, UpdateAt DEF SetDeploying, StoreMove
<1>9. CASE GetEnvVars(d) BY <1>9, <1>s, QueryAt DEF GetEnvVars, StoreMove
<1>10. CASE SaveDeploymentRuntime(d)
  BY <1>10, <1>s, UpdateAt DEF SaveDeploymentRuntime, StoreMove
<1>11. CASE CheckComplete(d)
  BY <1>11, <1>s, QueryAt DEF CheckComplete, ValidateTransition, StoreMove
<1>12. CASE CompleteDeployment(d) BY <1>12, <1>s, UpdateAt DEF CompleteDeployment, StoreMove
<1>13. CASE CheckFail(d)
  <2>1. PICK label \in {"fail_check", "run_failed"} : At(d, label)
    BY <1>13 DEF CheckFail
  <2>2. Ask(d, label, IF MayFail(row[d].status) THEN "fail" ELSE AfterFail(d), AfterFail(d))
        /\ \A e \in Deployment \ {d} : pc'[e] = pc[e] /\ row'[e] = row[e]
    BY <1>13, <2>1, QueryAt DEF CheckFail
  <2> QED BY <1>s, <2>2 DEF StoreMove
<1>14. CASE FailDeployment(d) BY <1>14, <1>s, UpdateAt DEF FailDeployment, StoreMove
<1> QED
  BY <1>1, <1>2, <1>3, <1>4, <1>5, <1>6, <1>7, <1>8, <1>9, <1>10, <1>11, <1>12, <1>13,
     <1>14, StoreStep(d) DEF StoreStep

LEMMA StageLocal ==
  ASSUME TypeOK, NEW d \in Deployment, StageStep(d)
  PROVE  StoreMove(d) /\ \A e \in Deployment \ {d} : Elsewhere(e)
<1>1. UNCHANGED <<container, hostPort, resync>> BY DEF StageStep, runtimeVars, serviceVars
<1>2. CASE Clone(d) BY <1>1, <1>2, StageAtLabel DEF Clone, StoreMove, Elsewhere, SameContainer
<1>3. CASE Build(d) BY <1>1, <1>3, StageAtLabel DEF Build, StoreMove, Elsewhere, SameContainer
<1> QED BY <1>2, <1>3 DEF StageStep

LEMMA IngressLocal ==
  ASSUME TypeOK, NEW d \in Deployment, configureDeploymentIngress(d)
  PROVE  StoreMove(d) /\ \A e \in Deployment \ {d} : Elsewhere(e)
<1>1. UNCHANGED <<container, hostPort, resync>>
  BY DEF configureDeploymentIngress, runtimeVars, serviceVars
<1> QED
  BY <1>1, QueryAt DEF configureDeploymentIngress, StoreMove, Elsewhere, SameContainer

LEMMA RunLocal ==
  ASSUME TypeOK, NEW d \in Deployment, RunStep(d)
  PROVE  RunMove(d) /\ \A e \in Deployment \ {d} : Elsewhere(e)
<1>1. row' = row /\ resync' = resync BY DEF RunStep, serviceVars
<1>2. d \in Actor /\ Deployment \subseteq Actor BY DEF Actor
<1>3. CASE FindPort(d)
  <2>1. \A e \in Deployment \ {d} : hostPort'[e] = hostPort[e] BY <1>3 DEF FindPort, TypeOK
  <2> QED
    BY <1>1, <1>2, <1>3, <2>1, GotoAt, ContainerAt
    DEF FindPort, At, RunMove, Elsewhere, SameContainer
<1>4. CASE DockerRun(d)
  BY <1>1, <1>2, <1>4, GotoAt, ContainerAt DEF DockerRun, At, RunMove, Elsewhere, SameContainer
<1>5. CASE isContainerRunning(d) \/ probeHealthTargets(d)
  BY <1>1, <1>2, <1>5, GotoAt
  DEF isContainerRunning, probeHealthTargets, At, RunMove, Elsewhere, SameContainer, runtimeVars
<1>6. CASE captureStartupFailure(d)
  BY <1>1, <1>2, <1>6, GotoAt, ContainerAt
  DEF captureStartupFailure, Remove, Removed, At, RunMove, Elsewhere, SameContainer
<1> QED BY <1>3, <1>4, <1>5, <1>6 DEF RunStep, Run

LEMMA CleanupLocal ==
  ASSUME TypeOK, NEW d \in Deployment, Cleanup(d)
  PROVE  CleanupMove(d) /\ \A e \in Deployment \ {d} : Elsewhere(e)
<1>1. row' = row /\ hostPort' = hostPort BY DEF Cleanup
<1>2. d \in Actor /\ Deployment \subseteq Actor BY DEF Actor
<1>3. Removed(d) /\ \A e \in Deployment \ {d} : container'[e] = container[e]
  BY ContainerAt DEF Cleanup, Remove, Removed
<1>4. pc'[d] = "fail_check" /\ \A e \in Deployment \ {d} : pc'[e] = pc[e]
  BY <1>2, GotoAt DEF Cleanup
<1>5. /\ \/ pc[d] = "cleanup" /\ resync'[d] = resync[d]
         \/ /\ pc[d] = "cleanup_resync" \/ (pc[d] = "apply_failed" /\ ~resync[d])
            /\ resync'[d]
      /\ \A e \in Deployment \ {d} : resync'[e] = resync[e]
  BY <1>2 DEF Cleanup, At, TypeOK
<1> QED BY <1>1, <1>3, <1>4, <1>5 DEF CleanupMove, Elsewhere, SameContainer

LEMMA ApplyLocal ==
  ASSUME TypeOK, NEW a \in Actor, ApplyStep(a)
  PROVE  /\ a \in Deployment => ApplyMove(a)
         /\ \A e \in Deployment \ {a} : Elsewhere(e)
<1>1. UNCHANGED <<row, container, hostPort, resync>>
  BY DEF ApplyStep, runtimeVars, serviceVars
<1>2. Deployment \subseteq Actor BY DEF Actor
<1> QED
  BY <1>1, <1>2, GotoAt
  DEF ApplyStep, ApplyRoutes, OpenConfig, writeConfig, ensureContainer, Reload, At, ApplyMove,
      Elsewhere, SameContainer

\* What a resynchronisation may do to any row.
LEMMA SyncRows ==
  ASSUME TypeOK, NEW a \in Actor, SyncStep(a), NEW d \in Deployment
  PROVE  SameRow(d)
<1>1. CASE row' = row BY <1>1 DEF SameRow
<1>2. ASSUME NEW e \in todo[a],
             updateAndGet(a, e, SaveLiveURL(row[e], host), "sync_save", SyncEnd(a))
      PROVE  SameRow(d)
  <2>1. e \in Deployment /\ row[e] \in Row /\ host \in Host BY RowOf DEF TypeOK
  <2>2. SaveLiveURL(row[e], host).status = row[e].status
        /\ SaveLiveURL(row[e], host).port = row[e].port
    BY <2>1, SaveLiveURLRow
  <2>3. row' = row \/ row' = [row EXCEPT ![e] = SaveLiveURL(row[e], host)]
    BY <1>2 DEF updateAndGet
  <2> QED BY <2>1, <2>2, <2>3 DEF SameRow, TypeOK
<1> QED BY <1>1, <1>2 DEF SyncStep, SyncList, SyncSave, SyncReturn, Query

LEMMA SyncLocal ==
  ASSUME TypeOK, NEW a \in Actor, SyncStep(a)
  PROVE  /\ a \in Deployment => SyncMove(a)
         /\ \A e \in Deployment \ {a} : Same(e)
<1>1. UNCHANGED <<container, hostPort, resync>>
  BY DEF SyncStep, SyncList, SyncSave, SyncReturn, runtimeVars, serviceVars
<1>2. Deployment \subseteq Actor BY DEF Actor
<1>3. \A e \in Deployment \ {a} : pc'[e] = pc[e]
  BY <1>2, GotoAt DEF SyncStep, SyncList, SyncSave, SyncReturn, Query, updateAndGet
<1>4. ASSUME a \in Deployment
      PROVE  \/ pc[a] = "sync_list" /\ pc'[a] \in {"sync_save", "returned"}
             \/ pc[a] = "sync_save" /\ pc'[a] \in {"sync_save", "open", "returned"}
             \/ pc[a] \in {"applied", "apply_failed"} /\ resync[a] /\ pc'[a] = "returned"
  <2>1. SyncEnd(a) = "returned" BY <1>4, BackendAssumption DEF SyncEnd, BackendAssumption
  <2> QED
    BY <2>1, GotoAt DEF SyncStep, SyncList, SyncSave, SyncReturn, Query, updateAndGet, At
<1> QED BY <1>1, <1>3, <1>4, SyncRows DEF SyncMove, Same, SameContainer

LEMMA CreateLocal ==
  ASSUME TypeOK, NEW d \in Deployment, CreateDeployment(d)
  PROVE  /\ CreateMove(d) \/ Same(d)
         /\ \A e \in Deployment \ {d} : Elsewhere(e)
<1>1. UNCHANGED <<container, hostPort, resync>>
  BY DEF CreateDeployment, runtimeVars, serviceVars
<1>2. d \in Actor /\ Deployment \subseteq Actor BY DEF Actor
<1>3. CASE UNCHANGED <<row, pc>>
  BY <1>1, <1>3 DEF Same, SameRow, SameContainer, Elsewhere
<1>4. CASE /\ row' = [row EXCEPT ![d] = NewRow]
           /\ (NoFault /\ Goto(d, "load")) \/ (Fault("lost") /\ Goto(d, "rejected"))
  <2>1. row'[d] = NewRow /\ \A e \in Deployment \ {d} : row'[e] = row[e]
    BY <1>4 DEF TypeOK
  <2> QED
    BY <1>1, <1>2, <1>4, <2>1, GotoAt
    DEF CreateDeployment, At, CreateMove, SameContainer, Elsewhere
<1> QED BY <1>3, <1>4 DEF CreateDeployment

LEMMA RestartLocal ==
  ASSUME TypeOK, Restart, NEW d \in Deployment
  PROVE  KilledMove(d)
<1>1. d \in Actor /\ d # Main BY BackendAssumption DEF Actor, BackendAssumption
<1> QED BY <1>1 DEF Restart, KilledMove, Active, SameContainer, runtimeVars

LEMMA EnvironmentLocal ==
  ASSUME TypeOK, (\E e \in Deployment : Environment(e)) \/ CaddyStep, NEW d \in Deployment
  PROVE  ExitMove(d) \/ Elsewhere(d)
<1>1. ASSUME NEW e \in Deployment, Environment(e) PROVE ExitMove(d) \/ Elsewhere(d)
  BY <1>1, ContainerAt
  DEF Environment, ContainerExits, ExitMove, Elsewhere, SameContainer, serviceVars
<1>2. CASE CaddyStep
  BY <1>2 DEF CaddyStep, CaddyStops, CaddyStarts, Elsewhere, SameContainer, runtimeVars, serviceVars
<1> QED BY <1>1, <1>2

(***************************************************************************)
(* Every step is one of the moves for every deployment.                    *)
(***************************************************************************)
LEMMA LocalMoves ==
  ASSUME TypeOK, [Next]_vars, NEW d \in Deployment
  PROVE  LocalMove(d)
<1>1. ASSUME NEW e \in Deployment, CreateDeployment(e) PROVE LocalMove(d)
  BY <1>1, CreateLocal, ElsewhereSame DEF LocalMove
<1>2. ASSUME NEW e \in Deployment,
             StoreStep(e) \/ configureDeploymentIngress(e) \/ StageStep(e)
      PROVE  LocalMove(d)
  BY <1>2, StoreLocal, IngressLocal, StageLocal, ElsewhereSame DEF LocalMove
<1>3. ASSUME NEW e \in Deployment, RunStep(e) \/ Cleanup(e) PROVE LocalMove(d)
  BY <1>3, RunLocal, CleanupLocal, ElsewhereSame DEF LocalMove
<1>4. ASSUME NEW a \in Actor, ApplyStep(a) PROVE LocalMove(d)
  BY <1>4, ApplyLocal, ElsewhereSame DEF LocalMove
<1>5. ASSUME NEW a \in Actor, SyncStep(a) PROVE LocalMove(d)
  BY <1>5, SyncLocal DEF LocalMove
<1>6. CASE (\E e \in Deployment : Environment(e)) \/ CaddyStep
  BY <1>6, EnvironmentLocal, ElsewhereSame DEF LocalMove
<1>7. CASE Restart BY <1>7, RestartLocal DEF LocalMove
<1>8. CASE UNCHANGED vars
  BY <1>8 DEF vars, runtimeVars, serviceVars, LocalMove, Same, SameRow, SameContainer
<1> QED BY <1>1, <1>2, <1>3, <1>4, <1>5, <1>6, <1>7, <1>8, NextCases

-----------------------------------------------------------------------------
(***************************************************************************)
(* The status of a row at each label of its worker, for any failures: the  *)
(* pipeline ends when a change of status reports an error, so it never     *)
(* goes on under another status than the one its stage is for.             *)
(***************************************************************************)
Pending == {"load", "clone", "save_source", "inspect", "start_build", "set_building"}
Building == {"build", "save_image", "start_deploy", "set_deploying"}
Deploying ==
  {"env_vars", "run", "docker_run", "health", "probe", "capture", "run_failed", "ran",
   "routes", "complete", "cleanup"}
Failing == {"fail_check", "fail"}
Listing == {"sync_list", "sync_save"}

StageAt(d) ==
  LET status == row[d].status
  IN  /\ pc[d] = "idle" => status = "absent"
      /\ pc[d] \in Pending => status = "pending"
      /\ pc[d] \in Building => status = "building"
      /\ pc[d] \in Deploying \/ (pc[d] \in Applying /\ ~resync[d]) => status = "deploying"
      /\ pc[d] \in Listing => resync[d]
      /\ resync[d] => pc[d] \in Failing \cup Listing \cup Applying \cup {"returned"}

StageInv == \A d \in Deployment : StageAt(d)

\* The statuses the writes of a pipeline leave.
LEMMA WriteStatus ==
  ASSUME TypeOK, NEW d \in Deployment
  PROVE  /\ SetStatus(row[d], "building").status = "building"
         /\ SetStatus(row[d], "deploying").status = "deploying"
         /\ SaveImageTag(row[d]).status = row[d].status
         /\ SaveRuntime(row[d], hostPort[d]).status = row[d].status
         /\ Complete(row[d], host).status = "running"
         /\ Fail(row[d]).status = "failed"
         /\ NewRow.status = "pending"
<1>1. /\ row[d] \in Row /\ host \in Host /\ hostPort[d] \in Port \cup {NoPort}
      /\ "building" \in Status /\ "deploying" \in Status
  BY DEF TypeOK, Status
<1>2. SetStatus(row[d], "building").status = "building"
      /\ SetStatus(row[d], "deploying").status = "deploying"
  BY <1>1, SetStatusRow
<1>3. SaveImageTag(row[d]).status = row[d].status BY <1>1, SaveImageTagRow
<1>4. SaveRuntime(row[d], hostPort[d]).status = row[d].status BY <1>1, SaveRuntimeRow
<1>5. Complete(row[d], host).status = "running" BY <1>1, CompleteRow
<1>6. Fail(row[d]).status = "failed" BY <1>1, FailRow
<1>7. NewRow.status = "pending" BY DEF NewRow, NoRow
<1> QED BY <1>2, <1>3, <1>4, <1>5, <1>6, <1>7

\* StageInv is inductive.
LEMMA StageMove ==
  ASSUME TypeOK, NEW d \in Deployment, StageAt(d), LocalMove(d)
  PROVE  StageAt(d)'
<1> USE DEF StageAt, Pending, Building, Deploying, Failing, Listing, Applying
<1>1. CASE Same(d) BY <1>1 DEF Same, SameRow
<1>2. CASE CreateMove(d) BY <1>2, WriteStatus DEF CreateMove
<1>3. CASE StoreMove(d)
  BY <1>3, WriteStatus DEF StoreMove, Call, Ask, Write, Work, AfterFail, CanTransition, allowedTransitions
<1>4. CASE RunMove(d) BY <1>4 DEF RunMove
<1>5. CASE CleanupMove(d) BY <1>5 DEF CleanupMove
<1>6. CASE ApplyMove(d) BY <1>6 DEF ApplyMove
<1>7. CASE SyncMove(d) BY <1>7 DEF SyncMove, SameRow
<1>8. CASE ExitMove(d) BY <1>8 DEF ExitMove
<1>9. CASE KilledMove(d) BY <1>9 DEF KilledMove, Ended
<1> QED BY <1>1, <1>2, <1>3, <1>4, <1>5, <1>6, <1>7, <1>8, <1>9 DEF LocalMove

\* Every worker is idle, and resynchronises nothing, initially.
LEMMA InitLocal ==
  ASSUME Init, NEW d \in Deployment
  PROVE  pc[d] = "idle" /\ ~resync[d] /\ row[d] = NoRow /\ container[d] = "none"
BY BackendAssumption DEF Init, Actor, BackendAssumption

LEMMA StageCorrect == Spec => []StageInv
<1>1. Init => StageInv
  BY InitLocal
  DEF StageInv, StageAt, NoRow, Pending, Building, Deploying, Failing, Listing, Applying
<1>2. TypeOK /\ StageInv /\ [Next]_vars => StageInv' BY LocalMoves, StageMove DEF StageInv
<1> QED BY <1>1, <1>2, TypeCorrect, PTL DEF Spec

-----------------------------------------------------------------------------
(***************************************************************************)
(* While the store answers: a worker that fails reaches FailDeployment     *)
(* under a status from which the engine lets it fail, and one that         *)
(* resynchronises has already failed.                                      *)
(***************************************************************************)
StoreAnswers == {"read", "write", "lost"} \cap FaultKinds = {}

Unfinished == {"pending", "building", "deploying"}

MarkedAt(d) ==
  LET status == row[d].status
  IN  /\ pc[d] # "rejected"
      /\ pc[d] \in Failing \cup {"cleanup_resync"} => status \in Unfinished
      /\ resync[d] /\ pc[d] \notin Failing => status = "failed"
      /\ pc[d] = "returned" => status \in {"running", "failed"}

MarkedInv == \A d \in Deployment : MarkedAt(d)

LEMMA MarkedMove ==
  ASSUME StoreAnswers, TypeOK, NEW d \in Deployment, StageAt(d), MarkedAt(d), LocalMove(d)
  PROVE  MarkedAt(d)'
<1>0. ~Fault("read") /\ ~Fault("write") /\ ~Fault("lost") BY DEF StoreAnswers, Fault
<1> USE DEF StageAt, Pending, Building, Deploying, Failing, Listing, Applying, MarkedAt, Unfinished
<1>1. CASE Same(d) BY <1>1 DEF Same, SameRow
<1>2. CASE CreateMove(d) BY <1>0, <1>2, WriteStatus DEF CreateMove
<1>3. CASE StoreMove(d)
  BY <1>0, <1>3, WriteStatus
  DEF StoreMove, Call, Ask, Write, Work, AfterFail, CanTransition, allowedTransitions, MayFail
<1>4. CASE RunMove(d) BY <1>4 DEF RunMove
<1>5. CASE CleanupMove(d) BY <1>5 DEF CleanupMove
<1>6. CASE ApplyMove(d) BY <1>6 DEF ApplyMove
<1>7. CASE SyncMove(d) BY <1>7 DEF SyncMove, SameRow
<1>8. CASE ExitMove(d) BY <1>8 DEF ExitMove
<1>9. CASE KilledMove(d) BY <1>9 DEF KilledMove, Ended
<1> QED BY <1>1, <1>2, <1>3, <1>4, <1>5, <1>6, <1>7, <1>8, <1>9 DEF LocalMove

(***************************************************************************)
(* While the store answers, every worker that ends leaves its row running  *)
(* or failed, whatever else fails, for any number of workers and restarts. *)
(* (A worker that a restart has killed is not one that ends.)              *)
(***************************************************************************)
THEOREM FailedStageMarked ==
  ASSUME StoreAnswers
  PROVE  Spec => []FailedStageIsMarked
<1>1. Init => MarkedInv
  BY InitLocal DEF MarkedInv, MarkedAt, Failing
<1>2. TypeOK /\ StageInv /\ MarkedInv /\ [Next]_vars => MarkedInv'
  BY LocalMoves, MarkedMove DEF StageInv, MarkedInv
<1>3. MarkedInv => FailedStageIsMarked
  BY DEF MarkedInv, MarkedAt, FailedStageIsMarked
<1> QED BY <1>1, <1>2, <1>3, TypeCorrect, StageCorrect, PTL DEF Spec

-----------------------------------------------------------------------------
(***************************************************************************)
(* While docker rm -f and docker run tell the truth: no container runs at  *)
(* the labels before docker run and after a failure, and a failed row is   *)
(* only found at labels from which no container is started.                *)
(***************************************************************************)
DockerAnswers == {"rm", "run_lost"} \cap FaultKinds = {}

Stopped ==
  {"idle", "rejected"} \cup Pending \cup Building \cup Failing
    \cup {"env_vars", "run", "docker_run", "run_failed"}

StoppedAt(d) ==
  /\ pc[d] \in Stopped \/ resync[d] => container[d] # "running"
  /\ row[d].status = "failed" =>
       /\ container[d] # "running"
       /\ resync[d] \/ pc[d] \in Failing \cup {"returned", "killed"}

StoppedInv == \A d \in Deployment : StoppedAt(d)

LEMMA StoppedMove ==
  ASSUME DockerAnswers, TypeOK, NEW d \in Deployment, StageAt(d), StoppedAt(d), LocalMove(d)
  PROVE  StoppedAt(d)'
<1>0. ~Fault("rm") /\ ~Fault("run_lost") BY DEF DockerAnswers, Fault
<1> USE DEF StageAt, Pending, Building, Deploying, Failing, Listing, Applying, StoppedAt, Stopped
<1>1. CASE Same(d) BY <1>1 DEF Same, SameRow, SameContainer
<1>2. CASE CreateMove(d) BY <1>2, WriteStatus DEF CreateMove, SameContainer
<1>3. CASE StoreMove(d)
  BY <1>3, WriteStatus
  DEF StoreMove, Call, Ask, Write, Work, AfterFail, CanTransition, allowedTransitions, MayFail,
      SameContainer
<1>4. CASE RunMove(d) BY <1>0, <1>4 DEF RunMove, Removed, SameContainer
<1>5. CASE CleanupMove(d) BY <1>0, <1>5 DEF CleanupMove, Removed
<1>6. CASE ApplyMove(d) BY <1>6 DEF ApplyMove, SameContainer
<1>7. CASE SyncMove(d) BY <1>7 DEF SyncMove, SameRow, SameContainer
<1>8. CASE ExitMove(d) BY <1>8 DEF ExitMove
<1>9. CASE KilledMove(d) BY <1>9 DEF KilledMove, Ended, SameContainer
<1> QED BY <1>1, <1>2, <1>3, <1>4, <1>5, <1>6, <1>7, <1>8, <1>9 DEF LocalMove

(***************************************************************************)
(* A deployment marked failed has no running container, whatever fails in  *)
(* the store, the stages and Caddy, as long as a docker rm removes and a   *)
(* docker run that reports an error has started nothing.                   *)
(***************************************************************************)
THEOREM FailedStopped ==
  ASSUME DockerAnswers
  PROVE  Spec => []FailedHasStopped
<1>1. Init => StoppedInv
  BY InitLocal DEF StoppedInv, StoppedAt, NoRow
<1>2. TypeOK /\ StageInv /\ StoppedInv /\ [Next]_vars => StoppedInv'
  BY LocalMoves, StoppedMove DEF StageInv, StoppedInv
<1>3. StoppedInv => FailedHasStopped
  BY DEF StoppedInv, StoppedAt, FailedHasStopped
<1> QED BY <1>1, <1>2, <1>3, TypeCorrect, StageCorrect, PTL DEF Spec

-----------------------------------------------------------------------------
(***************************************************************************)
(* One worker at a time: nothing in the code sees to it, so it is what the *)
(* theorems below need of how the program is used.                         *)
(***************************************************************************)
OneAtATime == MaxActive =< 1

OneActive == \A d, e \in Active : d = e

LEMMA NoneActive ==
  ASSUME OneAtATime, OneActive, Cardinality(Active) < MaxActive
  PROVE  Active = {}
<1> SUFFICES ASSUME NEW d \in Active PROVE FALSE OBVIOUS
<1>1. Active = {d} BY DEF OneActive
<1>2. Cardinality(Active) = 1 BY <1>1, FS_Singleton
<1> QED BY <1>2, ServiceAssumption DEF OneAtATime, ServiceAssumption

\* A worker that has ended, or not begun, only moves by CreateDeployment.
LEMMA EndedStays ==
  ASSUME TypeOK, [Next]_vars, NEW d \in Deployment, pc[d] \in Ended
  PROVE  CreateDeployment(d) \/ pc'[d] = pc[d]
<1> USE DEF Ended, Elsewhere, Same
<1>1. ASSUME NEW e \in Deployment, CreateDeployment(e)
      PROVE  CreateDeployment(d) \/ pc'[d] = pc[d]
  BY <1>1, CreateLocal
<1>2. ASSUME NEW e \in Deployment,
             StoreStep(e) \/ configureDeploymentIngress(e) \/ StageStep(e)
      PROVE  pc'[d] = pc[d]
  <2>1. StoreMove(e) /\ \A f \in Deployment \ {e} : Elsewhere(f)
    BY <1>2, StoreLocal, IngressLocal, StageLocal
  <2>2. e # d BY <2>1 DEF StoreMove, Call, Ask, Write, Work
  <2> QED BY <2>1, <2>2
<1>3. ASSUME NEW e \in Deployment, RunStep(e) \/ Cleanup(e) PROVE pc'[d] = pc[d]
  <2>1. (RunMove(e) \/ CleanupMove(e)) /\ \A f \in Deployment \ {e} : Elsewhere(f)
    BY <1>3, RunLocal, CleanupLocal
  <2>2. e # d BY <2>1 DEF RunMove, CleanupMove
  <2> QED BY <2>1, <2>2
<1>4. ASSUME NEW a \in Actor, ApplyStep(a) PROVE pc'[d] = pc[d]
  BY <1>4, ApplyLocal DEF ApplyMove
<1>5. ASSUME NEW a \in Actor, SyncStep(a) PROVE pc'[d] = pc[d]
  BY <1>5, SyncLocal DEF SyncMove
<1>6. CASE (\E e \in Deployment : Environment(e)) \/ CaddyStep
  BY <1>6, EnvironmentLocal DEF ExitMove
<1>7. CASE Restart BY <1>7, RestartLocal DEF KilledMove
<1>8. CASE UNCHANGED vars BY <1>8 DEF vars
<1> QED BY <1>1, <1>2, <1>3, <1>4, <1>5, <1>6, <1>7, <1>8, NextCases

LEMMA OneActiveStep ==
  ASSUME OneAtATime, TypeOK, OneActive, [Next]_vars
  PROVE  OneActive'
<1>1. ASSUME NEW d \in Deployment, CreateDeployment(d) PROVE OneActive'
  <2>1. Active = {} BY <1>1, NoneActive DEF CreateDeployment
  <2>2. \A e \in Deployment \ {d} : pc'[e] = pc[e] BY <1>1, CreateLocal DEF Elsewhere
  <2>3. Active' \subseteq {d} BY <2>1, <2>2 DEF Active
  <2> QED BY <2>3 DEF OneActive
<1>2. CASE \A d \in Deployment : ~CreateDeployment(d)
  <2>1. \A d \in Deployment : pc[d] \in Ended => pc'[d] \in Ended BY <1>2, EndedStays
  <2> QED BY <2>1 DEF OneActive, Active
<1> QED BY <1>1, <1>2

LEMMA OneActiveCorrect == ASSUME OneAtATime PROVE Spec => []OneActive
<1>1. Init => OneActive BY InitLocal DEF OneActive, Active, Ended
<1>2. TypeOK /\ OneActive /\ [Next]_vars => OneActive' BY OneActiveStep
<1> QED BY <1>1, <1>2, TypeCorrect, PTL DEF Spec

-----------------------------------------------------------------------------
(***************************************************************************)
(* The port of a container that runs is its own, and from docker run to    *)
(* the end of the health check no other container is given it, so that it  *)
(* is the deployment's own container that answers the probe.               *)
(***************************************************************************)
RowsAnswer == {"lost", "exit"} \cap FaultKinds = {}

Checked == {"ran", "routes", "complete"}

OwnPortAt(d) ==
  \A e \in Deployment \ {d} :
    container[e] = "running" /\ (container[d] = "running" \/ pc[d] \in {"health", "probe"})
      => hostPort[e] # hostPort[d]

HasContainerAt(d) ==
  /\ pc[d] \in Checked \/ (pc[d] \in Applying /\ ~resync[d]) => container[d] = "running"
  /\ row[d].status = "running" => container[d] = "running" /\ pc[d] \in {"returned", "killed"}

OwnContainerInv == \A d \in Deployment : OwnPortAt(d) /\ HasContainerAt(d)

\* A container starts, or gets a port, only by its own worker.
Quiet(e) ==
  (container'[e] = "running" => container[e] = "running") /\ hostPort'[e] = hostPort[e]

\* A worker that has ended leaves its container's port alone.
LEMMA EndedQuiet ==
  ASSUME NEW d \in Deployment, pc[d] \in Ended, LocalMove(d)
  PROVE  Quiet(d)
<1> USE DEF Ended, Quiet
<1>1. CASE StoreMove(d) BY <1>1 DEF StoreMove, Call, Ask, Write, Work
<1>2. CASE ~StoreMove(d)
  BY <1>2
  DEF LocalMove, Same, CreateMove, RunMove, CleanupMove, ApplyMove, SyncMove, ExitMove,
      KilledMove, SameContainer
<1> QED BY <1>1, <1>2

\* While the other containers keep their ports, a container does not take one of them.
LEMMA OwnPortMove ==
  ASSUME NEW d \in Deployment, OwnPortAt(d), LocalMove(d),
         \A e \in Deployment \ {d} : Quiet(e)
  PROVE  OwnPortAt(d)'
<1> USE DEF OwnPortAt, Quiet
<1>1. CASE Same(d) BY <1>1 DEF Same, SameContainer
<1>2. CASE CreateMove(d) BY <1>2 DEF CreateMove, SameContainer
<1>3. CASE StoreMove(d)
  BY <1>3 DEF StoreMove, Call, Ask, Write, Work, AfterFail, SameContainer
<1>4. CASE RunMove(d) BY <1>4 DEF RunMove, Removed, SameContainer, PortBusy
<1>5. CASE CleanupMove(d) BY <1>5 DEF CleanupMove, Removed
<1>6. CASE ApplyMove(d) BY <1>6 DEF ApplyMove, SameContainer
<1>7. CASE SyncMove(d) BY <1>7 DEF SyncMove, SameContainer
<1>8. CASE ExitMove(d) BY <1>8 DEF ExitMove
<1>9. CASE KilledMove(d) BY <1>9 DEF KilledMove, SameContainer
<1> QED BY <1>1, <1>2, <1>3, <1>4, <1>5, <1>6, <1>7, <1>8, <1>9 DEF LocalMove

\* What the probe has let through keeps its container.
LEMMA HasContainerMove ==
  ASSUME RowsAnswer, TypeOK, NEW d \in Deployment, StageAt(d), OwnPortAt(d), HasContainerAt(d),
         LocalMove(d)
  PROVE  HasContainerAt(d)'
<1>0. ~Fault("lost") /\ ~Fault("exit") BY DEF RowsAnswer, Fault
<1> USE DEF StageAt, Pending, Building, Deploying, Failing, Listing, Applying, HasContainerAt, Checked
<1>1. CASE Same(d) BY <1>1 DEF Same, SameRow, SameContainer
<1>2. CASE CreateMove(d) BY <1>0, <1>2, WriteStatus DEF CreateMove, SameContainer
<1>3. CASE StoreMove(d)
  BY <1>0, <1>3, WriteStatus
  DEF StoreMove, Call, Ask, Write, Work, AfterFail, CanTransition, allowedTransitions, MayFail,
      SameContainer
<1>4. CASE RunMove(d) BY <1>0, <1>4 DEF RunMove, Removed, SameContainer, PortBusy, OwnPortAt
<1>5. CASE CleanupMove(d) BY <1>0, <1>5 DEF CleanupMove, Removed
<1>6. CASE ApplyMove(d) BY <1>0, <1>6 DEF ApplyMove, SameContainer
<1>7. CASE SyncMove(d) BY <1>0, <1>7 DEF SyncMove, SameRow, SameContainer
<1>8. CASE ExitMove(d) BY <1>0, <1>8 DEF ExitMove
<1>9. CASE KilledMove(d) BY <1>0, <1>9 DEF KilledMove, Ended, SameContainer
<1> QED BY <1>1, <1>2, <1>3, <1>4, <1>5, <1>6, <1>7, <1>8, <1>9 DEF LocalMove

\* OwnContainerInv is inductive.
LEMMA OwnContainerStep ==
  ASSUME RowsAnswer, TypeOK, StageInv, OneActive, OwnContainerInv, [Next]_vars
  PROVE  OwnContainerInv'
<1>1. \A d \in Deployment : LocalMove(d) BY LocalMoves
<1>2. \A d \in Deployment : HasContainerAt(d)'
  BY <1>1, HasContainerMove DEF StageInv, OwnContainerInv
<1>3. \A d \in Deployment \ Active : Quiet(d) BY <1>1, EndedQuiet DEF Active
<1>4. ASSUME NEW d \in Active PROVE OwnPortAt(d)'
  <2>1. d \in Deployment /\ \A e \in Deployment \ {d} : e \notin Active
    BY DEF OneActive, Active
  <2> QED BY <1>1, <1>3, <2>1, OwnPortMove DEF OwnContainerInv
<1>5. ASSUME NEW d \in Deployment \ Active PROVE OwnPortAt(d)'
  <2>1. CASE Active = {} BY <1>1, <1>3, <2>1, OwnPortMove DEF OwnContainerInv
  <2>2. CASE Active # {}
    <3>1. PICK a \in Active : TRUE BY <2>2
    <3>2. pc'[d] \notin {"health", "probe"}
      <4>1. pc[d] \in Ended BY DEF Active
      <4> QED BY <4>1, EndedStays, CreateLocal DEF Ended, CreateMove, Same
    <3> SUFFICES ASSUME NEW e \in Deployment \ {d},
                        container'[e] = "running", container'[d] = "running"
                 PROVE  hostPort'[e] # hostPort'[d]
      BY <3>2 DEF OwnPortAt
    <3>3. CASE e = a
      BY <1>4, <3>1, <3>3 DEF OwnPortAt
    <3>4. CASE e # a
      <4>1. e \notin Active BY <3>1, <3>4 DEF OneActive
      <4>2. Quiet(e) /\ Quiet(d) BY <1>3, <4>1
      <4> QED BY <4>2 DEF Quiet, OwnContainerInv, OwnPortAt
    <3> QED BY <3>3, <3>4
  <2> QED BY <2>1, <2>2
<1> QED BY <1>2, <1>4, <1>5 DEF OwnContainerInv

(***************************************************************************)
(* With one worker at a time, a deployment marked running has its          *)
(* container running, for any failures but two: the program in a           *)
(* container that ends after its health check, and an UPDATE whose answer  *)
(* is lost, after which the worker removes what it has marked running.     *)
(***************************************************************************)
THEOREM RunningOwnsContainer ==
  ASSUME OneAtATime, RowsAnswer
  PROVE  Spec => []RunningHasContainer
<1>1. Init => OwnContainerInv
  BY InitLocal DEF OwnContainerInv, OwnPortAt, HasContainerAt, NoRow, Checked, Applying
<1>2. TypeOK /\ StageInv /\ OneActive /\ OwnContainerInv /\ [Next]_vars => OwnContainerInv'
  BY OwnContainerStep
<1>3. OwnContainerInv => RunningHasContainer
  BY DEF OwnContainerInv, HasContainerAt, RunningHasContainer, ListRunning
<1> QED BY <1>1, <1>2, <1>3, TypeCorrect, StageCorrect, OneActiveCorrect, PTL DEF Spec
=============================================================================
