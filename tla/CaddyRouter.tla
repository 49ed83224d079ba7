----------------------------- MODULE CaddyRouter -----------------------------
(***************************************************************************)
(* internal/caddy/router.go: the call ApplyRoutes(routes[a]) of an actor   *)
(* a, from label "open" to one of the labels "applied" and "apply_failed", *)
(* and the Caddy container behind it.  The Caddyfile is one file that all  *)
(* actors overwrite without a lock.                                        *)
(***************************************************************************)
EXTENDS Backend, FiniteSets

CONSTANT
  CaddyRestarts  \* whether Docker starts Caddy again by itself: the container of
                 \* docker-compose.yml is, the one that the router creates is not

ASSUME RouterAssumption == CaddyRestarts \in BOOLEAN

VARIABLES
  routes,      \* the argument of each actor's ApplyRoutes
  caddyfile,   \* the file: its site blocks, and whether it may be torn
  caddy        \* the container: whether it runs, and the routes it serves

routerVars == <<routes, caddyfile, caddy>>

Route == [dep : Deployment, host : Host, port : Port]

(***************************************************************************)
(* os.WriteFile truncates the file and then writes from offset 0.  Site    *)
(* blocks have one length (IDs, suffix and ephemeral ports do), so a file  *)
(* that another writer has meanwhile made longer keeps that writer's tail. *)
(***************************************************************************)
Overwrite(old, new) ==
  IF Cardinality(new) < Cardinality(old)
    THEN [routes |-> old \cup new, torn |-> TRUE]
    ELSE [routes |-> new, torn |-> FALSE]

\* What Caddy may serve after it has accepted the file.
Loaded(file) == IF file.torn THEN SUBSET file.routes ELSE {file.routes}

Load == \E served \in Loaded(caddyfile) : caddy' = [up |-> TRUE, routes |-> served]

OpenConfig(a) ==
  /\ At(a, "open")
  /\ \/ /\ NoFault
        /\ caddyfile' = [routes |-> {}, torn |-> TRUE]
        /\ Goto(a, "write")
     \/ /\ Fault("file")
        /\ Goto(a, "apply_failed")
        /\ UNCHANGED caddyfile
  /\ UNCHANGED <<routes, caddy>>

\* A write that fails half way leaves some of its blocks.
writeConfig(a) ==
  /\ At(a, "write")
  /\ \/ /\ NoFault
        /\ caddyfile' = Overwrite(caddyfile.routes, routes[a])
        /\ Goto(a, "ensure")
     \/ /\ Fault("file")
        /\ caddyfile' = [routes |-> caddyfile.routes \cup routes[a], torn |-> TRUE]
        /\ Goto(a, "apply_failed")
  /\ UNCHANGED <<routes, caddy>>

(***************************************************************************)
(* docker start or docker run.  Caddy reads the file when its container    *)
(* starts, and ends on a bad file.  "caddy_lost" is the deadline killing   *)
(* the command after the daemon has started the container.                 *)
(***************************************************************************)
ensureContainer(a) ==
  /\ At(a, "ensure")
  /\ \/ NoFault /\ Goto(a, "reload") /\ caddy.up /\ UNCHANGED caddy
     \/ NoFault /\ Goto(a, "reload") /\ ~caddy.up /\ Load
     \/ NoFault /\ Goto(a, "reload") /\ ~caddy.up /\ caddyfile.torn /\ UNCHANGED caddy
     \/ Fault("caddy") /\ Goto(a, "apply_failed") /\ UNCHANGED caddy
     \/ Fault("caddy_lost") /\ ~caddy.up /\ Load /\ Goto(a, "apply_failed")
  /\ UNCHANGED <<routes, caddyfile>>

\* Mutant: the error of the reload is only logged.
ReloadOnlyLogs(a) ==
  /\ At(a, "reload")
  /\ \/ NoFault /\ caddy.up /\ Load
     \/ NoFault /\ (~caddy.up \/ caddyfile.torn) /\ UNCHANGED caddy
     \/ Fault("reload") /\ UNCHANGED caddy
  /\ Goto(a, "applied")
  /\ UNCHANGED <<routes, caddyfile>>

(***************************************************************************)
(* docker exec caddy reload.  It fails without effect on a torn file, when *)
(* Caddy is down, or by itself ("reload"); "reload_lost" is the deadline   *)
(* killing the command after Caddy has taken the new configuration.        *)
(***************************************************************************)
Reload(a) ==
  /\ At(a, "reload")
  /\ \/ NoFault /\ caddy.up /\ Load /\ Goto(a, "applied")
     \/ /\ NoFault
        /\ ~caddy.up \/ caddyfile.torn
        /\ Goto(a, "apply_failed")
        /\ UNCHANGED caddy
     \/ Fault("reload") /\ Goto(a, "apply_failed") /\ UNCHANGED caddy
     \/ Fault("reload_lost") /\ caddy.up /\ Load /\ Goto(a, "apply_failed")
  /\ UNCHANGED <<routes, caddyfile>>

ApplyRoutes(a) ==
  \/ OpenConfig(a)
  \/ writeConfig(a)
  \/ ensureContainer(a)
  \/ Reload(a)

\* The Caddy container stops; its configuration is only in the file.
CaddyStops ==
  /\ caddy.up
  /\ Fault("caddy_stop")
  /\ caddy' = [up |-> FALSE, routes |-> {}]
  /\ UNCHANGED <<pc, routes, caddyfile>>

(***************************************************************************)
(* Docker starts Caddy again, at any time, and Caddy reads the file as it  *)
(* is then: also while somebody has it truncated, or as a failed write or  *)
(* a crash of the backend has left it.                                     *)
(***************************************************************************)
CaddyStarts ==
  /\ CaddyRestarts
  /\ ~caddy.up
  /\ Load
  /\ UNCHANGED <<pc, faults, routes, caddyfile>>
=============================================================================
