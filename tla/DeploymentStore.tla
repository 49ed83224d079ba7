--------------------------- MODULE DeploymentStore ---------------------------
(***************************************************************************)
(* The SQLite store (internal/services/deployment_store.go).  A row keeps  *)
(* the columns the pipeline's control depends on: the status, whether an   *)
(* image tag is recorded, the host port and the live URL, which is the     *)
(* ingress host it was made for.  Each UPDATE sets its own columns of the  *)
(* row as it is at that moment, in one transaction of its own.             *)
(***************************************************************************)
EXTENDS Backend, StateEngine

VARIABLE row      \* the deployments table, NoRow where there is no row

Row == [status : Status \cup {"absent"}, image : BOOLEAN,
        port : Port \cup {NoPort}, live : Host \cup {NoHost}]

NoRow == [status |-> "absent", image |-> FALSE, port |-> NoPort, live |-> NoHost]
NewRow == [NoRow EXCEPT !.status = "pending"]

SetStatus(r, next) == [r EXCEPT !.status = next]
SaveImageTag(r) == [r EXCEPT !.image = TRUE]
SaveRuntime(r, hostPort) == [r EXCEPT !.port = hostPort]
\* Mutant: the live URL is not part of the UPDATE.
CompleteWithoutURL(r, liveURL) == [r EXCEPT !.status = "running", !.image = TRUE]

Complete(r, liveURL) ==
  [r EXCEPT !.status = "running", !.image = TRUE, !.live = liveURL]

\* Mutant: a live URL that is already there is kept.
SaveMissingLiveURL(r, liveURL) == IF r.live = NoHost THEN [r EXCEPT !.live = liveURL] ELSE r

SaveLiveURL(r, liveURL) == [r EXCEPT !.live = liveURL]
Fail(r) == [r EXCEPT !.status = "failed"]

ListRunning == {d \in Deployment : row[d].status = "running"}

(***************************************************************************)
(* A query by actor a.  It returns what the row holds, or an error.        *)
(***************************************************************************)
Query(a, next, onError) ==
  /\ \/ NoFault /\ Goto(a, next)
     \/ Fault("read") /\ Goto(a, onError)
  /\ UNCHANGED row

(***************************************************************************)
(* updateAndGet writes the row and then reads it back.  It reports an      *)
(* error when the UPDATE failed ("write") and also when the UPDATE was     *)
(* applied and only the read-back failed ("lost").                         *)
(***************************************************************************)
updateAndGet(a, d, new, next, onError) ==
  \/ /\ NoFault
     /\ row' = [row EXCEPT ![d] = new]
     /\ Goto(a, next)
  \/ /\ Fault("write")
     /\ Goto(a, onError)
     /\ UNCHANGED row
  \/ /\ Fault("lost")
     /\ row' = [row EXCEPT ![d] = new]
     /\ Goto(a, onError)
=============================================================================
