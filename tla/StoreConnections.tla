-------------------------- MODULE StoreConnections --------------------------
(***************************************************************************)
(* Inside the store (internal/services/deployment_store.go): the calls of  *)
(* several goroutines over a pool of one connection, SetMaxOpenConns(1).   *)
(* A statement asks for the connection, holds it while its rows are read   *)
(* or its transaction lasts, and gives it back.  A call is made of one or  *)
(* more statements.  NewDeploymentStoreAt migrates the schema before the   *)
(* first call.                                                             *)
(*                                                                         *)
(* Kinds of failure: "exec" (a statement is refused), "scan" (an error     *)
(* while its rows are read).                                               *)
(***************************************************************************)
EXTENDS Faults, FiniteSets, Sequences

CONSTANTS
  Caller,       \* goroutines: workers and handlers
  None,         \* no caller; no deployment
  Deployment, EnvKey,
  MaxCrashes    \* bound: restarts of the backend

ASSUME PoolAssumption ==
  /\ None \notin Caller \cup Deployment
  /\ MaxCrashes \in Nat

VARIABLES
  store,        \* "opening", "ready", or "refused": the process has ended
  statement,    \* the next statement of the migration
  schema,       \* the tables and the later columns that exist
  rows, env,    \* committed: deployments, deployment_env_vars
  tx,           \* what the open transaction has inserted
  conn,         \* who holds the connection
  op, target,   \* each caller's call and its deployment
  at, phase,    \* its statement, and whether it asks for or holds the connection
  todo, answer, \* deployments it has still to attach names to; what it returns
  given,        \* the names each deployment was created with
  crashes       \* restarts so far

tables == <<rows, env>>
callVars == <<op, target, at, phase, todo, answer>>
openVars == <<store, statement, schema>>
vars == <<openVars, tables, tx, conn, callVars, given, faults, crashes>>

Op == {"create", "get", "list", "vars", "logs", "update", "add_log"}

NoTx == [rows |-> {}, env |-> {}]

KeysOf(d) == {k \in EnvKey : <<d, k>> \in env}
-----------------------------------------------------------------------------
\* Opening: migrate.

Columns == {"detected_framework", "start_command"}
Schema == {"deployments", "deployment_logs", "deployment_env_vars"} \cup Columns

\* CREATE TABLE IF NOT EXISTS and ALTER TABLE ADD COLUMN, in their order.
\* Indexes and PRAGMAs, which leave no trace here, are left out.
CreateTable(names) == [alter |-> FALSE, adds |-> names]
AddColumn(name) == [alter |-> TRUE, adds |-> {name}]
statements ==
  << CreateTable({"deployments"} \cup Columns),
     CreateTable({"deployment_logs"}),
     CreateTable({"deployment_env_vars"}),
     AddColumn("detected_framework"),
     AddColumn("start_command") >>

\* A table that exists is left as it is; a column that exists is an error.
Exists(s) == (IF s.alter THEN s.adds ELSE s.adds \ Columns) \subseteq schema

\* Mutants: a duplicate column is an error like any other; it ends the
\* migration.
DuplicateRefused(s) ==
  /\ s.alter /\ Exists(s)
  /\ store' = "refused"
  /\ UNCHANGED <<statement, schema>>
DuplicateEnds(s) ==
  /\ s.alter /\ Exists(s)
  /\ statement' = Len(statements) + 1
  /\ UNCHANGED <<store, schema>>

\* The error "duplicate column name" is passed over.
DuplicateColumn(s) ==
  /\ s.alter /\ Exists(s)
  /\ statement' = statement + 1
  /\ UNCHANGED <<store, schema>>

migrate ==
  /\ store = "opening" /\ statement <= Len(statements)
  /\ LET s == statements[statement] IN
       \/ NoFault /\ DuplicateColumn(s)
       \/ /\ NoFault
          /\ s.alter => ~Exists(s)
          /\ schema' = IF Exists(s) THEN schema ELSE schema \cup s.adds
          /\ statement' = statement + 1
          /\ UNCHANGED store
       \/ Fault("exec") /\ store' = "refused" /\ UNCHANGED <<statement, schema>>
  /\ UNCHANGED <<tables, tx, conn, callVars, given, crashes>>

NewDeploymentStoreAt ==
  /\ store = "opening" /\ statement > Len(statements)
  /\ store' = "ready"
  /\ UNCHANGED <<statement, schema, tables, tx, conn, callVars, given, faults, crashes>>
-----------------------------------------------------------------------------
\* Statements.

\* The connection is asked for; and held by the caller at this statement.
Ask(c, s) == at' = [at EXCEPT ![c] = s] /\ phase' = [phase EXCEPT ![c] = "ask"]
Holds(c, s) == at[c] = s /\ phase[c] = "hold" /\ conn = c
Keep(c, s) == at' = [at EXCEPT ![c] = s] /\ UNCHANGED <<phase, conn>>

\* The statement is done and the connection given back, before what follows.
Done(c, s) == conn' = None /\ Ask(c, s)

\* The call returns; with an error, it returns nothing else.
Return(c) == Done(c, "return") /\ UNCHANGED <<op, target, todo>>
ReturnError(c) == Return(c) /\ answer' = [answer EXCEPT ![c] = {}] /\ UNCHANGED tables
Fails(c, kind) == Fault(kind) /\ ReturnError(c)

Acquire(c) ==
  /\ phase[c] = "ask" /\ at[c] \notin {"idle", "return"}
  /\ conn = None
  /\ conn' = c
  /\ phase' = [phase EXCEPT ![c] = "hold"]
  /\ UNCHANGED <<openVars, tables, tx, op, target, at, todo, answer, given, faults, crashes>>

\* The first statement of each call.
First(o) ==
  CASE o = "create" -> "begin"
    [] o = "list" -> "list"
    [] o \in {"update", "add_log"} -> "exec"
    [] OTHER -> "row"

Call(c, o, d) ==
  /\ store = "ready" /\ at[c] = "idle"
  /\ op' = [op EXCEPT ![c] = o]
  /\ target' = [target EXCEPT ![c] = d]
  /\ Ask(c, First(o))
  /\ UNCHANGED <<openVars, tables, tx, conn, todo, answer, faults, crashes>>

\* A new deployment has an ID of its own.
CallCreate(c, d, keys) ==
  /\ d \notin rows
  /\ \A b \in Caller : op[b] = "create" => target[b] # d
  /\ Call(c, "create", d)
  /\ given' = [given EXCEPT ![d] = keys]

CallOther(c, o, d) ==
  /\ o # "create" /\ (o = "list" <=> d = None)
  /\ Call(c, o, d)
  /\ UNCHANGED given

\* Create: a transaction, rolled back on an error, then mustGetByID.
Begin(c) ==
  /\ Holds(c, "begin")
  /\ \/ NoFault /\ Keep(c, "insert") /\ UNCHANGED <<op, target, todo, answer>>
     \/ Fails(c, "exec")
  /\ UNCHANGED <<tables, tx>>

\* Mutant: the row is inserted outside the transaction.
InsertAtOnce(c) ==
  /\ Holds(c, "insert")
  /\ rows' = rows \cup {target[c]}
  /\ Keep(c, "insert_env")
  /\ UNCHANGED <<env, tx, op, target, todo, answer, faults>>

Insert(c) ==
  /\ Holds(c, "insert")
  /\ \/ /\ NoFault
        /\ tx' = [tx EXCEPT !.rows = {target[c]}]
        /\ Keep(c, "insert_env")
        /\ UNCHANGED <<op, target, todo, answer>>
     \/ Fails(c, "exec") /\ tx' = NoTx
  /\ UNCHANGED tables

InsertEnv(c) ==
  /\ Holds(c, "insert_env")
  /\ \E k \in {j \in given[target[c]] : <<target[c], j>> \notin tx.env} :
       \/ /\ NoFault
          /\ tx' = [tx EXCEPT !.env = @ \cup {<<target[c], k>>}]
          /\ UNCHANGED <<callVars, conn>>
       \/ Fails(c, "exec") /\ tx' = NoTx
  /\ UNCHANGED tables

Commit(c) ==
  /\ Holds(c, "insert_env")
  /\ \A k \in given[target[c]] : <<target[c], k>> \in tx.env
  /\ tx' = NoTx
  /\ \/ /\ NoFault
        /\ rows' = rows \cup tx.rows
        /\ env' = env \cup tx.env
        /\ Done(c, "row")
        /\ UNCHANGED <<op, target, todo, answer>>
     \/ Fails(c, "exec")
-----------------------------------------------------------------------------
\* updateAndGet goes on with mustGetByID; AddLog, whose foreign key needs the
\* row, is a single statement.
Exec(c) ==
  /\ Holds(c, "exec")
  /\ \/ /\ NoFault /\ target[c] \in rows /\ op[c] = "update"
        /\ Done(c, "row")
        /\ UNCHANGED <<tables, op, target, todo, answer>>
     \/ NoFault /\ target[c] \in rows /\ op[c] = "add_log" /\ Return(c) /\ UNCHANGED <<tables, answer>>
     \/ NoFault /\ target[c] \notin rows /\ ReturnError(c)
     \/ Fails(c, "exec")
  /\ UNCHANGED tx

\* The first half of GetByID: QueryRow and Scan.
GetByID(c) ==
  /\ Holds(c, "row")
  /\ \/ /\ NoFault /\ target[c] \in rows
        /\ todo' = [todo EXCEPT ![c] = {target[c]}]
        /\ Done(c, "attach")
        /\ UNCHANGED <<tables, op, target, answer>>
     \/ NoFault /\ target[c] \notin rows /\ ReturnError(c)
     \/ Fails(c, "exec")
  /\ UNCHANGED tx

\* Mutants: names are attached while the rows are open; an error while they
\* are read leaves them open.
ListAttachingInLoop(c) ==
  /\ Holds(c, "list")
  /\ todo' = [todo EXCEPT ![c] = rows]
  /\ IF rows = {} THEN Done(c, "return") ELSE Ask(c, "attach") /\ UNCHANGED conn
  /\ UNCHANGED <<tables, tx, op, target, answer, faults>>
ListLeavingRowsOpen(c) ==
  /\ Holds(c, "list")
  /\ \/ /\ NoFault
        /\ todo' = [todo EXCEPT ![c] = rows]
        /\ Done(c, IF rows = {} THEN "return" ELSE "attach")
        /\ UNCHANGED <<tables, op, target, answer>>
     \/ Fault("scan") /\ Ask(c, "return") /\ UNCHANGED <<conn, tables, op, target, todo, answer>>
  /\ UNCHANGED tx

\* List and ListRunning close their rows before they attach the names.
List(c) ==
  /\ Holds(c, "list")
  /\ \/ /\ NoFault
        /\ todo' = [todo EXCEPT ![c] = rows]
        /\ Done(c, IF rows = {} THEN "return" ELSE "attach")
        /\ UNCHANGED <<tables, op, target, answer>>
     \/ Fails(c, "exec")
     \/ Fails(c, "scan")
  /\ UNCHANGED tx

\* What follows when every deployment has its names.
AfterAttach(o) == IF o \in {"vars", "logs"} THEN o ELSE "return"

\* Mutant: the names go to the deployment the caller asked for.
attachToTarget(c) ==
  /\ Holds(c, "attach")
  /\ NoFault
  /\ \E d \in todo[c] :
       /\ todo' = [todo EXCEPT ![c] = @ \ {d}]
       /\ answer' = [answer EXCEPT ![c] = @ \cup {[dep |-> target[c], keys |-> KeysOf(d)]}]
       /\ Done(c, IF todo[c] = {d} THEN AfterAttach(op[c]) ELSE "attach")
  /\ UNCHANGED <<tables, op, target, tx>>

attachEnvVarKeys(c) ==
  /\ Holds(c, "attach")
  /\ \/ /\ NoFault
        /\ \E d \in todo[c] :
             /\ todo' = [todo EXCEPT ![c] = @ \ {d}]
             /\ answer' = [answer EXCEPT ![c] = @ \cup {[dep |-> d, keys |-> KeysOf(d)]}]
             /\ Done(c, IF todo[c] = {d} THEN AfterAttach(op[c]) ELSE "attach")
        /\ UNCHANGED <<tables, op, target>>
     \/ Fails(c, "exec")
     \/ Fails(c, "scan")
  /\ UNCHANGED tx

GetEnvVars(c) ==
  /\ Holds(c, "vars")
  /\ \/ /\ NoFault /\ Return(c)
        /\ answer' = [answer EXCEPT ![c] = {[dep |-> target[c], keys |-> KeysOf(target[c])]}]
        /\ UNCHANGED tables
     \/ Fails(c, "exec")
     \/ Fails(c, "scan")
  /\ UNCHANGED tx

GetLogsByDeploymentID(c) ==
  /\ Holds(c, "logs")
  /\ \/ NoFault /\ Return(c) /\ UNCHANGED <<tables, answer>>
     \/ Fails(c, "exec")
     \/ Fails(c, "scan")
  /\ UNCHANGED tx

\* The caller has its answer.
Returned(c) ==
  /\ at[c] = "return"
  /\ at' = [at EXCEPT ![c] = "idle"]
  /\ op' = [op EXCEPT ![c] = "none"]
  /\ target' = [target EXCEPT ![c] = None]
  /\ todo' = [todo EXCEPT ![c] = {}]
  /\ answer' = [answer EXCEPT ![c] = {}]
  /\ UNCHANGED <<tables, tx, conn, phase, faults>>
-----------------------------------------------------------------------------
\* The backend ends, with what is committed, and starts again.
Restart ==
  /\ crashes < MaxCrashes
  /\ crashes' = crashes + 1
  /\ store' = "opening" /\ statement' = 1
  /\ tx' = NoTx /\ conn' = None
  /\ op' = [c \in Caller |-> "none"]
  /\ target' = [c \in Caller |-> None]
  /\ at' = [c \in Caller |-> "idle"]
  /\ phase' = [c \in Caller |-> "ask"]
  /\ todo' = [c \in Caller |-> {}]
  /\ answer' = [c \in Caller |-> {}]
  /\ UNCHANGED <<schema, tables, given, faults>>

\* main ends when the store cannot be opened.
Exited == store = "refused" /\ UNCHANGED vars

Statement(c) ==
  /\ \/ Begin(c) \/ Insert(c) \/ InsertEnv(c) \/ Commit(c) \/ Exec(c) \/ GetByID(c) \/ List(c)
     \/ attachEnvVarKeys(c) \/ GetEnvVars(c) \/ GetLogsByDeploymentID(c) \/ Returned(c)
  /\ UNCHANGED <<openVars, given, crashes>>

\* A new database, or one of before the later columns and the variables.
Init ==
  /\ store = "opening" /\ statement = 1
  /\ schema \in {{}, {"deployments", "deployment_logs"}}
  /\ rows = {} /\ env = {} /\ tx = NoTx /\ conn = None
  /\ op = [c \in Caller |-> "none"]
  /\ target = [c \in Caller |-> None]
  /\ at = [c \in Caller |-> "idle"]
  /\ phase = [c \in Caller |-> "ask"]
  /\ todo = [c \in Caller |-> {}]
  /\ answer = [c \in Caller |-> {}]
  /\ given = [d \in Deployment |-> {}]
  /\ faults = 0 /\ crashes = 0

Next ==
  \/ migrate
  \/ NewDeploymentStoreAt
  \/ \E c \in Caller :
       \/ \E d \in Deployment, keys \in SUBSET EnvKey : CallCreate(c, d, keys)
       \/ \E d \in Deployment \cup {None}, o \in Op : CallOther(c, o, d)
       \/ Acquire(c)
       \/ Statement(c)
  \/ Restart
  \/ Exited

Spec == Init /\ [][Next]_vars

(* Statements return (busy_timeout is 5 seconds).  A connection that is    *)
(* given back goes to one of the requests that wait, at random, so none    *)
(* of them waits for ever while it is given back again and again.          *)
Fairness ==
  /\ WF_vars(migrate) /\ WF_vars(NewDeploymentStoreAt)
  /\ \A c \in Caller : SF_vars(Acquire(c)) /\ WF_vars(Statement(c))
FairSpec == Spec /\ Fairness
-----------------------------------------------------------------------------
TypeOK ==
  /\ store \in {"opening", "ready", "refused"}
  /\ statement \in 1 .. Len(statements) + 1
  /\ schema \subseteq Schema
  /\ rows \subseteq Deployment
  /\ env \subseteq Deployment \X EnvKey
  /\ tx \in [rows : SUBSET Deployment, env : SUBSET (Deployment \X EnvKey)]
  /\ conn \in Caller \cup {None}
  /\ op \in [Caller -> Op \cup {"none"}]
  /\ target \in [Caller -> Deployment \cup {None}]
  /\ at \in [Caller -> {"idle", "begin", "insert", "insert_env", "exec", "row", "list", "attach",
                        "vars", "logs", "return"}]
  /\ phase \in [Caller -> {"ask", "hold"}]
  /\ todo \in [Caller -> SUBSET Deployment]
  /\ answer \in [Caller -> SUBSET [dep : Deployment, keys : SUBSET EnvKey]]
  /\ given \in [Deployment -> SUBSET EnvKey]
  /\ faults \in 0 .. MaxFaults
  /\ crashes \in 0 .. MaxCrashes

\* No call waits for the only connection while it holds it, which it would do
\* for ever: rows are closed and transactions ended before the next statement
\* of the same call, on every error path too.
NoSelfWait == \A c \in Caller : phase[c] = "ask" => conn # c

\* Every call returns, whatever failed before it in its own or another call.
CallsReturn == \A c \in Caller : at[c] # "idle" ~> at[c] = "idle"

\* A deployment that any call returns has all the variables it was created
\* with, although its row and its names are read by separate statements while
\* other calls create deployments or fail to.
AnswersComplete ==
  \A c \in Caller : at[c] = "return" => \A r \in answer[c] : r.keys = given[r.dep]

\* A restart opens the store again, also one whose migration was cut off
\* between two statements: it ends with an error only if a statement failed.
RefusedOnlyOnFault == store = "refused" => faults > 0

\* Calls are made only when every table and column is there, whichever version
\* made the database and wherever an earlier migration ended.
SchemaComplete == store = "ready" => schema = Schema

\* Create is atomic: over failures and restarts, deployments appear at once with
\* all their variables, as the abstract table says.
Table ==
  INSTANCE DeploymentTable WITH stored <- rows, envKeys <- [d \in Deployment |-> KeysOf(d)]
CreateIsAtomic == Table!Spec
=============================================================================
