------------------------ MODULE StoreConnectionsProofs ------------------------
(***************************************************************************)
(* Theorems about StoreConnections, for any number of callers, deployments *)
(* and variables, and any failures and restarts.                           *)
(***************************************************************************)
EXTENDS StoreConnections, TLAPS

USE PoolAssumption, FaultAssumption DEF PoolAssumption, FaultAssumption

\* Who holds the connection is at a statement, and a transaction keeps it.
ConnInv ==
  /\ \A c \in Caller :
       /\ phase[c] = "hold" => conn = c /\ at[c] \notin {"idle", "return"}
       /\ conn = c => phase[c] = "hold"
       /\ at[c] \in {"insert", "insert_env"} => phase[c] = "hold"

\* What the migration has passed exists.
Passed(s) == (IF s.alter THEN s.adds ELSE s.adds \ Columns) \subseteq schema
MigrationInv ==
  /\ \A i \in 1 .. 5 : i < statement => Passed(statements[i])
  /\ store = "ready" => statement = 6

\* A transaction is that of the caller who inserts, and of a deployment that
\* nobody else creates and the table does not have.
Creating(c) == at[c] \in {"begin", "insert", "insert_env"}
TxInv ==
  /\ \A c \in Caller :
       /\ Creating(c) => op[c] = "create" /\ target[c] \notin rows
       /\ op[c] = "create" => target[c] \in Deployment
       /\ at[c] = "insert" => tx = NoTx
       /\ at[c] = "insert_env" =>
            tx.rows = {target[c]} /\ tx.env \subseteq {target[c]} \X given[target[c]]
  /\ \A b, c \in Caller :
       op[b] = "create" /\ op[c] = "create" /\ target[b] = target[c] => b = c
  /\ (\A c \in Caller : at[c] # "insert_env") => tx = NoTx

\* The tables have a deployment with all its variables, or nothing of it.
TablesInv ==
  /\ env \subseteq rows \X EnvKey
  /\ \A d \in rows : KeysOf(d) = given[d]

\* What a call has read is of deployments that the table has.
AnswerOf(c) ==
  /\ todo[c] \subseteq rows
  /\ \A r \in answer[c] : r.dep \in rows /\ r.keys = given[r.dep]
  /\ at[c] = "list" => op[c] = "list"
  /\ op[c] = "vars" /\ at[c] = "attach" => todo[c] \subseteq {target[c]}
  /\ at[c] = "vars" => op[c] = "vars" /\ target[c] \in rows
AnswerInv == \A c \in Caller : AnswerOf(c)

StoreInv == TypeOK /\ ConnInv /\ MigrationInv /\ TxInv /\ TablesInv /\ AnswerInv

(***************************************************************************)
(* The migration.                                                          *)
(***************************************************************************)

LEMMA StatementsAre ==
  /\ statements[1] = CreateTable({"deployments"} \cup Columns)
  /\ statements[2] = CreateTable({"deployment_logs"})
  /\ statements[3] = CreateTable({"deployment_env_vars"})
  /\ statements[4] = AddColumn("detected_framework")
  /\ statements[5] = AddColumn("start_command")
  /\ Len(statements) = 5
BY DEF statements

LEMMA StatementAdds ==
  ASSUME NEW i \in 1 .. 5
  PROVE  /\ statements[i].alter \in BOOLEAN
         /\ statements[i].adds \subseteq Schema
<1>1. CASE i = 1
  BY <1>1, StatementsAre DEF CreateTable, Schema
<1>2. CASE i = 2
  BY <1>2, StatementsAre DEF CreateTable, Schema
<1>3. CASE i = 3
  BY <1>3, StatementsAre DEF CreateTable, Schema
<1>4. CASE i = 4
  BY <1>4, StatementsAre DEF AddColumn, Schema, Columns
<1>5. CASE i = 5
  BY <1>5, StatementsAre DEF AddColumn, Schema, Columns
<1> QED BY <1>1, <1>2, <1>3, <1>4, <1>5

LEMMA MigrateInv ==
  ASSUME StoreInv, migrate
  PROVE  StoreInv'
<1>1. statement \in 1 .. 5 /\ store = "opening" /\ schema \subseteq Schema
  BY StatementsAre DEF migrate, StoreInv, TypeOK
<1>2. PICK s : s = statements[statement]
  OBVIOUS
<1>3. s.alter \in BOOLEAN /\ s.adds \subseteq Schema
  BY <1>1, <1>2, StatementAdds
<1>4. \/ statement' = statement + 1 /\ store' = store /\ schema \subseteq schema'
         /\ schema' \subseteq Schema /\ Passed(s)'
      \/ statement' = statement /\ store' = "refused" /\ schema' = schema
  <2>1. CASE DuplicateColumn(s)
    BY <1>1, <1>3, <2>1 DEF DuplicateColumn, Exists, Passed
  <2>2. CASE /\ schema' = IF Exists(s) THEN schema ELSE schema \cup s.adds
             /\ statement' = statement + 1
             /\ UNCHANGED store
    BY <1>1, <1>3, <2>2 DEF Exists, Passed
  <2>3. CASE store' = "refused" /\ UNCHANGED <<statement, schema>>
    BY <2>3
  <2> QED BY <1>2, <2>1, <2>2, <2>3 DEF migrate
<1>5. faults' \in 0 .. MaxFaults
  <2>1. NoFault \/ Fault("exec")
    BY DEF migrate
  <2> QED BY <2>1 DEF StoreInv, TypeOK, NoFault, Fault
<1>6. UNCHANGED <<tables, tx, conn, callVars, given, crashes>>
  BY DEF migrate
<1>7. TypeOK'
  BY <1>1, <1>4, <1>5, <1>6, StatementsAre DEF StoreInv, TypeOK, tables, callVars
<1>8. MigrationInv'
  <2>1. ASSUME NEW i \in 1 .. 5, i < statement' PROVE Passed(statements[i])'
    <3>1. CASE i = statement
      BY <1>1, <1>2, <1>4, <2>1, <3>1
    <3>2. CASE i < statement
      BY <1>4, <3>2 DEF StoreInv, MigrationInv, Passed
    <3> QED BY <1>1, <1>4, <2>1, <3>1, <3>2
  <2> QED BY <1>1, <1>4, <2>1 DEF MigrationInv
<1>9. ConnInv' /\ TxInv' /\ TablesInv' /\ AnswerInv'
  BY <1>6 DEF StoreInv, ConnInv, TxInv, Creating, TablesInv, KeysOf, AnswerInv, AnswerOf, tables, callVars
<1> QED BY <1>7, <1>8, <1>9 DEF StoreInv

(***************************************************************************)
(* The statements.                                                         *)
(***************************************************************************)

LEMMA BeginInv ==
  ASSUME StoreInv, NEW c \in Caller, Begin(c), UNCHANGED <<openVars, given, crashes>>
  PROVE  StoreInv'
<1> USE DEF Begin, Holds, Keep, Done, Ask, Return, ReturnError, Fails, Fault, NoFault,
            tables, callVars, openVars, NoTx
<1>1. TypeOK'
  BY DEF StoreInv, TypeOK
<1>2. ConnInv'
  BY DEF StoreInv, TypeOK, ConnInv
<1>3. MigrationInv'
  BY DEF StoreInv, MigrationInv, Passed
<1>4. TxInv'
  <2>1. \A b \in Caller \ {c} : at[b] \notin {"insert", "insert_env"}
    BY DEF StoreInv, ConnInv
  <2>2. at[c] = "begin" /\ op[c] = "create" /\ target[c] \notin rows /\ tx = NoTx
    BY <2>1 DEF StoreInv, TxInv, Creating
  <2>3. /\ at' \in {[at EXCEPT ![c] = "insert"], [at EXCEPT ![c] = "return"]}
        /\ UNCHANGED <<op, target, rows, given, tx>>
    OBVIOUS
  <2> QED BY ONLY StoreInv, <2>1, <2>2, <2>3, c \in Caller DEF StoreInv, TypeOK, TxInv, Creating
<1>5. TablesInv'
  BY DEF StoreInv, TablesInv, KeysOf
<1>6. AnswerInv'
  BY DEF StoreInv, TypeOK, AnswerInv, AnswerOf
<1> QED BY <1>1, <1>2, <1>3, <1>4, <1>5, <1>6 DEF StoreInv

LEMMA InsertInv ==
  ASSUME StoreInv, NEW c \in Caller, Insert(c), UNCHANGED <<openVars, given, crashes>>
  PROVE  StoreInv'
<1> USE DEF Insert, Holds, Keep, Done, Ask, Return, ReturnError, Fails, Fault, NoFault,
            tables, callVars, openVars, NoTx
<1>1. TypeOK'
  <2>1. target[c] \in Deployment
    BY DEF StoreInv, TxInv, Creating
  <2>2. tx' \in [rows : SUBSET Deployment, env : SUBSET (Deployment \X EnvKey)]
    BY <2>1 DEF StoreInv, TypeOK
  <2> QED BY <2>2 DEF StoreInv, TypeOK
<1>2. ConnInv'
  BY DEF StoreInv, TypeOK, ConnInv
<1>3. MigrationInv'
  BY DEF StoreInv, MigrationInv, Passed
<1>4. TxInv'
  <2>1. \A b \in Caller \ {c} : at[b] \notin {"insert", "insert_env"}
    BY DEF StoreInv, ConnInv
  <2>2. at[c] = "insert" /\ op[c] = "create" /\ target[c] \notin rows /\ tx = NoTx
    BY DEF StoreInv, TxInv, Creating
  <2>3. CASE /\ tx' = [tx EXCEPT !.rows = {target[c]}]
             /\ at' = [at EXCEPT ![c] = "insert_env"]
             /\ UNCHANGED <<op, target, rows>>
    BY <2>1, <2>2, <2>3 DEF StoreInv, TypeOK, TxInv, Creating
  <2>4. CASE tx' = NoTx /\ at' = [at EXCEPT ![c] = "return"] /\ UNCHANGED <<op, target, rows>>
    BY <2>1, <2>2, <2>4 DEF StoreInv, TypeOK, TxInv, Creating
  <2> QED BY <2>3, <2>4
<1>5. TablesInv'
  BY DEF StoreInv, TablesInv, KeysOf
<1>6. AnswerInv'
  BY DEF StoreInv, TypeOK, AnswerInv, AnswerOf
<1> QED BY <1>1, <1>2, <1>3, <1>4, <1>5, <1>6 DEF StoreInv

LEMMA InsertEnvInv ==
  ASSUME StoreInv, NEW c \in Caller, InsertEnv(c), UNCHANGED <<openVars, given, crashes>>
  PROVE  StoreInv'
<1> USE DEF InsertEnv, Holds, Keep, Done, Ask, Return, ReturnError, Fails, Fault, NoFault,
            tables, callVars, openVars, NoTx
<1>a. /\ at[c] = "insert_env" /\ op[c] = "create" /\ target[c] \in Deployment \ rows
      /\ tx.rows = {target[c]} /\ tx.env \subseteq {target[c]} \X given[target[c]]
      /\ given[target[c]] \subseteq EnvKey
      /\ tx \in [rows : SUBSET Deployment, env : SUBSET (Deployment \X EnvKey)]
  BY DEF StoreInv, TypeOK, TxInv, Creating
<1>b. \A b \in Caller \ {c} : at[b] \notin {"insert", "insert_env"}
  BY DEF StoreInv, ConnInv
<1>c. \/ /\ tx'.rows = {target[c]} /\ tx'.env \subseteq {target[c]} \X given[target[c]]
         /\ tx' \in [rows : SUBSET Deployment, env : SUBSET (Deployment \X EnvKey)]
         /\ UNCHANGED <<callVars, conn, faults>>
      \/ Fails(c, "exec") /\ tx' = NoTx
  <2>1. PICK k \in given[target[c]] :
          \/ /\ tx' = [tx EXCEPT !.env = @ \cup {<<target[c], k>>}]
             /\ UNCHANGED <<callVars, conn, faults>>
          \/ Fails(c, "exec") /\ tx' = NoTx
    OBVIOUS
  <2> QED BY <1>a, <2>1
<1>1. TypeOK'
  <2>1. CASE UNCHANGED <<callVars, conn, faults>> /\ tx' # NoTx
    BY <1>c, <2>1 DEF StoreInv, TypeOK
  <2>2. CASE Fails(c, "exec") /\ tx' = NoTx
    BY <2>2 DEF StoreInv, TypeOK
  <2> QED BY <1>a, <1>c, <2>1, <2>2
<1>2. ConnInv'
  BY DEF StoreInv, TypeOK, ConnInv
<1>3. MigrationInv'
  BY DEF StoreInv, MigrationInv, Passed
<1>4. TxInv'
  <2>1. CASE Fails(c, "exec") /\ tx' = NoTx
    <3>1. at' = [at EXCEPT ![c] = "return"] /\ UNCHANGED <<op, target, rows, given>>
      BY <2>1
    <3>2. tx' = NoTx
      BY <2>1
    <3> QED BY ONLY StoreInv, <1>a, <1>b, <3>1, <3>2 DEF StoreInv, TypeOK, TxInv, Creating
  <2>2. CASE /\ tx'.rows = {target[c]} /\ tx'.env \subseteq {target[c]} \X given[target[c]]
             /\ UNCHANGED <<callVars, conn, faults>>
    <3>1. UNCHANGED <<at, op, target, rows, given>>
      BY <2>2
    <3> QED BY ONLY StoreInv, <1>a, <1>b, <2>2, <3>1 DEF StoreInv, TypeOK, TxInv, Creating
  <2> QED BY <1>c, <2>1, <2>2
<1>5. TablesInv'
  BY DEF StoreInv, TablesInv, KeysOf
<1>6. AnswerInv'
  BY DEF StoreInv, TypeOK, AnswerInv, AnswerOf
<1> QED BY <1>1, <1>2, <1>3, <1>4, <1>5, <1>6 DEF StoreInv

LEMMA CommitInv ==
  ASSUME StoreInv, NEW c \in Caller, Commit(c), UNCHANGED <<openVars, given, crashes>>
  PROVE  StoreInv'
<1> USE DEF Commit, Holds, Keep, Done, Ask, Return, ReturnError, Fails, Fault, NoFault,
            tables, callVars, openVars, NoTx
<1>a. /\ at[c] = "insert_env" /\ op[c] = "create" /\ target[c] \in Deployment \ rows
      /\ tx.rows = {target[c]} /\ tx.env \subseteq {target[c]} \X given[target[c]]
      /\ given[target[c]] \subseteq EnvKey
      /\ tx \in [rows : SUBSET Deployment, env : SUBSET (Deployment \X EnvKey)]
  BY DEF StoreInv, TypeOK, TxInv, Creating
<1>b. \A b \in Caller \ {c} : at[b] \notin {"insert", "insert_env"}
  BY DEF StoreInv, ConnInv
<1>c. \/ /\ rows' = rows \cup {target[c]}
         /\ env' = env \cup {<<target[c], k>> : k \in given[target[c]]}
         /\ Done(c, "row") /\ UNCHANGED <<op, target, todo, answer, faults>>
      \/ Fails(c, "exec")
  <2>1. tx.env = {<<target[c], k>> : k \in given[target[c]]}
    BY <1>a
  <2> QED BY <1>a, <2>1
<1>d. tx' = NoTx
  OBVIOUS
<1>1. TypeOK'
  <2>1. rows' \subseteq Deployment /\ env' \subseteq Deployment \X EnvKey
    BY <1>a, <1>c DEF StoreInv, TypeOK
  <2>2. tx' \in [rows : SUBSET Deployment, env : SUBSET (Deployment \X EnvKey)]
    OBVIOUS
  <2>3. /\ at' \in [Caller -> {"idle", "begin", "insert", "insert_env", "exec", "row", "list", "attach",
                               "vars", "logs", "return"}]
        /\ phase' \in [Caller -> {"ask", "hold"}]
        /\ answer' \in [Caller -> SUBSET [dep : Deployment, keys : SUBSET EnvKey]]
        /\ faults' \in 0 .. MaxFaults
        /\ conn' = None /\ UNCHANGED <<op, target, todo>>
    BY <1>c DEF StoreInv, TypeOK
  <2> QED BY <2>1, <2>2, <2>3 DEF StoreInv, TypeOK
<1>2. ConnInv'
  BY DEF StoreInv, TypeOK, ConnInv
<1>3. MigrationInv'
  BY DEF StoreInv, MigrationInv, Passed
<1>4. TxInv'
  <2>1. /\ at' \in {[at EXCEPT ![c] = "row"], [at EXCEPT ![c] = "return"]}
        /\ rows' \subseteq rows \cup {target[c]} /\ UNCHANGED <<op, target, given>>
    BY <1>c
  <2> QED BY ONLY StoreInv, <1>a, <1>b, <1>d, <2>1, c \in Caller DEF StoreInv, TypeOK, TxInv, Creating
<1>5. TablesInv'
  <2>1. CASE Fails(c, "exec")
    BY <2>1 DEF StoreInv, TablesInv, KeysOf
  <2>2. CASE /\ rows' = rows \cup {target[c]}
             /\ env' = env \cup {<<target[c], k>> : k \in given[target[c]]}
    <3>1. env' \subseteq rows' \X EnvKey
      BY <1>a, <2>2 DEF StoreInv, TablesInv
    <3>2. ASSUME NEW d \in rows' PROVE KeysOf(d)' = given'[d]
      <4>1. CASE d = target[c]
        BY <1>a, <2>2, <4>1 DEF StoreInv, TablesInv, KeysOf
      <4>2. CASE d # target[c]
        BY <1>a, <2>2, <3>2, <4>2 DEF StoreInv, TablesInv, KeysOf
      <4> QED BY <4>1, <4>2
    <3> QED BY <3>1, <3>2 DEF TablesInv
  <2> QED BY <1>c, <2>1, <2>2
<1>6. AnswerInv'
  BY DEF StoreInv, TypeOK, AnswerInv, AnswerOf
<1> QED BY <1>1, <1>2, <1>3, <1>4, <1>5, <1>6 DEF StoreInv

LEMMA ExecInv ==
  ASSUME StoreInv, NEW c \in Caller, Exec(c), UNCHANGED <<openVars, given, crashes>>
  PROVE  StoreInv'
<1> USE DEF Exec, Holds, Keep, Done, Ask, Return, ReturnError, Fails, Fault, NoFault,
            tables, callVars, openVars
<1>1. TypeOK'
  BY DEF StoreInv, TypeOK
<1>2. ConnInv'
  BY DEF StoreInv, TypeOK, ConnInv
<1>3. MigrationInv'
  BY DEF StoreInv, MigrationInv, Passed
<1>4. TxInv'
  BY DEF StoreInv, TypeOK, TxInv, Creating
<1>5. TablesInv'
  <2>1. UNCHANGED <<rows, env, given>>
    OBVIOUS
  <2> QED BY <2>1 DEF StoreInv, TablesInv, KeysOf
<1>6. AnswerInv'
  BY DEF StoreInv, TypeOK, AnswerInv, AnswerOf
<1> QED BY <1>1, <1>2, <1>3, <1>4, <1>5, <1>6 DEF StoreInv

LEMMA GetByIDInv ==
  ASSUME StoreInv, NEW c \in Caller, GetByID(c), UNCHANGED <<openVars, given, crashes>>
  PROVE  StoreInv'
<1> USE DEF GetByID, Holds, Keep, Done, Ask, Return, ReturnError, Fails, Fault, NoFault,
            tables, callVars, openVars
<1>1. TypeOK'
  BY DEF StoreInv, TypeOK
<1>2. ConnInv'
  BY DEF StoreInv, TypeOK, ConnInv
<1>3. MigrationInv'
  BY DEF StoreInv, MigrationInv, Passed
<1>4. TxInv'
  BY DEF StoreInv, TypeOK, TxInv, Creating
<1>5. TablesInv'
  BY DEF StoreInv, TablesInv, KeysOf
<1>6. AnswerInv'
  BY DEF StoreInv, TypeOK, AnswerInv, AnswerOf
<1> QED BY <1>1, <1>2, <1>3, <1>4, <1>5, <1>6 DEF StoreInv

LEMMA ListInv ==
  ASSUME StoreInv, NEW c \in Caller, List(c), UNCHANGED <<openVars, given, crashes>>
  PROVE  StoreInv'
<1> USE DEF List, Holds, Keep, Done, Ask, Return, ReturnError, Fails, Fault, NoFault,
            tables, callVars, openVars
<1>1. TypeOK'
  BY DEF StoreInv, TypeOK
<1>2. ConnInv'
  BY DEF StoreInv, TypeOK, ConnInv
<1>3. MigrationInv'
  BY DEF StoreInv, MigrationInv, Passed
<1>4. TxInv'
  BY DEF StoreInv, TypeOK, TxInv, Creating
<1>5. TablesInv'
  BY DEF StoreInv, TablesInv, KeysOf
<1>6. AnswerInv'
  BY DEF StoreInv, TypeOK, AnswerInv, AnswerOf
<1> QED BY <1>1, <1>2, <1>3, <1>4, <1>5, <1>6 DEF StoreInv

LEMMA AttachInv ==
  ASSUME StoreInv, NEW c \in Caller, attachEnvVarKeys(c), UNCHANGED <<openVars, given, crashes>>
  PROVE  StoreInv'
<1> USE DEF attachEnvVarKeys, Holds, Keep, Done, Ask, Return, ReturnError, Fails, Fault, NoFault,
            tables, callVars, openVars, AfterAttach
<1>a. \A d \in rows : KeysOf(d) = given[d] /\ KeysOf(d) \subseteq EnvKey /\ d \in Deployment
  BY DEF StoreInv, TypeOK, TablesInv, KeysOf
<1>b. at[c] = "attach" /\ AnswerOf(c) /\ todo[c] \in SUBSET Deployment
  BY DEF StoreInv, TypeOK, AnswerInv
<1>c. \/ \E d \in todo[c] :
           /\ NoFault
           /\ todo' = [todo EXCEPT ![c] = @ \ {d}]
           /\ answer' = [answer EXCEPT ![c] = @ \cup {[dep |-> d, keys |-> given[d]]}]
           /\ Done(c, IF todo[c] = {d} THEN AfterAttach(op[c]) ELSE "attach")
           /\ UNCHANGED <<tables, op, target>>
      \/ Fails(c, "exec")
      \/ Fails(c, "scan")
  BY <1>a, <1>b DEF AnswerOf
<1>1. TypeOK'
  <2>1. ASSUME NEW d \in todo[c],
               answer' = [answer EXCEPT ![c] = @ \cup {[dep |-> d, keys |-> given[d]]}]
        PROVE  answer' \in [Caller -> SUBSET [dep : Deployment, keys : SUBSET EnvKey]]
    BY <1>b, <2>1 DEF StoreInv, TypeOK
  <2>2. answer' \in [Caller -> SUBSET [dep : Deployment, keys : SUBSET EnvKey]]
    BY <1>c, <2>1 DEF StoreInv, TypeOK
  <2> QED BY <1>b, <2>2 DEF StoreInv, TypeOK
<1>2. ConnInv'
  BY DEF StoreInv, TypeOK, ConnInv
<1>3. MigrationInv'
  BY DEF StoreInv, MigrationInv, Passed
<1>4. TxInv'
  BY DEF StoreInv, TypeOK, TxInv, Creating
<1>5. TablesInv'
  BY DEF StoreInv, TablesInv, KeysOf
<1>6. AnswerInv'
  <2> SUFFICES ASSUME NEW b \in Caller PROVE AnswerOf(b)'
    BY DEF AnswerInv
  <2>1. AnswerOf(b)
    BY DEF StoreInv, AnswerInv
  <2>2. CASE b = c
    <3>1. CASE Fails(c, "exec") \/ Fails(c, "scan")
      BY <1>b, <2>1, <2>2, <3>1 DEF StoreInv, TypeOK, AnswerOf
    <3>2. ASSUME NEW d \in todo[c],
                 /\ todo' = [todo EXCEPT ![c] = @ \ {d}]
                 /\ answer' = [answer EXCEPT ![c] = @ \cup {[dep |-> d, keys |-> given[d]]}]
                 /\ at' = [at EXCEPT ![c] = IF todo[c] = {d} THEN AfterAttach(op[c]) ELSE "attach"]
                 /\ UNCHANGED <<tables, op, target>>
          PROVE  AnswerOf(b)'
      <4>1. \A r \in answer'[c] : r \in answer[c] \/ r = [dep |-> d, keys |-> given[d]]
        BY <3>2 DEF StoreInv, TypeOK
      <4>2. todo'[c] \subseteq todo[c] /\ at'[c] \in {"attach", AfterAttach(op[c])}
            /\ (at'[c] = "vars" => todo[c] = {d} /\ op[c] = "vars")
        BY ONLY <3>2, StoreInv, c \in Caller DEF StoreInv, TypeOK, AfterAttach
      <4> QED BY ONLY <1>b, <2>2, <3>2, <4>1, <4>2, UNCHANGED given DEF AnswerOf, tables, AfterAttach
    <3> QED BY <1>c, <3>1, <3>2
  <2>3. CASE b # c
    <3>1. UNCHANGED <<rows, given>> /\ todo'[b] = todo[b] /\ answer'[b] = answer[b] /\ at'[b] = at[b]
          /\ op'[b] = op[b] /\ target'[b] = target[b]
      BY <2>3 DEF StoreInv, TypeOK
    <3> QED BY ONLY <2>1, <3>1 DEF AnswerOf
  <2> QED BY <2>2, <2>3
<1> QED BY <1>1, <1>2, <1>3, <1>4, <1>5, <1>6 DEF StoreInv

LEMMA GetEnvVarsInv ==
  ASSUME StoreInv, NEW c \in Caller, GetEnvVars(c), UNCHANGED <<openVars, given, crashes>>
  PROVE  StoreInv'
<1> USE DEF GetEnvVars, Holds, Keep, Done, Ask, Return, ReturnError, Fails, Fault, NoFault,
            tables, callVars, openVars
<1>a. \A d \in rows : KeysOf(d) = given[d] /\ KeysOf(d) \subseteq EnvKey /\ d \in Deployment
  BY DEF StoreInv, TypeOK, TablesInv, KeysOf
<1>b. at[c] = "vars" /\ target[c] \in rows
  BY DEF StoreInv, AnswerInv, AnswerOf
<1>1. TypeOK'
  <2>1. answer' \in [Caller -> SUBSET [dep : Deployment, keys : SUBSET EnvKey]]
    BY <1>a, <1>b DEF StoreInv, TypeOK
  <2> QED BY <2>1 DEF StoreInv, TypeOK
<1>2. ConnInv'
  BY DEF StoreInv, TypeOK, ConnInv
<1>3. MigrationInv'
  BY DEF StoreInv, MigrationInv, Passed
<1>4. TxInv'
  BY DEF StoreInv, TypeOK, TxInv, Creating
<1>5. TablesInv'
  BY DEF StoreInv, TablesInv, KeysOf
<1>6. AnswerInv'
  <2> SUFFICES ASSUME NEW b \in Caller PROVE AnswerOf(b)'
    BY DEF AnswerInv
  <2>1. AnswerOf(b)
    BY DEF StoreInv, AnswerInv
  <2>2. \/ answer' = [answer EXCEPT ![c] = {[dep |-> target[c], keys |-> given[target[c]]]}]
        \/ answer' = [answer EXCEPT ![c] = {}]
    BY <1>a, <1>b
  <2> QED BY <1>b, <2>1, <2>2 DEF StoreInv, TypeOK, AnswerOf
<1> QED BY <1>1, <1>2, <1>3, <1>4, <1>5, <1>6 DEF StoreInv

LEMMA GetLogsInv ==
  ASSUME StoreInv, NEW c \in Caller, GetLogsByDeploymentID(c), UNCHANGED <<openVars, given, crashes>>
  PROVE  StoreInv'
<1> USE DEF GetLogsByDeploymentID, Holds, Keep, Done, Ask, Return, ReturnError, Fails, Fault, NoFault,
            tables, callVars, openVars
<1>1. TypeOK'
  BY DEF StoreInv, TypeOK
<1>2. ConnInv'
  BY DEF StoreInv, TypeOK, ConnInv
<1>3. MigrationInv'
  BY DEF StoreInv, MigrationInv, Passed
<1>4. TxInv'
  BY DEF StoreInv, TypeOK, TxInv, Creating
<1>5. TablesInv'
  BY DEF StoreInv, TablesInv, KeysOf
<1>6. AnswerInv'
  BY DEF StoreInv, TypeOK, AnswerInv, AnswerOf
<1> QED BY <1>1, <1>2, <1>3, <1>4, <1>5, <1>6 DEF StoreInv

LEMMA ReturnedInv ==
  ASSUME StoreInv, NEW c \in Caller, Returned(c), UNCHANGED <<openVars, given, crashes>>
  PROVE  StoreInv'
<1> USE DEF Returned, Holds, Keep, Done, Ask, Return, ReturnError, Fails, Fault, NoFault,
            tables, callVars, openVars
<1>1. TypeOK'
  BY DEF StoreInv, TypeOK
<1>2. ConnInv'
  BY DEF StoreInv, TypeOK, ConnInv
<1>3. MigrationInv'
  BY DEF StoreInv, MigrationInv, Passed
<1>4. TxInv'
  BY DEF StoreInv, TypeOK, TxInv, Creating
<1>5. TablesInv'
  BY DEF StoreInv, TablesInv, KeysOf
<1>6. AnswerInv'
  BY DEF StoreInv, TypeOK, AnswerInv, AnswerOf
<1> QED BY <1>1, <1>2, <1>3, <1>4, <1>5, <1>6 DEF StoreInv

(***************************************************************************)
(* The other steps.                                                        *)
(***************************************************************************)

LEMMA OpenedInv ==
  ASSUME StoreInv, NewDeploymentStoreAt
  PROVE  StoreInv'
<1> USE DEF NewDeploymentStoreAt, tables, callVars
<1>1. TypeOK' /\ ConnInv' /\ TxInv'
  BY DEF StoreInv, TypeOK, ConnInv, TxInv, Creating
<1>2. MigrationInv'
  BY StatementsAre DEF StoreInv, TypeOK, MigrationInv, Passed
<1>3. TablesInv' /\ AnswerInv'
  BY DEF StoreInv, TablesInv, KeysOf, AnswerInv, AnswerOf
<1> QED BY <1>1, <1>2, <1>3 DEF StoreInv

LEMMA AcquireInv ==
  ASSUME StoreInv, NEW c \in Caller, Acquire(c)
  PROVE  StoreInv'
<1> USE DEF Acquire, tables, openVars
<1>1. TypeOK' /\ ConnInv'
  BY DEF StoreInv, TypeOK, ConnInv
<1>2. MigrationInv' /\ TablesInv'
  BY DEF StoreInv, MigrationInv, Passed, TablesInv, KeysOf
<1>3. TxInv' /\ AnswerInv'
  BY DEF StoreInv, TxInv, Creating, AnswerInv, AnswerOf
<1> QED BY <1>1, <1>2, <1>3 DEF StoreInv

\* The deployment of a new call is not one that is being created.
LEMMA CallCreateInv ==
  ASSUME StoreInv, NEW c \in Caller, NEW d \in Deployment, NEW keys \in SUBSET EnvKey,
         CallCreate(c, d, keys)
  PROVE  StoreInv'
<1> USE DEF CallCreate, Call, Ask, First, tables, openVars
<1>1. TypeOK'
  BY DEF StoreInv, TypeOK, Op
<1>2. ConnInv'
  BY DEF StoreInv, TypeOK, ConnInv
<1>3. MigrationInv'
  BY DEF StoreInv, MigrationInv, Passed
<1>4. TxInv'
  <2>1. /\ at' = [at EXCEPT ![c] = "begin"] /\ op' = [op EXCEPT ![c] = "create"]
        /\ target' = [target EXCEPT ![c] = d] /\ given' = [given EXCEPT ![d] = keys]
        /\ UNCHANGED <<tx, rows>> /\ at[c] = "idle" /\ d \notin rows
        /\ \A b \in Caller : op[b] = "create" => target[b] # d
    OBVIOUS
  <2> QED BY ONLY StoreInv, <2>1, c \in Caller, d \in Deployment DEF StoreInv, TypeOK, TxInv, Creating
<1>5. TablesInv'
  BY DEF StoreInv, TypeOK, TablesInv, KeysOf
<1>6. AnswerInv'
  <2> SUFFICES ASSUME NEW b \in Caller PROVE AnswerOf(b)'
    BY DEF AnswerInv
  <2>1. AnswerOf(b)
    BY DEF StoreInv, AnswerInv
  <2>2. \A r \in answer[b] : r.dep \in Deployment /\ r.dep # d
    BY <2>1 DEF StoreInv, TypeOK, AnswerOf
  <2> QED BY <2>1, <2>2 DEF StoreInv, TypeOK, AnswerOf
<1> QED BY <1>1, <1>2, <1>3, <1>4, <1>5, <1>6 DEF StoreInv

LEMMA CallOtherInv ==
  ASSUME StoreInv, NEW c \in Caller, NEW o \in Op, NEW d \in Deployment \cup {None},
         CallOther(c, o, d)
  PROVE  StoreInv'
<1> USE DEF CallOther, Call, Ask, tables, openVars
<1>1. First(o) \in {"list", "exec", "row"} /\ (First(o) = "list" => o = "list")
  BY DEF First, Op
<1>2. TypeOK'
  BY <1>1 DEF StoreInv, TypeOK
<1>3. ConnInv'
  BY <1>1 DEF StoreInv, TypeOK, ConnInv
<1>4. MigrationInv' /\ TablesInv'
  BY DEF StoreInv, MigrationInv, Passed, TablesInv, KeysOf
<1>5. TxInv'
  BY <1>1 DEF StoreInv, TypeOK, TxInv, Creating
<1>6. AnswerInv'
  BY <1>1 DEF StoreInv, TypeOK, AnswerInv, AnswerOf
<1> QED BY <1>2, <1>3, <1>4, <1>5, <1>6 DEF StoreInv

LEMMA RestartInv ==
  ASSUME StoreInv, Restart
  PROVE  StoreInv'
<1> USE DEF Restart, tables
<1>1. TypeOK'
  BY StatementsAre DEF StoreInv, TypeOK, NoTx
<1>2. ConnInv' /\ TxInv' /\ AnswerInv'
  BY DEF ConnInv, TxInv, Creating, AnswerInv, AnswerOf
<1>3. MigrationInv' /\ TablesInv'
  BY DEF StoreInv, MigrationInv, TablesInv, KeysOf
<1> QED BY <1>1, <1>2, <1>3 DEF StoreInv

LEMMA StatementInv ==
  ASSUME StoreInv, NEW c \in Caller, Statement(c)
  PROVE  StoreInv'
BY BeginInv, InsertInv, InsertEnvInv, CommitInv, ExecInv, GetByIDInv, ListInv, AttachInv,
   GetEnvVarsInv, GetLogsInv, ReturnedInv DEF Statement

LEMMA StutterInv ==
  ASSUME StoreInv, UNCHANGED vars
  PROVE  StoreInv'
<1> USE DEF vars, openVars, tables, callVars
<1>1. TypeOK' /\ ConnInv' /\ MigrationInv'
  BY DEF StoreInv, TypeOK, ConnInv, MigrationInv, Passed
<1>2. TxInv' /\ TablesInv' /\ AnswerInv'
  BY DEF StoreInv, TxInv, Creating, TablesInv, KeysOf, AnswerInv, AnswerOf
<1> QED BY <1>1, <1>2 DEF StoreInv

LEMMA StoreSpecInv == Spec => []StoreInv
<1>1. Init => StoreInv
  <2> SUFFICES ASSUME Init PROVE StoreInv
    OBVIOUS
  <2>1. TypeOK
    BY StatementsAre DEF Init, TypeOK, NoTx, Schema
  <2>2. ConnInv /\ MigrationInv /\ TxInv /\ TablesInv /\ AnswerInv
    BY DEF Init, ConnInv, MigrationInv, TxInv, Creating, TablesInv, AnswerInv, AnswerOf
  <2> QED BY <2>1, <2>2 DEF StoreInv
<1>2. StoreInv /\ [Next]_vars => StoreInv'
  <2> SUFFICES ASSUME StoreInv, [Next]_vars PROVE StoreInv'
    OBVIOUS
  <2>1. CASE migrate \/ NewDeploymentStoreAt
    BY <2>1, MigrateInv, OpenedInv
  <2>2. ASSUME NEW c \in Caller, NEW d \in Deployment, NEW keys \in SUBSET EnvKey,
               CallCreate(c, d, keys)
        PROVE  StoreInv'
    BY <2>2, CallCreateInv
  <2>3. ASSUME NEW c \in Caller, NEW d \in Deployment \cup {None}, NEW o \in Op, CallOther(c, o, d)
        PROVE  StoreInv'
    BY <2>3, CallOtherInv
  <2>4. ASSUME NEW c \in Caller, Acquire(c) \/ Statement(c) PROVE StoreInv'
    BY <2>4, AcquireInv, StatementInv
  <2>5. CASE Restart
    BY <2>5, RestartInv
  <2>6. CASE Exited \/ UNCHANGED vars
    BY <2>6, StutterInv DEF Exited
  <2> QED BY <2>1, <2>2, <2>3, <2>4, <2>5, <2>6 DEF Next
<1> QED BY <1>1, <1>2, PTL DEF Spec

(***************************************************************************)
(* The results.                                                            *)
(***************************************************************************)

\* Every state of the store, its connection and its calls is of its type.
THEOREM StoreTypeCorrect == Spec => []TypeOK
<1>1. StoreInv => TypeOK
  BY DEF StoreInv
<1> QED BY <1>1, StoreSpecInv, PTL

\* No call waits for the connection it holds itself, whatever fails where.
THEOREM NoSelfWaitCorrect == Spec => []NoSelfWait
<1>1. StoreInv => NoSelfWait
  BY DEF StoreInv, ConnInv, NoSelfWait
<1> QED BY <1>1, StoreSpecInv, PTL

\* What a call returns has all the variables it was created with.
THEOREM AnswersCompleteCorrect == Spec => []AnswersComplete
<1>1. StoreInv => AnswersComplete
  BY DEF StoreInv, AnswerInv, AnswerOf, AnswersComplete
<1> QED BY <1>1, StoreSpecInv, PTL

\* A store that is open has the whole schema, wherever migrations ended.
THEOREM SchemaCompleteCorrect == Spec => []SchemaComplete
<1>1. StoreInv => SchemaComplete
  <2> SUFFICES ASSUME StoreInv, store = "ready" PROVE schema = Schema
    BY DEF SchemaComplete
  <2>1. \A i \in 1 .. 5 : Passed(statements[i])
    BY DEF StoreInv, MigrationInv
  <2>2. Passed(statements[1]) /\ Passed(statements[2]) /\ Passed(statements[3])
        /\ Passed(statements[4]) /\ Passed(statements[5])
    BY <2>1
  <2>3. Schema \subseteq schema
    BY <2>2, StatementsAre DEF Passed, CreateTable, AddColumn, Schema, Columns
  <2> QED BY <2>3 DEF StoreInv, TypeOK
<1> QED BY <1>1, StoreSpecInv, PTL

\* Only a failed statement keeps the store from opening; a migration that was
\* cut off does not.
THEOREM RefusedOnlyOnFaultCorrect == Spec => []RefusedOnlyOnFault
<1>1. Init => RefusedOnlyOnFault
  BY DEF Init, RefusedOnlyOnFault
<1>2. ASSUME TypeOK, RefusedOnlyOnFault, [Next]_vars PROVE RefusedOnlyOnFault'
  <2> USE DEF RefusedOnlyOnFault, TypeOK, openVars
  <2>1. CASE migrate
    BY <1>2, <2>1 DEF migrate, DuplicateColumn, NoFault, Fault
  <2>2. ASSUME NEW c \in Caller, Statement(c) PROVE RefusedOnlyOnFault'
    <3>1. store' = store
      BY <2>2 DEF Statement
    <3>2. NoFault \/ \E kind : Fault(kind)
      <4>1. CASE Begin(c) \/ Insert(c) \/ InsertEnv(c) \/ Commit(c)
        BY <4>1, Zenon DEF Begin, Insert, InsertEnv, Commit, Fails
      <4>2. CASE Exec(c) \/ GetByID(c) \/ List(c)
        BY <4>2, Zenon DEF Exec, GetByID, List, Fails
      <4>3. CASE attachEnvVarKeys(c) \/ GetEnvVars(c) \/ GetLogsByDeploymentID(c)
        BY <4>3, Zenon DEF attachEnvVarKeys, GetEnvVars, GetLogsByDeploymentID, Fails
      <4>4. CASE Returned(c)
        BY <4>4 DEF Returned, NoFault
      <4> QED BY <2>2, <4>1, <4>2, <4>3, <4>4 DEF Statement
    <3> QED BY <1>2, <3>1, <3>2 DEF NoFault, Fault
  <2>3. ASSUME NEW c \in Caller, Acquire(c) \/ (\E d, keys : CallCreate(c, d, keys))
                                  \/ (\E d, o : CallOther(c, o, d))
        PROVE  RefusedOnlyOnFault'
    BY <1>2, <2>3 DEF Acquire, CallCreate, CallOther, Call
  <2>4. CASE NewDeploymentStoreAt \/ Restart \/ Exited \/ UNCHANGED vars
    BY <1>2, <2>4 DEF NewDeploymentStoreAt, Restart, Exited, vars
  <2> QED BY <1>2, <2>1, <2>2, <2>3, <2>4 DEF Next
<1> QED BY <1>1, <1>2, StoreTypeCorrect, PTL DEF Spec

\* Create is atomic: the statements of its transaction, failures and restarts
\* implement the one step of DeploymentTable.
THEOREM CreateIsAtomicCorrect == Spec => CreateIsAtomic
<1> DEFINE names == [d \in Deployment |-> KeysOf(d)]
<1>1. Init => Table!Init
  BY DEF Init, Table!Init, KeysOf
<1>2. ASSUME StoreInv, [Next]_vars PROVE [Table!Next]_<<rows, names>>
  <2>1. CASE UNCHANGED <<rows, env>>
    BY <2>1 DEF KeysOf
  <2>2. ASSUME NEW c \in Caller, Commit(c), given' = given, ~ UNCHANGED <<rows, env>>
        PROVE  Table!Next
    <3>1. PICK d \in Deployment \ rows :
             /\ target[c] = d /\ given[d] \in SUBSET EnvKey
             /\ tx.rows = {d} /\ tx.env \subseteq {d} \X given[d]
      BY <1>2, <2>2 DEF Commit, Holds, StoreInv, TypeOK, TxInv, Creating
    <3>2. rows' = rows \cup tx.rows /\ env' = env \cup tx.env
          /\ \A k \in given[d] : <<d, k>> \in tx.env
      BY <2>2, <3>1 DEF Commit, Fails, ReturnError, tables
    <3>3. KeysOf(d)' = given[d]
      <4>1. \A k \in EnvKey : <<d, k>> \notin env
        BY <1>2, <3>1 DEF StoreInv, TablesInv
      <4>2. \A k \in EnvKey : <<d, k>> \in env' <=> k \in given[d]
        BY <3>1, <3>2, <4>1
      <4> QED BY <3>1, <4>2 DEF KeysOf
    <3>4. \A b \in Deployment \ {d} : KeysOf(b)' = KeysOf(b)
      BY <3>1, <3>2 DEF KeysOf
    <3>5. names' = [names EXCEPT ![d] = given[d]]
      BY <3>1, <3>3, <3>4
    <3>6. Table!Create(d, given[d])
      BY <3>1, <3>2, <3>5 DEF Table!Create
    <3> QED BY <3>1, <3>6 DEF Table!Next
  <2>3. (\E c \in Caller : Commit(c) /\ given' = given) \/ UNCHANGED <<rows, env>>
    <3> USE DEF tables, Fails, ReturnError
    <3>1. ASSUME NEW c \in Caller, Statement(c)
          PROVE  (Commit(c) /\ given' = given) \/ UNCHANGED <<rows, env>>
      BY <3>1 DEF Statement, Begin, Insert, InsertEnv, Exec, GetByID, List, attachEnvVarKeys,
                  GetEnvVars, GetLogsByDeploymentID, Returned
    <3>2. ASSUME NEW c \in Caller, Acquire(c) \/ (\E d, keys : CallCreate(c, d, keys))
                                    \/ (\E d, o : CallOther(c, o, d))
          PROVE  UNCHANGED <<rows, env>>
      BY <3>2 DEF Acquire, CallCreate, CallOther, Call
    <3>3. CASE migrate \/ NewDeploymentStoreAt \/ Restart \/ Exited \/ UNCHANGED vars
      BY <3>3 DEF migrate, NewDeploymentStoreAt, Restart, Exited, vars
    <3> QED BY <1>2, <3>1, <3>2, <3>3 DEF Next
  <2> QED BY <2>1, <2>2, <2>3
<1> QED BY <1>1, <1>2, StoreSpecInv, PTL DEF Spec, CreateIsAtomic, Table!Spec
=============================================================================
