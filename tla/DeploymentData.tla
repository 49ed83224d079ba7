---------------------------- MODULE DeploymentData ----------------------------
(***************************************************************************)
(* What the values of a request become on their way to a container and a   *)
(* route: the deployments submitted one after the other, their IDs and     *)
(* rows, and the stages of deployment_pipeline.go that compute something.  *)
(* Failures of calls, statuses and interleavings are DeploymentService's.  *)
(*                                                                         *)
(* An input is [url, env, tree, image]: what is submitted, what the        *)
(* repository holds (SourceInspection), and what Railpack makes of it, an  *)
(* image [exposed, obeys, listens, inspected]: its exposed ports, whether  *)
(* its own command listens on PORT, the port it listens on otherwise, and  *)
(* whether docker image inspect answers.                                   *)
(***************************************************************************)
EXTENDS HostLabel, TimeText, RequestText, SourceInspection, FiniteSets, TLC

CONSTANTS
  Inputs,       \* the sequences of inputs that are submitted
  Instants,     \* the times at which something happens
  DefaultPort,  \* BLOOPE_CONTAINER_PORT
  MaxRestarts   \* bound: restarts of the backend

LastPort == 65535
Ports == 1 .. LastPort
LastTick == 9999          \* the two digits of the seconds end here

\* What the JSON of a request, a clone and docker image inspect can hold.
WellFormed(input) ==
  /\ input.url \in [github : BOOLEAN, name : DOMAIN Lower, tail : Seq({"git", "slash"})]
  /\ IsTree(input.tree)
  /\ input.image.listens \in Ports
  /\ \A exposed \in input.image.exposed : exposed[1] \in Ports \cup {0}

ASSUME DataAssumption ==
  /\ \A inputs \in Inputs :
       inputs \in Seq(Range(inputs)) /\ \A input \in Range(inputs) : WellFormed(input)
  /\ Instants \subseteq 0 .. LastTick
  /\ DefaultPort \in Ports
  /\ MaxRestarts \in Nat

VARIABLES
  now,          \* the clock
  nextID,       \* the counter of the process
  restarts,
  todo,         \* the inputs that are still to be submitted
  refused,      \* the inputs that were answered with an error
  rows          \* the deployments

dataVars == <<now, nextID, restarts, todo, refused, rows>>

Init ==
  /\ now \in Instants
  /\ nextID = 0 /\ restarts = 0
  /\ todo \in Inputs
  /\ refused = <<>> /\ rows = <<>>

Final == {"failed", "routed", "abandoned"}
Stages == {"pending", "validated", "inspected", "started"} \cup Final

\* f, and g where f says nothing.
Over(f, g) == [x \in DOMAIN f \cup DOMAIN g |-> IF x \in DOMAIN f THEN f[x] ELSE g[x]]

\* A row goes through a stage, which adds what it has computed.
Stage(i, from, to, computed) ==
  /\ rows[i].stage = from
  /\ rows' = [rows EXCEPT ![i] = Over(computed, [@ EXCEPT !.stage = to])]
  /\ UNCHANGED <<now, nextID, restarts, todo, refused>>
-----------------------------------------------------------------------------
Tick ==
  /\ \E later \in Instants : later > now /\ now' = later
  /\ UNCHANGED <<nextID, restarts, todo, refused, rows>>

\* A process that ends takes its counter with it; the next one is not up
\* within the same millisecond, and resumes no deployment.
Restart ==
  /\ restarts < MaxRestarts
  /\ restarts' = restarts + 1
  /\ nextID' = 0
  /\ \E later \in Instants : Milli(later) > Milli(now) /\ now' = later
  /\ rows' = [i \in DOMAIN rows |->
                [rows[i] EXCEPT !.stage = IF @ \in Final THEN @ ELSE "abandoned"]]
  /\ UNCHANGED <<todo, refused>>

\* Mutant: an ID of the counter alone.
generateIDCounter(time, count) == <<"dep", "_", "0", "_", ToString(count)>>
generateID(time, count) == <<"dep", "_", ToString(Milli(time)), "_", ToString(count)>>

Acceptable(input) == input.url # BlankURL /\ EnvVarsAllowed(input.env)

\* CreateDeployment: a request without a URL or with a name that is not
\* allowed is refused, and so is an ID that the table has (its primary key).
Create ==
  /\ todo # <<>> /\ todo' = Tail(todo)
  /\ LET input == Head(todo)
         id == generateID(now, nextID + 1)
         taken == \E i \in DOMAIN rows : rows[i].id = id
     IN  /\ nextID' = IF Acceptable(input) THEN nextID + 1 ELSE nextID
         /\ \/ /\ ~Acceptable(input) \/ taken
               /\ refused' = Append(refused, input)
               /\ UNCHANGED rows
            \/ /\ Acceptable(input) /\ ~taken
               /\ \E env \in normalizeEnvVars(input.env) :
                    rows' = Append(rows, [id |-> id, stage |-> "pending", input |-> input,
                                          env |-> env, time |-> now, created_at |-> formatTime(now)])
               /\ UNCHANGED refused
  /\ UNCHANGED <<now, restarts>>

\* loadDeploymentForPipeline, and the key that the build gets.
Validate(i) ==
  LET url == NormalizeGitHubRepoURL(rows[i].input.url)
  IN  IF ValidateGitHubRepoURL(url)
      THEN Stage(i, "pending", "validated", [url |-> url, key |-> railpackCacheKey(url)])
      ELSE Stage(i, "pending", "failed", <<>>)

inspectDeploymentSource(i) == Stage(i, "validated", "inspected", Inspect(rows[i].input.tree))
-----------------------------------------------------------------------------
\* Run, on an image of Railpack.

Least(ports) == IF ports = {} THEN DefaultPort
                ELSE CHOOSE port \in ports : \A other \in ports : port =< other

\* Mutant: what is not a number counts as 0.
detectContainerPortUnparsed(image) ==
  IF image.inspected THEN Least({exposed[1] : exposed \in image.exposed}) ELSE DefaultPort

\* The least of the exposed ports, whatever their protocol; one that is not a
\* number (0 here) is passed over.
detectContainerPort(image) ==
  IF image.inspected THEN Least({exposed[1] : exposed \in image.exposed} \ {0}) ELSE DefaultPort

\* Mutants: the default after the names of the user; the fallback as PORT.
RunArgsDefaultLast(env, port) == Over([PORT |-> port], env)
RunArgs(env, port) == Over(env, [PORT |-> port])
PortDefault(containerPort) == DefaultPort
Port(containerPort) == containerPort

\* docker run: -e PORT=, then the user's names (the last of a name counts),
\* and -p with the container's port.
Start(i) ==
  LET port == detectContainerPort(rows[i].input.image)
  IN  Stage(i, "inspected", "started",
            [environ |-> RunArgs(rows[i].env, Port(port)), mapped |-> port])

hostForDeployment(id) == sanitizeHostLabel(id)
Route(i) == Stage(i, "started", "routed", [host |-> hostForDeployment(rows[i].id)])

Settled == todo = <<>> /\ \A i \in DOMAIN rows : rows[i].stage \in Final
AwaitRequests == Settled /\ UNCHANGED dataVars

Next ==
  \/ Tick \/ Restart \/ Create
  \/ \E i \in DOMAIN rows :
       \/ Validate(i) \/ inspectDeploymentSource(i) \/ Start(i) \/ Route(i)
  \/ AwaitRequests

Spec == Init /\ [][Next]_dataVars
-----------------------------------------------------------------------------
Row == Range(rows)
Reached(stage) == {row \in Row : stage \in DOMAIN row}   \* rows with that field

DataTypeOK ==
  /\ now \in Instants /\ restarts \in 0 .. MaxRestarts /\ nextID \in Nat
  /\ \A row \in Row :
       /\ row.stage \in Stages
       /\ Range(row.created_at) \subseteq -1 .. 10
       /\ DOMAIN row.env \subseteq GoodNames
  /\ \A row \in Reached("command") : row.command = NoCommand \/ Len(row.command) = 2
  /\ \A row \in Reached("mapped") : row.mapped \in Ports

\* The spellings of the URL of a repository on GitHub.
IsRepository(url) ==
  /\ url.github /\ url.name # NoRepo
  /\ url.tail \in {<<>>, <<"git">>, <<"slash">>, <<"git", "slash">>}

\* Nothing that is in order is turned away: not for an ID that a process
\* before a restart, or the same one in the same millisecond, has given out,
\* and not for the way in which the URL is spelled.
RejectedOnlyInvalid ==
  /\ \A input \in Range(refused) : ~Acceptable(input)
  /\ \A row \in Row : row.stage = "failed" => ~IsRepository(row.input.url)

\* Every deployment is reached under a host name of its own, which the DNS
\* takes, although the ID is made over and cut for it.
HostsDistinct ==
  \A i, j \in DOMAIN rows :
    {rows[i], rows[j]} \subseteq Reached("host") =>
      /\ IsHostLabel(rows[i].host)
      /\ rows[i].host = rows[j].host => i = j

\* ORDER BY created_at, on texts without their trailing zeros, lists rows of
\* different seconds in the order of their times.  (Within a second it need
\* not: "1.1Z" comes after "1.12Z".)
ListedByTime ==
  \A r, s \in Row : Second(r.time) < Second(s.time) => TextLess(r.created_at, s.created_at)

\* The container has the variables of the request, under their trimmed names,
\* each with a value that was given for it, and PORT besides.
EnvDelivered ==
  \A row \in Reached("environ") :
    LET submitted == row.input.env
        names == {raw.name : raw \in DOMAIN submitted} \ {""}
    IN  /\ DOMAIN row.environ = names \cup {"PORT"}
        /\ \A name \in names :
             \E raw \in DOMAIN submitted :
               raw.name = name /\ row.environ[name] = submitted[raw]

\* The port the process in the container listens on: the inferred commands
\* take PORT.
ListensOn(row) ==
  IF row.command # NoCommand \/ row.input.image.obeys THEN row.environ["PORT"]
  ELSE row.input.image.listens

\* The README: "The app image either exposes a port or listens on PORT", or
\* the default is used.
KeepsPromise(row) ==
  LET image == row.input.image
  IN  \/ row.command # NoCommand \/ image.obeys
      \/ image.inspected /\ image.exposed = {<<image.listens, "tcp">>}
      \/ image.exposed = {} /\ image.listens = DefaultPort

\* An application that does is reached through the port that docker maps,
\* unless the request sets PORT itself.
AppReachable ==
  \A row \in Reached("mapped") :
    KeepsPromise(row) /\ "PORT" \notin DOMAIN row.env => ListensOn(row) = row.mapped

\* Builds share a cache if and only if they are of the same repository,
\* however its URL is spelled (GitHub does not tell cases apart).
CacheKeyPerRepo ==
  \A r, s \in Reached("key") :
    IsRepository(r.input.url) /\ IsRepository(s.input.url) =>
      (r.key = s.key <=> Lower[r.input.url.name] = Lower[s.input.url.name])

Frameworks == <<"Django", "FastAPI", "Flask">>
Servers == [Django |-> {"django"}, FastAPI |-> {"fastapi", "uvicorn"}, Flask |-> {"flask"}]
Rank(command) == CHOOSE i \in DOMAIN Frameworks : Frameworks[i] = command[1]

\* All the commands that the tree allows.
Startable(tree) ==
  {command \in Range(Frameworks) \X (Range(Candidates) \cup
                                      {project.name : project \in Range(tree.projects)}) :
     /\ {"requirements.txt", "pyproject.toml"} \cap tree.manifests # {}
     /\ Servers[command[1]] \subseteq tree.deps
     /\ IF command[1] = "Django"
        THEN tree.manage /\ [name |-> command[2], package |-> TRUE] \in Range(tree.projects)
        ELSE command[2] \in Range(Candidates) /\ command[1] \in tree.modules[command[2]]}

\* A start command is inferred if and only if the tree has one, and it is of
\* the framework that comes first: one that yields no command hides no other.
StartCommandIsBest ==
  \A row \in Reached("command") :
    IF row.command = NoCommand THEN Startable(row.input.tree) = {}
    ELSE /\ row.command \in Startable(row.input.tree)
         /\ \A other \in Startable(row.input.tree) : Rank(row.command) =< Rank(other)

\* Every hint is from a file that may be read, and the bound cuts off none
\* while there are no more such files than it allows.
HintsAgree ==
  \A row \in Reached("hints") :
    LET files == row.input.tree.files
        readable == {i \in DOMAIN files : Readable(files[i])}
        said == UNION {files[i].says : i \in readable}
    IN  /\ row.hints \cap {"localhost", "pool"} \subseteq said
        /\ Cardinality(readable) =< MaxScanned => said \subseteq row.hints
=============================================================================
