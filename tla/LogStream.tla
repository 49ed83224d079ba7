------------------------------ MODULE LogStream ------------------------------
(***************************************************************************)
(* The logs of one deployment, from the goroutines that write them to one  *)
(* browser that follows them.  An entry is persisted first and broadcast   *)
(* next; the handler of a connection subscribes first, then replays the    *)
(* table, then forwards its channel; the browser fetches the table once    *)
(* and then follows the stream, dropping entries that it has already.      *)
(*                                                                         *)
(* Kinds of failure: "write" (AddLog), and the queries: "fetch" (of the    *)
(* browser), "lookup" and "history" (of a handler).                        *)
(***************************************************************************)
EXTENDS LogBroker, Faults, Functions, FiniteSets

CONSTANTS
  NoConn,       \* the browser has no connection
  MaxEntries,   \* bound: entries of one logger
  MaxCrashes    \* bound: restarts of the backend

ASSUME StreamAssumption ==
  /\ NoConn \notin Conn
  /\ Capacity \in Nat
  /\ MaxEntries \in Nat
  /\ MaxCrashes \in Nat

VARIABLES
  calls,        \* the entries each logger has made
  step,         \* where each logger is
  table,        \* deployment_logs, in the order of the IDs
  handler,      \* where the handler of each connection is
  replay,       \* history that it has still to write
  client,       \* what the browser does
  current,      \* its connection
  view,         \* the entries it shows
  crashes       \* restarts so far

vars == <<brokerVars, faults, calls, step, table, handler, replay, client, current, view, crashes>>
loggerVars == <<calls, step>>
clientVars == <<client, current, view>>

Entry == Logger \X (1 .. MaxEntries)
LogEntry(l) == <<l, calls[l]>>   \* the entry a logger is working on

Init ==
  /\ readers = {} /\ subscribers = {} /\ closed = {}
  /\ sending = [l \in Logger |-> {}]
  /\ channel = [c \in Conn |-> <<>>]
  /\ faults = 0 /\ crashes = 0
  /\ calls = [l \in Logger |-> 0]
  /\ step = [l \in Logger |-> "idle"]
  /\ table = <<>>
  /\ handler = [c \in Conn |-> "unused"]
  /\ replay = [c \in Conn |-> <<>>]
  /\ client = "fetch" /\ current = NoConn /\ view = <<>>
-----------------------------------------------------------------------------
\* The loggers: logDeployment.

Advance(l, from, to) ==
  /\ step[l] = from
  /\ step' = [step EXCEPT ![l] = to]

\* A line of output, or a message of the worker.
LogCall(l) ==
  /\ calls[l] < MaxEntries
  /\ Advance(l, "idle", "persist")
  /\ calls' = [calls EXCEPT ![l] = @ + 1]
  /\ UNCHANGED <<brokerVars, faults, table, handler, replay, clientVars, crashes>>

\* An entry that could not be persisted is broadcast all the same.
AddLog(l) ==
  /\ Advance(l, "persist", "broadcast")
  /\ \/ NoFault /\ table' = Append(table, LogEntry(l))
     \/ Fault("write") /\ UNCHANGED table
  /\ UNCHANGED <<brokerVars, calls, handler, replay, clientVars, crashes>>

Broadcast(l) ==
  /\ \/ Advance(l, "broadcast", "send") /\ RLock(l)
     \/ step[l] = "send" /\ Send(l, LogEntry(l)) /\ UNCHANGED step
     \/ Advance(l, "send", "idle") /\ RUnlock(l)
  /\ UNCHANGED <<faults, calls, table, handler, replay, clientVars, crashes>>
-----------------------------------------------------------------------------
\* The handlers: StreamDeploymentLogs.

Handle(c, from, to) ==
  /\ handler[c] = from
  /\ handler' = [handler EXCEPT ![c] = to]

\* Mutant: the browser does not look for the entry in what it shows.
appendLog(logs, entry) == Append(logs, entry)

appendUniqueLog(logs, entry) ==
  IF entry \in Range(logs) THEN logs ELSE Append(logs, entry)

\* What is written to a connection the browser has left is lost.
writeDeploymentLogEvent(c, entry) ==
  view' = IF current = c THEN appendUniqueLog(view, entry) ELSE view

\* A failed query is answered 404, which ends an EventSource for good.
SubscribeDeploymentLogs(c) ==
  /\ \/ /\ NoFault
        /\ Handle(c, "accept", "history")
        /\ Subscribe(c)
        /\ UNCHANGED clientVars
     \/ /\ Fault("lookup")
        /\ Handle(c, "accept", "done")
        /\ client' = IF current = c THEN "gone" ELSE client
        /\ current' = IF current = c THEN NoConn ELSE current
        /\ UNCHANGED <<brokerVars, view>>
  /\ UNCHANGED <<loggerVars, table, replay, crashes>>

\* A failed query leaves an empty history.
ReadHistory(c) ==
  /\ Handle(c, "history", "stream")
  /\ \/ NoFault /\ replay' = [replay EXCEPT ![c] = table]
     \/ Fault("history") /\ UNCHANGED replay
  /\ UNCHANGED <<brokerVars, loggerVars, table, clientVars, crashes>>

Replay(c) ==
  /\ handler[c] = "stream" /\ replay[c] # <<>>
  /\ writeDeploymentLogEvent(c, Head(replay[c]))
  /\ replay' = [replay EXCEPT ![c] = Tail(@)]
  /\ UNCHANGED <<brokerVars, faults, loggerVars, table, handler, client, current, crashes>>

Forward(c) ==
  /\ handler[c] = "stream" /\ replay[c] = <<>>
  /\ Receive(c)
  /\ writeDeploymentLogEvent(c, Head(channel[c]))
  /\ UNCHANGED <<faults, loggerVars, table, handler, replay, client, current, crashes>>

\* The request's context is done; the handler returns and unsubscribes.
Close(c) ==
  /\ current # c
  /\ Handle(c, "stream", "done") /\ replay[c] = <<>>
  /\ Unsubscribe(c)
  /\ UNCHANGED <<faults, loggerVars, table, replay, clientVars, crashes>>
-----------------------------------------------------------------------------
\* The browser: useDeploymentLogs and its EventSource.

\* The query, which is retried once; the stream waits for its success.
Fetch ==
  /\ \/ /\ client \in {"fetch", "retry"}
        /\ NoFault
        /\ client' = "follow" /\ view' = table
     \/ /\ BoundedFault("fetch") /\ UNCHANGED view
        /\ \/ client = "fetch" /\ client' = "retry"
           \/ client = "retry" /\ client' = "gone"
  /\ UNCHANGED <<brokerVars, loggerVars, table, handler, replay, current, crashes>>

\* Also the automatic reconnection of an EventSource.
Open(c) ==
  /\ client = "follow" /\ current = NoConn
  /\ Handle(c, "unused", "accept")
  /\ current' = c
  /\ UNCHANGED <<brokerVars, faults, loggerVars, table, replay, client, view, crashes>>

\* The network ends the connection, or another deployment is selected.
Cut ==
  /\ current # NoConn
  /\ current' = NoConn
  /\ UNCHANGED <<brokerVars, faults, loggerVars, table, handler, replay, client, view, crashes>>

\* The backend ends and starts again; nobody resumes the deployment.
Restart ==
  /\ crashes < MaxCrashes
  /\ crashes' = crashes + 1
  /\ step' = [l \in Logger |-> "gone"]
  /\ handler' = [c \in Conn |-> IF handler[c] = "unused" THEN "unused" ELSE "done"]
  /\ readers' = {} /\ subscribers' = {} /\ closed' = {}
  /\ sending' = [l \in Logger |-> {}]
  /\ channel' = [c \in Conn |-> <<>>]
  /\ replay' = [c \in Conn |-> <<>>]
  /\ current' = NoConn
  /\ UNCHANGED <<faults, calls, table, client, view>>
-----------------------------------------------------------------------------
Drained(c) == handler[c] = "stream" /\ replay[c] = <<>> /\ channel[c] = <<>>

Quiet ==
  /\ \A l \in Logger : step[l] \in {"idle", "gone"}
  /\ \A c \in Conn : handler[c] \in {"unused", "done"} \/ Drained(c)

\* The logs are written and delivered; the server waits for requests.
AwaitRequests == Quiet /\ UNCHANGED vars

Next ==
  \/ \E l \in Logger : LogCall(l) \/ AddLog(l) \/ Broadcast(l)
  \/ \E c \in Conn :
       \/ SubscribeDeploymentLogs(c) \/ ReadHistory(c) \/ Replay(c) \/ Forward(c) \/ Close(c)
       \/ Open(c)
  \/ Fetch
  \/ Cut
  \/ Restart
  \/ AwaitRequests

Spec == Init /\ [][Next]_vars

(* A goroutine that logs goes on: the store answers, and Broadcast takes   *)
(* a lock that is never held over a wait.  Lines of output are not owed.   *)
LoggerFairness == \A l \in Logger : WF_vars(AddLog(l)) /\ WF_vars(Broadcast(l))
LoggerSpec == Spec /\ LoggerFairness

(* A handler gets to its stream: a lock that is waited for is not given to *)
(* new readers for ever (sync.RWMutex), and the store answers.  That it    *)
(* writes the stream is not assumed: its browser may not read.             *)
HandlerFairness ==
  \A c \in Conn : SF_vars(SubscribeDeploymentLogs(c)) /\ WF_vars(ReadHistory(c))
StreamSpec == LoggerSpec /\ HandlerFairness
-----------------------------------------------------------------------------
TypeOK ==
  /\ readers \subseteq Logger
  /\ subscribers \subseteq Conn
  /\ closed \subseteq Conn
  /\ sending \in [Logger -> SUBSET Conn]
  /\ channel \in [Conn -> Seq(Entry)] /\ \A c \in Conn : Len(channel[c]) =< Capacity
  /\ faults \in 0 .. MaxFaults
  /\ crashes \in 0 .. MaxCrashes
  /\ calls \in [Logger -> 0 .. MaxEntries]
  /\ step \in [Logger -> {"idle", "persist", "broadcast", "send", "gone"}]
  /\ table \in Seq(Entry)
  /\ handler \in [Conn -> {"unused", "accept", "history", "stream", "done"}]
  /\ replay \in [Conn -> Seq(Entry)]
  /\ client \in {"fetch", "retry", "follow", "gone"}
  /\ current \in Conn \cup {NoConn}
  /\ view \in Seq(Entry)

\* A broadcast never sends on a closed channel, which would end the process:
\* unsubscribe closes the channel of a connection while others may be sending.
NoSendOnClosed == \A l \in Logger : sending[l] \cap closed = {}

\* Why: a broadcast visits subscribers under the read lock; a subscriber's
\* channel is open, and closed when its handler is done and can subscribe no
\* more.  A logger at work has an entry.
StreamInv ==
  /\ \A l \in Logger : step[l] \in {"persist", "broadcast", "send"} => calls[l] > 0
  /\ \A l \in Logger : sending[l] \subseteq subscribers
  /\ \A l \in Logger : sending[l] # {} => l \in readers
  /\ subscribers \cap closed = {}
  /\ \A c \in closed : handler[c] = "done"

\* What the handler of c has still to write, and what loggers have still to
\* send to it.
Underway(c) ==
  Range(replay[c]) \cup Range(channel[c])
    \cup {LogEntry(l) : l \in {k \in Logger : step[k] = "broadcast" \/ c \in sending[k]}}

\* Subscribing before the history is read leaves no gap: once the handler of
\* the browser's connection streams, every persisted entry is shown or is on
\* its way, however appends, broadcasts and reconnections interleave.
NothingMissed ==
  \A c \in Conn :
    current = c /\ handler[c] = "stream" => Range(table) \subseteq Range(view) \cup Underway(c)

\* The browser shows the entries of one goroutine in the order it made them,
\* and each of them once, whether it had them from the fetch, the history of a
\* connection, its live part, or several of these.
InOrder ==
  \A i, j \in DOMAIN view :
    i < j /\ view[i][1] = view[j][1] => view[i][2] < view[j][2]

\* The README: logs "are persisted and streamed live to the UI".  When nothing
\* is underway, a browser with an open stream shows all that is persisted.
StreamComplete ==
  \A c \in Conn :
    current = c /\ Drained(c) /\ Quiet => Range(table) \subseteq Range(view)

\* The select with a default in Broadcast: a goroutine that logs is never held
\* up for ever, not by a browser that reads nothing nor by a full channel.
LoggerNeverBlocked ==
  \A l \in Logger : step[l] = "persist" ~> step[l] \in {"idle", "gone"}

\* A connection is answered: it streams, or is refused, although broadcasts
\* hold the lock that it needs.
StreamStarts ==
  \A c \in Conn : handler[c] = "accept" ~> handler[c] \in {"stream", "done"}
=============================================================================
