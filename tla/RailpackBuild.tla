---------------------------- MODULE RailpackBuild ----------------------------
(***************************************************************************)
(* internal/build/railpack.go: one build, whose two scanners are the       *)
(* goroutines that log (LogStream), one for each stream of the child.      *)
(*                                                                         *)
(* A scanner reads a pipe until nobody can write to it any more.  The      *)
(* child may leave a descendant that has inherited the pipes; the deadline *)
(* kills the child and nobody else.  A line beyond the scanner's buffer    *)
(* ends the scanner, and what follows it stays in the pipe, where the      *)
(* child may come to wait for room.                                        *)
(*                                                                         *)
(* Kinds of failure, besides LogStream's: "start" (the child does not      *)
(* start), "child" (it ends with an error), "long_line", "descendant".     *)
(***************************************************************************)
EXTENDS LogStream

VARIABLES
  build,        \* where Build is, or how it has returned
  child,        \* the process it has started
  descendant,   \* a process that holds the child's pipes
  deadline,     \* the context's deadline has passed
  scanner,      \* where the scanner of each stream is
  pipe,         \* lines in each pipe that are still to be read
  written,      \* lines written to each pipe so far
  long,         \* the over-long line of each stream
  stuck         \* the child waits for room in a pipe that is not read

processVars == <<child, descendant, stuck>>
pipeVars == <<pipe, written, long>>
buildVars == <<build, deadline, scanner, processVars, pipeVars>>
allVars == <<vars, buildVars>>

Returned == {"ok", "failed", "timed_out", "gone"}

BuildInit ==
  /\ Init
  /\ build = "start" /\ child = "none" /\ descendant = "none" /\ stuck = FALSE
  /\ deadline = FALSE
  /\ scanner = [l \in Logger |-> "idle"]
  /\ pipe = [l \in Logger |-> 0]
  /\ written = [l \in Logger |-> 0]
  /\ long = [l \in Logger |-> "none"]
-----------------------------------------------------------------------------
\* The child and its descendant.

ChildWrites == child = "running" /\ ~stuck /\ \A l \in Logger : long[l] # "waiting"

Write(l) ==
  /\ ChildWrites /\ long[l] = "none"
  /\ written[l] < MaxEntries
  /\ written' = [written EXCEPT ![l] = @ + 1]
  /\ pipe' = [pipe EXCEPT ![l] = @ + 1]
  /\ UNCHANGED <<vars, build, deadline, scanner, processVars, long>>

\* The line is longer than a pipe: the child waits until it is read.
WriteLong(l) ==
  /\ ChildWrites /\ long[l] = "none"
  /\ written[l] < MaxEntries
  /\ Fault("long_line")
  /\ long' = [long EXCEPT ![l] = "waiting"]
  /\ UNCHANGED <<brokerVars, loggerVars, table, handler, replay, clientVars, crashes>>
  /\ UNCHANGED <<build, deadline, scanner, processVars, pipe, written>>

ChildExits ==
  /\ ChildWrites
  /\ \/ NoFault /\ child' = "ok"
     \/ Fault("child") /\ child' = "error"
  /\ UNCHANGED <<brokerVars, loggerVars, table, handler, replay, clientVars, crashes>>
  /\ UNCHANGED <<build, deadline, scanner, descendant, stuck, pipeVars>>

Descend ==
  /\ ChildWrites /\ descendant = "none"
  /\ Fault("descendant")
  /\ descendant' = "running"
  /\ UNCHANGED <<brokerVars, loggerVars, table, handler, replay, clientVars, crashes>>
  /\ UNCHANGED <<build, deadline, scanner, child, stuck, pipeVars>>

DescendantExits ==
  /\ descendant = "running"
  /\ descendant' = "gone"
  /\ UNCHANGED <<vars, build, deadline, scanner, child, stuck, pipeVars>>
-----------------------------------------------------------------------------
\* The scanners: scanOutput, whose logLine is logDeployment.

Scan(l) ==
  /\ scanner[l] = "scanning" /\ pipe[l] > 0
  /\ LogCall(l)
  /\ pipe' = [pipe EXCEPT ![l] = @ - 1]
  /\ UNCHANGED <<build, deadline, scanner, processVars, written, long>>

\* bufio.ErrTooLong, which is logged.  The rest of the line fits in the pipe,
\* or it does not and the child waits.
TooLong(l) ==
  /\ scanner[l] = "scanning" /\ pipe[l] = 0 /\ long[l] = "waiting"
  /\ LogCall(l)
  /\ scanner' = [scanner EXCEPT ![l] = "stopped"]
  /\ long' = [long EXCEPT ![l] = "met"]
  /\ stuck' \in {stuck, TRUE}
  /\ UNCHANGED <<build, deadline, child, descendant, pipe, written>>

EndOfFile(l) ==
  /\ pipe[l] = 0 /\ long[l] = "none"
  /\ child # "running" /\ descendant # "running"

\* wg.Done, when logLine has returned.
ScannerDone(l) ==
  /\ step[l] = "idle"
  /\ scanner[l] = "stopped" \/ (scanner[l] = "scanning" /\ EndOfFile(l))
  /\ scanner' = [scanner EXCEPT ![l] = "done"]
  /\ UNCHANGED <<vars, build, deadline, processVars, pipeVars>>
-----------------------------------------------------------------------------
\* Build.  A start after the deadline fails as well.
Start ==
  /\ build = "start"
  /\ \/ /\ NoFault /\ ~deadline
        /\ build' = "scanning" /\ child' = "running"
        /\ scanner' = [l \in Logger |-> "scanning"]
     \/ /\ Fault("start") \/ (deadline /\ NoFault)
        /\ build' = "failed"
        /\ UNCHANGED <<child, scanner>>
  /\ UNCHANGED <<brokerVars, loggerVars, table, handler, replay, clientVars, crashes>>
  /\ UNCHANGED <<deadline, descendant, stuck, pipeVars>>

\* wg.Wait.
ScannersDone == \A l \in Logger : scanner[l] = "done"

\* Wait, which closes the pipes once the child has ended, and the answer.
Answer ==
  /\ build = "scanning" /\ child # "running"
  /\ build' = IF deadline THEN "timed_out" ELSE IF child = "ok" THEN "ok" ELSE "failed"
  /\ UNCHANGED <<vars, deadline, scanner, processVars, pipeVars>>

\* Mutant: the child is waited for first, and its pipes are closed early.
WaitAtOnce == Answer

Wait == ScannersDone /\ Answer

Deadline ==
  /\ build \in {"start", "scanning"} /\ ~deadline
  /\ deadline' = TRUE
  /\ UNCHANGED <<vars, build, scanner, processVars, pipeVars>>

\* Mutant: the command has no context, and only the answer looks at it.
KillNobody == FALSE /\ UNCHANGED allVars

\* exec.CommandContext kills the child at the deadline, also while Build
\* waits for the scanners.  An over-long line it was writing is cut, and may
\* be an ordinary one now.
Kill ==
  /\ build = "scanning" /\ deadline /\ child = "running"
  /\ child' = "killed" /\ stuck' = FALSE
  /\ \E cut \in SUBSET {l \in Logger : long[l] = "waiting"} :
       /\ long' = [l \in Logger |-> IF l \in cut THEN "none" ELSE long[l]]
       /\ written' = [l \in Logger |-> IF l \in cut THEN written[l] + 1 ELSE written[l]]
       /\ pipe' = [l \in Logger |-> IF l \in cut THEN pipe[l] + 1 ELSE pipe[l]]
  /\ UNCHANGED <<vars, build, deadline, descendant, scanner>>

\* The backend ends; the processes it has started do not matter any more.
BuildRestart ==
  /\ Restart
  /\ build' = "gone" /\ child' = "none" /\ descendant' = "none" /\ stuck' = FALSE
  /\ UNCHANGED <<deadline, scanner, pipeVars>>
-----------------------------------------------------------------------------
\* The goroutine of a scanner, with all that logging does.
Scanner(l) ==
  \/ Scan(l) \/ TooLong(l) \/ ScannerDone(l)
  \/ (AddLog(l) \/ Broadcast(l)) /\ UNCHANGED buildVars

\* The connections and the browser, beside the build.
Stream ==
  /\ \/ \E c \in Conn :
          \/ SubscribeDeploymentLogs(c) \/ ReadHistory(c) \/ Replay(c) \/ Forward(c)
          \/ Close(c) \/ Open(c)
     \/ Fetch
     \/ Cut
  /\ UNCHANGED buildVars

\* The build has returned, or waits for a descendant.
AwaitAll ==
  /\ build \in Returned \/ descendant = "running"
  /\ AwaitRequests /\ UNCHANGED buildVars

Child == ChildExits \/ Descend \/ \E l \in Logger : Write(l) \/ WriteLong(l)
Build == Start \/ Wait

BuildNext ==
  \/ Build \/ Deadline \/ Kill
  \/ Child \/ DescendantExits
  \/ \E l \in Logger : Scanner(l)
  \/ Stream
  \/ BuildRestart
  \/ AwaitAll

BuildSpec == BuildInit /\ [][BuildNext]_allVars

(* Build and its scanners go on, and time passes.  The child and its       *)
(* descendant owe nothing: they need neither write nor end.                *)
BuildFairness ==
  /\ WF_allVars(Build) /\ WF_allVars(Deadline \/ Kill)
  /\ \A l \in Logger : WF_allVars(Scanner(l))
FairBuildSpec == BuildSpec /\ HandlerFairness /\ BuildFairness
-----------------------------------------------------------------------------
BuildTypeOK ==
  /\ TypeOK
  /\ build \in {"start", "scanning"} \cup Returned
  /\ child \in {"none", "running", "ok", "error", "killed"}
  /\ descendant \in {"none", "running", "gone"}
  /\ stuck \in BOOLEAN /\ deadline \in BOOLEAN
  /\ scanner \in [Logger -> {"idle", "scanning", "stopped", "done"}]
  /\ pipe \in [Logger -> 0 .. MaxEntries]
  /\ written \in [Logger -> 0 .. MaxEntries]
  /\ long \in [Logger -> {"none", "waiting", "met"}]

\* The lines written to the pipes.
Written == {e \in Entry : e[2] =< written[e[1]]}

\* A successful build has logged all it printed: every line of a stream
\* without an over-long one has been written to the table before Build
\* returns, unless its insert failed (the child's exit does not overtake
\* the scanners).
OutputComplete ==
  build = "ok" /\ (\A l \in Logger : long[l] = "none")
    => /\ Cardinality(Written \ Range(table)) =< faults
       /\ \A l \in Logger : step[l] = "idle"

\* Every build returns, whatever the child does: also one that never ends,
\* and one that waits for a scanner which has stopped.  Only a descendant of
\* the child that keeps its pipes open holds the build up, and no longer than
\* it runs.
BuildReturns ==
  descendant # "running" ~> (build \in Returned \/ descendant = "running")
=============================================================================
