------------------------- MODULE RailpackBuildProofs -------------------------
(***************************************************************************)
(* Theorems about RailpackBuild, for any number of streams, connections,   *)
(* lines, failures and restarts.  What LogStream's actions preserve is     *)
(* taken from LogStreamProofs.                                             *)
(***************************************************************************)
EXTENDS RailpackBuild, LogStreamProofs, FiniteSetTheorems

USE StreamAssumption, FaultAssumption DEF StreamAssumption, FaultAssumption

\* Why: what is in a pipe has been written and not logged; a scanner ends
\* when nobody writes any more and all has been read.
PipeOf(l) ==
  /\ pipe[l] =< written[l]
  /\ long[l] = "waiting" => written[l] < MaxEntries
  /\ long[l] # "met" => calls[l] + pipe[l] = written[l]
  /\ build = "start" => scanner[l] = "idle"
  /\ scanner[l] = "idle" => build \in {"start", "failed", "timed_out", "gone"}
  /\ scanner[l] = "stopped" => long[l] = "met"
  /\ scanner[l] = "done" =>
       /\ step[l] \in {"idle", "gone"}
       /\ long[l] = "met" \/ EndOfFile(l)
  /\ step[l] = "gone" => build = "gone"
  /\ build = "ok" => scanner[l] = "done"
PipeInv == \A l \in Logger : PipeOf(l)

\* The entries that loggers have tried to insert, and those that are lost.
Tried == {e \in Entry : e[2] =< calls[e[1]] /\ (step[e[1]] = "persist" => e[2] # calls[e[1]])}
Lost == Tried \ Range(table)
LostInv == build # "gone" => IsFiniteSet(Lost) /\ Cardinality(Lost) =< faults

BuildInv == BuildTypeOK /\ StreamInv /\ PipeInv

(***************************************************************************)
(* Types, the broker, and the pipes.                                       *)
(***************************************************************************)

\* A step that leaves the stream alone, but perhaps for the count of faults.
StreamAlone ==
  /\ faults' \in 0 .. MaxFaults
  /\ UNCHANGED <<brokerVars, calls, step, table, handler, replay, client, current, view, crashes>>

LEMMA StreamAloneInv ==
  ASSUME TypeOK, StreamInv, StreamAlone
  PROVE  TypeOK' /\ StreamInv'
<1>1. TypeOK'
  BY DEF TypeOK, StreamAlone, brokerVars
<1>2. StreamInv'
  BY DEF StreamInv, StreamAlone, brokerVars
<1> QED BY <1>1, <1>2

LEMMA WriteInv ==
  ASSUME BuildInv, NEW l \in Logger, Write(l)
  PROVE  BuildInv'
<1>1. StreamAlone
  BY DEF BuildInv, BuildTypeOK, TypeOK, Write, StreamAlone, vars
<1>2. TypeOK' /\ StreamInv'
  BY <1>1, StreamAloneInv DEF BuildInv, BuildTypeOK
<1>3. BuildTypeOK'
  <2>1. pipe[l] \in Nat /\ written[l] \in Nat /\ pipe[l] =< written[l] /\ written[l] < MaxEntries
    BY DEF BuildInv, BuildTypeOK, PipeInv, PipeOf, Write
  <2>2. pipe[l] + 1 \in 0 .. MaxEntries /\ written[l] + 1 \in 0 .. MaxEntries
    BY <2>1
  <2> QED BY <1>2, <2>2 DEF BuildInv, BuildTypeOK, Write, processVars
<1>4. PipeInv'
  <2> SUFFICES ASSUME NEW k \in Logger PROVE PipeOf(k)'
    BY DEF PipeInv
  <2>1. PipeOf(k)
    BY DEF BuildInv, PipeInv
  <2>2. CASE k = l
    BY <1>1, <2>1, <2>2 DEF BuildInv, BuildTypeOK, TypeOK, PipeOf, EndOfFile, Write,
                            ChildWrites, processVars, StreamAlone
  <2>3. CASE k # l
    BY <1>1, <2>1, <2>3 DEF BuildInv, BuildTypeOK, PipeOf, EndOfFile, Write, ChildWrites,
                            processVars, StreamAlone
  <2> QED BY <2>2, <2>3
<1> QED BY <1>2, <1>3, <1>4 DEF BuildInv

LEMMA WriteLongInv ==
  ASSUME BuildInv, NEW l \in Logger, WriteLong(l)
  PROVE  BuildInv'
<1>1. StreamAlone
  BY FaultsType DEF BuildInv, BuildTypeOK, TypeOK, WriteLong, StreamAlone, loggerVars, clientVars
<1>2. TypeOK' /\ StreamInv'
  BY <1>1, StreamAloneInv DEF BuildInv, BuildTypeOK
<1>3. BuildTypeOK'
  BY <1>2 DEF BuildInv, BuildTypeOK, WriteLong, processVars
<1>4. PipeInv'
  BY <1>1 DEF BuildInv, BuildTypeOK, TypeOK, PipeInv, PipeOf, EndOfFile, WriteLong, ChildWrites,
              processVars, StreamAlone
<1> QED BY <1>2, <1>3, <1>4 DEF BuildInv

LEMMA ProcessInv ==
  ASSUME BuildInv, ChildExits \/ Descend \/ DescendantExits
  PROVE  BuildInv'
<1>1. StreamAlone
  BY FaultsType DEF BuildInv, BuildTypeOK, TypeOK, ChildExits, Descend, DescendantExits,
                    StreamAlone, vars, loggerVars, clientVars
<1>2. TypeOK' /\ StreamInv'
  BY <1>1, StreamAloneInv DEF BuildInv, BuildTypeOK
<1>3. BuildTypeOK'
  BY <1>2 DEF BuildInv, BuildTypeOK, ChildExits, Descend, DescendantExits, pipeVars
<1>4. PipeInv'
  BY <1>1 DEF BuildInv, BuildTypeOK, PipeInv, PipeOf, EndOfFile, ChildExits, Descend,
              DescendantExits, ChildWrites, pipeVars, StreamAlone
<1> QED BY <1>2, <1>3, <1>4 DEF BuildInv

LEMMA ScanInv ==
  ASSUME BuildInv, NEW l \in Logger, Scan(l)
  PROVE  BuildInv'
<1>1. TypeOK' /\ StreamInv'
  BY LogCallInv DEF BuildInv, BuildTypeOK, Scan
<1>2. BuildTypeOK'
  <2>1. pipe[l] - 1 \in 0 .. MaxEntries
    BY DEF BuildInv, BuildTypeOK, Scan
  <2> QED BY <1>1, <2>1 DEF BuildInv, BuildTypeOK, Scan, processVars
<1>3. PipeInv'
  <2> SUFFICES ASSUME NEW k \in Logger PROVE PipeOf(k)'
    BY DEF PipeInv
  <2>1. PipeOf(k)
    BY DEF BuildInv, PipeInv
  <2>2. CASE k = l
    BY <2>1, <2>2 DEF BuildInv, BuildTypeOK, TypeOK, PipeOf, EndOfFile, Scan, LogCall,
                      Advance, processVars
  <2>3. CASE k # l
    BY <2>1, <2>3 DEF BuildInv, BuildTypeOK, TypeOK, PipeOf, EndOfFile, Scan, LogCall,
                      Advance, processVars
  <2> QED BY <2>2, <2>3
<1> QED BY <1>1, <1>2, <1>3 DEF BuildInv

LEMMA TooLongInv ==
  ASSUME BuildInv, NEW l \in Logger, TooLong(l)
  PROVE  BuildInv'
<1>1. TypeOK' /\ StreamInv'
  BY LogCallInv DEF BuildInv, BuildTypeOK, TooLong
<1>2. BuildTypeOK'
  BY <1>1 DEF BuildInv, BuildTypeOK, TooLong
<1>3. PipeInv'
  BY DEF BuildInv, BuildTypeOK, TypeOK, PipeInv, PipeOf, EndOfFile, TooLong, LogCall, Advance
<1> QED BY <1>1, <1>2, <1>3 DEF BuildInv

LEMMA ScannerDoneInv ==
  ASSUME BuildInv, NEW l \in Logger, ScannerDone(l)
  PROVE  BuildInv'
<1>1. StreamAlone
  BY DEF BuildInv, BuildTypeOK, TypeOK, ScannerDone, StreamAlone, vars
<1>2. TypeOK' /\ StreamInv'
  BY <1>1, StreamAloneInv DEF BuildInv, BuildTypeOK
<1>3. BuildTypeOK'
  BY <1>2 DEF BuildInv, BuildTypeOK, ScannerDone, processVars, pipeVars
<1>4. PipeInv'
  BY <1>1 DEF BuildInv, BuildTypeOK, PipeInv, PipeOf, EndOfFile, ScannerDone, processVars, pipeVars,
              StreamAlone
<1> QED BY <1>2, <1>3, <1>4 DEF BuildInv

LEMMA StartInv ==
  ASSUME BuildInv, Start
  PROVE  BuildInv'
<1>1. StreamAlone
  BY FaultsType DEF BuildInv, BuildTypeOK, TypeOK, Start, StreamAlone, loggerVars, clientVars
<1>2. TypeOK' /\ StreamInv'
  BY <1>1, StreamAloneInv DEF BuildInv, BuildTypeOK
<1>3. BuildTypeOK'
  BY <1>2 DEF BuildInv, BuildTypeOK, Start, Returned, pipeVars
<1>4. PipeInv'
  BY <1>1 DEF BuildInv, BuildTypeOK, PipeInv, PipeOf, EndOfFile, Start, pipeVars, StreamAlone
<1> QED BY <1>2, <1>3, <1>4 DEF BuildInv

LEMMA WaitInv ==
  ASSUME BuildInv, Wait \/ Deadline
  PROVE  BuildInv'
<1>1. StreamAlone
  BY DEF BuildInv, BuildTypeOK, TypeOK, Wait, Answer, Deadline, StreamAlone, vars
<1>2. TypeOK' /\ StreamInv'
  BY <1>1, StreamAloneInv DEF BuildInv, BuildTypeOK
<1>3. BuildTypeOK'
  BY <1>2 DEF BuildInv, BuildTypeOK, Wait, Answer, Deadline, Returned, processVars, pipeVars
<1>4. PipeInv'
  BY <1>1 DEF BuildInv, BuildTypeOK, PipeInv, PipeOf, EndOfFile, Wait, Answer, ScannersDone,
              Deadline, processVars, pipeVars, StreamAlone
<1> QED BY <1>2, <1>3, <1>4 DEF BuildInv

LEMMA KillInv ==
  ASSUME BuildInv, Kill
  PROVE  BuildInv'
<1>1. StreamAlone
  BY DEF BuildInv, BuildTypeOK, TypeOK, Kill, StreamAlone, vars
<1>2. TypeOK' /\ StreamInv'
  BY <1>1, StreamAloneInv DEF BuildInv, BuildTypeOK
<1>3. PICK cut \in SUBSET {l \in Logger : long[l] = "waiting"} :
        /\ long' = [l \in Logger |-> IF l \in cut THEN "none" ELSE long[l]]
        /\ written' = [l \in Logger |-> IF l \in cut THEN written[l] + 1 ELSE written[l]]
        /\ pipe' = [l \in Logger |-> IF l \in cut THEN pipe[l] + 1 ELSE pipe[l]]
  BY DEF Kill
<1>4. \A l \in cut : /\ pipe[l] \in Nat /\ written[l] \in Nat
                     /\ pipe[l] =< written[l] /\ written[l] < MaxEntries
  BY <1>3 DEF BuildInv, BuildTypeOK, PipeInv, PipeOf
<1>5. \A l \in cut : pipe[l] + 1 \in 0 .. MaxEntries /\ written[l] + 1 \in 0 .. MaxEntries
  BY <1>4
<1>6. BuildTypeOK'
  <2>1. pipe' \in [Logger -> 0 .. MaxEntries] /\ written' \in [Logger -> 0 .. MaxEntries]
    BY <1>3, <1>5 DEF BuildInv, BuildTypeOK
  <2>2. long' \in [Logger -> {"none", "waiting", "met"}]
    BY <1>3 DEF BuildInv, BuildTypeOK
  <2> QED BY <1>2, <2>1, <2>2 DEF BuildInv, BuildTypeOK, Kill
<1>7. PipeInv'
  <2> SUFFICES ASSUME NEW k \in Logger PROVE PipeOf(k)'
    BY DEF PipeInv
  <2>1. PipeOf(k)
    BY DEF BuildInv, PipeInv
  <2>2. CASE k \in cut
    BY <1>1, <1>3, <1>4, <2>1, <2>2
       DEF BuildInv, BuildTypeOK, TypeOK, PipeOf, EndOfFile, Kill, StreamAlone
  <2>3. CASE k \notin cut
    BY <1>1, <1>3, <2>1, <2>3 DEF PipeOf, EndOfFile, Kill, StreamAlone
  <2> QED BY <2>2, <2>3
<1> QED BY <1>2, <1>6, <1>7 DEF BuildInv

LEMMA BuildRestartInv ==
  ASSUME BuildInv, BuildRestart
  PROVE  BuildInv'
<1>1. TypeOK' /\ StreamInv'
  BY RestartInv DEF BuildInv, BuildTypeOK, BuildRestart
<1>2. BuildTypeOK'
  BY <1>1 DEF BuildInv, BuildTypeOK, BuildRestart, Returned, pipeVars
<1>3. PipeInv'
  BY DEF BuildInv, BuildTypeOK, PipeInv, PipeOf, EndOfFile, BuildRestart, Restart, pipeVars
<1> QED BY <1>1, <1>2, <1>3 DEF BuildInv

\* What goes on in the stream, but for the scanners' calls.
LEMMA BesideInv ==
  ASSUME BuildInv,
         UNCHANGED <<calls, buildVars>>,
         TypeOK' /\ StreamInv',
         \A l \in Logger : /\ step[l] \in {"idle", "gone"} => step'[l] = step[l]
                           /\ step'[l] = "gone" => step[l] = "gone"
  PROVE  BuildInv'
<1>1. BuildTypeOK'
  BY DEF BuildInv, BuildTypeOK, buildVars, processVars, pipeVars
<1>2. PipeInv'
  BY DEF BuildInv, BuildTypeOK, PipeInv, PipeOf, EndOfFile, buildVars, processVars, pipeVars
<1> QED BY <1>1, <1>2 DEF BuildInv

LEMMA LoggingInv ==
  ASSUME BuildInv, NEW l \in Logger, AddLog(l) \/ Broadcast(l), UNCHANGED buildVars
  PROVE  BuildInv'
<1>1. TypeOK' /\ StreamInv'
  BY AddLogInv, BroadcastInv DEF BuildInv, BuildTypeOK
<1>2. \A k \in Logger : /\ step[k] \in {"idle", "gone"} => step'[k] = step[k]
                        /\ step'[k] = "gone" => step[k] = "gone"
  BY DEF BuildInv, BuildTypeOK, TypeOK, AddLog, Broadcast, Advance
<1>3. UNCHANGED calls
  BY DEF AddLog, Broadcast
<1> QED BY <1>1, <1>2, <1>3, BesideInv

LEMMA ConnectionsInv ==
  ASSUME BuildInv, Stream
  PROVE  BuildInv'
<1>1. TypeOK' /\ StreamInv'
  BY SubscribeInv, ReadHistoryInv, ReplayInv, ForwardInv, CloseInv, ClientInv
     DEF BuildInv, BuildTypeOK, Stream
<1>2. UNCHANGED <<calls, step>>
  BY DEF Stream, SubscribeDeploymentLogs, ReadHistory, Replay, Forward, Close, Open, Fetch, Cut,
         loggerVars
<1> QED BY <1>1, <1>2, BesideInv DEF Stream

LEMMA BuildStutterInv ==
  ASSUME BuildInv, UNCHANGED allVars
  PROVE  BuildInv'
<1>1. StreamAlone
  BY DEF BuildInv, BuildTypeOK, TypeOK, StreamAlone, allVars, vars
<1>2. TypeOK' /\ StreamInv'
  BY <1>1, StreamAloneInv DEF BuildInv, BuildTypeOK
<1> QED BY <1>1, <1>2, BesideInv DEF allVars, StreamAlone

LEMMA BuildInitInv == BuildInit => BuildInv
<1> SUFFICES ASSUME BuildInit PROVE BuildInv
  OBVIOUS
<1>1. TypeOK /\ StreamInv
  BY InitInv DEF BuildInit
<1>2. stuck \in BOOLEAN /\ deadline \in BOOLEAN
  BY DEF BuildInit
<1>3. /\ build = "start" /\ child = "none" /\ descendant = "none"
      /\ scanner = [l \in Logger |-> "idle"] /\ pipe = [l \in Logger |-> 0]
      /\ written = [l \in Logger |-> 0] /\ long = [l \in Logger |-> "none"]
      /\ calls = [l \in Logger |-> 0] /\ step = [l \in Logger |-> "idle"]
  BY DEF BuildInit, Init
<1>4. BuildTypeOK
  <2>1. /\ scanner \in [Logger -> {"idle", "scanning", "stopped", "done"}]
        /\ pipe \in [Logger -> 0 .. MaxEntries]
        /\ written \in [Logger -> 0 .. MaxEntries]
        /\ long \in [Logger -> {"none", "waiting", "met"}]
    BY <1>3
  <2> QED BY <1>1, <1>2, <1>3, <2>1 DEF BuildTypeOK, Returned
<1>5. PipeInv
  <2> SUFFICES ASSUME NEW l \in Logger PROVE PipeOf(l)
    BY DEF PipeInv
  <2>1. scanner[l] = "idle" /\ pipe[l] = 0 /\ written[l] = 0 /\ long[l] = "none"
    BY <1>3
  <2>2. calls[l] = 0 /\ step[l] = "idle"
    BY <1>3
  <2> QED BY <1>3, <2>1, <2>2 DEF PipeOf
<1> QED BY <1>1, <1>4, <1>5 DEF BuildInv

LEMMA BuildNextInv == BuildInv /\ [BuildNext]_allVars => BuildInv'
<1> SUFFICES ASSUME BuildInv, [BuildNext]_allVars PROVE BuildInv'
  OBVIOUS
<1>1. CASE Build \/ Deadline \/ Kill
  BY <1>1, StartInv, WaitInv, KillInv DEF Build
<1>2. CASE Child \/ DescendantExits
  BY <1>2, WriteInv, WriteLongInv, ProcessInv DEF Child
<1>3. ASSUME NEW l \in Logger, Scanner(l) PROVE BuildInv'
  BY <1>3, ScanInv, TooLongInv, ScannerDoneInv, LoggingInv DEF Scanner
<1>4. CASE Stream
  BY <1>4, ConnectionsInv
<1>5. CASE BuildRestart
  BY <1>5, BuildRestartInv
<1>6. CASE AwaitAll \/ UNCHANGED allVars
  BY <1>6, BuildStutterInv DEF AwaitAll, AwaitRequests, allVars
<1> QED BY <1>1, <1>2, <1>3, <1>4, <1>5, <1>6 DEF BuildNext

(***************************************************************************)
(* What is lost: the entry of each failed insert.                          *)
(***************************************************************************)

\* Nothing more is lost, and no failure is forgotten.
LostKept ==
  /\ build = "gone" => build' = "gone"
  /\ faults =< faults'
  /\ Lost' \subseteq Lost

LEMMA LostKeptInv ==
  ASSUME BuildInv, BuildInv', LostInv, LostKept
  PROVE  LostInv'
<1> SUFFICES ASSUME build' # "gone" PROVE IsFiniteSet(Lost') /\ Cardinality(Lost') =< faults'
  BY DEF LostInv
<1>1. IsFiniteSet(Lost) /\ Cardinality(Lost) =< faults
  BY DEF LostKept, LostInv
<1>2. IsFiniteSet(Lost') /\ Cardinality(Lost') =< Cardinality(Lost)
  BY <1>1, FS_Subset DEF LostKept
<1>3. Cardinality(Lost) \in Nat /\ Cardinality(Lost') \in Nat
  BY <1>1, <1>2, FS_CardinalityType
<1>4. faults \in Nat /\ faults' \in Nat
  BY DEF BuildInv, BuildTypeOK, TypeOK
<1> QED BY <1>1, <1>2, <1>3, <1>4 DEF LostKept

LEMMA FaultsGrow ==
  ASSUME faults \in 0 .. MaxFaults,
         NoFault \/ \E k : Fault(k) \/ BoundedFault(k)
  PROVE  faults =< faults'
  BY DEF NoFault, Fault, BoundedFault

LEMMA AloneLoses ==
  ASSUME UNCHANGED <<calls, step, table>>
  PROVE  Lost' = Lost
  BY DEF Lost, Tried

LEMMA ProcessLoses ==
  ASSUME BuildInv,
         \/ Child \/ DescendantExits \/ Build \/ Deadline \/ Kill \/ Stream
         \/ (\E l \in Logger : ScannerDone(l)) \/ UNCHANGED allVars
  PROVE  LostKept
<1>1. UNCHANGED <<calls, step, table>>
  BY DEF Child, Write, WriteLong, ChildExits, Descend, DescendantExits, Build, Start, Wait, Answer,
         Deadline, Kill, ScannerDone, Stream, SubscribeDeploymentLogs, ReadHistory, Replay, Forward,
         Close, Open, Fetch, Cut, allVars, vars, loggerVars
<1>2. faults =< faults'
  <2>1. faults \in 0 .. MaxFaults
    BY DEF BuildInv, BuildTypeOK, TypeOK
  <2>2. NoFault \/ \E k : Fault(k) \/ BoundedFault(k)
    BY DEF Child, Write, WriteLong, ChildExits, Descend, DescendantExits, Build, Start, Wait,
           Answer, Deadline, Kill, ScannerDone, Stream, SubscribeDeploymentLogs, ReadHistory,
           Replay, Forward, Close, Open, Fetch, Cut, allVars, vars, NoFault
  <2> QED BY <2>1, <2>2, FaultsGrow
<1>3. build = "gone" => build' = "gone"
  BY DEF Child, Write, WriteLong, ChildExits, Descend, DescendantExits, Build, Start, Wait, Answer,
         Deadline, Kill, ScannerDone, Stream, allVars, buildVars
<1> QED BY <1>1, <1>2, <1>3, AloneLoses DEF LostKept

LEMMA LogCallLoses ==
  ASSUME BuildInv, NEW l \in Logger, LogCall(l), UNCHANGED build
  PROVE  LostKept
<1>1. Tried' \subseteq Tried
  <2> SUFFICES ASSUME NEW e \in Tried' PROVE e \in Tried
    OBVIOUS
  <2>1. e \in Entry /\ e[1] \in Logger /\ e[2] \in Nat
    BY DEF Tried, Entry
  <2>2. CASE e[1] = l
    <3>1. calls'[l] = calls[l] + 1 /\ step'[l] = "persist" /\ step[l] = "idle" /\ calls[l] \in Nat
      BY DEF BuildInv, BuildTypeOK, TypeOK, LogCall, Advance
    <3>2. e[2] =< calls'[l] /\ e[2] # calls'[l]
      BY <2>2, <3>1 DEF Tried
    <3> QED BY <2>1, <2>2, <3>1, <3>2 DEF Tried
  <2>3. CASE e[1] # l
    BY <2>1, <2>3 DEF Tried, BuildInv, BuildTypeOK, TypeOK, LogCall, Advance
  <2> QED BY <2>2, <2>3
<1>2. UNCHANGED <<table, faults>>
  BY DEF LogCall
<1>3. faults =< faults'
  BY <1>2 DEF BuildInv, BuildTypeOK, TypeOK
<1> QED BY <1>1, <1>2, <1>3 DEF LostKept, Lost

LEMMA BroadcastLoses ==
  ASSUME BuildInv, NEW l \in Logger, Broadcast(l), UNCHANGED build
  PROVE  LostKept
<1>1. Tried' = Tried
  BY DEF Tried, BuildInv, BuildTypeOK, TypeOK, Broadcast, Advance, Entry
<1>2. UNCHANGED <<table, faults>>
  BY DEF Broadcast
<1>3. faults =< faults'
  BY <1>2 DEF BuildInv, BuildTypeOK, TypeOK
<1> QED BY <1>1, <1>2, <1>3 DEF LostKept, Lost

\* An insert settles its entry: it is in the table, or a failure is counted.
LEMMA AddLogLoses ==
  ASSUME BuildInv, BuildInv', LostInv, NEW l \in Logger, AddLog(l), UNCHANGED build
  PROVE  LostInv'
<1>1. Tried' \subseteq Tried \cup {LogEntry(l)}
  <2> SUFFICES ASSUME NEW e \in Tried', e # LogEntry(l) PROVE e \in Tried
    OBVIOUS
  <2>1. e \in Entry /\ e[1] \in Logger /\ e = <<e[1], e[2]>>
    BY DEF Tried, Entry
  <2>2. UNCHANGED calls
    BY DEF AddLog
  <2>3. CASE e[1] = l
    BY <2>1, <2>2, <2>3 DEF Tried, LogEntry
  <2>4. CASE e[1] # l
    BY <2>1, <2>2, <2>4 DEF Tried, BuildInv, BuildTypeOK, TypeOK, AddLog, Advance
  <2> QED BY <2>3, <2>4
<1>2. CASE NoFault /\ table' = Append(table, LogEntry(l))
  <2>1. table \in Seq(Entry) /\ LogEntry(l) \in Entry
    BY LogEntryType DEF BuildInv, BuildTypeOK, TypeOK, AddLog, Advance
  <2>2. Range(table) \cup {LogEntry(l)} \subseteq Range(table')
    <3>1. /\ DOMAIN table = 1 .. Len(table) /\ Len(table) \in Nat
          /\ DOMAIN table' = 1 .. (Len(table) + 1)
          /\ \A i \in 1 .. Len(table) : table'[i] = table[i]
          /\ table'[Len(table) + 1] = LogEntry(l)
      BY <1>2, <2>1
    <3> QED BY <3>1 DEF Range
  <2>3. Lost' \subseteq Lost
    BY <1>1, <2>2 DEF Lost
  <2>4. faults =< faults'
    BY <1>2 DEF NoFault, BuildInv, BuildTypeOK, TypeOK
  <2> QED BY <2>3, <2>4, LostKeptInv DEF LostKept
<1>3. CASE Fault("write") /\ UNCHANGED table
  <2> SUFFICES ASSUME build' # "gone" PROVE IsFiniteSet(Lost') /\ Cardinality(Lost') =< faults'
    BY DEF LostInv
  <2>1. IsFiniteSet(Lost) /\ Cardinality(Lost) =< faults
    BY DEF LostInv
  <2>2. Lost' \subseteq Lost \cup {LogEntry(l)}
    BY <1>1, <1>3 DEF Lost
  <2>3. /\ IsFiniteSet(Lost \cup {LogEntry(l)})
        /\ Cardinality(Lost \cup {LogEntry(l)}) \in {Cardinality(Lost), Cardinality(Lost) + 1}
    BY <2>1, FS_AddElement
  <2>4. IsFiniteSet(Lost') /\ Cardinality(Lost') =< Cardinality(Lost \cup {LogEntry(l)})
    BY <2>2, <2>3, FS_Subset
  <2>5. Cardinality(Lost) \in Nat /\ Cardinality(Lost') \in Nat
    BY <2>1, <2>4, FS_CardinalityType
  <2>6. faults \in Nat /\ faults' = faults + 1
    BY <1>3 DEF Fault, BuildInv, BuildTypeOK, TypeOK
  <2> QED BY <2>1, <2>3, <2>4, <2>5, <2>6
<1> QED BY <1>2, <1>3 DEF AddLog

LEMMA LostInit == BuildInit => LostInv
<1> SUFFICES ASSUME BuildInit PROVE LostInv
  OBVIOUS
<1>1. Tried = {}
  <2>1. calls = [l \in Logger |-> 0]
    BY DEF BuildInit, Init
  <2>2. \A e \in Entry : e[1] \in Logger /\ e[2] >= 1 /\ e[2] \in Nat
    BY DEF Entry
  <2> QED BY <2>1, <2>2 DEF Tried
<1>2. IsFiniteSet(Lost) /\ Cardinality(Lost) = 0
  BY <1>1, FS_EmptySet DEF Lost
<1>3. faults = 0
  BY DEF BuildInit, Init
<1> QED BY <1>2, <1>3 DEF LostInv

LEMMA LostNext == BuildInv /\ BuildInv' /\ LostInv /\ [BuildNext]_allVars => LostInv'
<1> SUFFICES ASSUME BuildInv, BuildInv', LostInv, [BuildNext]_allVars PROVE LostInv'
  OBVIOUS
<1>1. CASE Build \/ Deadline \/ Kill \/ Child \/ DescendantExits \/ Stream \/ UNCHANGED allVars
  BY <1>1, ProcessLoses, LostKeptInv
<1>2. ASSUME NEW l \in Logger, Scanner(l) PROVE LostInv'
  <2>1. CASE Scan(l) \/ TooLong(l)
    <3>1. LogCall(l) /\ UNCHANGED build
      BY <2>1 DEF Scan, TooLong
    <3> QED BY <3>1, LogCallLoses, LostKeptInv
  <2>2. CASE ScannerDone(l)
    BY <2>2, ProcessLoses, LostKeptInv
  <2>3. CASE AddLog(l) /\ UNCHANGED buildVars
    BY <2>3, AddLogLoses DEF buildVars
  <2>4. CASE Broadcast(l) /\ UNCHANGED buildVars
    BY <2>4, BroadcastLoses, LostKeptInv DEF buildVars
  <2> QED BY <1>2, <2>1, <2>2, <2>3, <2>4 DEF Scanner
<1>3. CASE BuildRestart
  BY <1>3 DEF LostInv, BuildRestart
<1>4. CASE AwaitAll
  BY <1>4, ProcessLoses, LostKeptInv DEF AwaitAll, AwaitRequests, allVars
<1> QED BY <1>1, <1>2, <1>3, <1>4 DEF BuildNext

(***************************************************************************)
(* The results.                                                            *)
(***************************************************************************)

LEMMA BuildSpecInv == BuildSpec => [](BuildInv /\ LostInv)
<1>1. BuildInit => BuildInv /\ LostInv
  BY BuildInitInv, LostInit
<1>2. BuildInv /\ LostInv /\ [BuildNext]_allVars => BuildInv' /\ LostInv'
  BY BuildNextInv, LostNext
<1> QED BY <1>1, <1>2, PTL DEF BuildSpec

\* A build, its pipes and the stream of its output are of their types: no
\* channel and no pipe holds more than it can.
THEOREM BuildTypeCorrect == BuildSpec => []BuildTypeOK
<1>1. BuildInv => BuildTypeOK
  BY DEF BuildInv
<1> QED BY <1>1, BuildSpecInv, PTL

\* Beside a build with any number of streams, no broadcast sends on a closed
\* channel.
THEOREM BuildNoSendOnClosed == BuildSpec => []NoSendOnClosed
<1>1. BuildInv => NoSendOnClosed
  BY DEF BuildInv, StreamInv, NoSendOnClosed
<1> QED BY <1>1, BuildSpecInv, PTL

\* A build that went through has logged all it printed: the child's exit, the
\* deadline and the browser do not overtake the scanners.
THEOREM OutputCompleteCorrect == BuildSpec => []OutputComplete
<1>1. BuildInv /\ LostInv => OutputComplete
  <2> SUFFICES ASSUME BuildInv, LostInv, build = "ok", \A l \in Logger : long[l] = "none"
               PROVE  /\ Cardinality(Written \ Range(table)) =< faults
                      /\ \A l \in Logger : step[l] = "idle"
    BY DEF OutputComplete
  <2>1. \A l \in Logger : step[l] = "idle" /\ calls[l] = written[l]
    <3> SUFFICES ASSUME NEW l \in Logger PROVE step[l] = "idle" /\ calls[l] = written[l]
      OBVIOUS
    <3>1. PipeOf(l)
      BY DEF BuildInv, PipeInv
    <3>2. calls[l] \in Nat /\ written[l] \in Nat /\ pipe[l] \in Nat
      BY DEF BuildInv, BuildTypeOK, TypeOK
    <3> QED BY <3>1, <3>2 DEF PipeOf, EndOfFile
  <2>2. Written = Tried
    BY <2>1 DEF Written, Tried, Entry
  <2> QED BY <2>1, <2>2 DEF LostInv, Lost
<1> QED BY <1>1, BuildSpecInv, PTL
=============================================================================
