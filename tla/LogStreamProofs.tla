--------------------------- MODULE LogStreamProofs ---------------------------
(***************************************************************************)
(* Theorems about LogStream, for any goroutines, connections, capacity and *)
(* bounds, and any kinds of failure.                                       *)
(***************************************************************************)
EXTENDS LogStream, SequenceTheorems, TLAPS

USE StreamAssumption, FaultAssumption

(* A channel that keeps its length or loses its head is still a channel.   *)
LEMMA ChannelTail ==
  ASSUME NEW s \in Seq(Entry), s # <<>>
  PROVE  Tail(s) \in Seq(Entry) /\ Head(s) \in Entry /\ Len(Tail(s)) = Len(s) - 1
  BY HeadTailProperties

LEMMA EntryAppend ==
  ASSUME NEW s \in Seq(Entry), NEW e \in Entry
  PROVE  Append(s, e) \in Seq(Entry) /\ Len(Append(s, e)) = Len(s) + 1
  BY AppendProperties

(* What the browser shows stays a sequence of entries.                     *)
LEMMA ViewType ==
  ASSUME view \in Seq(Entry), NEW c, NEW e \in Entry, writeDeploymentLogEvent(c, e)
  PROVE  view' \in Seq(Entry)
  BY EntryAppend DEF writeDeploymentLogEvent, appendUniqueLog

(* A fault is counted within its bound.                                    *)
LEMMA FaultsType ==
  ASSUME faults \in 0 .. MaxFaults,
         NoFault \/ \E k : Fault(k) \/ BoundedFault(k)
  PROVE  faults' \in 0 .. MaxFaults
  BY DEF NoFault, Fault, BoundedFault

(***************************************************************************)
(* Every step keeps the types and StreamInv: one lemma per group.          *)
(***************************************************************************)

\* A logger at work has an entry to persist and to send.
LEMMA LogEntryType ==
  ASSUME TypeOK, StreamInv, NEW l \in Logger, step[l] \in {"persist", "broadcast", "send"}
  PROVE  LogEntry(l) \in Entry
  BY DEF TypeOK, StreamInv, LogEntry, Entry

LEMMA LogCallInv ==
  ASSUME TypeOK, StreamInv, NEW l \in Logger, LogCall(l)
  PROVE  TypeOK' /\ StreamInv'
<1>1. TypeOK'
  BY DEF TypeOK, LogCall, Advance, brokerVars, clientVars
<1>2. StreamInv'
  BY DEF TypeOK, StreamInv, LogCall, Advance, brokerVars, clientVars
<1> QED BY <1>1, <1>2

LEMMA AddLogInv ==
  ASSUME TypeOK, StreamInv, NEW l \in Logger, AddLog(l)
  PROVE  TypeOK' /\ StreamInv'
<1>1. LogEntry(l) \in Entry
  BY LogEntryType DEF AddLog, Advance
<1>2. table' \in Seq(Entry)
  <2>1. table \in Seq(Entry)
    BY DEF TypeOK
  <2>2. Append(table, LogEntry(l)) \in Seq(Entry)
    BY <1>1, <2>1, EntryAppend
  <2>3. table' = Append(table, LogEntry(l)) \/ table' = table
    BY DEF AddLog
  <2> QED BY <2>1, <2>2, <2>3
<1>3. faults' \in 0 .. MaxFaults
  BY FaultsType DEF AddLog, TypeOK
<1>4. TypeOK'
  BY <1>2, <1>3 DEF TypeOK, AddLog, Advance, brokerVars, clientVars
<1>5. StreamInv'
  BY DEF TypeOK, StreamInv, AddLog, Advance, brokerVars, clientVars
<1> QED BY <1>4, <1>5

LEMMA BroadcastInv ==
  ASSUME TypeOK, StreamInv, NEW l \in Logger, Broadcast(l)
  PROVE  TypeOK' /\ StreamInv'
<1>1. CASE Advance(l, "broadcast", "send") /\ RLock(l)
  <2>1. TypeOK'
    BY <1>1 DEF TypeOK, Broadcast, Advance, RLock, clientVars
  <2>2. StreamInv'
    BY <1>1 DEF TypeOK, StreamInv, Broadcast, Advance, RLock, clientVars
  <2> QED BY <2>1, <2>2
<1>2. CASE step[l] = "send" /\ Send(l, LogEntry(l)) /\ UNCHANGED step
  <2>1. LogEntry(l) \in Entry
    BY <1>2, LogEntryType
  <2>2. PICK c \in sending[l] :
          /\ channel' = [channel EXCEPT ![c] =
                           IF Len(@) < Capacity THEN Append(@, LogEntry(l)) ELSE @]
          /\ sending' = [sending EXCEPT ![l] = @ \ {c}]
    BY <1>2 DEF Send
  <2>3. c \in Conn /\ channel[c] \in Seq(Entry) /\ Len(channel[c]) =< Capacity
    BY <2>2 DEF TypeOK
  <2>4. channel' \in [Conn -> Seq(Entry)] /\ \A d \in Conn : Len(channel'[d]) =< Capacity
    <3>1. CASE Len(channel[c]) < Capacity
      <4>1. /\ Append(channel[c], LogEntry(l)) \in Seq(Entry)
            /\ Len(Append(channel[c], LogEntry(l))) = Len(channel[c]) + 1
        BY <2>1, <2>3, EntryAppend
      <4>2. channel' = [channel EXCEPT ![c] = Append(channel[c], LogEntry(l))]
        BY <2>2, <3>1
      <4>3. Len(channel[c]) \in Nat
        BY <2>3, LenProperties
      <4> HIDE DEF Entry, LogEntry
      <4> QED BY <2>3, <3>1, <4>1, <4>2, <4>3 DEF TypeOK
    <3>2. CASE ~(Len(channel[c]) < Capacity)
      BY <2>2, <3>2 DEF TypeOK
    <3> QED BY <3>1, <3>2
  <2>5. TypeOK'
    BY <1>2, <2>2, <2>4 DEF TypeOK, Broadcast, Send, clientVars
  <2>6. StreamInv'
    BY <1>2, <2>2 DEF TypeOK, StreamInv, Broadcast, Send, clientVars
  <2> QED BY <2>5, <2>6
<1>3. CASE Advance(l, "send", "idle") /\ RUnlock(l)
  <2>1. TypeOK'
    BY <1>3 DEF TypeOK, Broadcast, Advance, RUnlock, clientVars
  <2>2. StreamInv'
    BY <1>3 DEF TypeOK, StreamInv, Broadcast, Advance, RUnlock, clientVars
  <2> QED BY <2>1, <2>2
<1> QED BY <1>1, <1>2, <1>3 DEF Broadcast

LEMMA SubscribeInv ==
  ASSUME TypeOK, StreamInv, NEW c \in Conn, SubscribeDeploymentLogs(c)
  PROVE  TypeOK' /\ StreamInv'
<1>1. faults' \in 0 .. MaxFaults
  BY FaultsType DEF SubscribeDeploymentLogs, TypeOK
<1>2. CASE NoFault /\ Handle(c, "accept", "history") /\ Subscribe(c) /\ UNCHANGED clientVars
  <2>1. TypeOK'
    BY <1>1, <1>2 DEF TypeOK, SubscribeDeploymentLogs, Handle, Subscribe, loggerVars, clientVars
  <2>2. StreamInv'
    BY <1>2 DEF TypeOK, StreamInv, SubscribeDeploymentLogs, Handle, Subscribe, loggerVars, clientVars
  <2> QED BY <2>1, <2>2
<1>3. CASE /\ Fault("lookup")
           /\ Handle(c, "accept", "done")
           /\ client' = IF current = c THEN "gone" ELSE client
           /\ current' = IF current = c THEN NoConn ELSE current
           /\ UNCHANGED <<brokerVars, view>>
  <2>1. TypeOK'
    BY <1>1, <1>3 DEF TypeOK, SubscribeDeploymentLogs, Handle, brokerVars, loggerVars
  <2>2. StreamInv'
    BY <1>3 DEF TypeOK, StreamInv, SubscribeDeploymentLogs, Handle, brokerVars, loggerVars
  <2> QED BY <2>1, <2>2
<1> QED BY <1>2, <1>3 DEF SubscribeDeploymentLogs

LEMMA ReadHistoryInv ==
  ASSUME TypeOK, StreamInv, NEW c \in Conn, ReadHistory(c)
  PROVE  TypeOK' /\ StreamInv'
<1>1. faults' \in 0 .. MaxFaults
  BY FaultsType DEF ReadHistory, TypeOK
<1>2. replay' \in [Conn -> Seq(Entry)]
  BY DEF ReadHistory, TypeOK
<1>3. TypeOK'
  BY <1>1, <1>2 DEF TypeOK, ReadHistory, Handle, brokerVars, loggerVars, clientVars
<1>4. StreamInv'
  BY DEF TypeOK, StreamInv, ReadHistory, Handle, brokerVars, loggerVars, clientVars
<1> QED BY <1>3, <1>4

LEMMA ReplayInv ==
  ASSUME TypeOK, StreamInv, NEW c \in Conn, Replay(c)
  PROVE  TypeOK' /\ StreamInv'
<1>1. replay[c] \in Seq(Entry) /\ replay[c] # <<>>
  BY DEF Replay, TypeOK
<1>2. Head(replay[c]) \in Entry /\ Tail(replay[c]) \in Seq(Entry)
  BY <1>1, ChannelTail
<1>3. view' \in Seq(Entry)
  BY <1>2, ViewType DEF Replay, TypeOK
<1>4. replay' \in [Conn -> Seq(Entry)]
  BY <1>2 DEF Replay, TypeOK
<1>5. TypeOK'
  BY <1>3, <1>4 DEF TypeOK, Replay, brokerVars, loggerVars
<1>6. StreamInv'
  BY DEF TypeOK, StreamInv, Replay, brokerVars, loggerVars
<1> QED BY <1>5, <1>6

LEMMA ForwardInv ==
  ASSUME TypeOK, StreamInv, NEW c \in Conn, Forward(c)
  PROVE  TypeOK' /\ StreamInv'
<1>1. channel[c] \in Seq(Entry) /\ channel[c] # <<>> /\ Len(channel[c]) =< Capacity
  BY DEF Forward, Receive, TypeOK
<1>2. /\ Head(channel[c]) \in Entry
      /\ Tail(channel[c]) \in Seq(Entry)
      /\ Len(Tail(channel[c])) = Len(channel[c]) - 1
      /\ Len(channel[c]) \in Nat
  BY <1>1, ChannelTail, LenProperties
<1>3. view' \in Seq(Entry)
  BY <1>2, ViewType DEF Forward, TypeOK
<1>4. channel' \in [Conn -> Seq(Entry)] /\ \A d \in Conn : Len(channel'[d]) =< Capacity
  BY <1>1, <1>2 DEF Forward, Receive, TypeOK
<1>5. TypeOK'
  BY <1>3, <1>4 DEF TypeOK, Forward, Receive, loggerVars
<1>6. StreamInv'
  BY DEF TypeOK, StreamInv, Forward, Receive, loggerVars
<1> QED BY <1>5, <1>6

LEMMA CloseInv ==
  ASSUME TypeOK, StreamInv, NEW c \in Conn, Close(c)
  PROVE  TypeOK' /\ StreamInv'
<1>1. TypeOK'
  BY DEF TypeOK, Close, Handle, Unsubscribe, loggerVars, clientVars
<1>2. StreamInv'
  BY DEF TypeOK, StreamInv, Close, Handle, Unsubscribe, loggerVars, clientVars
<1> QED BY <1>1, <1>2

\* The steps of the browser leave the broker alone.
LEMMA ClientInv ==
  ASSUME TypeOK, StreamInv, Fetch \/ Cut \/ \E c \in Conn : Open(c)
  PROVE  TypeOK' /\ StreamInv'
<1>1. CASE Fetch
  <2>1. faults' \in 0 .. MaxFaults
    BY <1>1, FaultsType DEF Fetch, TypeOK
  <2>2. TypeOK'
    BY <1>1, <2>1 DEF TypeOK, Fetch, brokerVars, loggerVars
  <2>3. StreamInv'
    BY <1>1 DEF TypeOK, StreamInv, Fetch, brokerVars, loggerVars
  <2> QED BY <2>2, <2>3
<1>2. CASE Cut
  BY <1>2 DEF TypeOK, StreamInv, Cut, brokerVars, loggerVars
<1>3. ASSUME NEW c \in Conn, Open(c) PROVE TypeOK' /\ StreamInv'
  BY <1>3 DEF TypeOK, StreamInv, Open, Handle, brokerVars, loggerVars
<1> QED BY <1>1, <1>2, <1>3

LEMMA RestartInv ==
  ASSUME TypeOK, StreamInv, Restart
  PROVE  TypeOK' /\ StreamInv'
<1>1. TypeOK'
  <2>1. channel' \in [Conn -> Seq(Entry)] /\ \A c \in Conn : Len(channel'[c]) =< Capacity
    BY EmptySeq DEF Restart
  <2>2. replay' \in [Conn -> Seq(Entry)]
    BY EmptySeq DEF Restart
  <2> QED BY <2>1, <2>2 DEF TypeOK, Restart
<1>2. StreamInv'
  BY DEF TypeOK, StreamInv, Restart
<1> QED BY <1>1, <1>2

LEMMA InitInv == Init => TypeOK /\ StreamInv
<1> SUFFICES ASSUME Init PROVE TypeOK /\ StreamInv
  OBVIOUS
<1>1. <<>> \in Seq(Entry) /\ Len(<<>>) = 0
  BY EmptySeq
<1>2. TypeOK
  BY <1>1 DEF Init, TypeOK
<1>3. StreamInv
  BY DEF Init, StreamInv
<1> QED BY <1>2, <1>3

LEMMA NextInv == TypeOK /\ StreamInv /\ [Next]_vars => TypeOK' /\ StreamInv'
<1> SUFFICES ASSUME TypeOK, StreamInv, [Next]_vars PROVE TypeOK' /\ StreamInv'
  OBVIOUS
<1>1. ASSUME NEW l \in Logger, LogCall(l) \/ AddLog(l) \/ Broadcast(l)
      PROVE  TypeOK' /\ StreamInv'
  BY <1>1, LogCallInv, AddLogInv, BroadcastInv
<1>2. ASSUME NEW c \in Conn,
             \/ SubscribeDeploymentLogs(c) \/ ReadHistory(c)
             \/ Replay(c) \/ Forward(c) \/ Close(c)
      PROVE  TypeOK' /\ StreamInv'
  BY <1>2, SubscribeInv, ReadHistoryInv, ReplayInv, ForwardInv, CloseInv
<1>3. CASE Fetch \/ Cut \/ \E c \in Conn : Open(c)
  BY <1>3, ClientInv
<1>4. CASE Restart
  BY <1>4, RestartInv
<1>5. CASE UNCHANGED vars
  <2>1. TypeOK'
    BY <1>5 DEF TypeOK, vars, brokerVars
  <2>2. StreamInv'
    BY <1>5 DEF StreamInv, vars, brokerVars
  <2> QED BY <2>1, <2>2
<1> QED BY <1>1, <1>2, <1>3, <1>4, <1>5 DEF Next, AwaitRequests

(***************************************************************************)
(* The results.                                                            *)
(***************************************************************************)

\* Every state of the log stream is of its type: no channel holds more than
\* its capacity.
THEOREM StreamTypeCorrect == Spec => [](TypeOK /\ StreamInv)
<1>1. Init => TypeOK /\ StreamInv
  BY InitInv
<1>2. TypeOK /\ StreamInv /\ [Next]_vars => TypeOK' /\ StreamInv'
  BY NextInv
<1> QED BY <1>1, <1>2, PTL DEF Spec

\* No broadcast ever sends on a closed channel, for any number of goroutines
\* and connections, failures and restarts.
THEOREM NoSendOnClosedCorrect == Spec => []NoSendOnClosed
<1>1. TypeOK /\ StreamInv => NoSendOnClosed
  BY DEF StreamInv, NoSendOnClosed
<1> QED BY <1>1, StreamTypeCorrect, PTL
=============================================================================
