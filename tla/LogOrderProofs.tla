---------------------------- MODULE LogOrderProofs ----------------------------
(***************************************************************************)
(* That the browser misses no entry and shows each goroutine's entries in  *)
(* order, for any goroutines, connections, reconnections and restarts.     *)
(*                                                                         *)
(* Both need every broadcast to find room in the channels it visits: the   *)
(* code drops an entry when a channel is full.  NoneDropped says so of a   *)
(* behaviour, and follows when a channel has room for every entry.         *)
(***************************************************************************)
EXTENDS LogStreamProofs, FiniteSetTheorems

NoneDropped == \A l \in Logger : \A c \in sending[l] : Len(channel[c]) < Capacity

\* A channel has room for all entries there are.
Room == IsFiniteSet(Entry) /\ Cardinality(Entry) =< Capacity

\* The queries of the history succeed; so do the inserts.
HistoryAnswers == "history" \notin FaultKinds
InsertsSucceed == "write" \notin FaultKinds

(***************************************************************************)
(* Sequences of entries in which no entry precedes one that its goroutine  *)
(* made earlier.                                                           *)
(***************************************************************************)

\* What the goroutine of e made before e.
Before(e) == {<<e[1], k>> : k \in 1 .. (e[2] - 1)}

\* Whatever was made before an entry of s is in V or stands before it in s.
Follows(V, s) ==
  \A i \in DOMAIN s : \A d \in Before(s[i]) : d \in V \/ \E x \in DOMAIN s : x < i /\ s[x] = d

\* No entry stands twice in s.
Distinct(s) == \A i, j \in DOMAIN s : s[i] = s[j] => i = j

(* The entries of a sequence that an entry is appended to.                 *)
LEMMA AppendRange ==
  ASSUME NEW s \in Seq(Entry), NEW e \in Entry
  PROVE  /\ Append(s, e) \in Seq(Entry)
         /\ Len(s) \in Nat
         /\ DOMAIN s = 1 .. Len(s)
         /\ DOMAIN Append(s, e) = 1 .. (Len(s) + 1)
         /\ \A i \in 1 .. Len(s) : Append(s, e)[i] = s[i]
         /\ Append(s, e)[Len(s) + 1] = e
         /\ Range(Append(s, e)) = Range(s) \cup {e}
<1> HIDE DEF Entry
<1>1. /\ Append(s, e) \in Seq(Entry)
      /\ Len(s) \in Nat
      /\ DOMAIN s = 1 .. Len(s)
      /\ Len(Append(s, e)) = Len(s) + 1
      /\ \A i \in 1 .. Len(s) : Append(s, e)[i] = s[i]
      /\ Append(s, e)[Len(s) + 1] = e
  BY AppendProperties, LenProperties
<1>2. DOMAIN Append(s, e) = 1 .. (Len(s) + 1)
  BY <1>1, LenProperties
<1> DEFINE t == Append(s, e)
<1>3. Range(t) = Range(s) \cup {e}
  <2> HIDE DEF t
  <2>1. DOMAIN t = 1 .. (Len(s) + 1) /\ t[Len(s) + 1] = e /\ \A i \in 1 .. Len(s) : t[i] = s[i]
    BY <1>1, <1>2 DEF t
  <2>2. \A i \in 1 .. (Len(s) + 1) : i \in 1 .. Len(s) \/ i = Len(s) + 1
    BY <1>1
  <2>3. Len(s) + 1 \in 1 .. (Len(s) + 1) /\ 1 .. Len(s) \subseteq 1 .. (Len(s) + 1)
    BY <1>1
  <2>4. Range(t) \subseteq Range(s) \cup {e}
    BY <1>1, <2>1, <2>2 DEF Range
  <2>5. Range(s) \subseteq Range(t)
    BY <1>1, <2>1, <2>3 DEF Range
  <2>6. e \in Range(t)
    BY <2>1, <2>3 DEF Range
  <2> QED BY <2>4, <2>5, <2>6
<1> QED BY <1>1, <1>2, <1>3

(* The entries of a sequence that loses its head.                          *)
LEMMA TailRange ==
  ASSUME NEW s \in Seq(Entry), s # <<>>
  PROVE  /\ Head(s) \in Entry
         /\ Tail(s) \in Seq(Entry)
         /\ Len(s) \in Nat \ {0}
         /\ DOMAIN s = 1 .. Len(s)
         /\ s[1] = Head(s)
         /\ DOMAIN Tail(s) = 1 .. (Len(s) - 1)
         /\ \A i \in 1 .. (Len(s) - 1) : Tail(s)[i] = s[i + 1]
         /\ Range(s) = {Head(s)} \cup Range(Tail(s))
<1> HIDE DEF Entry
<1>1. /\ Head(s) \in Entry
      /\ Tail(s) \in Seq(Entry)
      /\ Len(Tail(s)) = Len(s) - 1
      /\ \A i \in 1 .. Len(Tail(s)) : Tail(s)[i] = s[i + 1]
  BY HeadTailProperties
<1>2. Len(s) \in Nat \ {0} /\ DOMAIN s = 1 .. Len(s) /\ DOMAIN Tail(s) = 1 .. Len(Tail(s))
  BY <1>1, EmptySeq, LenProperties
<1>3. s[1] = Head(s)
  BY SMT
<1> DEFINE t == Tail(s)
           h == Head(s)
<1>4. Range(s) = {h} \cup Range(t)
  <2>1. /\ DOMAIN t = 1 .. (Len(s) - 1)
        /\ \A i \in 1 .. (Len(s) - 1) : t[i] = s[i + 1]
        /\ s[1] = h
    BY <1>1, <1>2, <1>3
  <2> HIDE DEF t, h
  <2>2. \A i \in 1 .. Len(s) : i = 1 \/ (i - 1 \in 1 .. (Len(s) - 1) /\ t[i - 1] = s[i])
    BY <1>2, <2>1
  <2>3. 1 \in 1 .. Len(s) /\ \A i \in 1 .. (Len(s) - 1) : i + 1 \in 1 .. Len(s)
    BY <1>2
  <2>4. Range(s) \subseteq {h} \cup Range(t)
    BY <1>2, <2>1, <2>2 DEF Range
  <2>5. h \in Range(s)
    BY <1>2, <2>1, <2>3 DEF Range
  <2>6. Range(t) \subseteq Range(s)
    BY <1>2, <2>1, <2>3 DEF Range
  <2> QED BY <2>4, <2>5, <2>6
<1> QED BY <1>1, <1>2, <1>3, <1>4

(* The order of what an entry is appended to.                              *)
LEMMA FollowsAppend ==
  ASSUME NEW s \in Seq(Entry), NEW e \in Entry, NEW V,
         Follows(V, s), Before(e) \subseteq V \cup Range(s)
  PROVE  Follows(V, Append(s, e))
<1> HIDE DEF Entry
<1> DEFINE t == Append(s, e)
<1>1. /\ Len(s) \in Nat
      /\ DOMAIN s = 1 .. Len(s)
      /\ DOMAIN t = 1 .. (Len(s) + 1)
      /\ \A i \in 1 .. Len(s) : t[i] = s[i]
      /\ t[Len(s) + 1] = e
  BY AppendRange
<1> HIDE DEF t
<1>2. SUFFICES ASSUME NEW i \in DOMAIN t, NEW d \in Before(t[i])
               PROVE  d \in V \/ \E x \in DOMAIN t : x < i /\ t[x] = d
  BY DEF Follows, t
<1>3. CASE i \in 1 .. Len(s)
  <2>1. d \in V \/ \E x \in DOMAIN s : x < i /\ s[x] = d
    BY <1>1, <1>3 DEF Follows
  <2>2. 1 .. Len(s) \subseteq 1 .. (Len(s) + 1)
    BY <1>1
  <2> QED BY <1>1, <2>1, <2>2
<1>4. CASE i = Len(s) + 1
  <2>1. d \in V \/ \E x \in DOMAIN s : s[x] = d
    BY <1>1, <1>4 DEF Range
  <2>2. \A x \in 1 .. Len(s) : x < i /\ x \in 1 .. (Len(s) + 1)
    BY <1>1, <1>4
  <2> QED BY <1>1, <2>1, <2>2
<1> QED BY <1>1, <1>3, <1>4

(* What is before the head is elsewhere, and the tail follows the head.    *)
LEMMA FollowsTail ==
  ASSUME NEW s \in Seq(Entry), s # <<>>, NEW V, Follows(V, s)
  PROVE  Before(Head(s)) \subseteq V /\ Follows(V \cup {Head(s)}, Tail(s))
<1> HIDE DEF Entry
<1> DEFINE t == Tail(s)
           h == Head(s)
<1>1. /\ Len(s) \in Nat \ {0}
      /\ DOMAIN s = 1 .. Len(s)
      /\ s[1] = h
      /\ DOMAIN t = 1 .. (Len(s) - 1)
      /\ \A i \in 1 .. (Len(s) - 1) : t[i] = s[i + 1]
  BY TailRange
<1> HIDE DEF t, h
<1>2. Before(h) \subseteq V
  <2>1. 1 \in DOMAIN s /\ \A x \in DOMAIN s : ~(x < 1)
    BY <1>1
  <2> QED BY <1>1, <2>1 DEF Follows
<1>3. ASSUME NEW i \in DOMAIN t, NEW d \in Before(t[i])
      PROVE  d \in V \cup {h} \/ \E x \in DOMAIN t : x < i /\ t[x] = d
  <2>1. i + 1 \in DOMAIN s /\ t[i] = s[i + 1]
    BY <1>1
  <2>2. d \in V \/ \E x \in DOMAIN s : x < i + 1 /\ s[x] = d
    BY <1>3, <2>1 DEF Follows
  <2>3. ASSUME NEW x \in DOMAIN s, x < i + 1, s[x] = d
        PROVE  d = h \/ \E y \in DOMAIN t : y < i /\ t[y] = d
    <3>1. x = 1 \/ (x - 1 \in DOMAIN t /\ x - 1 < i /\ t[x - 1] = s[x])
      BY <1>1, <2>3
    <3> QED BY <1>1, <2>3, <3>1
  <2> QED BY <2>2, <2>3
<1>4. Follows(V \cup {h}, t)
  BY <1>3 DEF Follows
<1> QED BY <1>2, <1>4 DEF t, h

(* The order asks less when more is elsewhere.                             *)
LEMMA FollowsMore ==
  ASSUME NEW s, NEW V, NEW W, V \subseteq W, Follows(V, s)
  PROVE  Follows(W, s)
  BY DEF Follows

(* There is no order in an empty sequence to keep.                         *)
LEMMA FollowsEmpty ==
  ASSUME NEW V
  PROVE  Follows(V, <<>>) /\ Distinct(<<>>) /\ Range(<<>>) = {}
  BY DEF Follows, Distinct, Range

(* An entry that is new to a sequence of distinct entries.                 *)
LEMMA DistinctAppend ==
  ASSUME NEW s \in Seq(Entry), NEW e \in Entry, Distinct(s), e \notin Range(s)
  PROVE  Distinct(Append(s, e))
<1> HIDE DEF Entry
<1> DEFINE t == Append(s, e)
<1>1. /\ Len(s) \in Nat
      /\ DOMAIN s = 1 .. Len(s)
      /\ DOMAIN t = 1 .. (Len(s) + 1)
      /\ \A i \in 1 .. Len(s) : t[i] = s[i]
      /\ t[Len(s) + 1] = e
  BY AppendRange
<1> HIDE DEF t
<1>2. \A i \in 1 .. Len(s) : t[i] # e
  BY <1>1 DEF Range
<1>3. \A i \in DOMAIN t : i \in 1 .. Len(s) \/ i = Len(s) + 1
  BY <1>1
<1>4. \A i, j \in DOMAIN t : t[i] = t[j] => i = j
  BY <1>1, <1>2, <1>3 DEF Distinct
<1> QED BY <1>4 DEF Distinct, t

LEMMA DistinctTail ==
  ASSUME NEW s \in Seq(Entry), s # <<>>, Distinct(s)
  PROVE  Distinct(Tail(s))
<1> HIDE DEF Entry
<1> DEFINE t == Tail(s)
<1>1. /\ Len(s) \in Nat \ {0}
      /\ DOMAIN s = 1 .. Len(s)
      /\ DOMAIN t = 1 .. (Len(s) - 1)
      /\ \A i \in 1 .. (Len(s) - 1) : t[i] = s[i + 1]
  BY TailRange
<1> HIDE DEF t
<1>2. ASSUME NEW i \in DOMAIN t, NEW j \in DOMAIN t, t[i] = t[j]
      PROVE  i = j
  <2>1. i + 1 \in DOMAIN s /\ j + 1 \in DOMAIN s /\ s[i + 1] = s[j + 1]
    BY <1>1, <1>2
  <2>2. i + 1 = j + 1
    BY <2>1 DEF Distinct
  <2> QED BY <1>1, <2>2
<1> QED BY <1>2 DEF Distinct, t

(* What the browser has after it is given e, and in which order.           *)
LEMMA UniqueRange ==
  ASSUME NEW s \in Seq(Entry), NEW e \in Entry
  PROVE  Range(appendUniqueLog(s, e)) = Range(s) \cup {e}
  BY AppendRange DEF appendUniqueLog

LEMMA UniqueOrder ==
  ASSUME NEW s \in Seq(Entry), NEW e \in Entry,
         Follows({}, s), Distinct(s), Before(e) \subseteq Range(s)
  PROVE  Follows({}, appendUniqueLog(s, e)) /\ Distinct(appendUniqueLog(s, e))
<1> HIDE DEF Entry
<1>1. CASE e \in Range(s)
  BY <1>1 DEF appendUniqueLog
<1>2. CASE e \notin Range(s)
  <2>1. Follows({}, Append(s, e)) /\ Distinct(Append(s, e))
    BY <1>2, FollowsAppend, DistinctAppend
  <2> QED BY <1>2, <2>1 DEF appendUniqueLog
<1> QED BY <1>1, <1>2

(* Distinct entries in this order are in the order of their goroutines.    *)
LEMMA OrderOfFollows ==
  ASSUME view \in Seq(Entry), Follows({}, view), Distinct(view)
  PROVE  InOrder
<1>1. \A i \in DOMAIN view : view[i] \in Entry /\ i \in Nat
  BY LenProperties, ElementOfSeq
<1>2. SUFFICES ASSUME NEW i \in DOMAIN view, NEW j \in DOMAIN view,
                      i < j, view[i][1] = view[j][1], ~(view[i][2] < view[j][2])
               PROVE  FALSE
  BY DEF InOrder
<1>3. PICK a \in Logger, m \in 1 .. MaxEntries : view[i] = <<a, m>>
  BY <1>1 DEF Entry
<1>4. PICK b \in Logger, n \in 1 .. MaxEntries : view[j] = <<b, n>>
  BY <1>1 DEF Entry
<1>5. a = b /\ n =< m
  BY <1>2, <1>3, <1>4
<1>6. CASE n = m
  BY <1>1, <1>2, <1>3, <1>4, <1>5, <1>6 DEF Distinct
<1>7. CASE n < m
  <2>1. n \in 1 .. (m - 1)
    BY <1>7
  <2>2. view[j] \in Before(view[i])
    BY <1>3, <1>4, <1>5, <2>1 DEF Before
  <2>3. PICK x \in DOMAIN view : x < i /\ view[x] = view[j]
    BY <2>2 DEF Follows
  <2>4. x = j
    BY <2>3 DEF Distinct
  <2> QED BY <1>1, <1>2, <2>3, <2>4
<1> QED BY <1>5, <1>6, <1>7

(***************************************************************************)
(* The broker: only a goroutine that sends has channels to visit, the      *)
(* handlers at work are the subscribers, and no channel is used before     *)
(* its handler has subscribed.  A browser with a connection has fetched.   *)
(***************************************************************************)

BrokerInv ==
  /\ \A l \in Logger : sending[l] # {} => step[l] = "send"
  /\ \A c \in Conn : handler[c] \in {"history", "stream"} <=> c \in subscribers
  /\ \A c \in Conn : handler[c] \in {"unused", "accept"} => channel[c] = <<>>
  /\ current # NoConn => client = "follow"

LEMMA BrokerStep ==
  ASSUME TypeOK, StreamInv, BrokerInv, [Next]_vars
  PROVE  BrokerInv'
<1> USE DEF TypeOK, StreamInv, BrokerInv
<1> HIDE DEF Entry, LogEntry
<1>1. ASSUME NEW l \in Logger, LogCall(l) \/ AddLog(l)
      PROVE  BrokerInv'
  BY <1>1 DEF LogCall, AddLog, Advance, brokerVars, clientVars
<1>2. ASSUME NEW l \in Logger, Broadcast(l)
      PROVE  BrokerInv'
  <2>1. CASE Advance(l, "broadcast", "send") /\ RLock(l)
    BY <1>2, <2>1 DEF Broadcast, Advance, RLock, clientVars
  <2>2. CASE step[l] = "send" /\ Send(l, LogEntry(l)) /\ UNCHANGED step
    <3>1. PICK c \in sending[l] :
            /\ channel' = [channel EXCEPT ![c] =
                             IF Len(@) < Capacity THEN Append(@, LogEntry(l)) ELSE @]
            /\ sending' = [sending EXCEPT ![l] = @ \ {c}]
      BY <2>2 DEF Send
    <3>2. c \in Conn /\ c \in subscribers /\ handler[c] \in {"history", "stream"}
      BY <3>1
    <3>3. \A d \in Conn : d # c => channel'[d] = channel[d]
      BY <3>1
    <3> QED BY <1>2, <2>2, <3>1, <3>2, <3>3 DEF Broadcast, Send, clientVars
  <2>3. CASE Advance(l, "send", "idle") /\ RUnlock(l)
    BY <1>2, <2>3 DEF Broadcast, Advance, RUnlock, clientVars
  <2> QED BY <1>2, <2>1, <2>2, <2>3 DEF Broadcast
<1>3. ASSUME NEW c \in Conn, SubscribeDeploymentLogs(c)
      PROVE  BrokerInv'
  BY <1>3 DEF SubscribeDeploymentLogs, Handle, Subscribe, brokerVars, loggerVars, clientVars
<1>4. ASSUME NEW c \in Conn, ReadHistory(c)
      PROVE  BrokerInv'
  BY <1>4 DEF ReadHistory, Handle, brokerVars, loggerVars, clientVars
<1>5. ASSUME NEW c \in Conn, Replay(c)
      PROVE  BrokerInv'
  BY <1>5 DEF Replay, brokerVars, loggerVars
<1>6. ASSUME NEW c \in Conn, Forward(c)
      PROVE  BrokerInv'
  BY <1>6 DEF Forward, Receive, loggerVars
<1>7. ASSUME NEW c \in Conn, Close(c)
      PROVE  BrokerInv'
  BY <1>7 DEF Close, Handle, Unsubscribe, loggerVars, clientVars
<1>8. ASSUME NEW c \in Conn, Open(c)
      PROVE  BrokerInv'
  BY <1>8 DEF Open, Handle, brokerVars, loggerVars
<1>9. CASE Fetch \/ Cut
  BY <1>9 DEF Fetch, BoundedFault, Cut, brokerVars, loggerVars
<1>10. CASE Restart
  BY <1>10 DEF Restart
<1>11. CASE UNCHANGED vars
  BY <1>11 DEF vars, brokerVars
<1> QED BY <1>1, <1>2, <1>3, <1>4, <1>5, <1>6, <1>7, <1>8, <1>9, <1>10, <1>11
        DEF Next, AwaitRequests

LEMMA BrokerCorrect == Spec => [](TypeOK /\ StreamInv /\ BrokerInv)
<1>1. Init => BrokerInv
  BY DEF Init, BrokerInv
<1>2. TypeOK /\ StreamInv /\ BrokerInv /\ [Next]_vars => BrokerInv'
  BY BrokerStep
<1> QED BY <1>1, <1>2, StreamTypeCorrect, PTL DEF Spec

(***************************************************************************)
(* The channels: an entry is queued at most once, and only after its       *)
(* goroutine began to broadcast it.                                        *)
(***************************************************************************)

\* An entry that its goroutine has made, and sent to c if that is its latest.
SentTo(c, e) ==
  \/ e[2] < calls[e[1]]
  \/ e[2] = calls[e[1]] /\ step[e[1]] \notin {"persist", "broadcast"} /\ c \notin sending[e[1]]

ChannelInv ==
  \A c \in Conn : Distinct(channel[c]) /\ \A e \in Range(channel[c]) : SentTo(c, e)

(* An entry that is still to be sent to c is not in its channel.           *)
LEMMA NotQueuedTwice ==
  ASSUME TypeOK, ChannelInv, NEW l \in Logger, NEW c \in Conn,
         step[l] \in {"persist", "broadcast"} \/ c \in sending[l]
  PROVE  LogEntry(l) \notin Range(channel[c])
<1>1. ~SentTo(c, LogEntry(l))
  <2>1. LogEntry(l)[1] = l /\ LogEntry(l)[2] = calls[l] /\ calls[l] \in Nat
    BY DEF LogEntry, TypeOK
  <2> QED BY <2>1 DEF SentTo
<1> QED BY <1>1 DEF ChannelInv

(* The elements of a sequence of entries are entries.                      *)
LEMMA EntryRange ==
  ASSUME NEW s \in Seq(Entry), NEW e \in Range(s)
  PROVE  e \in Entry /\ e[1] \in Logger /\ e[2] \in Nat
<1>1. e \in Entry
  BY LenProperties, ElementOfSeq DEF Range
<1> QED BY <1>1 DEF Entry

LEMMA ChannelStep ==
  ASSUME TypeOK, StreamInv, BrokerInv, ChannelInv, [Next]_vars
  PROVE  ChannelInv'
<1>1. \A c \in Conn : channel[c] \in Seq(Entry)
  BY DEF TypeOK
<1>2. \A c \in Conn : \A e \in Range(channel[c]) : e[1] \in Logger /\ e[2] \in Nat
  BY <1>1, EntryRange
<1>3. \A l \in Logger : calls[l] \in Nat
  BY DEF TypeOK
<1>4. ASSUME channel' = channel,
             \A c \in Conn : \A e \in Range(channel[c]) : SentTo(c, e)'
      PROVE  ChannelInv'
  BY <1>4 DEF ChannelInv
<1>5. ASSUME UNCHANGED <<channel, calls, step, sending>>
      PROVE  ChannelInv'
  BY <1>5 DEF ChannelInv, SentTo
<1>6. ASSUME NEW l \in Logger, LogCall(l)
      PROVE  ChannelInv'
  <2>1. /\ channel' = channel /\ sending' = sending
        /\ \A k \in Logger : k # l => calls'[k] = calls[k] /\ step'[k] = step[k]
        /\ calls'[l] = calls[l] + 1
    BY <1>6 DEF LogCall, Advance, brokerVars, TypeOK
  <2>2. \A c \in Conn : \A e \in Range(channel[c]) : SentTo(c, e)'
    BY <1>2, <1>3, <2>1 DEF ChannelInv, SentTo
  <2> QED BY <1>4, <2>1, <2>2
<1>7. ASSUME NEW l \in Logger, AddLog(l)
      PROVE  ChannelInv'
  <2>1. /\ channel' = channel /\ sending' = sending /\ calls' = calls
        /\ \A k \in Logger : k # l => step'[k] = step[k]
        /\ step[l] = "persist"
    BY <1>7 DEF AddLog, Advance, brokerVars, TypeOK
  <2>2. \A c \in Conn : \A e \in Range(channel[c]) : SentTo(c, e)'
    BY <1>2, <1>3, <2>1 DEF ChannelInv, SentTo
  <2> QED BY <1>4, <2>1, <2>2
<1>8. ASSUME NEW l \in Logger, Broadcast(l)
      PROVE  ChannelInv'
  <2>1. CASE Advance(l, "broadcast", "send") /\ RLock(l)
    <3>1. /\ channel' = channel /\ calls' = calls
          /\ \A k \in Logger : k # l => step'[k] = step[k] /\ sending'[k] = sending[k]
          /\ step[l] = "broadcast"
      BY <1>8, <2>1 DEF Broadcast, Advance, RLock, TypeOK
    <3>2. \A c \in Conn : \A e \in Range(channel[c]) : SentTo(c, e)'
      BY <1>2, <1>3, <3>1 DEF ChannelInv, SentTo
    <3> QED BY <1>4, <3>1, <3>2
  <2>2. CASE step[l] = "send" /\ Send(l, LogEntry(l)) /\ UNCHANGED step
    <3>1. PICK c \in sending[l] :
            /\ channel' = [channel EXCEPT ![c] =
                             IF Len(@) < Capacity THEN Append(@, LogEntry(l)) ELSE @]
            /\ sending' = [sending EXCEPT ![l] = @ \ {c}]
      BY <2>2 DEF Send
    <3>2. c \in Conn /\ calls' = calls /\ step' = step
      BY <1>8, <2>2, <3>1 DEF Broadcast, TypeOK
    <3>3. /\ \A d \in Conn : d # c => channel'[d] = channel[d]
          /\ \A k \in Logger : sending'[k] = IF k = l THEN sending[l] \ {c} ELSE sending[k]
          /\ channel'[c] = channel[c] \/ channel'[c] = Append(channel[c], LogEntry(l))
      BY <3>1, <3>2 DEF TypeOK
    <3>4. LogEntry(l) \in Entry /\ LogEntry(l) \notin Range(channel[c])
      BY <2>2, <3>1, <3>2, LogEntryType, NotQueuedTwice
    <3>5. ASSUME NEW d \in Conn, NEW e \in Range(channel[d])
          PROVE  SentTo(d, e)'
      BY <1>2, <3>2, <3>3, <3>5 DEF ChannelInv, SentTo
    <3>6. SentTo(c, LogEntry(l))'
      <4>1. LogEntry(l)[1] = l /\ LogEntry(l)[2] = calls[l] /\ LogEntry(l)' = LogEntry(l)
        BY <3>2 DEF LogEntry
      <4> QED BY <2>2, <3>2, <3>3, <4>1 DEF SentTo
    <3>7. Distinct(Append(channel[c], LogEntry(l)))
      BY <1>1, <3>2, <3>4, DistinctAppend DEF ChannelInv
    <3>8. Range(Append(channel[c], LogEntry(l))) = Range(channel[c]) \cup {LogEntry(l)}
      BY <1>1, <3>2, <3>4, AppendRange
    <3>9. LogEntry(l)' = LogEntry(l)
      BY <3>2 DEF LogEntry
    <3>10. ASSUME NEW d \in Conn
           PROVE  Distinct(channel'[d]) /\ \A e \in Range(channel'[d]) : SentTo(d, e)'
      <4>1. CASE channel'[d] = channel[d]
        BY <3>5, <4>1 DEF ChannelInv
      <4>2. CASE d = c /\ channel'[c] = Append(channel[c], LogEntry(l))
        BY <3>5, <3>6, <3>7, <3>8, <3>9, <4>2
      <4> QED BY <3>3, <4>1, <4>2
    <3> QED BY <3>10 DEF ChannelInv
  <2>3. CASE Advance(l, "send", "idle") /\ RUnlock(l)
    <3>1. /\ channel' = channel /\ calls' = calls /\ sending' = sending
          /\ \A k \in Logger : step'[k] \in {step[k], "idle"}
      BY <1>8, <2>3 DEF Broadcast, Advance, RUnlock, TypeOK
    <3>2. \A c \in Conn : \A e \in Range(channel[c]) : SentTo(c, e)'
      BY <1>2, <1>3, <3>1 DEF ChannelInv, SentTo
    <3> QED BY <1>4, <3>1, <3>2
  <2> QED BY <1>8, <2>1, <2>2, <2>3 DEF Broadcast
<1>9. ASSUME NEW c \in Conn,
             SubscribeDeploymentLogs(c) \/ ReadHistory(c) \/ Replay(c) \/ Close(c) \/ Open(c)
      PROVE  ChannelInv'
  BY <1>5, <1>9 DEF SubscribeDeploymentLogs, Subscribe, ReadHistory, Replay, Close, Unsubscribe,
                    Open, brokerVars, loggerVars
<1>10. ASSUME NEW c \in Conn, Forward(c)
       PROVE  ChannelInv'
  <2>1. channel[c] # <<>> /\ UNCHANGED <<calls, step, sending>>
    BY <1>10 DEF Forward, Receive, loggerVars
  <2>2. channel'[c] = Tail(channel[c]) /\ \A d \in Conn : d # c => channel'[d] = channel[d]
    BY <1>10 DEF Forward, Receive, TypeOK
  <2>3. Distinct(channel'[c]) /\ Range(channel'[c]) \subseteq Range(channel[c])
    BY <1>1, <2>1, <2>2, DistinctTail, TailRange DEF ChannelInv
  <2> QED BY <2>1, <2>2, <2>3 DEF ChannelInv, SentTo
<1>11. CASE Fetch \/ Cut
  BY <1>5, <1>11 DEF Fetch, Cut, brokerVars, loggerVars
<1>12. CASE Restart
  <2>1. \A c \in Conn : channel'[c] = <<>>
    BY <1>12 DEF Restart
  <2> QED BY <2>1, FollowsEmpty DEF ChannelInv
<1>13. CASE UNCHANGED vars
  BY <1>5, <1>13 DEF vars, brokerVars
<1> QED BY <1>6, <1>7, <1>8, <1>9, <1>10, <1>11, <1>12, <1>13 DEF Next, AwaitRequests

LEMMA ChannelCorrect == Spec => []ChannelInv
<1>1. Init => ChannelInv
  <2>1. Init => \A c \in Conn : channel[c] = <<>>
    BY DEF Init
  <2> QED BY <2>1, FollowsEmpty DEF ChannelInv
<1>2. TypeOK /\ StreamInv /\ BrokerInv /\ ChannelInv /\ [Next]_vars => ChannelInv'
  BY ChannelStep
<1> QED BY <1>1, <1>2, BrokerCorrect, PTL DEF Spec

(* When a channel has room for all entries, none is dropped: what a        *)
(* channel holds is distinct, and is not what is being sent to it.         *)
LEMMA RoomLeft ==
  ASSUME Room, TypeOK, StreamInv, BrokerInv, ChannelInv
  PROVE  NoneDropped
<1> SUFFICES ASSUME NEW l \in Logger, NEW c \in sending[l]
             PROVE  Len(channel[c]) < Capacity
  BY DEF NoneDropped
<1>1. c \in Conn /\ step[l] = "send" /\ channel[c] \in Seq(Entry)
  BY DEF TypeOK, BrokerInv
<1>2. LogEntry(l) \in Entry /\ LogEntry(l) \notin Range(channel[c])
  BY <1>1, LogEntryType, NotQueuedTwice
<1> HIDE DEF Entry, LogEntry
<1> DEFINE s == channel[c]
           n == Len(s)
           Rest == Entry \ {LogEntry(l)}
<1>3. n \in Nat /\ s \in [1 .. n -> Entry] /\ DOMAIN s = 1 .. n
  BY <1>1, LenProperties
<1>4. Distinct(s)
  BY <1>1 DEF ChannelInv
<1>5. IsFiniteSet(Rest) /\ Cardinality(Rest) = Cardinality(Entry) - 1 /\ Cardinality(Entry) \in Nat
  BY <1>2, FS_RemoveElement, FS_CardinalityType DEF Room
<1>6. s \in Injection(1 .. n, Rest)
  <2> HIDE DEF s, n
  <2>1. \A i \in 1 .. n : s[i] \in Range(s)
    BY <1>3 DEF Range
  <2>2. s \in [1 .. n -> Rest]
    BY <1>2, <1>3, <2>1 DEF s
  <2>3. \A i, j \in 1 .. n : s[i] = s[j] => i = j
    BY <1>3, <1>4 DEF Distinct
  <2> QED BY <2>2, <2>3 DEF Injection, IsInjective
<1>7. Cardinality(1 .. n) =< Cardinality(Rest)
  <2> HIDE DEF Rest, n, s
  <2> QED BY <1>5, <1>6, FS_Injection
<1>8. Cardinality(1 .. n) = n
  BY <1>3, FS_Interval
<1>9. n < Capacity
  <2> HIDE DEF Rest, n, s
  <2> QED BY <1>3, <1>5, <1>7, <1>8, StreamAssumption DEF Room
<1> QED BY <1>9

\* No broadcast finds a full channel when one has room for every entry, for
\* any number of connections, failures and restarts.
THEOREM NoneDroppedCorrect ==
  ASSUME Room
  PROVE  Spec => []NoneDropped
<1>1. TypeOK /\ StreamInv /\ BrokerInv /\ ChannelInv => NoneDropped
  BY RoomLeft
<1> QED BY <1>1, BrokerCorrect, ChannelCorrect, PTL

(***************************************************************************)
(* What reaches the browser.  Subscribing comes before reading the         *)
(* history: what a goroutine persists after the read is sent to the        *)
(* connection, and what it persisted before is in the history.             *)
(***************************************************************************)

(* What the browser has of the connection it follows grows by the entry    *)
(* that is written to it.                                                  *)
LEMMA ShownGrows ==
  ASSUME TypeOK, NEW c \in Conn, NEW e \in Entry, writeDeploymentLogEvent(c, e)
  PROVE  IF current = c
         THEN view' = appendUniqueLog(view, e) /\ Range(view') = Range(view) \cup {e}
         ELSE view' = view
  BY UniqueRange DEF writeDeploymentLogEvent, TypeOK

LEMMA MissedStep ==
  ASSUME HistoryAnswers, TypeOK, StreamInv, BrokerInv, NoneDropped, NothingMissed, [Next]_vars
  PROVE  NothingMissed'
<1> HIDE DEF Entry, LogEntry
<1> SUFFICES ASSUME NEW c \in Conn, current' = c, handler'[c] = "stream",
                    NEW e \in Range(table')
             PROVE  \/ e \in Range(view') \/ e \in Range(replay'[c]) \/ e \in Range(channel'[c])
                    \/ \E k \in Logger : e = LogEntry(k)' /\ (step'[k] = "broadcast" \/ c \in sending'[k])
  BY DEF NothingMissed, Underway
<1> DEFINE Covered ==
             \/ e \in Range(view') \/ e \in Range(replay'[c]) \/ e \in Range(channel'[c])
             \/ \E k \in Logger : e = LogEntry(k)' /\ (step'[k] = "broadcast" \/ c \in sending'[k])
<1> DEFINE Sent(l) == step[l] = "broadcast" \/ c \in sending[l]
<1>1. ASSUME current = c, handler[c] = "stream", e \in Range(table)
      PROVE  \/ e \in Range(view) \/ e \in Range(replay[c]) \/ e \in Range(channel[c])
             \/ \E l \in Logger : e = LogEntry(l) /\ Sent(l)
  BY <1>1 DEF NothingMissed, Underway
<1>2. c # NoConn
  BY StreamAssumption
<1>3. /\ channel[c] \in Seq(Entry) /\ replay[c] \in Seq(Entry)
      /\ view \in Seq(Entry) /\ table \in Seq(Entry)
  BY DEF TypeOK
<1>4. ASSUME NEW l \in Logger, LogCall(l)
      PROVE  Covered
  <2>1. /\ UNCHANGED <<sending, channel, table, handler, replay, current, view>>
        /\ step[l] = "idle"
        /\ \A k \in Logger : k # l => calls'[k] = calls[k] /\ step'[k] = step[k]
    BY <1>4 DEF LogCall, Advance, brokerVars, clientVars, TypeOK
  <2>2. ~Sent(l)
    BY <2>1 DEF BrokerInv
  <2>3. \A k \in Logger : k # l => LogEntry(k)' = LogEntry(k)
    BY <2>1 DEF LogEntry
  <2> QED BY <1>1, <2>1, <2>2, <2>3
<1>5. ASSUME NEW l \in Logger, AddLog(l)
      PROVE  Covered
  <2>1. /\ UNCHANGED <<sending, channel, calls, handler, replay, current, view>>
        /\ step[l] = "persist" /\ step'[l] = "broadcast"
        /\ \A k \in Logger : k # l => step'[k] = step[k]
        /\ table' = table \/ table' = Append(table, LogEntry(l))
    BY <1>5 DEF AddLog, Advance, brokerVars, clientVars, TypeOK
  <2>2. \A k \in Logger : LogEntry(k)' = LogEntry(k)
    BY <2>1 DEF LogEntry
  <2>3. LogEntry(l) \in Entry
    BY <2>1, LogEntryType
  <2>4. Range(Append(table, LogEntry(l))) = Range(table) \cup {LogEntry(l)}
    BY <1>3, <2>3, AppendRange
  <2>5. \A k \in Logger : Sent(k) => (step'[k] = "broadcast" \/ c \in sending'[k])
    BY <2>1
  <2>6. e \in Range(table) \/ e = LogEntry(l)
    BY <2>1, <2>4
  <2> QED BY <1>1, <2>1, <2>2, <2>5, <2>6
<1>6. ASSUME NEW l \in Logger, Broadcast(l)
      PROVE  Covered
  <2>1. UNCHANGED <<calls, table, handler, replay, current, view>>
    BY <1>6 DEF Broadcast, clientVars
  <2>2. \A k \in Logger : LogEntry(k)' = LogEntry(k)
    BY <2>1 DEF LogEntry
  <2>3. \/ e \in Range(view) \/ e \in Range(replay[c]) \/ e \in Range(channel[c])
        \/ \E k \in Logger : e = LogEntry(k) /\ Sent(k)
    BY <1>1, <2>1
  <2>4. CASE Advance(l, "broadcast", "send") /\ RLock(l)
    <3>1. c \in subscribers
      BY <2>1 DEF BrokerInv
    <3>2. \A k \in Logger : Sent(k) => (step'[k] = "broadcast" \/ c \in sending'[k])
      BY <2>4, <3>1 DEF Advance, RLock, TypeOK
    <3> QED BY <2>1, <2>2, <2>3, <2>4, <3>2 DEF RLock
  <2>5. CASE step[l] = "send" /\ Send(l, LogEntry(l)) /\ UNCHANGED step
    <3>1. PICK d \in sending[l] :
            /\ channel' = [channel EXCEPT ![d] =
                             IF Len(@) < Capacity THEN Append(@, LogEntry(l)) ELSE @]
            /\ sending' = [sending EXCEPT ![l] = @ \ {d}]
      BY <2>5 DEF Send
    <3>2. d \in Conn /\ Len(channel[d]) < Capacity
      BY <3>1 DEF NoneDropped, TypeOK
    <3>3. LogEntry(l) \in Entry
      BY <2>5, LogEntryType
    <3>4. IF c = d THEN channel'[c] = Append(channel[c], LogEntry(l)) ELSE channel'[c] = channel[c]
      BY <3>1, <3>2 DEF TypeOK
    <3>5. IF c = d THEN Range(channel'[c]) = Range(channel[c]) \cup {LogEntry(l)}
                   ELSE channel'[c] = channel[c]
      BY <1>3, <3>3, <3>4, AppendRange
    <3>6. \A k \in Logger : Sent(k) => \/ step'[k] = "broadcast" \/ c \in sending'[k]
                                       \/ (k = l /\ c = d)
      BY <2>5, <3>1 DEF TypeOK
    <3> QED BY <2>1, <2>2, <2>3, <3>5, <3>6
  <2>6. CASE Advance(l, "send", "idle") /\ RUnlock(l)
    <3>1. /\ UNCHANGED <<channel, sending>>
          /\ \A k \in Logger : step[k] = "broadcast" => step'[k] = "broadcast"
      BY <2>6 DEF Advance, RUnlock, TypeOK
    <3> QED BY <2>1, <2>2, <2>3, <3>1
  <2> QED BY <1>6, <2>4, <2>5, <2>6 DEF Broadcast
<1>7. ASSUME UNCHANGED <<calls, step, sending, table>>,
             /\ current = c /\ handler[c] = "stream"
             /\ Range(view) \cup Range(replay[c]) \cup Range(channel[c])
                  \subseteq Range(view') \cup Range(replay'[c]) \cup Range(channel'[c])
      PROVE  Covered
  <2>1. \A k \in Logger : LogEntry(k)' = LogEntry(k)
    BY <1>7 DEF LogEntry
  <2> QED BY <1>1, <1>7, <2>1
<1>8. ASSUME NEW d \in Conn, SubscribeDeploymentLogs(d) \/ Close(d)
      PROVE  Covered
  <2>1. /\ UNCHANGED <<calls, step, sending, table, view, replay, channel>>
        /\ handler[c] = "stream"
        /\ current = c
    BY <1>2, <1>8 DEF SubscribeDeploymentLogs, Close, Handle, Subscribe, Unsubscribe, brokerVars,
                      loggerVars, clientVars, TypeOK
  <2> QED BY <1>7, <2>1
<1>9. ASSUME NEW d \in Conn, ReadHistory(d)
      PROVE  Covered
  <2>1. /\ UNCHANGED <<calls, step, sending, table, view, channel, current>>
        /\ replay' = [replay EXCEPT ![d] = table]
        /\ d # c => handler[c] = "stream"
    BY <1>9 DEF ReadHistory, Handle, Fault, HistoryAnswers, brokerVars, loggerVars, clientVars, TypeOK
  <2>2. CASE d = c
    BY <2>1, <2>2 DEF TypeOK
  <2>3. CASE d # c
    <3>1. replay'[c] = replay[c]
      BY <2>1, <2>3
    <3> QED BY <1>7, <2>1, <2>3, <3>1
  <2> QED BY <2>2, <2>3
<1>10. ASSUME NEW d \in Conn, Replay(d)
       PROVE  Covered
  <2>1. /\ UNCHANGED <<calls, step, sending, table, handler, channel, current>>
        /\ replay[d] \in Seq(Entry) /\ replay[d] # <<>>
        /\ writeDeploymentLogEvent(d, Head(replay[d]))
        /\ replay' = [replay EXCEPT ![d] = Tail(replay[d])]
    BY <1>10 DEF Replay, brokerVars, loggerVars, TypeOK
  <2>2. Head(replay[d]) \in Entry /\ Range(replay[d]) = {Head(replay[d])} \cup Range(Tail(replay[d]))
    BY <2>1, TailRange
  <2>3. CASE d = c
    <3>1. Range(view') = Range(view) \cup {Head(replay[c])} /\ replay'[c] = Tail(replay[c])
      BY <2>1, <2>2, <2>3, ShownGrows DEF TypeOK
    <3> QED BY <1>7, <2>1, <2>2, <2>3, <3>1
  <2>4. CASE d # c
    <3>1. view' = view /\ replay'[c] = replay[c]
      BY <2>1, <2>4 DEF writeDeploymentLogEvent
    <3> QED BY <1>7, <2>1, <3>1
  <2> QED BY <2>3, <2>4
<1>11. ASSUME NEW d \in Conn, Forward(d)
       PROVE  Covered
  <2>1. /\ UNCHANGED <<calls, step, sending, table, handler, replay, current>>
        /\ channel[d] \in Seq(Entry) /\ channel[d] # <<>>
        /\ writeDeploymentLogEvent(d, Head(channel[d]))
        /\ channel' = [channel EXCEPT ![d] = Tail(channel[d])]
    BY <1>11 DEF Forward, Receive, loggerVars, TypeOK
  <2>2. Head(channel[d]) \in Entry /\ Range(channel[d]) = {Head(channel[d])} \cup Range(Tail(channel[d]))
    BY <2>1, TailRange
  <2>3. CASE d = c
    <3>1. Range(view') = Range(view) \cup {Head(channel[c])} /\ channel'[c] = Tail(channel[c])
      BY <2>1, <2>2, <2>3, ShownGrows DEF TypeOK
    <3> QED BY <1>7, <2>1, <2>2, <2>3, <3>1
  <2>4. CASE d # c
    <3>1. view' = view /\ channel'[c] = channel[c]
      BY <2>1, <2>4 DEF writeDeploymentLogEvent
    <3> QED BY <1>7, <2>1, <3>1
  <2> QED BY <2>3, <2>4
<1>12. ~Cut /\ ~Restart /\ ~\E d \in Conn : Open(d)
  <2>1. ASSUME NEW d \in Conn, Open(d) PROVE FALSE
    BY <2>1 DEF Open, Handle, TypeOK
  <2> QED BY <1>2, <2>1 DEF Cut, Restart
<1>13. CASE Fetch
  <2>1. UNCHANGED <<calls, step, sending, table, handler, channel, replay, current>>
    BY <1>13 DEF Fetch, brokerVars, loggerVars
  <2>2. client = "follow"
    BY <1>2, <2>1 DEF BrokerInv
  <2> QED BY <1>13, <2>2 DEF Fetch
<1>14. CASE UNCHANGED vars
  BY <1>7, <1>14 DEF vars, brokerVars
<1> QED BY <1>4, <1>5, <1>6, <1>8, <1>9, <1>10, <1>11, <1>12, <1>13, <1>14 DEF Next, AwaitRequests

\* No persisted entry is missed by the browser, for any interleaving of
\* appends, broadcasts and reconnections: whenever the histories are read and
\* no broadcast finds a full channel.
THEOREM NothingMissedCorrect ==
  ASSUME HistoryAnswers
  PROVE  Spec /\ []NoneDropped => []NothingMissed
<1>1. Init => NothingMissed
  <2>1. Init => \A c \in Conn : current # c
    BY StreamAssumption DEF Init
  <2> QED BY <2>1 DEF NothingMissed
<1>2. TypeOK /\ StreamInv /\ BrokerInv /\ NoneDropped /\ NothingMissed /\ [Next]_vars => NothingMissed'
  BY MissedStep
<1> QED BY <1>1, <1>2, BrokerCorrect, PTL DEF Spec

\* So a browser with an open stream shows all that is persisted when nothing
\* is underway, which the README promises.
THEOREM StreamCompleteCorrect ==
  ASSUME HistoryAnswers
  PROVE  Spec /\ []NoneDropped => []StreamComplete
<1>1. BrokerInv /\ NothingMissed => StreamComplete
  <2> SUFFICES ASSUME BrokerInv, NothingMissed, NEW c \in Conn, current = c, Drained(c), Quiet
               PROVE  Range(table) \subseteq Range(view)
    BY DEF StreamComplete
  <2>1. Range(table) \subseteq Range(view) \cup Underway(c)
    BY DEF NothingMissed, Drained
  <2>2. Range(replay[c]) = {} /\ Range(channel[c]) = {}
    BY FollowsEmpty DEF Drained
  <2>3. \A l \in Logger : step[l] # "broadcast" /\ c \notin sending[l]
    BY DEF Quiet, BrokerInv
  <2>4. Underway(c) = {}
    BY <2>2, <2>3 DEF Underway
  <2> QED BY <2>1, <2>4
<1> QED BY <1>1, NothingMissedCorrect, BrokerCorrect, PTL

(***************************************************************************)
(* The order.  The table has the entries of each goroutine in their order, *)
(* and all that a goroutine at work has persisted.                         *)
(***************************************************************************)

TableInv ==
  /\ Follows({}, table) /\ Distinct(table)
  /\ \A e \in Range(table) : e[2] < calls[e[1]] \/ (e[2] = calls[e[1]] /\ step[e[1]] # "persist")
  /\ \A l \in Logger : \A k \in 1 .. calls[l] :
       step[l] # "gone" /\ (k < calls[l] \/ step[l] # "persist") => <<l, k>> \in Range(table)

(* Whatever a goroutine made before its present entry is persisted.        *)
LEMMA BeforePersisted ==
  ASSUME TypeOK, TableInv, NEW l \in Logger, step[l] # "gone"
  PROVE  Before(LogEntry(l)) \subseteq Range(table)
<1>1. Before(LogEntry(l)) = {<<l, k>> : k \in 1 .. (calls[l] - 1)}
  BY DEF Before, LogEntry
<1>2. calls[l] \in Nat
  BY DEF TypeOK
<1>3. \A k \in 1 .. (calls[l] - 1) : k \in 1 .. calls[l] /\ k < calls[l]
  BY <1>2
<1> QED BY <1>1, <1>3 DEF TableInv

(* An entry that is being persisted is not in the table.                   *)
LEMMA NotPersistedTwice ==
  ASSUME TypeOK, TableInv, NEW l \in Logger, step[l] = "persist"
  PROVE  LogEntry(l) \notin Range(table)
<1>1. LogEntry(l)[1] = l /\ LogEntry(l)[2] = calls[l] /\ calls[l] \in Nat
  BY DEF LogEntry, TypeOK
<1> QED BY <1>1 DEF TableInv

LEMMA TableStep ==
  ASSUME InsertsSucceed, TypeOK, StreamInv, BrokerInv, TableInv, [Next]_vars
  PROVE  TableInv'
<1>1. \A e \in Range(table) : e[1] \in Logger /\ e[2] \in Nat
  BY EntryRange DEF TypeOK
<1>2. \A l \in Logger : calls[l] \in Nat
  BY DEF TypeOK
<1>3. ASSUME UNCHANGED <<table, calls, step>> PROVE TableInv'
  BY <1>3 DEF TableInv
<1>4. ASSUME NEW l \in Logger, LogCall(l) PROVE TableInv'
  <2>1. /\ table' = table
        /\ \A k \in Logger : k # l => calls'[k] = calls[k] /\ step'[k] = step[k]
        /\ calls'[l] = calls[l] + 1
        /\ step[l] = "idle" /\ step'[l] = "persist"
    BY <1>4 DEF LogCall, Advance, TypeOK
  <2>2. \A e \in Range(table) : e[2] < calls'[e[1]] \/ (e[2] = calls'[e[1]] /\ step'[e[1]] # "persist")
    BY <1>1, <1>2, <2>1 DEF TableInv
  <2>3. ASSUME NEW k \in Logger, NEW n \in 1 .. calls'[k],
               step'[k] # "gone", n < calls'[k] \/ step'[k] # "persist"
        PROVE  <<k, n>> \in Range(table)
    <3>1. CASE k = l
      <4>1. n \in 1 .. calls[l]
        BY <1>2, <2>1, <2>3, <3>1
      <4> QED BY <2>1, <3>1, <4>1 DEF TableInv
    <3>2. CASE k # l
      BY <2>1, <2>3, <3>2 DEF TableInv
    <3> QED BY <3>1, <3>2
  <2> QED BY <2>1, <2>2, <2>3 DEF TableInv
<1>5. ASSUME NEW l \in Logger, AddLog(l) PROVE TableInv'
  <2>1. /\ table' = Append(table, LogEntry(l))
        /\ calls' = calls
        /\ \A k \in Logger : k # l => step'[k] = step[k]
        /\ step[l] = "persist" /\ step'[l] = "broadcast"
    BY <1>5 DEF AddLog, Advance, Fault, InsertsSucceed, TypeOK
  <2>2. LogEntry(l) \in Entry /\ table \in Seq(Entry)
    BY <2>1, LogEntryType DEF TypeOK
  <2>3. Before(LogEntry(l)) \subseteq Range(table) /\ LogEntry(l) \notin Range(table)
    BY <2>1, BeforePersisted, NotPersistedTwice
  <2>4. Follows({}, table') /\ Distinct(table')
    <3>1. Before(LogEntry(l)) \subseteq {} \cup Range(table)
      BY <2>3
    <3> QED BY <2>1, <2>2, <2>3, <3>1, FollowsAppend, DistinctAppend DEF TableInv
  <2>5. Range(table') = Range(table) \cup {LogEntry(l)}
    BY <2>1, <2>2, AppendRange
  <2>6. LogEntry(l) = <<l, calls[l]>>
    BY DEF LogEntry
  <2>7. \A e \in Range(table') : e[2] < calls'[e[1]] \/ (e[2] = calls'[e[1]] /\ step'[e[1]] # "persist")
    BY <1>1, <1>2, <2>1, <2>5, <2>6 DEF TableInv
  <2>8. ASSUME NEW k \in Logger, NEW n \in 1 .. calls'[k],
               step'[k] # "gone", n < calls'[k] \/ step'[k] # "persist"
        PROVE  <<k, n>> \in Range(table')
    <3>1. CASE k = l /\ n = calls[l]
      BY <2>5, <2>6, <3>1
    <3>2. CASE k = l /\ n # calls[l]
      <4>1. n \in 1 .. calls[l] /\ n < calls[l]
        BY <1>2, <2>1, <2>8, <3>2
      <4> QED BY <2>1, <2>5, <3>2, <4>1 DEF TableInv
    <3>3. CASE k # l
      BY <2>1, <2>5, <2>8, <3>3 DEF TableInv
    <3> QED BY <3>1, <3>2, <3>3
  <2> QED BY <2>4, <2>7, <2>8 DEF TableInv
<1>6. ASSUME NEW l \in Logger, Broadcast(l) PROVE TableInv'
  <2>1. /\ UNCHANGED <<table, calls>>
        /\ \A k \in Logger : (step'[k] = "persist" <=> step[k] = "persist")
                             /\ (step'[k] = "gone" <=> step[k] = "gone")
    BY <1>6 DEF Broadcast, Advance, TypeOK
  <2> QED BY <1>1, <2>1 DEF TableInv
<1>7. ASSUME NEW c \in Conn,
             \/ SubscribeDeploymentLogs(c) \/ ReadHistory(c) \/ Replay(c) \/ Forward(c)
             \/ Close(c) \/ Open(c)
      PROVE  TableInv'
  BY <1>3, <1>7 DEF SubscribeDeploymentLogs, ReadHistory, Replay, Forward, Close, Open, loggerVars
<1>8. CASE Fetch \/ Cut
  BY <1>3, <1>8 DEF Fetch, Cut, loggerVars
<1>9. CASE Restart
  <2>1. UNCHANGED <<table, calls>> /\ \A l \in Logger : step'[l] = "gone"
    BY <1>9 DEF Restart
  <2> QED BY <1>1, <1>2, <2>1 DEF TableInv
<1>10. CASE UNCHANGED vars
  BY <1>3, <1>10 DEF vars
<1> QED BY <1>4, <1>5, <1>6, <1>7, <1>8, <1>9, <1>10 DEF Next, AwaitRequests

LEMMA TableCorrect ==
  ASSUME InsertsSucceed
  PROVE  Spec => []TableInv
<1>1. Init => TableInv
  <2>1. Init => table = <<>> /\ \A l \in Logger : calls[l] = 0
    BY DEF Init
  <2>2. \A k : k \notin 1 .. 0
    OBVIOUS
  <2> QED BY <2>1, <2>2, FollowsEmpty DEF TableInv
<1>2. TypeOK /\ StreamInv /\ BrokerInv /\ TableInv /\ [Next]_vars => TableInv'
  BY TableStep
<1> QED BY <1>1, <1>2, BrokerCorrect, PTL DEF Spec

(***************************************************************************)
(* The browser's part.  What it shows is in order, and so is what is on    *)
(* its way: the history after what is shown, the channel after both.       *)
(***************************************************************************)

ViewInv ==
  /\ Follows({}, view) /\ Distinct(view)
  /\ \A c \in Conn : current = c =>
       /\ handler[c] = "history" => Follows(Range(table), channel[c])
       /\ handler[c] = "stream" =>
            /\ Follows(Range(view), replay[c])
            /\ Follows(Range(view) \cup Range(replay[c]), channel[c])

(* What an entry that is sent to c was made after is before it there.      *)
LEMMA SentInOrder ==
  ASSUME TypeOK, StreamInv, BrokerInv, TableInv, NothingMissed,
         NEW l \in Logger, NEW c \in sending[l], current = c, handler[c] = "stream"
  PROVE  Before(LogEntry(l)) \subseteq Range(view) \cup Range(replay[c]) \cup Range(channel[c])
<1>1. c \in Conn /\ step[l] = "send"
  BY DEF TypeOK, BrokerInv
<1>2. Range(table) \subseteq Range(view) \cup Underway(c)
  BY <1>1 DEF NothingMissed
<1>3. Before(LogEntry(l)) \subseteq Range(table)
  BY <1>1, BeforePersisted
<1>4. \A k \in Logger : LogEntry(k) \notin Before(LogEntry(l))
  <2>1. calls[l] \in Nat
    BY DEF TypeOK
  <2> QED BY <2>1 DEF LogEntry, Before
<1> QED BY <1>2, <1>3, <1>4 DEF Underway

(* A step that leaves the browser's part alone.                            *)
LEMMA ViewStays ==
  ASSUME ViewInv, Range(table) \subseteq Range(table'), UNCHANGED <<view, replay, channel>>,
         \A c \in Conn : current' = c =>
           \/ handler'[c] \notin {"history", "stream"}
           \/ current = c /\ handler'[c] = handler[c]
  PROVE  ViewInv'
<1>1. Follows({}, view') /\ Distinct(view')
  BY DEF ViewInv
<1>2. ASSUME NEW c \in Conn, current' = c, handler'[c] = "history"
      PROVE  Follows(Range(table'), channel'[c])
  <2>1. Follows(Range(table), channel[c])
    BY <1>2 DEF ViewInv
  <2>2. Follows(Range(table'), channel[c])
    BY <2>1, FollowsMore
  <2> QED BY <2>2
<1>3. ASSUME NEW c \in Conn, current' = c, handler'[c] = "stream"
      PROVE  Follows(Range(view'), replay'[c])
             /\ Follows(Range(view') \cup Range(replay'[c]), channel'[c])
  BY <1>3 DEF ViewInv
<1> QED BY <1>1, <1>2, <1>3 DEF ViewInv

(* The browser is given the head of the history or of the channel.         *)
LEMMA ViewGrows ==
  ASSUME TypeOK, ViewInv, NEW c \in Conn, NEW s \in Seq(Entry), s # <<>>,
         current = c, Follows(Range(view), s), writeDeploymentLogEvent(c, Head(s))
  PROVE  /\ Follows({}, view') /\ Distinct(view')
         /\ Range(view') = Range(view) \cup {Head(s)}
         /\ Follows(Range(view'), Tail(s))
         /\ Range(view') \cup Range(Tail(s)) = Range(view) \cup Range(s)
<1> HIDE DEF Entry
<1>1. Head(s) \in Entry /\ Range(s) = {Head(s)} \cup Range(Tail(s)) /\ view \in Seq(Entry)
  BY TailRange DEF TypeOK
<1>2. view' = appendUniqueLog(view, Head(s)) /\ Range(view') = Range(view) \cup {Head(s)}
  BY <1>1, ShownGrows
<1>3. Before(Head(s)) \subseteq Range(view) /\ Follows(Range(view) \cup {Head(s)}, Tail(s))
  BY FollowsTail
<1>4. Follows({}, view') /\ Distinct(view')
  BY <1>1, <1>2, <1>3, UniqueOrder DEF ViewInv
<1> QED BY <1>1, <1>2, <1>3, <1>4

LEMMA ViewStep ==
  ASSUME HistoryAnswers, TypeOK, StreamInv, BrokerInv, TableInv, ChannelInv,
         NoneDropped, NothingMissed, ViewInv, [Next]_vars
  PROVE  ViewInv'
<1> HIDE DEF Entry, LogEntry
<1>1. \A c \in Conn : channel[c] \in Seq(Entry) /\ replay[c] \in Seq(Entry)
  BY DEF TypeOK
<1>2. table \in Seq(Entry) /\ view \in Seq(Entry)
  BY DEF TypeOK
<1>3. \A c \in Conn : c # NoConn
  BY StreamAssumption
<1>4. ASSUME NEW l \in Logger, LogCall(l) PROVE ViewInv'
  BY <1>4, ViewStays DEF LogCall, brokerVars, clientVars
<1>5. ASSUME NEW l \in Logger, AddLog(l) PROVE ViewInv'
  <2>1. UNCHANGED <<view, replay, channel, handler, current>>
    BY <1>5 DEF AddLog, brokerVars, clientVars
  <2>2. Range(table) \subseteq Range(table')
    <3>1. LogEntry(l) \in Entry
      BY <1>5, LogEntryType DEF AddLog, Advance
    <3>2. Range(Append(table, LogEntry(l))) = Range(table) \cup {LogEntry(l)}
      BY <1>2, <3>1, AppendRange
    <3>3. table' = table \/ table' = Append(table, LogEntry(l))
      BY <1>5 DEF AddLog
    <3> QED BY <3>2, <3>3
  <2> QED BY <2>1, <2>2, ViewStays
<1>6. ASSUME NEW l \in Logger, Broadcast(l) PROVE ViewInv'
  <2>1. UNCHANGED <<table, view, replay, handler, current>>
    BY <1>6 DEF Broadcast, clientVars
  <2>2. CASE channel' = channel
    BY <2>1, <2>2, ViewStays
  <2>3. CASE step[l] = "send" /\ Send(l, LogEntry(l)) /\ UNCHANGED step
    <3>1. PICK d \in sending[l] :
            channel' = [channel EXCEPT ![d] =
                          IF Len(@) < Capacity THEN Append(@, LogEntry(l)) ELSE @]
      BY <2>3 DEF Send
    <3>2. d \in Conn /\ Len(channel[d]) < Capacity
      BY <3>1 DEF NoneDropped, TypeOK
    <3>3. \A c \in Conn : channel'[c] = IF c = d THEN Append(channel[c], LogEntry(l)) ELSE channel[c]
      BY <3>1, <3>2 DEF TypeOK
    <3>4. LogEntry(l) \in Entry
      BY <2>3, LogEntryType
    <3>5. ASSUME current = d, handler[d] = "history"
          PROVE  Follows(Range(table), channel'[d])
      <4>1. Before(LogEntry(l)) \subseteq Range(table)
        BY <2>3, BeforePersisted
      <4>2. Follows(Range(table), channel[d])
        BY <3>2, <3>5 DEF ViewInv
      <4>3. Before(LogEntry(l)) \subseteq Range(table) \cup Range(channel[d])
        BY <4>1
      <4>4. Follows(Range(table), Append(channel[d], LogEntry(l)))
        BY <1>1, <3>2, <3>4, <4>2, <4>3, FollowsAppend
      <4> QED BY <3>2, <3>3, <4>4
    <3>6. ASSUME current = d, handler[d] = "stream"
          PROVE  Follows(Range(view) \cup Range(replay[d]), channel'[d])
      <4>1. Before(LogEntry(l)) \subseteq (Range(view) \cup Range(replay[d])) \cup Range(channel[d])
        BY <3>1, <3>6, SentInOrder
      <4>2. Follows(Range(view) \cup Range(replay[d]), channel[d])
        BY <3>2, <3>6 DEF ViewInv
      <4>3. Follows(Range(view) \cup Range(replay[d]), Append(channel[d], LogEntry(l)))
        BY <1>1, <3>2, <3>4, <4>1, <4>2, FollowsAppend
      <4> QED BY <3>2, <3>3, <4>3
    <3>7. \A c \in Conn : c # d => channel'[c] = channel[c]
      BY <3>3
    <3> QED BY <2>1, <3>2, <3>5, <3>6, <3>7 DEF ViewInv
  <2> QED BY <1>6, <2>2, <2>3 DEF Broadcast, RLock, RUnlock
<1>7. ASSUME NEW c \in Conn, SubscribeDeploymentLogs(c) PROVE ViewInv'
  <2>1. UNCHANGED <<table, view, replay, channel>> /\ channel[c] = <<>>
    BY <1>7 DEF SubscribeDeploymentLogs, Handle, Subscribe, brokerVars, loggerVars, clientVars, BrokerInv
  <2>2. \A d \in Conn : d # c => handler'[d] = handler[d]
    BY <1>7 DEF SubscribeDeploymentLogs, Handle, TypeOK
  <2>3. handler'[c] # "stream"
    BY <1>7 DEF SubscribeDeploymentLogs, Handle, TypeOK
  <2>4. \A d \in Conn : current' = d => current = d
    BY <1>3, <1>7 DEF SubscribeDeploymentLogs, clientVars
  <2>5. ASSUME NEW d \in Conn, current' = d, handler'[d] = "history"
        PROVE  Follows(Range(table'), channel'[d])
    BY <2>1, <2>2, <2>4, <2>5, FollowsEmpty DEF ViewInv
  <2>6. ASSUME NEW d \in Conn, current' = d, handler'[d] = "stream"
        PROVE  Follows(Range(view'), replay'[d])
               /\ Follows(Range(view') \cup Range(replay'[d]), channel'[d])
    BY <2>1, <2>2, <2>3, <2>4, <2>6 DEF ViewInv
  <2> QED BY <2>1, <2>5, <2>6 DEF ViewInv
<1>8. ASSUME NEW c \in Conn, ReadHistory(c) PROVE ViewInv'
  <2>1. /\ UNCHANGED <<table, view, channel, current>>
        /\ replay' = [replay EXCEPT ![c] = table]
        /\ handler[c] = "history" /\ handler' = [handler EXCEPT ![c] = "stream"]
    BY <1>8 DEF ReadHistory, Handle, Fault, HistoryAnswers, brokerVars, clientVars
  <2>2. \A d \in Conn : d # c => handler'[d] = handler[d] /\ replay'[d] = replay[d]
    BY <2>1
  <2>3. handler'[c] = "stream" /\ replay'[c] = table
    BY <2>1 DEF TypeOK
  <2>4. Follows(Range(view), table)
    <3>1. {} \subseteq Range(view)
      OBVIOUS
    <3> QED BY <3>1, FollowsMore DEF TableInv
  <2>5. ASSUME current = c PROVE Follows(Range(view) \cup Range(table), channel[c])
    <3>1. Follows(Range(table), channel[c]) /\ Range(table) \subseteq Range(view) \cup Range(table)
      BY <2>1, <2>5 DEF ViewInv
    <3> QED BY <3>1, FollowsMore
  <2> QED BY <2>1, <2>2, <2>3, <2>4, <2>5 DEF ViewInv
<1>9. ASSUME NEW c \in Conn, Replay(c) PROVE ViewInv'
  <2>1. /\ UNCHANGED <<table, channel, handler, current>>
        /\ replay[c] # <<>> /\ handler[c] = "stream"
        /\ writeDeploymentLogEvent(c, Head(replay[c]))
        /\ replay' = [replay EXCEPT ![c] = Tail(replay[c])]
    BY <1>9 DEF Replay, brokerVars
  <2>2. replay'[c] = Tail(replay[c]) /\ \A d \in Conn : d # c => replay'[d] = replay[d]
    BY <2>1 DEF TypeOK
  <2>3. CASE current = c
    <3>1. /\ Follows({}, view') /\ Distinct(view')
          /\ Follows(Range(view'), replay'[c])
          /\ Range(view') \cup Range(replay'[c]) = Range(view) \cup Range(replay[c])
      BY <1>1, <2>1, <2>2, <2>3, ViewGrows DEF ViewInv
    <3>2. Follows(Range(view') \cup Range(replay'[c]), channel'[c])
      BY <2>1, <2>3, <3>1 DEF ViewInv
    <3> QED BY <2>1, <2>3, <3>1, <3>2 DEF ViewInv
  <2>4. CASE current # c
    <3>1. view' = view
      BY <2>1, <2>4 DEF writeDeploymentLogEvent
    <3> QED BY <2>1, <2>2, <2>4, <3>1 DEF ViewInv
  <2> QED BY <2>3, <2>4
<1>10. ASSUME NEW c \in Conn, Forward(c) PROVE ViewInv'
  <2>1. /\ UNCHANGED <<table, replay, handler, current>>
        /\ replay[c] = <<>> /\ channel[c] # <<>> /\ handler[c] = "stream"
        /\ writeDeploymentLogEvent(c, Head(channel[c]))
        /\ channel' = [channel EXCEPT ![c] = Tail(channel[c])]
    BY <1>10 DEF Forward, Receive
  <2>2. channel'[c] = Tail(channel[c]) /\ \A d \in Conn : d # c => channel'[d] = channel[d]
    BY <2>1 DEF TypeOK
  <2>3. CASE current = c
    <3>1. Range(replay[c]) = {}
      BY <2>1, FollowsEmpty
    <3>2. Follows(Range(view), channel[c])
      <4>1. Range(view) \cup Range(replay[c]) = Range(view)
        BY <3>1
      <4> QED BY <2>1, <2>3, <4>1 DEF ViewInv
    <3>3. /\ Follows({}, view') /\ Distinct(view')
          /\ Follows(Range(view'), channel'[c])
      BY <1>1, <2>1, <2>2, <2>3, <3>2, ViewGrows
    <3>4. Range(view') \cup Range(replay'[c]) = Range(view')
      BY <2>1, <3>1
    <3>5. Follows(Range(view'), replay'[c])
      BY <2>1, FollowsEmpty
    <3> QED BY <2>1, <2>3, <3>3, <3>4, <3>5 DEF ViewInv
  <2>4. CASE current # c
    <3>1. view' = view
      BY <2>1, <2>4 DEF writeDeploymentLogEvent
    <3> QED BY <2>1, <2>2, <2>4, <3>1 DEF ViewInv
  <2> QED BY <2>3, <2>4
<1>11. ASSUME NEW c \in Conn, Close(c) PROVE ViewInv'
  <2>1. /\ UNCHANGED <<table, view, replay, channel, current>>
        /\ \A d \in Conn : d # c => handler'[d] = handler[d]
        /\ current # c
    BY <1>11 DEF Close, Handle, Unsubscribe, clientVars
  <2> QED BY <2>1, ViewStays
<1>12. ASSUME NEW c \in Conn, Open(c) PROVE ViewInv'
  <2>1. UNCHANGED <<table, view, replay, channel>> /\ current' = c /\ handler'[c] = "accept"
    BY <1>12 DEF Open, Handle, brokerVars, TypeOK
  <2> QED BY <2>1, ViewStays
<1>13. CASE Fetch
  <2>1. current' = NoConn /\ (view' = view \/ view' = table)
    BY <1>13 DEF Fetch, BrokerInv
  <2>2. Follows({}, view') /\ Distinct(view')
    BY <2>1 DEF ViewInv, TableInv
  <2> QED BY <1>3, <2>1, <2>2 DEF ViewInv
<1>14. CASE Cut \/ Restart
  <2>1. current' = NoConn /\ view' = view
    BY <1>14 DEF Cut, Restart
  <2> QED BY <1>3, <2>1 DEF ViewInv
<1>15. CASE UNCHANGED vars
  BY <1>15, ViewStays DEF vars, brokerVars
<1> QED BY <1>4, <1>5, <1>6, <1>7, <1>8, <1>9, <1>10, <1>11, <1>12, <1>13, <1>14, <1>15
        DEF Next, AwaitRequests

\* The browser shows the entries of each goroutine in their order, each once,
\* whether it had them from the fetch, from the history of any number of
\* connections or from their live part: whenever inserts and histories succeed
\* and no broadcast finds a full channel.
THEOREM InOrderCorrect ==
  ASSUME HistoryAnswers, InsertsSucceed
  PROVE  Spec /\ []NoneDropped => []InOrder
<1>1. Init => ViewInv
  <2>1. Init => view = <<>> /\ \A c \in Conn : current # c
    BY StreamAssumption DEF Init
  <2> QED BY <2>1, FollowsEmpty DEF ViewInv
<1>2. /\ TypeOK /\ StreamInv /\ BrokerInv /\ TableInv /\ ChannelInv
      /\ NoneDropped /\ NothingMissed /\ ViewInv /\ [Next]_vars
      => ViewInv'
  BY ViewStep
<1>3. TypeOK /\ ViewInv => InOrder
  BY OrderOfFollows DEF TypeOK, ViewInv
<1>4. Spec => []TableInv
  BY TableCorrect
<1>5. Spec /\ []NoneDropped => []NothingMissed
  BY NothingMissedCorrect
<1> QED BY <1>1, <1>2, <1>3, <1>4, <1>5, BrokerCorrect, ChannelCorrect, PTL DEF Spec

\* All three where a channel has room for every entry, as in the run log_order.
THEOREM LogsComplete ==
  ASSUME Room, HistoryAnswers, InsertsSucceed
  PROVE  Spec => [](NothingMissed /\ InOrder /\ StreamComplete)
<1>1. Spec => []NoneDropped
  BY NoneDroppedCorrect
<1>2. Spec /\ []NoneDropped => []NothingMissed
  BY NothingMissedCorrect
<1>3. Spec /\ []NoneDropped => []InOrder
  BY InOrderCorrect
<1>4. Spec /\ []NoneDropped => []StreamComplete
  BY StreamCompleteCorrect
<1> QED BY <1>1, <1>2, <1>3, <1>4, PTL
=============================================================================
