------------------------------ MODULE LogBroker ------------------------------
(***************************************************************************)
(* internal/services/deployment_log_broker.go, for the subscribers of one  *)
(* deployment.  A connection's channel is named by the connection.         *)
(* Broadcast holds the read lock while it sends, one channel after the     *)
(* other; subscribing and unsubscribing hold the write lock.               *)
(***************************************************************************)
EXTENDS Naturals, Sequences

CONSTANTS
  Logger,       \* goroutines that log: the scanners of a build, the worker
  Conn,         \* connections to the stream, each used once
  Capacity      \* the capacity of a channel (128 in the code)

VARIABLES
  readers,      \* loggers that hold the read lock
  subscribers,  \* the connections in the broker's map
  sending,      \* the channels a broadcast has still to visit
  channel,      \* the contents of each channel
  closed        \* the channels that have been closed

brokerVars == <<readers, subscribers, sending, channel, closed>>

\* Broadcast takes the lock and reads the map.
RLock(l) ==
  /\ readers' = readers \cup {l}
  /\ sending' = [sending EXCEPT ![l] = subscribers]
  /\ UNCHANGED <<subscribers, channel, closed>>

\* Mutants: a queue without a limit; a plain send, which waits for room.
SendUnbounded(l, entry) ==
  \E c \in sending[l] :
    /\ channel' = [channel EXCEPT ![c] = Append(@, entry)]
    /\ sending' = [sending EXCEPT ![l] = @ \ {c}]
    /\ UNCHANGED <<readers, subscribers, closed>>
SendBlocking(l, entry) ==
  \E c \in sending[l] :
    /\ Len(channel[c]) < Capacity
    /\ channel' = [channel EXCEPT ![c] = Append(@, entry)]
    /\ sending' = [sending EXCEPT ![l] = @ \ {c}]
    /\ UNCHANGED <<readers, subscribers, closed>>

\* The select with a default: a full channel is skipped.
Send(l, entry) ==
  \E c \in sending[l] :
    /\ channel' = [channel EXCEPT ![c] = IF Len(@) < Capacity THEN Append(@, entry) ELSE @]
    /\ sending' = [sending EXCEPT ![l] = @ \ {c}]
    /\ UNCHANGED <<readers, subscribers, closed>>

\* Mutant: the lock is only released by a broadcast that has sent something.
RUnlockIfSubscribed(l) ==
  /\ sending[l] = {}
  /\ readers' = IF subscribers = {} THEN readers ELSE readers \ {l}
  /\ UNCHANGED <<subscribers, sending, channel, closed>>

RUnlock(l) ==
  /\ sending[l] = {}
  /\ readers' = readers \ {l}
  /\ UNCHANGED <<subscribers, sending, channel, closed>>

Subscribe(c) ==
  /\ readers = {}
  /\ subscribers' = subscribers \cup {c}
  /\ UNCHANGED <<readers, sending, channel, closed>>

\* Mutants: the lock is not taken; the deployment's whole entry is deleted.
UnsubscribeUnlocked(c) ==
  /\ subscribers' = subscribers \ {c}
  /\ closed' = closed \cup {c}
  /\ UNCHANGED <<readers, sending, channel>>
UnsubscribeAll(c) ==
  /\ readers = {}
  /\ subscribers' = {}
  /\ closed' = closed \cup {c}
  /\ UNCHANGED <<readers, sending, channel>>

Unsubscribe(c) ==
  /\ readers = {}
  /\ subscribers' = subscribers \ {c}
  /\ closed' = closed \cup {c}
  /\ UNCHANGED <<readers, sending, channel>>

Receive(c) ==
  /\ channel[c] # <<>>
  /\ channel' = [channel EXCEPT ![c] = Tail(@)]
  /\ UNCHANGED <<readers, subscribers, sending, closed>>
=============================================================================
