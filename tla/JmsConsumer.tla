----------------------------- MODULE JmsConsumer -----------------------------
(***************************************************************************)
(* The jms_queue_consumer starter (src/starters/jms_consumer.go) and the   *)
(* receive loop below it (ConsumeQueue in                                  *)
(* src/components/jms/tibco/tibco_linux.go and tibco_windows.go).  The     *)
(* starter runs consumerCount goroutines on one connection; each opens a   *)
(* session, polls the queue and calls the route on what it receives,       *)
(* replies when the message asks for it, and in CLIENT mode acknowledges.  *)
(*                                                                         *)
(* The broker is external.  A queue is a set: the broker may hand out its  *)
(* messages in any order (priorities, redelivery).  What a session has     *)
(* received and not acknowledged goes back to the queue when the session   *)
(* or the connection ends.                                                 *)
(***************************************************************************)
EXTENDS Naturals, FiniteSets

CONSTANTS
  Consumers,   \* the goroutines of the starter (property consumerCount)
  Msgs,        \* messages producers send to the queue
  Selected,    \* those the message selector lets through
  WantsReply,  \* those with a JMSReplyTo header
  Fickle,      \* those whose reply queue may be gone before the reply is sent
  Poison,      \* those the route, or a jmsProperties expression, always fails on
  NoMsg,       \* the nil message handle
  MaxFaults    \* bound on the failures of a behaviour

ASSUME ConsumerAssumption ==
  /\ IsFiniteSet(Consumers)
  /\ Selected \subseteq Msgs
  /\ WantsReply \subseteq Msgs /\ Fickle \subseteq WantsReply
  /\ Poison \subseteq Msgs
  /\ NoMsg \notin Msgs
  /\ MaxFaults \in Nat

VARIABLES
  mode,       \* property acknowledgementMode
  arrived,    \* messages sent so far
  queue,      \* messages the broker has to hand out
  settled,    \* messages acknowledged to the broker
  unacked,    \* received by a session and not acknowledged
  connected,  \* the connection of the JMS component works
  done,       \* Stop has closed the done channel
  pc, cur,    \* where each goroutine is, and the message it has received
  runs,       \* history: how often the route has completed for a message
  replied,    \* history: messages a reply was sent for
  slipped,    \* history: routed, then kept from being acknowledged by a failure
  faults      \* failures so far

broker  == <<arrived, queue, settled, unacked, connected>>
history == <<runs, replied, slipped>>
vars    == <<mode, broker, done, pc, cur, history, faults>>

Modes == {"AUTO", "CLIENT", "DUPS_OK"}
Pcs   == {"open", "poll", "receive", "handle", "reply", "ack", "close", "closed", "down"}
Ended == {"closed", "down"}

Fault   == faults < MaxFaults /\ faults' = faults + 1
NoFault == UNCHANGED faults

GoTo(c, label) == pc' = [pc EXCEPT ![c] = label]
Held == UNION {unacked[c] : c \in Consumers}
NoneUnacked == [c \in Consumers |-> {}]
-----------------------------------------------------------------------------
Init ==
  /\ mode \in Modes
  /\ arrived = {} /\ queue = {} /\ settled = {}
  /\ unacked = NoneUnacked
  /\ connected = TRUE
  /\ done = FALSE
  /\ pc = [c \in Consumers |-> "open"]
  /\ cur = [c \in Consumers |-> NoMsg]
  /\ runs = [m \in Msgs |-> 0]
  /\ replied = {} /\ slipped = {}
  /\ faults = 0

Arrive(m) ==
  /\ m \notin arrived
  /\ arrived' = arrived \cup {m}
  /\ queue' = queue \cup {m}
  /\ UNCHANGED <<mode, settled, unacked, connected, done, pc, cur, history, faults>>

\* Creates session, destination and consumer; an error ends the goroutine.
Open(c) ==
  /\ pc[c] = "open"
  /\ \/ connected /\ NoFault /\ GoTo(c, "poll")
     \/ connected /\ Fault /\ GoTo(c, "closed")
     \/ ~connected /\ NoFault /\ GoTo(c, "closed")
  /\ UNCHANGED <<mode, broker, done, cur, history>>

\* Mutant: the loop does not look at the done channel.
PollIgnoringDone(c) ==
  /\ pc[c] = "poll"
  /\ GoTo(c, "receive")
  /\ UNCHANGED <<mode, broker, done, cur, history, faults>>

\* The head of the loop looks at the done channel.
Poll(c) ==
  /\ pc[c] = "poll"
  /\ GoTo(c, IF done THEN "close" ELSE "receive")
  /\ UNCHANGED <<mode, broker, done, cur, history, faults>>

\* Mutant: the message is acknowledged before the closure is called.
ReceiveAcking(c, m) ==
  /\ pc[c] = "receive" /\ connected
  /\ m \in queue \cap Selected
  /\ queue' = queue \ {m}
  /\ settled' = settled \cup {m}
  /\ cur' = [cur EXCEPT ![c] = m]
  /\ GoTo(c, "handle")
  /\ UNCHANGED <<mode, arrived, unacked, connected, done, history, faults>>

\* Mutant: the session ignores the acknowledgementMode of the starter.
ReceiveKeeping(c, m) ==
  /\ pc[c] = "receive" /\ connected
  /\ m \in queue \cap Selected
  /\ queue' = queue \ {m}
  /\ unacked' = [unacked EXCEPT ![c] = @ \cup {m}]
  /\ cur' = [cur EXCEPT ![c] = m]
  /\ GoTo(c, "handle")
  /\ UNCHANGED <<mode, arrived, settled, connected, done, history, faults>>

\* In AUTO mode the message counts as acknowledged once it is received.
Receive(c, m) ==
  /\ pc[c] = "receive" /\ connected
  /\ m \in queue \cap Selected
  /\ queue' = queue \ {m}
  /\ IF mode = "AUTO"
       THEN settled' = settled \cup {m} /\ UNCHANGED unacked
       ELSE unacked' = [unacked EXCEPT ![c] = @ \cup {m}] /\ UNCHANGED settled
  /\ cur' = [cur EXCEPT ![c] = m]
  /\ GoTo(c, "handle")
  /\ UNCHANGED <<mode, arrived, connected, done, history, faults>>

\* Mutant: the message handle is not compared with nil.
ReceiveNil(c) ==
  /\ pc[c] = "receive"
  /\ GoTo(c, "handle")
  /\ UNCHANGED <<mode, broker, done, cur, history, faults>>

\* The receive times out, or fails: the status is not looked at, only the
\* message handle, which is nil in both cases.
ReceiveNothing(c) ==
  /\ pc[c] = "receive"
  /\ GoTo(c, "poll")
  /\ UNCHANGED <<mode, broker, done, cur, history, faults>>

\* Mutant: the closure returns after the route, also when a reply is due.
HandleSilent(c) ==
  /\ pc[c] = "handle" /\ cur[c] \notin Poison
  /\ runs' = [runs EXCEPT ![cur[c]] = @ + 1]
  /\ GoTo(c, "ack")
  /\ UNCHANGED <<mode, broker, done, cur, replied, slipped, faults>>

\* The closure of Start: jmsProperties, then the route.  An error ends the
\* goroutine, after the deferred closes.
Handle(c) ==
  LET m == cur[c] IN
  /\ pc[c] = "handle"
  /\ \/ /\ m \notin Poison
        /\ NoFault
        /\ runs' = [runs EXCEPT ![m] = @ + 1]
        /\ GoTo(c, IF m \in WantsReply THEN "reply" ELSE "ack")
     \/ /\ (m \notin Poison /\ Fault) \/ (m \in Poison /\ NoFault)
        /\ UNCHANGED runs
        /\ GoTo(c, "close")
  /\ UNCHANGED <<mode, broker, done, cur, replied, slipped>>

\* PublishTextMessage to the JMSReplyTo queue; its error is the closure's,
\* also when the reply is out and only its message id cannot be read.
Reply(c) ==
  /\ pc[c] = "reply"
  /\ \/ /\ connected /\ NoFault
        /\ replied' = replied \cup {cur[c]}
        /\ GoTo(c, "ack")
        /\ UNCHANGED slipped
     \/ /\ \/ /\ connected /\ Fault
              /\ UNCHANGED replied \/ replied' = replied \cup {cur[c]}
           \/ /\ ~connected \/ cur[c] \in Fickle
              /\ NoFault /\ UNCHANGED replied
        /\ slipped' = slipped \cup {cur[c]}
        /\ GoTo(c, "close")
  /\ UNCHANGED <<mode, broker, done, cur, runs>>

\* Mutant: no mode is acknowledged explicitly.
AckNever(c) ==
  /\ pc[c] = "ack"
  /\ cur' = [cur EXCEPT ![c] = NoMsg]
  /\ GoTo(c, "poll")
  /\ UNCHANGED <<mode, broker, done, history, faults>>

\* Mutant: the message handle is declared outside the loop, so that a receive
\* that times out handles the previous message again.
AckKeeping(c) ==
  /\ pc[c] = "ack" /\ connected
  /\ IF mode = "CLIENT"
       THEN /\ settled' = settled \cup unacked[c]
            /\ unacked' = [unacked EXCEPT ![c] = {}]
       ELSE UNCHANGED <<settled, unacked>>
  /\ GoTo(c, "handle")
  /\ UNCHANGED <<mode, arrived, queue, connected, done, cur, history, faults>>

\* In CLIENT mode acknowledges all the session has received; the status is
\* not looked at.
Ack(c) ==
  /\ pc[c] = "ack"
  /\ \/ /\ mode = "CLIENT" /\ connected /\ NoFault
        /\ settled' = settled \cup unacked[c]
        /\ unacked' = [unacked EXCEPT ![c] = {}]
        /\ UNCHANGED slipped
     \/ /\ mode = "CLIENT"
        /\ (connected /\ Fault) \/ (~connected /\ NoFault)
        /\ slipped' = slipped \cup {cur[c]}
        /\ UNCHANGED <<settled, unacked>>
     \/ /\ mode # "CLIENT" /\ NoFault
        /\ UNCHANGED <<settled, unacked, slipped>>
  /\ cur' = [cur EXCEPT ![c] = NoMsg]
  /\ GoTo(c, "poll")
  /\ UNCHANGED <<mode, arrived, queue, connected, done, runs, replied>>

\* In DUPS_OK mode the client library acknowledges when it sees fit.
LazyAck(c) ==
  /\ mode = "DUPS_OK" /\ connected /\ unacked[c] # {}
  /\ settled' = settled \cup unacked[c]
  /\ unacked' = [unacked EXCEPT ![c] = {}]
  /\ UNCHANGED <<mode, arrived, queue, connected, done, pc, cur, history, faults>>

\* Mutant: the session is left open.
CloseNoSession(c) ==
  /\ pc[c] = "close"
  /\ cur' = [cur EXCEPT ![c] = NoMsg]
  /\ GoTo(c, "closed")
  /\ UNCHANGED <<mode, broker, done, history, faults>>

\* The deferred closes of ConsumeQueue.
Close(c) ==
  /\ pc[c] = "close"
  /\ queue' = queue \cup unacked[c]
  /\ unacked' = [unacked EXCEPT ![c] = {}]
  /\ cur' = [cur EXCEPT ![c] = NoMsg]
  /\ GoTo(c, "closed")
  /\ UNCHANGED <<mode, arrived, settled, connected, done, history, faults>>
-----------------------------------------------------------------------------
Stop ==
  /\ ~done
  /\ done' = TRUE
  /\ UNCHANGED <<mode, broker, pc, cur, history, faults>>

\* The broker drops the connection; nothing in the program opens it again.
Disconnect ==
  /\ connected /\ Fault
  /\ connected' = FALSE
  /\ queue' = queue \cup Held
  /\ unacked' = NoneUnacked
  /\ UNCHANGED <<mode, arrived, settled, done, pc, cur, history>>

Crash ==
  /\ \E c \in Consumers : pc[c] # "down"
  /\ Fault
  /\ connected' = FALSE
  /\ queue' = queue \cup Held
  /\ unacked' = NoneUnacked
  /\ slipped' = slipped \cup {cur[c] : c \in {d \in Consumers : pc[d] \in {"reply", "ack"}}}
  /\ pc' = [c \in Consumers |-> "down"]
  /\ cur' = [c \in Consumers |-> NoMsg]
  /\ UNCHANGED <<mode, arrived, settled, done, runs, replied>>

\* The component connects and the starter starts its goroutines again.
Restart ==
  /\ \A c \in Consumers : pc[c] = "down"
  /\ connected' = TRUE
  /\ done' = FALSE
  /\ pc' = [c \in Consumers |-> "open"]
  /\ UNCHANGED <<mode, arrived, queue, settled, unacked, cur, history, faults>>
-----------------------------------------------------------------------------
Consumer(c) ==
  \/ Open(c) \/ Poll(c) \/ ReceiveNothing(c)
  \/ Handle(c) \/ Reply(c) \/ Ack(c) \/ Close(c)

Next ==
  \/ \E m \in Msgs : Arrive(m)
  \/ \E c \in Consumers : Consumer(c) \/ LazyAck(c) \/ \E m \in Msgs : Receive(c, m)
  \/ Stop \/ Disconnect \/ Crash \/ Restart

Spec == Init /\ [][Next]_vars

\* The Go scheduler runs every goroutine, every call of the route returns,
\* and the broker does not pass over a message for ever while consumers
\* keep asking for it.
Fairness ==
  /\ \A c \in Consumers : WF_vars(Consumer(c))
  /\ \A m \in Msgs : SF_vars(\E c \in Consumers : Receive(c, m))

FairSpec == Spec /\ Fairness
-----------------------------------------------------------------------------
(* What the starter should guarantee.                                      *)

\* Every variable has its type, and a goroutine that calls the closure has
\* received a message: the nil handle of a receive that timed out never
\* gets there.
TypeOK ==
  /\ mode \in Modes
  /\ arrived \subseteq Msgs /\ queue \subseteq Msgs /\ settled \subseteq Msgs
  /\ unacked \in [Consumers -> SUBSET Msgs]
  /\ connected \in BOOLEAN /\ done \in BOOLEAN
  /\ pc \in [Consumers -> Pcs]
  /\ cur \in [Consumers -> Msgs \cup {NoMsg}]
  /\ \A c \in Consumers : pc[c] \in {"handle", "reply", "ack"} => cur[c] \in Msgs
  /\ runs \in [Msgs -> Nat]
  /\ replied \subseteq Msgs /\ slipped \subseteq Msgs
  /\ faults \in 0..MaxFaults

\* In CLIENT mode a message is acknowledged only after the route has
\* completed for it and its reply, if it wants one, has been sent: not even
\* the acknowledgement of a later message of the same session, which covers
\* all the session has received, says otherwise.
AckedWasRouted ==
  mode = "CLIENT" => \A m \in settled : /\ runs[m] > 0
                                       /\ m \in WantsReply => m \in replied

\* Messages of AUTO mode that are gone and never got through the route.
Lost == {m \in settled \ Poison : runs[m] = 0 /\ \A c \in Consumers : cur[c] # m}

\* In AUTO mode the route completes at most once for a message, and one
\* failure loses at most one message per consumer.
AutoAtMostOnce ==
  mode = "AUTO" => /\ \A m \in Msgs : runs[m] <= 1
                   /\ Cardinality(Lost) <= faults * Cardinality(Consumers)

\* In CLIENT mode the route is about to run again for a message it has
\* completed for only if the reply, the acknowledgement, the connection or
\* the process failed in between; and, unless the requester has a hand in it,
\* each failure brings back a message once at most.
RerunExcused ==
  mode = "CLIENT" =>
    /\ \A c \in Consumers : pc[c] = "handle" /\ runs[cur[c]] > 0 => cur[c] \in slipped
    /\ \A m \in Msgs \ Fickle : runs[m] <= faults + 1

Broker == INSTANCE QueueDelivery

\* The starter implements QueueDelivery: no interleaving of goroutines, lost
\* connections, crashes and restarts routes a settled message again in CLIENT
\* mode, settles one before it is routed there, or routes one twice in AUTO.
KeepsDelivery == Broker!Spec

\* In CLIENT mode, while the connection works, nobody stops the starter and
\* one goroutine is left, every selected message is eventually routed: also
\* one that came back to the queue from a goroutine that ended.
QueueServed ==
  (<>[](connected /\ ~done /\ \E c \in Consumers : pc[c] \notin Ended))
     => \A m \in Selected \ Poison :
          mode = "CLIENT" /\ m \in queue ~> mode # "CLIENT" \/ runs[m] > 0

\* After Stop every goroutine returns.
StopEndsConsumers ==
  done ~> ~done \/ \A c \in Consumers : pc[c] \in Ended

\* ConsumeQueue "returns when done is closed or an unrecoverable error
\* occurs" (tibco_windows.go:153): a lost connection ends the goroutines.
LostConnectionEndsConsumers ==
  ~connected ~> connected \/ \A c \in Consumers : pc[c] \in Ended
=============================================================================
