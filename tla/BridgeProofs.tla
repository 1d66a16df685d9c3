---------------------------- MODULE BridgeProofs -----------------------------
(***************************************************************************)
(* Proofs about the two bridges joined by a queue, for any number of       *)
(* clients, calls and consumers, and any failures.  What holds of the      *)
(* components is taken from their own proofs: a step of the whole is a     *)
(* step of each or leaves it alone.                                        *)
(***************************************************************************)
EXTENDS Bridge, FiniteSetTheorems, TLAPS

CallProofs == INSTANCE RequestReplyProofs WITH
        pc <- call, faults <- callFaults, MaxFaults <- MaxCallFaults,
        requests <- Pending, answered <- replied
ConsumerProofs == INSTANCE JmsConsumerProofs WITH
        Msgs <- Requests, Selected <- Requests, WantsReply <- Requests,
        Fickle <- Requests

-----------------------------------------------------------------------------
(* The components as they are proved about.                                *)

\* What the proofs of the components assume of their constants.
LEMMA Assumptions ==
  /\ CallProofs!RequestAssumption
  /\ ConsumerProofs!ConsumerAssumption
<1>1. ConsumerProofs!IsFiniteSet(Consumers)
  BY BridgeAssumption DEF ConsumerProofs!IsFiniteSet, IsFiniteSet
<1>2. QED
  BY <1>1, BridgeAssumption DEF CallProofs!RequestAssumption, ConsumerProofs!ConsumerAssumption

\* The actions of the two instances of JmsConsumer are the same.
LEMMA SameConsumers ==
  /\ \A m : JC!Arrive(m) <=> ConsumerProofs!Arrive(m)
  /\ \A c : /\ JC!Open(c) <=> ConsumerProofs!Open(c)
            /\ JC!Poll(c) <=> ConsumerProofs!Poll(c)
            /\ JC!ReceiveNothing(c) <=> ConsumerProofs!ReceiveNothing(c)
            /\ JC!Handle(c) <=> ConsumerProofs!Handle(c)
            /\ JC!Reply(c) <=> ConsumerProofs!Reply(c)
            /\ JC!Ack(c) <=> ConsumerProofs!Ack(c)
            /\ JC!Close(c) <=> ConsumerProofs!Close(c)
            /\ \A m : JC!Receive(c, m) <=> ConsumerProofs!Receive(c, m)
  /\ JC!Disconnect <=> ConsumerProofs!Disconnect
  /\ JC!Crash <=> ConsumerProofs!Crash
  /\ JC!Restart <=> ConsumerProofs!Restart
<1> USE DEF JC!GoTo, ConsumerProofs!GoTo, JC!Fault, ConsumerProofs!Fault,
            JC!NoFault, ConsumerProofs!NoFault, JC!broker, ConsumerProofs!broker,
            JC!history, ConsumerProofs!history
<1>1. \A m : JC!Arrive(m) <=> ConsumerProofs!Arrive(m)
  BY DEF JC!Arrive, ConsumerProofs!Arrive
<1>2. \A c : JC!Open(c) <=> ConsumerProofs!Open(c)
  BY DEF JC!Open, ConsumerProofs!Open
<1>3. \A c : JC!Poll(c) <=> ConsumerProofs!Poll(c)
  BY DEF JC!Poll, ConsumerProofs!Poll
<1>4. \A c : JC!ReceiveNothing(c) <=> ConsumerProofs!ReceiveNothing(c)
  BY DEF JC!ReceiveNothing, ConsumerProofs!ReceiveNothing
<1>5. \A c : JC!Handle(c) <=> ConsumerProofs!Handle(c)
  BY DEF JC!Handle, ConsumerProofs!Handle
<1>6. \A c : JC!Reply(c) <=> ConsumerProofs!Reply(c)
  BY DEF JC!Reply, ConsumerProofs!Reply
<1>7. \A c : JC!Ack(c) <=> ConsumerProofs!Ack(c)
  BY DEF JC!Ack, ConsumerProofs!Ack
<1>8. \A c : JC!Close(c) <=> ConsumerProofs!Close(c)
  BY DEF JC!Close, ConsumerProofs!Close
<1>9. \A c, m : JC!Receive(c, m) <=> ConsumerProofs!Receive(c, m)
  BY DEF JC!Receive, ConsumerProofs!Receive
<1>10. JC!Disconnect <=> ConsumerProofs!Disconnect
  BY DEF JC!Disconnect, ConsumerProofs!Disconnect, JC!Held, ConsumerProofs!Held,
         JC!NoneUnacked, ConsumerProofs!NoneUnacked
<1>11. JC!Crash <=> ConsumerProofs!Crash
  BY DEF JC!Crash, ConsumerProofs!Crash, JC!Held, ConsumerProofs!Held,
         JC!NoneUnacked, ConsumerProofs!NoneUnacked
<1>12. JC!Restart <=> ConsumerProofs!Restart
  BY DEF JC!Restart, ConsumerProofs!Restart
<1>13. QED
  BY <1>1, <1>2, <1>3, <1>4, <1>5, <1>6, <1>7, <1>8, <1>9, <1>10, <1>11, <1>12

\* And those of the two instances of RequestReply.
LEMMA SameCalls ==
  /\ \A k : /\ RR!Prepare(k) <=> CallProofs!Prepare(k)
            /\ RR!Send(k) <=> CallProofs!Send(k)
            /\ RR!OpenReply(k) <=> CallProofs!OpenReply(k)
            /\ RR!Timeout(k) <=> CallProofs!Timeout(k)
            /\ RR!ReceiveFails(k) <=> CallProofs!ReceiveFails(k)
            /\ \A r : RR!ReceiveReply(k, r) <=> CallProofs!ReceiveReply(k, r)
  /\ RR!Disconnect <=> CallProofs!Disconnect
  /\ \A r : RR!Answer(r) <=> CallProofs!Answer(r)
  /\ \A S : /\ RR!Lose(S) <=> CallProofs!Lose(S)
            /\ RR!Redeliver(S) <=> CallProofs!Redeliver(S)
  /\ RR!Requests = CallProofs!Requests
<1> USE DEF RR!GoTo, CallProofs!GoTo, RR!Fault, CallProofs!Fault, RR!NoFault, CallProofs!NoFault,
            RR!Request, CallProofs!Request, RR!Unwind, CallProofs!Unwind, RR!Handles,
            CallProofs!Handles, RR!OpenKinds, CallProofs!OpenKinds, RR!Released,
            CallProofs!Released, RR!QueueOf, CallProofs!QueueOf, RR!Shared, CallProofs!Shared,
            RR!callState, CallProofs!callState, RR!Works, CallProofs!Works, RR!Fails,
            CallProofs!Fails
<1>1. \A k : RR!Prepare(k) <=> CallProofs!Prepare(k)
  BY DEF RR!Prepare, CallProofs!Prepare, RR!FirstOpened, CallProofs!FirstOpened, RR!AllOpened,
         CallProofs!AllOpened, RR!Opened, CallProofs!Opened, RR!NewTemps, CallProofs!NewTemps,
         RR!Active, CallProofs!Active
<1>2. \A k : RR!Send(k) <=> CallProofs!Send(k)
  BY DEF RR!Send, CallProofs!Send
<1>3. \A k : RR!OpenReply(k) <=> CallProofs!OpenReply(k)
  BY DEF RR!OpenReply, CallProofs!OpenReply
<1>4. \A k : RR!Timeout(k) <=> CallProofs!Timeout(k)
  BY DEF RR!Timeout, CallProofs!Timeout, RR!NoReply, CallProofs!NoReply, RR!RunDeferred,
         CallProofs!RunDeferred, RR!DeleteQueue, CallProofs!DeleteQueue
<1>5. \A k, r : RR!ReceiveReply(k, r) <=> CallProofs!ReceiveReply(k, r)
  BY DEF RR!ReceiveReply, CallProofs!ReceiveReply, RR!RunDeferred, CallProofs!RunDeferred,
         RR!DeleteQueue, CallProofs!DeleteQueue
<1>6. \A r : RR!Answer(r) <=> CallProofs!Answer(r)
  BY DEF RR!Answer, CallProofs!Answer
<1>7. \A S : RR!Lose(S) <=> CallProofs!Lose(S)
  BY DEF RR!Lose, CallProofs!Lose
<1>8. \A S : RR!Redeliver(S) <=> CallProofs!Redeliver(S)
  BY DEF RR!Redeliver, CallProofs!Redeliver
<1>9. \A k : RR!ReceiveFails(k) <=> CallProofs!ReceiveFails(k)
  BY DEF RR!ReceiveFails, CallProofs!ReceiveFails, RR!NoReply, CallProofs!NoReply,
         RR!RunDeferred, CallProofs!RunDeferred, RR!DeleteQueue, CallProofs!DeleteQueue
<1>10. RR!Disconnect <=> CallProofs!Disconnect
  BY DEF RR!Disconnect, CallProofs!Disconnect
<1>11. QED
  BY <1>1, <1>2, <1>3, <1>4, <1>5, <1>6, <1>7, <1>8, <1>9, <1>10
     DEF RR!Requests, CallProofs!Requests
-----------------------------------------------------------------------------
(* Every step of the bridges is a step of each component, or leaves it.    *)

\* What the components' proofs establish, and the modes considered here.
Parts == CallProofs!Safe /\ ConsumerProofs!Safe /\ mode \in {"AUTO", "CLIENT"}

\* The consumer goroutines and their broker.
LEMMA ConsumersStep ==
  ASSUME Parts, [Next]_vars PROVE [ConsumerProofs!Next]_(ConsumerProofs!vars)
<1> USE SameConsumers
<1>1. UNCHANGED consVars => UNCHANGED ConsumerProofs!vars
  BY DEF consVars, ConsumerProofs!vars, ConsumerProofs!broker, ConsumerProofs!history
<1>2. ASSUME NEW k \in Callers, Post(k) \/ Reject(k) \/ Wait(k) \/ Finish(k) \/ Answer(k)
      PROVE  UNCHANGED consVars
  BY <1>2, Zenon DEF Post, Reject, Wait, Finish, Answer
<1>3. ASSUME NEW k \in Callers, Send(k)
      PROVE  [ConsumerProofs!Next]_(ConsumerProofs!vars)
  <2>1. RR!Request(k) \in Requests
    <3>1. call[k] = "prepared"
      BY <1>3 DEF Send, RR!Send
    <3>2. QED
      BY <3>1 DEF Parts, CallProofs!Safe, CallProofs!Typed, CallProofs!Request, RR!Request,
                  CallProofs!Requests, Requests
  <2>2. QED
    BY <1>1, <1>3, <2>1 DEF Send, ConsumerProofs!Next
<1>4. ASSUME NEW c \in Consumers, Consume(c) PROVE ConsumerProofs!Next
  BY <1>4 DEF Consume, Reply, ConsumerProofs!Next, ConsumerProofs!Consumer
<1>5. ASSUME NEW c \in Consumers, NEW m \in Requests, Receive(c, m) PROVE ConsumerProofs!Next
  BY <1>5 DEF Receive, ConsumerProofs!Next
<1>6. CASE Upset
  BY <1>6 DEF Upset, ConsumerProofs!Next
<1>7. CASE FrontFails \/ UNCHANGED vars
  BY <1>1, <1>7 DEF FrontFails, vars
<1>8. QED
  BY <1>1, <1>2, <1>3, <1>4, <1>5, <1>6, <1>7, Zenon DEF Next, Serve

\* What is still to be answered, element by element.
LEMMA PendingIs ==
  \A r : r \in Pending <=>
    \/ r \in queue
    \/ \E c \in Consumers : \/ pc[c] \in Busy /\ r = cur[c]
                            \/ r \in unacked[c] /\ r \notin replied
<1>1. \A r : r \in {cur[c] : c \in {d \in Consumers : pc[d] \in Busy}}
              <=> \E c \in Consumers : pc[c] \in Busy /\ r = cur[c]
  OBVIOUS
<1>2. \A r : r \in UNION {unacked[c] : c \in Consumers} <=> \E c \in Consumers : r \in unacked[c]
  OBVIOUS
<1> DEFINE inHand == {cur[c] : c \in {d \in Consumers : pc[d] \in Busy}}
           held == UNION {unacked[c] : c \in Consumers}
<1>3. \A r : r \in Pending <=> r \in queue \/ r \in inHand \/ (r \in held /\ r \notin replied)
  BY DEF Pending
<1> HIDE DEF inHand, held
<1>4. \A r : (r \in inHand <=> \E c \in Consumers : pc[c] \in Busy /\ r = cur[c])
          /\ (r \in held <=> \E c \in Consumers : r \in unacked[c])
  BY <1>1, <1>2 DEF inHand, held
<1>5. QED
  BY <1>3, <1>4

LEMMA PendingNext ==
  \A r : r \in Pending' <=>
    \/ r \in queue'
    \/ \E c \in Consumers : \/ pc'[c] \in Busy /\ r = cur'[c]
                            \/ r \in unacked'[c] /\ r \notin replied'
<1>1. \A r : r \in {cur'[c] : c \in {d \in Consumers : pc'[d] \in Busy}}
              <=> \E c \in Consumers : pc'[c] \in Busy /\ r = cur'[c]
  OBVIOUS
<1>2. \A r : r \in UNION {unacked'[c] : c \in Consumers}
              <=> \E c \in Consumers : r \in unacked'[c]
  OBVIOUS
<1> DEFINE inHand == {cur'[c] : c \in {d \in Consumers : pc'[d] \in Busy}}
           held == UNION {unacked'[c] : c \in Consumers}
<1>3. \A r : r \in Pending' <=>
               r \in queue' \/ r \in inHand \/ (r \in held /\ r \notin replied')
  BY DEF Pending, Busy
<1> HIDE DEF inHand, held
<1>4. \A r : (r \in inHand <=> \E c \in Consumers : pc'[c] \in Busy /\ r = cur'[c])
          /\ (r \in held <=> \E c \in Consumers : r \in unacked'[c])
  BY <1>1, <1>2 DEF inHand, held
<1>5. QED
  BY <1>3, <1>4

LEMMA PendingTyped ==
  ASSUME ConsumerProofs!TypeOK PROVE Pending \subseteq Requests /\ replied \subseteq Requests
BY PendingIs DEF ConsumerProofs!TypeOK, Busy

\* A consumer that drops requests, or hands them back, is a service that
\* loses them, or gets them again.
LEMMA Dropped ==
  ASSUME ConsumerProofs!TypeOK, UNCHANGED <<callVars, replies, replied>>, Pending' \subseteq Pending
  PROVE  CallProofs!Next
<1> DEFINE S == Pending \ Pending'
<1>1. S \in SUBSET CallProofs!Requests
  BY PendingTyped DEF CallProofs!Requests, Requests
<1>2. CallProofs!Lose(S)
  BY DEF CallProofs!Lose, CallProofs!callState, callVars
<1>3. QED
  BY <1>1, <1>2 DEF CallProofs!Next

LEMMA HandedBack ==
  ASSUME ConsumerProofs!TypeOK, UNCHANGED <<callVars, replies, replied>>, NEW S,
         S \subseteq replied, Pending' = Pending \cup S
  PROVE  CallProofs!Next
<1>1. S \in SUBSET CallProofs!Requests
  BY PendingTyped DEF CallProofs!Requests, Requests
<1>2. CallProofs!Redeliver(S)
  BY DEF CallProofs!Redeliver, CallProofs!callState, callVars
<1>3. QED
  BY <1>1, <1>2 DEF CallProofs!Next

\* A reply answers a request that nobody else has, and that is not to come
\* back unless the session closes; one that fails may have done so too.
LEMMA Replied ==
  ASSUME Parts, NEW c \in Consumers, Reply(c), UNCHANGED callVars
  PROVE  CallProofs!Next
<1> USE DEF Parts, ConsumerProofs!Safe, ConsumerProofs!TypeOK, Busy
<1> DEFINE m == cur[c]
<1>1. /\ pc[c] = "reply" /\ m \in Requests
      /\ UNCHANGED <<mode, arrived, queue, settled, unacked, connected, cur>>
      /\ pc' = [pc EXCEPT ![c] = pc'[c]] /\ pc'[c] \in {"ack", "close"}
  BY DEF Reply, JC!Reply, JC!broker, JC!GoTo
<1>2. CASE connected /\ Delivered(c)
  <2>1. /\ connected /\ replied' = replied \cup {m} /\ m \in temps
        /\ replies' = replies \cup {<<m, m>>}
    BY <1>2 DEF Delivered, ReplyTo
  <2>2. m \notin queue /\ \A d \in Consumers : d # c /\ pc[d] \in {"handle", "reply"} => cur[d] # m
    BY <1>1, <2>1 DEF ConsumerProofs!Owned, ConsumerProofs!Busy
  <2>3. m \in Pending
    BY <1>1, PendingIs
  <2>4. \A r : r \in Pending' <=>
          \/ r \in queue
          \/ \E d \in Consumers : \/ pc'[d] \in Busy /\ r = cur[d]
                                  \/ r \in unacked[d] /\ r \notin replied'
    BY <1>1, PendingNext
  <2>5. Pending' = Pending \ {m}
    BY <1>1, <1>2, <2>1, <2>2, <2>4, PendingIs
  <2>6. CallProofs!QueueOf(m) = m
    BY BridgeAssumption DEF CallProofs!QueueOf, CallProofs!Safe, CallProofs!Typed
  <2>7. CallProofs!Answer(m)
    BY <2>1, <2>3, <2>5, <2>6 DEF CallProofs!Answer, CallProofs!callState, callVars
  <2>8. QED
    BY <1>1, <2>7 DEF CallProofs!Next, CallProofs!Requests, Requests
<1>3. CASE pc'[c] = "close" /\ UNCHANGED <<replied, replies>>
  <2>1. UNCHANGED <<replied, replies>>
    BY <1>3
  <2>2. Pending' \subseteq Pending
    BY <1>1, <1>3, <2>1, PendingIs, PendingNext
  <2>3. QED
    BY <2>1, <2>2, Dropped
<1>4. QED
  <2>1. pc'[c] = "ack" \/ faults' > faults => connected
    BY <1>1 DEF Reply, JC!Reply, JC!GoTo, JC!NoFault
  <2>2. QED
    BY <1>2, <1>3, <2>1 DEF Reply

\* The other steps of a goroutine drop what they give up, and Close hands
\* back what the session still holds, answered or not.
LEMMA Consumed ==
  ASSUME Parts, NEW c \in Consumers, Consume(c), ~Reply(c)
  PROVE  [CallProofs!Next]_(CallProofs!vars)
<1> USE DEF Parts, ConsumerProofs!Safe, ConsumerProofs!TypeOK, Busy
<1>1. UNCHANGED <<callVars, replies>>
  BY DEF Consume
<1>2. CASE JC!Close(c)
  <2>1. /\ queue' = queue \cup unacked[c] /\ unacked' = [unacked EXCEPT ![c] = {}]
        /\ pc[c] = "close" /\ pc' = [pc EXCEPT ![c] = "closed"]
        /\ cur' = [cur EXCEPT ![c] = NoMsg] /\ UNCHANGED replied
    BY <1>2 DEF JC!Close, JC!GoTo, JC!history
  <2> DEFINE S == unacked[c] \cap replied
  <2>2. ASSUME NEW r PROVE r \in Pending' <=> r \in Pending \cup S
    BY <2>1, PendingIs, PendingNext
  <2>3. Pending' = Pending \cup S
    BY <2>2
  <2>4. QED
    BY <1>1, <2>1, <2>3, HandedBack
<1>3. ASSUME \A d \in Consumers : pc'[d] \in Busy => pc[d] \in Busy /\ cur'[d] = cur[d],
             \A d \in Consumers : unacked'[d] \subseteq unacked[d],
             UNCHANGED <<queue, replied>>
      PROVE  CallProofs!Next
  <2>1. Pending' \subseteq Pending
    BY <1>3, PendingIs, PendingNext
  <2>2. QED
    BY <1>1, <1>3, <2>1, Dropped
<1>4. CASE JC!Open(c) \/ JC!Poll(c) \/ JC!ReceiveNothing(c) \/ JC!Handle(c)
  <2>1. UNCHANGED <<queue, unacked, cur, replied>>
    BY <1>4 DEF JC!Open, JC!Poll, JC!ReceiveNothing, JC!Handle, JC!broker, JC!history
  <2>2. PICK label : /\ pc' = [pc EXCEPT ![c] = label]
                     /\ label \notin Busy \/ pc[c] \in Busy
    BY <1>4 DEF JC!Open, JC!Poll, JC!ReceiveNothing, JC!Handle, JC!GoTo
  <2>3. \A d \in Consumers : pc'[d] \in Busy => pc[d] \in Busy
    BY <2>2
  <2>4. QED
    BY <1>3, <2>1, <2>3
<1>5. CASE JC!Ack(c)
  <2>1. UNCHANGED <<queue, replied>> /\ pc' = [pc EXCEPT ![c] = "poll"]
        /\ cur' = [cur EXCEPT ![c] = NoMsg]
    BY <1>5 DEF JC!Ack, JC!GoTo
  <2>2. unacked' = unacked \/ unacked' = [unacked EXCEPT ![c] = {}]
    BY <1>5 DEF JC!Ack
  <2>3. \A d \in Consumers : unacked'[d] \subseteq unacked[d]
    BY <2>2
  <2>4. QED
    BY <1>3, <2>1, <2>3
<1>6. QED
  BY <1>2, <1>4, <1>5 DEF Consume

\* A request that is received is still to be answered.
LEMMA Taken ==
  ASSUME Parts, NEW c \in Consumers, NEW m \in Requests, Receive(c, m)
  PROVE  CallProofs!Next
<1> USE DEF Parts, ConsumerProofs!Safe, ConsumerProofs!TypeOK, Busy
<1>1. /\ pc[c] = "receive" /\ pc' = [pc EXCEPT ![c] = "handle"]
      /\ m \in queue /\ queue' = queue \ {m} /\ cur' = [cur EXCEPT ![c] = m]
      /\ UNCHANGED <<callVars, replies, replied>>
  BY DEF Receive, JC!Receive, JC!GoTo, JC!history
<1>2. \A d \in Consumers : unacked'[d] \subseteq unacked[d] \cup {m}
  BY DEF Receive, JC!Receive
<1>3. Pending' \subseteq Pending
  <2>1. ASSUME NEW r \in Pending' PROVE r = m \/ r \in Pending
    BY <1>1, <1>2, PendingIs, PendingNext
  <2>2. m \in Pending
    BY <1>1, PendingIs
  <2>3. QED
    BY <2>1, <2>2
<1>4. QED
  BY <1>1, <1>3, Dropped

\* When the connection or the process goes, the broker takes back what is
\* not settled: in AUTO mode nothing, so that what was being worked on is
\* lost; in CLIENT mode all of it.
LEMMA Upsetting ==
  ASSUME Parts, Upset PROVE [CallProofs!Next]_(CallProofs!vars)
<1> USE DEF Parts, ConsumerProofs!Safe, ConsumerProofs!TypeOK, Busy
<1>1. UNCHANGED <<callVars, replies, replied>>
  BY DEF Upset, JC!Disconnect, JC!Crash, JC!Restart, JC!history
<1>2. \A r : r \in JC!Held <=> \E c \in Consumers : r \in unacked[c]
  BY DEF JC!Held
<1> DEFINE S == JC!Held \cap replied
<1>3. CASE JC!Disconnect
  <2>1. queue' = queue \cup JC!Held /\ UNCHANGED <<pc, cur>>
        /\ \A c \in Consumers : unacked'[c] = {}
    BY <1>3 DEF JC!Disconnect, JC!NoneUnacked
  <2>2. ASSUME NEW r PROVE r \in Pending' <=> r \in Pending \cup S
    BY <1>1, <1>2, <2>1, PendingIs, PendingNext
  <2>3. Pending' = Pending \cup S
    BY <2>2
  <2>4. QED
    BY <1>1, <2>3, HandedBack
<1>4. CASE JC!Crash
  <2>1. queue' = queue \cup JC!Held /\ \A c \in Consumers : unacked'[c] = {} /\ pc'[c] = "down"
    BY <1>4 DEF JC!Crash, JC!NoneUnacked
  <2>2. \A r : r \in Pending' <=> r \in queue \/ r \in JC!Held
    BY <2>1, PendingNext
  <2>3. CASE mode = "AUTO"
    <3>1. Pending' \subseteq Pending
      BY <1>2, <2>2, <2>3, PendingIs DEF ConsumerProofs!Owned
    <3>2. QED
      BY <1>1, <3>1, Dropped
  <2>4. CASE mode = "CLIENT"
    <3>1. ASSUME NEW c \in Consumers, pc[c] \in Busy PROVE cur[c] \in queue \cup JC!Held
      BY <1>2, <2>4, <3>1 DEF ConsumerProofs!Owned, ConsumerProofs!Kept, ConsumerProofs!Busy
    <3>2. ASSUME NEW r PROVE r \in Pending' <=> r \in Pending \cup S
      BY <1>2, <2>2, <3>1, PendingIs
    <3>3. Pending' = Pending \cup S
      BY <3>2
    <3>4. QED
      BY <1>1, <3>3, HandedBack
  <2>5. QED
    BY <2>3, <2>4
<1>5. CASE JC!Restart
  <2>1. UNCHANGED <<queue, unacked, cur>> /\ \A c \in Consumers : pc'[c] = "open" /\ pc[c] = "down"
    BY <1>5 DEF JC!Restart
  <2>2. Pending' \subseteq Pending
    BY <1>1, <2>1, PendingIs, PendingNext
  <2>3. QED
    BY <1>1, <2>2, Dropped
<1>6. QED
  BY <1>3, <1>4, <1>5 DEF Upset

\* The calls, and the service that the consumers are for them.
LEMMA CallsStep ==
  ASSUME Parts, [Next]_vars PROVE [CallProofs!Next]_(CallProofs!vars)
<1> USE SameCalls
<1>1. ASSUME UNCHANGED <<callVars, replies, consVars>> PROVE UNCHANGED CallProofs!vars
  BY <1>1 DEF callVars, consVars, CallProofs!vars, Pending, Busy
<1>2. ASSUME NEW k \in Callers, Post(k) \/ Send(k) \/ Wait(k) PROVE CallProofs!Next
  <2>1. \/ RR!Prepare(k) \/ RR!Send(k) \/ RR!OpenReply(k) \/ RR!Timeout(k)
        \/ \E r \in Requests : RR!ReceiveReply(k, r)
    BY <1>2, Zenon DEF Post, Send, Wait
  <2>2. CallProofs!Requests = Requests
    BY DEF CallProofs!Requests, Requests
  <2>3. QED
    BY <2>1, <2>2 DEF CallProofs!Next, CallProofs!Continue
<1>3. ASSUME NEW k \in Callers, Reject(k) \/ Finish(k) \/ Answer(k)
      PROVE  UNCHANGED <<callVars, replies, consVars>>
  BY <1>3, Zenon DEF Reject, Finish, Answer
<1>4. ASSUME NEW c \in Consumers, Consume(c) PROVE [CallProofs!Next]_(CallProofs!vars)
  <2>1. UNCHANGED callVars
    BY <1>4 DEF Consume
  <2>2. QED
    BY <1>4, <2>1, Replied, Consumed
<1>5. ASSUME NEW c \in Consumers, NEW m \in Requests, Receive(c, m) PROVE CallProofs!Next
  BY <1>5, Taken
<1>6. CASE Upset
  BY <1>6, Upsetting
<1>7. CASE FrontFails
  BY <1>7, Zenon DEF FrontFails, CallProofs!Next
<1>8. CASE UNCHANGED vars
  BY <1>1, <1>8 DEF vars
<1>9. QED
  BY <1>1, <1>2, <1>3, <1>4, <1>5, <1>6, <1>7, <1>8, Zenon DEF Next, Serve
-----------------------------------------------------------------------------
(* The components' invariants hold in the whole.                           *)

LEMMA InitParts == Init => Parts
<1> SUFFICES ASSUME Init PROVE Parts
  OBVIOUS
<1>1. CallProofs!Safe
  <2>1. Pending = {}
    BY DEF Init, JC!Init, JC!NoneUnacked, Pending, Busy
  <2>2. QED
    BY <2>1, BridgeAssumption
       DEF Init, RR!Init, JC!Init, CallProofs!Safe, CallProofs!Typed, CallProofs!QueueInv,
           CallProofs!GotInv, CallProofs!WaitInv, CallProofs!Pcs, CallProofs!Active,
           CallProofs!Requests, Requests
<1>2. ConsumerProofs!Init
  BY DEF Init, JC!Init, ConsumerProofs!Init, JC!Modes, ConsumerProofs!Modes, JC!NoneUnacked,
         ConsumerProofs!NoneUnacked
<1>3. ConsumerProofs!Safe
  BY <1>2, Assumptions, ConsumerProofs!SafeInit DEF ConsumerProofs!ConsumerAssumption
<1>4. QED
  BY <1>1, <1>3 DEF Parts, Init

LEMMA PartsStep ==
  ASSUME Parts, [Next]_vars PROVE Parts'
<1>1. CallProofs!Safe'
  BY CallsStep, Assumptions, CallProofs!TypedStep, CallProofs!QueueStep, CallProofs!GotStep,
     CallProofs!WaitStep
     DEF Parts, CallProofs!Safe, CallProofs!RequestAssumption
<1>2. [ConsumerProofs!Next]_(ConsumerProofs!vars)
  BY ConsumersStep
<1>3. ConsumerProofs!Safe'
  BY <1>2, Assumptions, ConsumerProofs!TypedStep, ConsumerProofs!OwnedStep,
     ConsumerProofs!KeptStep, ConsumerProofs!ClientStep, ConsumerProofs!RerunStep,
     ConsumerProofs!AutoStep
     DEF Parts, ConsumerProofs!Safe, ConsumerProofs!ConsumerAssumption
<1>4. mode' = mode
  BY <1>2, Zenon
     DEF ConsumerProofs!Next, ConsumerProofs!Consumer, ConsumerProofs!vars, ConsumerProofs!Arrive,
         ConsumerProofs!Open, ConsumerProofs!Poll, ConsumerProofs!ReceiveNothing,
         ConsumerProofs!Handle, ConsumerProofs!Reply, ConsumerProofs!Ack, ConsumerProofs!Close,
         ConsumerProofs!LazyAck, ConsumerProofs!Receive, ConsumerProofs!Stop,
         ConsumerProofs!Disconnect, ConsumerProofs!Crash, ConsumerProofs!Restart
<1>5. QED
  BY <1>1, <1>3, <1>4 DEF Parts

LEMMA AlwaysParts == Spec => []Parts
BY InitParts, PartsStep, PTL DEF Spec

\* The consumers of the back bridge, with their broker, are a service that
\* RequestReply allows for: what is proved of calls holds between the bridges.
THEOREM ServiceIsAllowed == Spec => ServesCalls
<1>1. Init => RR!Init
  <2>1. Init => Pending = {}
    BY DEF Init, JC!Init, JC!NoneUnacked, Pending, Busy
  <2>2. QED
    BY <2>1 DEF Init, RR!Init, JC!Init
<1>2. Parts /\ [Next]_vars => [RR!Next]_(RR!vars)
  <2>1. CallProofs!Next => RR!Next
    BY SameCalls, Zenon DEF CallProofs!Next, RR!Next, CallProofs!Continue, RR!Continue
  <2>2. CallProofs!vars = RR!vars /\ (UNCHANGED CallProofs!vars => UNCHANGED RR!vars)
    BY DEF CallProofs!vars, RR!vars, Pending, Busy
  <2>3. QED
    BY CallsStep, <2>1, <2>2
<1>3. QED
  BY <1>1, <1>2, AlwaysParts, PTL DEF Spec, ServesCalls, RR!Spec
-----------------------------------------------------------------------------
(* Clients and their calls.                                                *)

Active == {"prepared", "sent", "waiting"}

\* A client waits while its call is in progress, and 200 is only for calls
\* that have returned.
ClientInv ==
  /\ rest \in [Callers -> {"idle", "handling", "marshal", "done"}]
  /\ status \in [Callers -> {0, 200, 405, 500}]
  /\ \A k \in Callers : /\ call[k] \in Active => rest[k] = "handling"
                        /\ rest[k] = "marshal" => call[k] = "returned"
                        /\ status[k] = 200 => rest[k] = "done" /\ call[k] = "returned"

LEMMA ClientStep ==
  ASSUME Parts, ClientInv, [Next]_vars PROVE ClientInv'
<1> USE DEF ClientInv, Active, Rest!Go, Rest!Free, Parts, CallProofs!Safe, CallProofs!Typed
<1>1. ASSUME NEW k \in Callers, Post(k) PROVE ClientInv'
  <2>1. Rest!Accept(k) /\ RR!Prepare(k)
    BY <1>1 DEF Post
  <2>2. \A j \in Callers : j # k => call'[j] = call[j]
    BY <2>1 DEF RR!Prepare, RR!GoTo
  <2>3. QED
    BY <2>1, <2>2 DEF Rest!Accept
<1>2. ASSUME NEW k \in Callers, Send(k) \/ Wait(k) PROVE ClientInv'
  <2>1. UNCHANGED <<rest, status>> /\ call[k] \in Active
    BY <1>2 DEF Send, Wait, restVars, RR!Send, RR!OpenReply, RR!Timeout, RR!NoReply,
                 RR!ReceiveReply
  <2>2. \A j \in Callers : j # k => call'[j] = call[j]
    <3>1. RR!Send(k) => \E label : call' = [call EXCEPT ![k] = label]
      BY Zenon DEF RR!Send, RR!GoTo
    <3>2. RR!OpenReply(k) => \E label : call' = [call EXCEPT ![k] = label]
      BY Zenon DEF RR!OpenReply, RR!GoTo
    <3>3. RR!Timeout(k) => \E label : call' = [call EXCEPT ![k] = label]
      BY Zenon DEF RR!Timeout, RR!NoReply, RR!GoTo
    <3>4. \A r : RR!ReceiveReply(k, r) => \E label : call' = [call EXCEPT ![k] = label]
      BY Zenon DEF RR!ReceiveReply, RR!GoTo
    <3>5. \E label : call' = [call EXCEPT ![k] = label]
      BY <1>2, <3>1, <3>2, <3>3, <3>4, Zenon DEF Send, Wait
    <3>6. QED
      BY <3>5
  <2>3. QED
    BY <2>1, <2>2
<1>3. ASSUME NEW k \in Callers, Reject(k) PROVE ClientInv'
  BY <1>3 DEF Reject, Rest!Refuse, Rest!BodyFails, callVars
<1>4. ASSUME NEW k \in Callers, Finish(k) PROVE ClientInv'
  BY <1>4 DEF Finish, Rest!HandlerReturns, Rest!HandlerFails, callVars
<1>5. ASSUME NEW k \in Callers, Answer(k) PROVE ClientInv'
  BY <1>5 DEF Answer, Rest!Respond, Rest!MarshalFails, callVars
<1>6. ASSUME UNCHANGED <<rest, status, call>> PROVE ClientInv'
  BY <1>6
<1>7. ASSUME NEW c \in Consumers, Consume(c) \/ \E m \in Requests : Receive(c, m)
      PROVE  UNCHANGED <<rest, status, call>>
  BY <1>7 DEF Consume, Receive, restVars, callVars
<1>8. Upset \/ UNCHANGED vars => UNCHANGED <<rest, status, call>>
  BY DEF Upset, vars, restVars, callVars
<1>9. ASSUME FrontFails PROVE ClientInv'
  <2>1. UNCHANGED <<rest, status>>
    BY <1>9 DEF FrontFails, restVars
  <2>2. CASE RR!Disconnect
    BY <1>6, <2>1, <2>2 DEF RR!Disconnect
  <2>3. ASSUME NEW k \in Callers, RR!ReceiveFails(k) PROVE ClientInv'
    <3>1. call[k] \in Active /\ call' = [call EXCEPT ![k] = "failed"]
      BY <2>3 DEF RR!ReceiveFails, RR!NoReply, RR!GoTo
    <3>2. QED
      BY <2>1, <3>1
  <2>4. QED
    BY <1>9, <2>2, <2>3 DEF FrontFails
<1> HIDE DEF ClientInv
<1>10. QED
  BY <1>1, <1>2, <1>3, <1>4, <1>5, <1>6, <1>7, <1>8, <1>9, Zenon DEF Next, Serve

LEMMA AlwaysClients == Spec => [](Parts /\ ClientInv)
<1>1. Init => ClientInv
  BY DEF Init, Rest!Init, RR!Init, ClientInv, Active
<1>2. QED
  BY <1>1, ClientStep, AlwaysParts, PTL DEF Spec

\* The components keep their types, and clients and calls go together.
THEOREM TypeCorrect == Spec => []TypeOK
<1>1. Parts /\ ClientInv => TypeOK
  <2> SUFFICES ASSUME Parts, ClientInv PROVE TypeOK
    OBVIOUS
  <2>1. RR!TypeOK
    BY DEF RR!TypeOK, RR!Active, RR!Pcs, RR!Requests, RR!Request, RR!Shared, RR!Kinds, RR!Opened,
           Parts, CallProofs!Safe, CallProofs!Typed, CallProofs!QueueInv, CallProofs!GotInv,
           CallProofs!Active, CallProofs!Pcs, CallProofs!Requests, CallProofs!Request,
           CallProofs!Shared, CallProofs!Kinds, CallProofs!Opened
  <2>2. JC!TypeOK
    BY DEF JC!TypeOK, JC!Modes, JC!Pcs, Parts, ConsumerProofs!Safe, ConsumerProofs!TypeOK,
           ConsumerProofs!Modes, ConsumerProofs!Pcs
  <2>3. QED
    BY <2>1, <2>2 DEF TypeOK, ClientInv, Rest!Places, Rest!Codes, RR!Active, Active
<1>2. QED
  BY <1>1, AlwaysClients, PTL

\* A call that has returned has the reply to its own request, which the back
\* route has completed for.
LEMMA ReturnedOwn ==
  ASSUME Parts, NEW k \in Callers, call[k] = "returned"
  PROVE  got[k] = {<<k, calls[k]>>} /\ runs[<<k, calls[k]>>] > 0
<1>1. conf.via = "tmp"
  BY BridgeAssumption DEF Parts, CallProofs!Safe, CallProofs!Typed
<1>2. got[k] # {} /\ got[k] \subseteq {<<k, calls[k]>>} /\ got[k] \subseteq replied
  BY <1>1 DEF Parts, CallProofs!Safe, CallProofs!GotInv, CallProofs!Request
<1>3. <<k, calls[k]>> \in replied
  BY <1>2
<1>4. QED
  BY <1>2, <1>3 DEF Parts, ConsumerProofs!Safe, ConsumerProofs!Kept

\* A client that gets status 200 has the reply to its own request, and the
\* back route has completed for that very request.
AnswerIsOwn ==
  \A k \in Callers : status[k] = 200 =>
    got[k] = {<<k, calls[k]>>} /\ runs[<<k, calls[k]>>] > 0

\* Status 200 speaks for the client's own request in every state, not only
\* when it is given.
THEOREM AnswersAreOwn == Spec => []AnswerIsOwn
<1>1. Parts /\ ClientInv => AnswerIsOwn
  BY ReturnedOwn DEF ClientInv, AnswerIsOwn
<1>2. QED
  BY AlwaysClients, <1>1, PTL
-----------------------------------------------------------------------------
(* Routing a request again.                                                *)

Excused == faults > 0 \/ ~linked

\* A request has been sent by a call, the last or an earlier one of its
\* client, and its reply queue is there while the front bridge is connected;
\* the back one loses its connection only by a failure.
SentInv ==
  /\ connected \/ faults > 0
  /\ linked => arrived \subseteq temps
  /\ \A r \in arrived : calls[r[1]] >= r[2] /\ call[r[1]] # "idle"

\* What a step may do to a call: nothing, end or continue it, start the next.
LEMMA CallMoves ==
  ASSUME Parts, [Next]_vars, NEW j \in Callers
  PROVE  \/ call'[j] = call[j] /\ calls'[j] = calls[j]
         \/ call[j] \in Active /\ call'[j] # "idle" /\ calls'[j] = calls[j]
         \/ call'[j] # "idle" /\ calls'[j] = calls[j] + 1
<1> USE DEF Active, Parts, CallProofs!Safe, CallProofs!Typed
<1>1. ASSUME NEW k \in Callers, RR!Prepare(k)
      PROVE  /\ calls' = [calls EXCEPT ![k] = @ + 1]
             /\ \E label : call' = [call EXCEPT ![k] = label] /\ label # "idle"
  <2>1. calls' = [calls EXCEPT ![k] = @ + 1]
    BY <1>1, Zenon DEF RR!Prepare
  <2>2. call' = [call EXCEPT ![k] = "prepared"] \/ call' = [call EXCEPT ![k] = "failed"]
    BY <1>1, Zenon DEF RR!Prepare, RR!GoTo
  <2>3. QED
    BY <2>1, <2>2
<1>2. ASSUME NEW k \in Callers, Send(k) \/ Wait(k)
      PROVE  /\ calls' = calls /\ call[k] \in Active
             /\ \E label : call' = [call EXCEPT ![k] = label] /\ label # "idle"
  <2>1. \/ call' = [call EXCEPT ![k] = "sent"] \/ call' = [call EXCEPT ![k] = "waiting"]
        \/ call' = [call EXCEPT ![k] = "returned"] \/ call' = [call EXCEPT ![k] = "failed"]
    BY <1>2, Zenon DEF Send, Wait, RR!Send, RR!OpenReply, RR!Timeout, RR!NoReply,
                 RR!ReceiveReply, RR!GoTo
  <2>2. calls' = calls /\ call[k] \in Active
    BY <1>2 DEF Send, Wait, RR!Send, RR!OpenReply, RR!Timeout, RR!NoReply, RR!ReceiveReply
  <2>3. QED
    BY <2>1, <2>2
<1>3. ASSUME NEW k \in Callers, Reject(k) \/ Finish(k) \/ Answer(k) PROVE UNCHANGED <<call, calls>>
  BY <1>3, Zenon DEF Reject, Finish, Answer, callVars
<1>4. ASSUME NEW c \in Consumers, Consume(c) \/ \E m \in Requests : Receive(c, m)
      PROVE  UNCHANGED <<call, calls>>
  BY <1>4, Zenon DEF Consume, Receive, callVars
<1>5. Upset \/ UNCHANGED vars => UNCHANGED <<call, calls>>
  BY DEF Upset, vars, callVars
<1>6. ASSUME NEW k \in Callers, Post(k) PROVE RR!Prepare(k)
  BY <1>6, Zenon DEF Post
<1>7. CASE \E k \in Callers : RR!Prepare(k)
  BY <1>1, <1>7
<1>8. CASE \E k \in Callers : Send(k) \/ Wait(k)
  BY <1>2, <1>8
<1>9. CASE UNCHANGED <<call, calls>>
  BY <1>9
<1>10. CASE FrontFails
  <2>1. CASE RR!Disconnect
    BY <1>9, <2>1 DEF RR!Disconnect
  <2>2. ASSUME NEW k \in Callers, RR!ReceiveFails(k)
        PROVE  call[k] \in Active /\ calls' = calls /\ call' = [call EXCEPT ![k] = "failed"]
    BY <2>2 DEF RR!ReceiveFails, RR!NoReply, RR!GoTo
  <2>3. QED
    BY <1>10, <2>1, <2>2 DEF FrontFails
<1>11. QED
  BY <1>3, <1>4, <1>5, <1>6, <1>7, <1>8, <1>9, <1>10, Zenon DEF Next, Serve

\* Failures of the back bridge are counted.
LEMMA FaultsGrow ==
  ASSUME Parts, [Next]_vars
  PROVE  faults' >= faults /\ (connected' \/ connected' = connected \/ faults' > 0)
<1> USE DEF Parts, ConsumerProofs!Safe, ConsumerProofs!TypeOK
<1>1. [ConsumerProofs!Next]_(ConsumerProofs!vars)
  BY ConsumersStep
<1>2. QED
  BY <1>1 DEF ConsumerProofs!Next, ConsumerProofs!Consumer, ConsumerProofs!vars,
       ConsumerProofs!Arrive, ConsumerProofs!Open, ConsumerProofs!Poll,
       ConsumerProofs!ReceiveNothing, ConsumerProofs!Handle, ConsumerProofs!Reply,
       ConsumerProofs!Ack, ConsumerProofs!Close, ConsumerProofs!LazyAck, ConsumerProofs!Receive,
       ConsumerProofs!Stop, ConsumerProofs!Disconnect, ConsumerProofs!Crash,
       ConsumerProofs!Restart, ConsumerProofs!Fault, ConsumerProofs!NoFault,
       ConsumerProofs!broker, ConsumerProofs!history

\* What arrives is the request of a call that has just been sent.
LEMMA Arrivals ==
  ASSUME Parts, [Next]_vars, NEW r \in arrived', r \notin arrived
  PROVE  /\ r \in Requests /\ r[2] = calls'[r[1]] /\ call'[r[1]] # "idle"
         /\ linked => r \in temps
<1> USE DEF Parts, CallProofs!Safe, CallProofs!Typed
<1>1. PICK k \in Callers : Send(k) /\ r = <<k, calls[k]>>
  <2>1. ASSUME NEW k \in Callers, Send(k) PROVE r = <<k, calls[k]>>
    BY <2>1 DEF Send, JC!Arrive, RR!Request, consVars
  <2>2. ASSUME NEW k \in Callers, Post(k) \/ Reject(k) \/ Wait(k) \/ Finish(k) \/ Answer(k)
        PROVE  arrived' = arrived
    BY <2>2, Zenon DEF Post, Reject, Wait, Finish, Answer, consVars
  <2>3. ASSUME NEW c \in Consumers, Consume(c) \/ \E m \in Requests : Receive(c, m)
        PROVE  arrived' = arrived
    BY <2>3 DEF Consume, Receive, Reply, JC!Reply, JC!Open, JC!Poll, JC!ReceiveNothing, JC!Handle,
                JC!Ack, JC!Close, JC!Receive, JC!broker
  <2>4. Upset \/ FrontFails \/ UNCHANGED vars => arrived' = arrived
    BY DEF Upset, JC!Disconnect, JC!Crash, JC!Restart, FrontFails, vars, consVars
  <2>5. \E k \in Callers : Send(k)
    BY <2>2, <2>3, <2>4, Zenon DEF Next, Serve
  <2>6. QED
    BY <2>1, <2>5
<1>2. calls' = calls /\ call[k] = "prepared" /\ call'[k] # "idle"
  <2>1. calls' = calls /\ call[k] = "prepared"
    BY <1>1 DEF Send, RR!Send
  <2>2. \/ call' = [call EXCEPT ![k] = "sent"] \/ call' = [call EXCEPT ![k] = "returned"]
        \/ call' = [call EXCEPT ![k] = "failed"]
    BY <1>1, Zenon DEF Send, RR!Send, RR!GoTo
  <2>3. QED
    BY <2>1, <2>2
<1>3. r \in Requests
  BY <1>1, <1>2 DEF CallProofs!Request, CallProofs!Requests, Requests
<1>4. linked => r \in temps
  <2>1. conf.via = "tmp"
    BY BridgeAssumption
  <2>2. QED
    BY <1>1, <1>2, <2>1 DEF CallProofs!QueueInv, CallProofs!Active, CallProofs!Request
<1>5. QED
  BY <1>1, <1>2, <1>3, <1>4

\* Reply queues stay while the front bridge is connected, and it does not
\* connect again.
LEMMA QueuesStay ==
  ASSUME Parts, [Next]_vars PROVE linked' => linked /\ temps \subseteq temps'
<1>1. [CallProofs!Next]_(CallProofs!vars)
  BY CallsStep
<1>2. linked' => temps \subseteq temps'
  BY <1>1, Assumptions, CallProofs!StayStep DEF Parts, CallProofs!RequestAssumption
<1>3. linked' => linked
  BY <1>1 DEF CallProofs!Next, CallProofs!Continue, CallProofs!vars, CallProofs!Prepare,
       CallProofs!Send, CallProofs!OpenReply, CallProofs!Timeout, CallProofs!ReceiveFails,
       CallProofs!NoReply, CallProofs!ReceiveReply, CallProofs!Disconnect, CallProofs!Answer,
       CallProofs!Lose, CallProofs!Redeliver, CallProofs!callState
<1>4. QED
  BY <1>2, <1>3

LEMMA SentStep ==
  ASSUME Parts, SentInv, [Next]_vars PROVE SentInv'
<1>1. ASSUME NEW r \in arrived' PROVE calls'[r[1]] >= r[2] /\ call'[r[1]] # "idle"
  <2>1. CASE r \in arrived
    <3>1. r \in Callers \X (1..MaxCalls)
      BY <2>1 DEF Parts, ConsumerProofs!Safe, ConsumerProofs!TypeOK, Requests
    <3>2. calls[r[1]] \in Nat
      BY <3>1, BridgeAssumption DEF Parts, CallProofs!Safe, CallProofs!Typed
    <3>3. QED
      BY <2>1, <3>1, <3>2, CallMoves, BridgeAssumption DEF SentInv, Active
  <2>2. CASE r \notin arrived
    <3>1. r \in Callers \X (1..MaxCalls) /\ r[2] = calls'[r[1]] /\ call'[r[1]] # "idle"
      BY <2>2, Arrivals DEF Requests
    <3>2. QED
      BY <3>1, BridgeAssumption
  <2>3. QED
    BY <2>1, <2>2
<1>2. connected' \/ faults' > 0
  <2>1. faults' >= faults /\ faults \in Nat /\ faults' \in Nat
    BY FaultsGrow, PartsStep, BridgeAssumption
       DEF Parts, ConsumerProofs!Safe, ConsumerProofs!TypeOK
  <2>2. faults > 0 => faults' > 0
    BY <2>1
  <2>3. connected' \/ connected' = connected \/ faults' > 0
    BY FaultsGrow
  <2>4. QED
    BY <2>2, <2>3, Zenon DEF SentInv
<1>3. ASSUME linked', NEW r \in arrived' PROVE r \in temps'
  <2>1. linked /\ temps \subseteq temps'
    BY <1>3, QueuesStay
  <2>2. r \in temps
    BY <1>3, <2>1, Arrivals DEF SentInv
  <2>3. QED
    BY <2>1, <2>2
<1>4. QED
  BY <1>1, <1>2, <1>3 DEF SentInv

\* An excuse lasts: failures are counted, and a lost connection stays lost.
LEMMA ExcuseLasts ==
  ASSUME Parts, [Next]_vars, Excused
  PROVE  Excused'
<1>1. faults \in Nat /\ faults' >= faults /\ faults' \in Nat
  BY FaultsGrow, PartsStep, BridgeAssumption
     DEF Parts, ConsumerProofs!Safe, ConsumerProofs!TypeOK
<1>2. ~linked => ~linked'
  BY QueuesStay
<1>3. QED
  BY <1>1, <1>2 DEF Excused

\* Nothing slips, nothing is routed or answered twice, and only rejected
\* requests end goroutines.
Once ==
  /\ slipped = {} /\ ~done
  /\ \A r \in Requests : runs[r] <= 1
  /\ \A c \in Consumers : /\ pc[c] = "reply" => cur[c] \notin replied
                          /\ pc[c] = "close" => cur[c] \in Poison

OnceInv == Excused \/ Once

\* A reply that finds its queue gone excuses: the front bridge has lost its
\* connection.
LEMMA QueueGone ==
  ASSUME Parts, SentInv, NEW c \in Consumers, pc[c] = "reply", cur[c] \notin temps
  PROVE  Excused
<1>1. cur[c] \in arrived
  BY DEF Parts, ConsumerProofs!Safe, ConsumerProofs!TypeOK, ConsumerProofs!Owned,
         ConsumerProofs!Busy
<1>2. QED
  BY <1>1 DEF SentInv, Excused

\* The consumer's own invariants: what is routed a second time slipped.
LEMMA NotRoutedAgain ==
  ASSUME Parts, Once, NEW c \in Consumers, pc[c] = "handle"
  PROVE  runs[cur[c]] = 0
<1>1. cur[c] \in Requests /\ runs[cur[c]] \in Nat
  BY DEF Parts, ConsumerProofs!Safe, ConsumerProofs!TypeOK
<1>2. CASE mode = "CLIENT"
  BY <1>1, <1>2 DEF Parts, ConsumerProofs!Safe, ConsumerProofs!RerunInv, Once
<1>3. CASE mode = "AUTO"
  BY <1>1, <1>3 DEF Parts, ConsumerProofs!Safe, ConsumerProofs!AutoInv
<1>4. QED
  BY <1>2, <1>3 DEF Parts

\* Every step keeps it: only routing, replying, acknowledging and dying touch
\* what it speaks of, and the last needs a failure.
LEMMA OnceStep ==
  ASSUME Parts, SentInv, OnceInv, [Next]_vars PROVE OnceInv'
<1> SUFFICES ASSUME ~Excused' PROVE Once'
  BY DEF OnceInv
<1> USE DEF Parts, ConsumerProofs!Safe, ConsumerProofs!TypeOK
<1>1. Once /\ linked /\ linked'
  BY ExcuseLasts, QueuesStay DEF OnceInv, Excused
<1>2. faults = 0 /\ faults' = 0 /\ connected
  BY FaultsGrow, PartsStep, BridgeAssumption DEF Excused, SentInv
<1>3. ~JC!Fault
  BY <1>2 DEF JC!Fault
<1>4. ASSUME UNCHANGED <<slipped, runs, replied>>, ~done',
             \A c \in Consumers : pc'[c] \in {"reply", "close"} => pc'[c] = pc[c] /\ cur'[c] = cur[c]
      PROVE  Once'
  BY <1>1, <1>4 DEF Once
<1>5. ASSUME NEW c \in Consumers, JC!Handle(c) PROVE Once'
  <2>1. /\ pc[c] = "handle" /\ UNCHANGED <<cur, slipped, replied, done>>
        /\ cur[c] \in Requests /\ runs[cur[c]] = 0
    BY <1>1, <1>5, NotRoutedAgain DEF JC!Handle
  <2>2. \/ runs' = [runs EXCEPT ![cur[c]] = @ + 1] /\ pc' = [pc EXCEPT ![c] = pc'[c]] /\ pc'[c] # "close"
        \/ runs' = runs /\ pc' = [pc EXCEPT ![c] = "close"] /\ cur[c] \in Poison
    BY <1>3, <1>5 DEF JC!Handle, JC!GoTo
  <2>3. cur[c] \notin replied
    BY <2>1 DEF ConsumerProofs!Kept
  <2>4. QED
    BY <1>1, <2>1, <2>2, <2>3 DEF Once
<1>6. ASSUME NEW c \in Consumers, Reply(c) PROVE Once'
  <2>1. /\ pc[c] = "reply" /\ UNCHANGED <<cur, runs, done>> /\ cur[c] \in temps
        /\ pc' = [pc EXCEPT ![c] = pc'[c]]
    <3>1. cur[c] \in temps
      BY <1>1, <1>2, <1>6, QueueGone DEF Reply, JC!Reply, Excused
    <3>2. QED
      BY <1>6, <3>1 DEF Reply, JC!Reply, JC!GoTo
  <2>2. pc'[c] = "ack" /\ UNCHANGED slipped /\ replied' = replied \cup {cur[c]}
    BY <1>2, <1>6, <2>1 DEF Reply, JC!Reply, JC!GoTo, ReplyTo
  <2>3. \A d \in Consumers : d # c /\ pc[d] = "reply" => cur[d] # cur[c]
    BY <2>1 DEF ConsumerProofs!Owned, ConsumerProofs!Busy
  <2>4. QED
    BY <1>1, <2>1, <2>2, <2>3 DEF Once
<1>7. ASSUME NEW c \in Consumers, JC!Ack(c) PROVE Once'
  <2>1. /\ UNCHANGED <<runs, replied, done, slipped>> /\ pc' = [pc EXCEPT ![c] = "poll"]
        /\ cur' = [cur EXCEPT ![c] = NoMsg]
    BY <1>2, <1>3, <1>7 DEF JC!Ack, JC!GoTo
  <2>2. QED
    BY <1>4, <1>1, <2>1 DEF Once
<1>8. ASSUME NEW k \in Callers, Send(k) PROVE Once'
  BY <1>1, <1>4, <1>8 DEF Send, consVars, JC!Arrive, JC!history, Once
<1>9. ASSUME UNCHANGED consVars PROVE Once'
  BY <1>1, <1>4, <1>9 DEF consVars, Once
<1>10. ASSUME NEW k \in Callers, Post(k) \/ Reject(k) \/ Wait(k) \/ Finish(k) \/ Answer(k)
       PROVE  UNCHANGED consVars
  BY <1>10, Zenon DEF Post, Reject, Wait, Finish, Answer
<1>11. ASSUME NEW c \in Consumers,
              \/ JC!Open(c) \/ JC!Poll(c) \/ JC!ReceiveNothing(c) \/ JC!Close(c)
              \/ \E m \in Requests : Receive(c, m)
       PROVE  Once'
  BY <1>1, <1>4, <1>11 DEF JC!Open, JC!Poll, JC!ReceiveNothing, JC!Close, Receive, JC!Receive,
               JC!GoTo, JC!history, Once
<1>12. ASSUME Upset PROVE Once'
  BY <1>3, <1>4, <1>12 DEF Upset, JC!Disconnect, JC!Crash, JC!Restart, JC!history
<1>13. CASE FrontFails \/ UNCHANGED vars
  BY <1>9, <1>13 DEF FrontFails, vars
<1>14. ASSUME NEW c \in Consumers, Consume(c) PROVE Once'
  BY <1>5, <1>6, <1>7, <1>11, <1>14, Zenon DEF Consume
<1>15. QED
  BY <1>8, <1>9, <1>10, <1>11, <1>12, <1>13, <1>14, Zenon DEF Next, Serve

LEMMA AlwaysOnce == Spec => [](Parts /\ OnceInv)
<1>1. Init => SentInv /\ OnceInv
  BY DEF Init, JC!Init, SentInv, OnceInv, Once
<1>2. Parts /\ SentInv /\ OnceInv /\ [Next]_vars => SentInv' /\ OnceInv'
  BY SentStep, OnceStep
<1>3. QED
  BY <1>1, <1>2, AlwaysParts, PTL DEF Spec

\* The back route completes twice for a request only after a failure of the
\* back bridge or when the front one has lost its connection: no interleaving
\* of goroutines, late reply or redelivery does it otherwise.
THEOREM RoutesOnce == Spec => []RoutedOnce
<1>1. Parts /\ OnceInv => RoutedOnce
  BY DEF Parts, ConsumerProofs!Safe, ConsumerProofs!TypeOK, OnceInv, Once, Excused, RoutedOnce
<1>2. QED
  BY <1>1, AlwaysOnce, PTL

\* Nor does a reply that comes when its client has gone end a goroutine: the
\* queue it goes to is still there.
THEOREM LateRepliesEndNobody == Spec => []LateRepliesAccepted
<1>1. OnceInv => LateRepliesAccepted
  BY DEF OnceInv, Once, Excused, LateRepliesAccepted
<1>2. QED
  BY <1>1, AlwaysOnce, PTL
-----------------------------------------------------------------------------
(* The two bridges make a remote call of an HTTP request.                  *)

\* What RemoteCall sees of the requests.
Place  == [k \in Callers |-> Progress(k)]
Routed == {r \in Requests : runs[r] > 0}
Given  == [k \in Callers |-> IF status[k] = 200 THEN got[k] ELSE {}]

\* The moves of a client there, by what the starter does.
LEMMA GivenMoves ==
  ASSUME Parts, ClientInv, NEW k \in Callers, NEW place, NEW code, Rest!Go(k, place, code),
         \A j \in Callers : j # k => got'[j] = got[j]
  PROVE  /\ Place' = [Place EXCEPT ![k] = Progress(k)']
         /\ Given' = [Given EXCEPT ![k] = IF code = 200 THEN got'[k] ELSE {}]
<1> USE DEF ClientInv, Rest!Go
<1>1. \A j \in Callers : j # k => rest'[j] = rest[j] /\ status'[j] = status[j]
  OBVIOUS
<1>2. status'[k] = code
  OBVIOUS
<1>3. \A j \in Callers : j # k => Progress(j)' = Progress(j)
  BY <1>1 DEF Progress
<1>4. Given' = [Given EXCEPT ![k] = IF code = 200 THEN got'[k] ELSE {}]
  BY <1>1, <1>2 DEF Given
<1>5. Place' = [j \in Callers |-> IF j = k THEN Progress(k)' ELSE Place[j]]
  BY <1>3, Zenon DEF Place
<1>6. QED
  BY <1>4, <1>5 DEF Place

\* What does not touch the starter, nor what a client has been given.
LEMMA NothingGiven ==
  ASSUME ClientInv, UNCHANGED <<rest, status, conf, calls>>,
         \A j \in Callers : got'[j] = got[j] \/ status[j] # 200
  PROVE  Place' = Place /\ Given' = Given
BY DEF ClientInv, Place, Given, Progress

\* A request that is not rejected becomes a call, whether or not jms_send
\* gets as far as sending it.
LEMMA PostCalls ==
  ASSUME Parts, ClientInv, NEW k \in Callers, Post(k)
  PROVE  EndToEnd!Call(k)
<1>1. /\ Rest!Go(k, "handling", 0) /\ rest[k] \in {"idle", "done"} /\ UNCHANGED runs
      /\ calls' = [calls EXCEPT ![k] = @ + 1] /\ got' = [got EXCEPT ![k] = {}]
  BY DEF Post, Rest!Accept, Rest!Free, RR!Prepare, consVars
<1>2. Place' = [Place EXCEPT ![k] = Progress(k)'] /\ Given' = [Given EXCEPT ![k] = {}]
  BY <1>1, GivenMoves DEF Parts, CallProofs!Safe, CallProofs!Typed
<1>3. Progress(k)' = "open"
  BY <1>1 DEF Progress, Rest!Go, ClientInv
<1>4. Place[k] # "open"
  BY <1>1 DEF Place, Progress
<1>5. Routed' = Routed
  BY <1>1 DEF Routed
<1>6. QED
  BY <1>1, <1>2, <1>3, <1>4, <1>5, Zenon
     DEF EndToEnd!Call, EndToEnd!Move, Place, Routed, Given

\* One that is rejected fails before it is one.
LEMMA RejectFails ==
  ASSUME Parts, ClientInv, NEW k \in Callers, Reject(k)
  PROVE  EndToEnd!Call(k)
<1>1. /\ Rest!Go(k, "done", 405) \/ Rest!Go(k, "done", 500)
      /\ rest[k] \in {"idle", "done"} /\ UNCHANGED <<calls, got, runs>>
  BY DEF Reject, Rest!Refuse, Rest!BodyFails, Rest!Free, callVars, consVars
<1>2. Place' = [Place EXCEPT ![k] = Progress(k)'] /\ Given' = [Given EXCEPT ![k] = {}]
  BY <1>1, GivenMoves
<1>3. Progress(k)' = "failed"
  BY <1>1 DEF Progress, Rest!Go, ClientInv
<1>4. Place[k] # "open"
  BY <1>1 DEF Place, Progress
<1>5. Routed' = Routed
  BY <1>1 DEF Routed
<1>6. QED
  BY <1>1, <1>2, <1>3, <1>4, <1>5, Zenon
     DEF EndToEnd!Call, EndToEnd!Move, Place, Routed, Given

\* The starter answers with what the route leaves, or gives a 500.
LEMMA ServerReturns ==
  ASSUME Parts, ClientInv, NEW k \in Callers, Finish(k) \/ Answer(k)
  PROVE  EndToEnd!Return(k) \/ EndToEnd!Fail(k) \/ UNCHANGED EndToEnd!vars
<1>1. rest[k] \in {"handling", "marshal"} /\ UNCHANGED <<conf, calls, got, runs>>
  BY DEF Finish, Answer, Rest!HandlerReturns, Rest!HandlerFails, Rest!Respond,
         Rest!MarshalFails, callVars, consVars
<1>2. Place[k] = "open" /\ Routed' = Routed
  BY <1>1 DEF Place, Progress, Routed
<1>3. CASE Rest!Respond(k)
  <2>1. call[k] = "returned" /\ Rest!Go(k, "done", 200)
    BY <1>3 DEF Rest!Respond, ClientInv
  <2>2. got[k] = {<<k, calls[k]>>} /\ <<k, calls[k]>> \in Routed
    <3>1. <<k, calls[k]>> \in Requests
      BY <2>1 DEF Parts, CallProofs!Safe, CallProofs!Typed, CallProofs!Request,
                  CallProofs!Requests, Requests
    <3>2. QED
      BY <2>1, <3>1, ReturnedOwn DEF Routed
  <2>3. Place' = [Place EXCEPT ![k] = Progress(k)'] /\ Given' = [Given EXCEPT ![k] = got'[k]]
    BY <1>1, <2>1, GivenMoves
  <2>4. Progress(k)' = "returned"
    BY <2>1 DEF Progress, Rest!Go, ClientInv
  <2>5. EndToEnd!Return(k)
    BY <1>1, <1>2, <2>2, <2>3, <2>4
       DEF EndToEnd!Return, EndToEnd!Move, EndToEnd!Request, Place, Routed, Given
  <2>6. QED
    BY <2>5
<1>4. CASE Rest!HandlerReturns(k)
  <2>1. rest[k] = "handling" /\ Rest!Go(k, "marshal", 0)
    BY <1>4 DEF Rest!HandlerReturns
  <2>2. Place' = [Place EXCEPT ![k] = Progress(k)'] /\ Given' = [Given EXCEPT ![k] = {}]
    BY <1>1, <2>1, GivenMoves
  <2>3. Progress(k)' = "open" /\ status[k] # 200
    BY <2>1 DEF Progress, Rest!Go, ClientInv
  <2>4. Given[k] = {} /\ Place[k] = "open"
    BY <1>2, <2>3 DEF Given
  <2>5. Place' = Place /\ Given' = Given
    <3>1. Place = [j \in Callers |-> Place[j]] /\ Given = [j \in Callers |-> Given[j]]
      BY DEF Place, Given
    <3>2. QED
      BY <2>2, <2>3, <2>4, <3>1
  <2>6. UNCHANGED EndToEnd!vars
    BY <1>1, <1>2, <2>5 DEF EndToEnd!vars, Place, Routed, Given
  <2>7. QED
    BY <2>6
<1>5. CASE Rest!HandlerFails(k) \/ Rest!MarshalFails(k)
  <2>1. Rest!Go(k, "done", 500)
    BY <1>5 DEF Rest!HandlerFails, Rest!MarshalFails
  <2>2. Place' = [Place EXCEPT ![k] = Progress(k)'] /\ Given' = [Given EXCEPT ![k] = {}]
    BY <1>1, <2>1, GivenMoves
  <2>3. Progress(k)' = "failed"
    BY <2>1 DEF Progress, Rest!Go, ClientInv
  <2>4. EndToEnd!Fail(k)
    BY <1>1, <1>2, <2>2, <2>3, Zenon DEF EndToEnd!Fail, EndToEnd!Move, Place, Routed, Given
  <2>5. QED
    BY <2>4
<1>6. QED
  BY <1>3, <1>4, <1>5 DEF Finish, Answer

\* A consumer that completes its route serves the request; nothing else that
\* happens behind the queue, or while jms_send waits, can be seen.
LEMMA BackServes ==
  ASSUME Parts, ClientInv, SentInv, NEW c \in Consumers, Consume(c)
  PROVE  (\E r \in Requests : EndToEnd!Serve(r)) \/ UNCHANGED EndToEnd!vars
<1>1. UNCHANGED <<rest, status, conf, calls, got>>
  BY DEF Consume, restVars, callVars
<1>2. Place' = Place /\ Given' = Given
  BY <1>1, NothingGiven
<1>3. ASSUME UNCHANGED runs PROVE UNCHANGED EndToEnd!vars
  BY <1>1, <1>2, <1>3 DEF EndToEnd!vars, Place, Given
<1>4. CASE JC!Handle(c)
  <2>1. cur[c] \in arrived /\ cur[c] \in Requests /\ runs \in [Requests -> Nat]
    BY <1>4 DEF JC!Handle, Parts, ConsumerProofs!Safe, ConsumerProofs!TypeOK,
                ConsumerProofs!Owned, ConsumerProofs!Busy
  <2>2. UNCHANGED runs \/ runs' = [runs EXCEPT ![cur[c]] = @ + 1]
    BY <1>4 DEF JC!Handle
  <2> PICK m \in Requests : m = cur[c]
    BY <2>1
  <2>3. m[2] <= calls[m[1]]
    <3>1. m[1] \in Callers /\ m[2] \in Nat
      BY <2>1, BridgeAssumption DEF Requests
    <3>2. calls[m[1]] \in Nat
      BY <3>1, BridgeAssumption DEF Parts, CallProofs!Safe, CallProofs!Typed
    <3>3. QED
      BY <2>1, <3>1, <3>2 DEF SentInv
  <2>4. CASE runs' = [runs EXCEPT ![m] = @ + 1]
    <3>1. Routed' = Routed \cup {m}
      BY <2>1, <2>4 DEF Routed
    <3>2. EndToEnd!Serve(m)
      BY <1>1, <1>2, <2>3, <3>1 DEF EndToEnd!Serve, Place, Routed, Given
    <3>3. QED
      BY <3>2
  <2>5. QED
    BY <1>3, <2>2, <2>4
<1>5. CASE ~JC!Handle(c)
  <2>1. UNCHANGED runs
    BY <1>5 DEF Consume, Reply, JC!Reply, JC!Open, JC!Poll, JC!ReceiveNothing, JC!Ack, JC!Close,
                JC!history
  <2>2. QED
    BY <1>3, <2>1
<1>6. QED
  BY <1>4, <1>5

LEMMA OutOfSight ==
  ASSUME Parts, ClientInv,
         \/ \E k \in Callers : Send(k) \/ Wait(k)
         \/ \E c \in Consumers, m \in Requests : Receive(c, m)
         \/ Upset \/ FrontFails \/ UNCHANGED vars
  PROVE  UNCHANGED EndToEnd!vars
<1>1. ASSUME UNCHANGED <<rest, status, conf, calls, runs>>,
             \A j \in Callers : got'[j] = got[j] \/ status[j] # 200
      PROVE  UNCHANGED EndToEnd!vars
  <2>1. Place' = Place /\ Given' = Given
    BY <1>1, NothingGiven
  <2>2. QED
    BY <1>1, <2>1 DEF EndToEnd!vars, Place, Given
<1>2. ASSUME NEW k \in Callers, Send(k) PROVE UNCHANGED <<rest, status, conf, calls, runs, got>>
  BY <1>2 DEF Send, RR!Send, restVars, consVars, JC!Arrive, JC!history
<1>3. ASSUME NEW k \in Callers, Wait(k)
      PROVE  /\ UNCHANGED <<rest, status, conf, calls, runs>>
             /\ \A j \in Callers : got'[j] = got[j] \/ status[j] # 200
  <2>1. RR!OpenReply(k) \/ RR!Timeout(k) => UNCHANGED <<conf, calls, got>>
    BY DEF RR!OpenReply, RR!Timeout, RR!NoReply
  <2>2. ASSUME NEW r, RR!ReceiveReply(k, r)
        PROVE  /\ UNCHANGED <<conf, calls>> /\ call[k] = "waiting"
               /\ \A j \in Callers : j # k => got'[j] = got[j]
    BY <2>2 DEF RR!ReceiveReply, Parts, CallProofs!Safe, CallProofs!Typed
  <2>3. status[k] = 200 => call[k] = "returned"
    BY DEF ClientInv
  <2>4. QED
    BY <1>3, <2>1, <2>2, <2>3 DEF Wait, restVars, consVars
<1>4. ASSUME NEW c \in Consumers, NEW m \in Requests, Receive(c, m)
      PROVE  UNCHANGED <<rest, status, conf, calls, runs, got>>
  BY <1>4 DEF Receive, JC!Receive, JC!history, restVars, callVars
<1>5. Upset \/ UNCHANGED vars => UNCHANGED <<rest, status, conf, calls, runs, got>>
  BY DEF Upset, JC!Disconnect, JC!Crash, JC!Restart, JC!history, restVars, callVars, consVars, vars
<1>6. FrontFails => UNCHANGED <<rest, status, conf, calls, runs, got>>
  BY DEF FrontFails, RR!Disconnect, RR!ReceiveFails, RR!NoReply, restVars, consVars
<1>7. QED
  BY <1>1, <1>2, <1>3, <1>4, <1>5, <1>6

\* Two bridges and a queue answer HTTP requests as one service would: for any
\* number of clients, requests and consumers, whatever fails, a client that
\* gets 200 has the reply to its own request, made by a route that ran for it.
THEOREM BridgesAnswer == Spec => AnswersRequests
<1>1. Init => EndToEnd!Init
  <2>1. Init => /\ Place = [k \in Callers |-> "idle"] /\ Routed = {}
                /\ Given = [k \in Callers |-> {}]
    BY DEF Init, Rest!Init, RR!Init, JC!Init, Place, Progress, Routed, Given
  <2>2. QED
    BY <2>1, Zenon DEF Init, RR!Init, EndToEnd!Init, Place, Routed, Given
<1>2. Parts /\ ClientInv /\ SentInv /\ [Next]_vars => [EndToEnd!Next]_(EndToEnd!vars)
  <2>1. EndToEnd!Requests = Requests
    BY DEF EndToEnd!Requests, Requests
  <2>2. QED
    BY <2>1, PostCalls, RejectFails, ServerReturns, BackServes, OutOfSight, Zenon
       DEF Next, Serve, EndToEnd!Next
<1>3. Init => SentInv
  BY DEF Init, JC!Init, SentInv
<1>4. Parts /\ SentInv /\ [Next]_vars => SentInv'
  BY SentStep
<1>5. QED
  BY <1>1, <1>2, <1>3, <1>4, AlwaysClients, PTL DEF Spec, AnswersRequests, EndToEnd!Spec
=============================================================================
