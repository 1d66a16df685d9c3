-------------------------- MODULE JmsConsumerProofs --------------------------
(***************************************************************************)
(* Proofs about the jms_queue_consumer starter, for any number of          *)
(* goroutines and messages, any selector and any failures.                 *)
(***************************************************************************)
EXTENDS JmsConsumer, FiniteSetTheorems, TLAPS

-----------------------------------------------------------------------------
(* Types.                                                                  *)

\* Every step of the starter and the broker keeps the types.
LEMMA TypedStep ==
  ASSUME TypeOK, [Next]_vars PROVE TypeOK'
<1> USE ConsumerAssumption
      DEF TypeOK, Pcs, GoTo, Fault, NoFault, broker, history
<1>1. ASSUME NEW m \in Msgs, Arrive(m) PROVE TypeOK'
  BY <1>1 DEF Arrive
<1>2. ASSUME NEW c \in Consumers, Open(c) PROVE TypeOK'
  BY <1>2 DEF Open
<1>3. ASSUME NEW c \in Consumers, Poll(c) PROVE TypeOK'
  BY <1>3 DEF Poll
<1>4. ASSUME NEW c \in Consumers, NEW m \in Msgs, Receive(c, m) PROVE TypeOK'
  BY <1>4 DEF Receive
<1>5. ASSUME NEW c \in Consumers, ReceiveNothing(c) PROVE TypeOK'
  BY <1>5 DEF ReceiveNothing
<1>6. ASSUME NEW c \in Consumers, Handle(c) PROVE TypeOK'
  BY <1>6 DEF Handle
<1>7. ASSUME NEW c \in Consumers, Reply(c) PROVE TypeOK'
  BY <1>7 DEF Reply
<1>8. ASSUME NEW c \in Consumers, Ack(c) PROVE TypeOK'
  BY <1>8 DEF Ack
<1>9. ASSUME NEW c \in Consumers, LazyAck(c) PROVE TypeOK'
  BY <1>9 DEF LazyAck
<1>10. ASSUME NEW c \in Consumers, Close(c) PROVE TypeOK'
  BY <1>10 DEF Close
<1>11. CASE Stop
  BY <1>11 DEF Stop
<1>12. CASE Disconnect
  <2>1. queue' \subseteq Msgs
    BY <1>12 DEF Disconnect, Held
  <2>2. unacked' \in [Consumers -> SUBSET Msgs]
    BY <1>12 DEF Disconnect, NoneUnacked
  <2>3. connected' \in BOOLEAN
    BY <1>12, Zenon DEF Disconnect
  <2>4. QED
    BY <1>12, <2>1, <2>2, <2>3 DEF Disconnect
<1>13. CASE Crash
  <2>1. queue' \subseteq Msgs
    BY <1>13 DEF Crash, Held
  <2>2. slipped' \subseteq Msgs
    BY <1>13 DEF Crash
  <2>3. unacked' \in [Consumers -> SUBSET Msgs]
    BY <1>13 DEF Crash, NoneUnacked
  <2>4. connected' \in BOOLEAN
    BY <1>13, Zenon DEF Crash
  <2>5. QED
    BY <1>13, <2>1, <2>2, <2>3, <2>4 DEF Crash
<1>14. CASE Restart
  BY <1>14 DEF Restart
<1>15. CASE UNCHANGED vars
  BY <1>15 DEF vars
<1>16. QED
  BY <1>1, <1>2, <1>3, <1>4, <1>5, <1>6, <1>7, <1>8, <1>9, <1>10, <1>11,
     <1>12, <1>13, <1>14, <1>15 DEF Next, Consumer

LEMMA TypeInit == Init => TypeOK
<1>1. Init => connected \in BOOLEAN /\ done \in BOOLEAN
  BY Zenon DEF Init
<1>2. QED
  BY <1>1, ConsumerAssumption DEF Init, TypeOK, Pcs, NoneUnacked

\* The starter and the broker keep the types, and no closure gets a nil
\* handle.
THEOREM TypeCorrect == Spec => []TypeOK
BY TypeInit, TypedStep, PTL DEF Spec
-----------------------------------------------------------------------------
(* Who has a message.                                                      *)

Busy(c) == pc[c] \in {"handle", "reply", "ack"}

\* A message is in the queue, settled, or held by one session.  What a
\* closure works on has been taken by its goroutine alone; while the
\* connection lasts it is held by the session or settled.
Owned ==
  /\ arrived \subseteq Msgs
  /\ queue \cup settled \subseteq arrived
  /\ queue \cap settled = {}
  /\ \A c \in Consumers : /\ unacked[c] \subseteq arrived
                          /\ unacked[c] \cap (queue \cup settled) = {}
  /\ \A c, d \in Consumers : c # d => unacked[c] \cap unacked[d] = {}
  /\ mode = "AUTO" \/ ~connected => \A c \in Consumers : unacked[c] = {}
  /\ \A m \in Msgs : runs[m] > 0 => m \in arrived
  /\ \A c \in Consumers : Busy(c) =>
       /\ cur[c] \in arrived
       /\ connected => cur[c] \in settled \cup unacked[c]
       /\ mode = "CLIENT" => cur[c] \notin settled
       /\ mode = "AUTO" => cur[c] \in settled
  /\ \A c, d \in Consumers : Busy(c) /\ Busy(d) /\ c # d => cur[c] # cur[d]

\* Every step keeps it: nothing is received on a dead connection, so that
\* what went back to the queue is not taken twice.
LEMMA OwnedStep ==
  ASSUME TypeOK, Owned, [Next]_vars PROVE Owned'
<1> USE ConsumerAssumption
      DEF TypeOK, Owned, Busy, Pcs, GoTo, Fault, NoFault, broker, history
<1>1. ASSUME NEW m \in Msgs, Arrive(m) PROVE Owned'
  BY <1>1 DEF Arrive
<1>2. ASSUME NEW c \in Consumers, Open(c) PROVE Owned'
  BY <1>2 DEF Open
<1>3. ASSUME NEW c \in Consumers, Poll(c) PROVE Owned'
  BY <1>3 DEF Poll
<1>4. ASSUME NEW c \in Consumers, NEW m \in Msgs, Receive(c, m) PROVE Owned'
  BY <1>4 DEF Receive
<1>5. ASSUME NEW c \in Consumers, ReceiveNothing(c) PROVE Owned'
  BY <1>5 DEF ReceiveNothing
<1>6. ASSUME NEW c \in Consumers, Handle(c) PROVE Owned'
  BY <1>6 DEF Handle
<1>7. ASSUME NEW c \in Consumers, Reply(c) PROVE Owned'
  BY <1>7 DEF Reply
<1>8. ASSUME NEW c \in Consumers, Ack(c) PROVE Owned'
  BY <1>8 DEF Ack
<1>9. ASSUME NEW c \in Consumers, LazyAck(c) PROVE Owned'
  BY <1>9 DEF LazyAck
<1>10. ASSUME NEW c \in Consumers, Close(c) PROVE Owned'
  BY <1>10 DEF Close
<1>11. CASE Stop
  BY <1>11 DEF Stop
<1>12. CASE Disconnect
  BY <1>12 DEF Disconnect, Held, NoneUnacked
<1>13. CASE Crash
  BY <1>13 DEF Crash, Held, NoneUnacked
<1>14. CASE Restart
  BY <1>14 DEF Restart
<1>15. CASE UNCHANGED vars
  BY <1>15 DEF vars
<1>16. QED
  BY <1>1, <1>2, <1>3, <1>4, <1>5, <1>6, <1>7, <1>8, <1>9, <1>10, <1>11,
     <1>12, <1>13, <1>14, <1>15 DEF Next, Consumer

LEMMA OwnedInit == Init => Owned
BY DEF Init, Owned, Busy, NoneUnacked

\* No message vanishes, and what was replied to has been routed.
Kept ==
  /\ \A m \in arrived : m \in queue \cup settled \/ \E c \in Consumers : m \in unacked[c]
  /\ \A m \in replied : runs[m] > 0
  /\ \A c \in Consumers : pc[c] \in {"reply", "ack"} => runs[cur[c]] > 0

LEMMA KeptStep ==
  ASSUME TypeOK, Owned, Kept, [Next]_vars PROVE Kept'
<1> USE ConsumerAssumption
      DEF TypeOK, Owned, Kept, Busy, Pcs, GoTo, Fault, NoFault, broker, history
<1>1. ASSUME NEW m \in Msgs, Arrive(m) PROVE Kept'
  BY <1>1 DEF Arrive
<1>2. ASSUME NEW c \in Consumers, Open(c) PROVE Kept'
  BY <1>2 DEF Open
<1>3. ASSUME NEW c \in Consumers, Poll(c) PROVE Kept'
  BY <1>3 DEF Poll
<1>4. ASSUME NEW c \in Consumers, NEW m \in Msgs, Receive(c, m) PROVE Kept'
  BY <1>4 DEF Receive
<1>5. ASSUME NEW c \in Consumers, ReceiveNothing(c) PROVE Kept'
  BY <1>5 DEF ReceiveNothing
<1>6. ASSUME NEW c \in Consumers, Handle(c) PROVE Kept'
  BY <1>6 DEF Handle
<1>7. ASSUME NEW c \in Consumers, Reply(c) PROVE Kept'
  BY <1>7 DEF Reply
<1>8. ASSUME NEW c \in Consumers, Ack(c) PROVE Kept'
  BY <1>8 DEF Ack
<1>9. ASSUME NEW c \in Consumers, LazyAck(c) PROVE Kept'
  BY <1>9 DEF LazyAck
<1>10. ASSUME NEW c \in Consumers, Close(c) PROVE Kept'
  BY <1>10 DEF Close
<1>11. CASE Stop
  BY <1>11 DEF Stop
<1>12. CASE Disconnect
  BY <1>12 DEF Disconnect, Held, NoneUnacked
<1>13. CASE Crash
  BY <1>13 DEF Crash, Held, NoneUnacked
<1>14. CASE Restart
  BY <1>14 DEF Restart
<1>15. CASE UNCHANGED vars
  BY <1>15 DEF vars
<1>16. QED
  BY <1>1, <1>2, <1>3, <1>4, <1>5, <1>6, <1>7, <1>8, <1>9, <1>10, <1>11,
     <1>12, <1>13, <1>14, <1>15 DEF Next, Consumer

LEMMA KeptInit == Init => Kept
BY DEF Init, Kept
-----------------------------------------------------------------------------
(* CLIENT mode: what is acknowledged, and what runs again.                 *)

Done(m) == runs[m] > 0 /\ (m \in WantsReply => m \in replied)

\* All a session holds is done with, but for the message its goroutine works
\* on, or has failed on.
ClientInv == mode = "CLIENT" =>
  /\ \A m \in settled : Done(m)
  /\ \A c \in Consumers : /\ pc[c] \in {"reply", "ack"} => runs[cur[c]] > 0
                          /\ pc[c] = "ack" => Done(cur[c])
  /\ \A c \in Consumers : \A m \in unacked[c] :
       \/ Done(m)
       \/ pc[c] = "close"
       \/ pc[c] \in {"handle", "reply"} /\ m = cur[c]

LEMMA ClientStep ==
  ASSUME TypeOK, Owned, ClientInv, [Next]_vars PROVE ClientInv'
<1> USE ConsumerAssumption
      DEF TypeOK, Owned, ClientInv, Done, Busy, Pcs, GoTo, Fault, NoFault, broker, history
<1>1. ASSUME NEW m \in Msgs, Arrive(m) PROVE ClientInv'
  BY <1>1 DEF Arrive
<1>2. ASSUME NEW c \in Consumers, Open(c) PROVE ClientInv'
  BY <1>2 DEF Open
<1>3. ASSUME NEW c \in Consumers, Poll(c) PROVE ClientInv'
  BY <1>3 DEF Poll
<1>4. ASSUME NEW c \in Consumers, NEW m \in Msgs, Receive(c, m) PROVE ClientInv'
  BY <1>4 DEF Receive
<1>5. ASSUME NEW c \in Consumers, ReceiveNothing(c) PROVE ClientInv'
  BY <1>5 DEF ReceiveNothing
<1>6. ASSUME NEW c \in Consumers, Handle(c) PROVE ClientInv'
  BY <1>6 DEF Handle
<1>7. ASSUME NEW c \in Consumers, Reply(c) PROVE ClientInv'
  BY <1>7 DEF Reply
<1>8. ASSUME NEW c \in Consumers, Ack(c) PROVE ClientInv'
  BY <1>8 DEF Ack
<1>9. ASSUME NEW c \in Consumers, LazyAck(c) PROVE ClientInv'
  BY <1>9 DEF LazyAck
<1>10. ASSUME NEW c \in Consumers, Close(c) PROVE ClientInv'
  BY <1>10 DEF Close
<1>11. CASE Stop
  BY <1>11 DEF Stop
<1>12. CASE Disconnect
  BY <1>12 DEF Disconnect, Held, NoneUnacked
<1>13. CASE Crash
  BY <1>13 DEF Crash, Held, NoneUnacked
<1>14. CASE Restart
  BY <1>14 DEF Restart
<1>15. CASE UNCHANGED vars
  BY <1>15 DEF vars
<1>16. QED
  BY <1>1, <1>2, <1>3, <1>4, <1>5, <1>6, <1>7, <1>8, <1>9, <1>10, <1>11,
     <1>12, <1>13, <1>14, <1>15 DEF Next, Consumer

\* A message the route has completed for returns to the queue only after a
\* failure, or on a dead connection, from which nobody takes it.
RerunInv == mode = "CLIENT" =>
  /\ \A m \in queue : runs[m] > 0 =>
       \/ m \in slipped
       \/ ~connected /\ \E c \in Consumers : pc[c] \in {"reply", "ack"} /\ cur[c] = m
  /\ \A c \in Consumers : \A m \in unacked[c] : runs[m] > 0 =>
       m \in slipped \/ (pc[c] \in {"reply", "ack"} /\ cur[c] = m)
  /\ \A c \in Consumers : pc[c] = "handle" /\ runs[cur[c]] > 0 => cur[c] \in slipped

LEMMA RerunStep ==
  ASSUME TypeOK, Owned, RerunInv, [Next]_vars PROVE RerunInv'
<1> USE ConsumerAssumption
      DEF TypeOK, Owned, RerunInv, Busy, Pcs, GoTo, Fault, NoFault, broker, history
<1>1. ASSUME NEW m \in Msgs, Arrive(m) PROVE RerunInv'
  BY <1>1 DEF Arrive
<1>2. ASSUME NEW c \in Consumers, Open(c) PROVE RerunInv'
  BY <1>2 DEF Open
<1>3. ASSUME NEW c \in Consumers, Poll(c) PROVE RerunInv'
  BY <1>3 DEF Poll
<1>4. ASSUME NEW c \in Consumers, NEW m \in Msgs, Receive(c, m) PROVE RerunInv'
  BY <1>4 DEF Receive
<1>5. ASSUME NEW c \in Consumers, ReceiveNothing(c) PROVE RerunInv'
  BY <1>5 DEF ReceiveNothing
<1>6. ASSUME NEW c \in Consumers, Handle(c) PROVE RerunInv'
  BY <1>6 DEF Handle
<1>7. ASSUME NEW c \in Consumers, Reply(c) PROVE RerunInv'
  BY <1>7 DEF Reply
<1>8. ASSUME NEW c \in Consumers, Ack(c) PROVE RerunInv'
  BY <1>8 DEF Ack
<1>9. ASSUME NEW c \in Consumers, LazyAck(c) PROVE RerunInv'
  BY <1>9 DEF LazyAck
<1>10. ASSUME NEW c \in Consumers, Close(c) PROVE RerunInv'
  BY <1>10 DEF Close
<1>11. CASE Stop
  BY <1>11 DEF Stop
<1>12. CASE Disconnect
  BY <1>12 DEF Disconnect, Held, NoneUnacked
<1>13. CASE Crash
  BY <1>13 DEF Crash, Held, NoneUnacked
<1>14. CASE Restart
  BY <1>14 DEF Restart
<1>15. CASE UNCHANGED vars
  BY <1>15 DEF vars
<1>16. QED
  BY <1>1, <1>2, <1>3, <1>4, <1>5, <1>6, <1>7, <1>8, <1>9, <1>10, <1>11,
     <1>12, <1>13, <1>14, <1>15 DEF Next, Consumer

\* The failures have paid for the runs of m that are over.
Paid(m) == runs[m] <= faults

\* What may run again has been paid for, the run at hand included: what is in
\* the queue, held by a session and not about to be settled, or in the hands of
\* a closure.  A lost connection has paid for all there was.
PaidInv == mode = "CLIENT" => \A m \in Msgs \ Fickle :
  /\ runs[m] <= faults + 1
  /\ m \in queue \/ ~connected => Paid(m)
  /\ \A c \in Consumers :
       /\ m \in unacked[c] => Paid(m) \/ (pc[c] \in {"reply", "ack"} /\ cur[c] = m)
       /\ pc[c] = "handle" /\ cur[c] = m =>
            Paid(m) /\ (~connected => runs[m] + 1 <= faults)

LEMMA PaidStep ==
  ASSUME TypeOK, Owned, PaidInv, [Next]_vars PROVE PaidInv'
<1> USE ConsumerAssumption
      DEF TypeOK, Owned, PaidInv, Paid, Busy, Pcs, GoTo, Fault, NoFault, broker, history
<1>1. ASSUME NEW m \in Msgs, Arrive(m) PROVE PaidInv'
  BY <1>1 DEF Arrive
<1>2. ASSUME NEW c \in Consumers, Open(c) PROVE PaidInv'
  BY <1>2 DEF Open
<1>3. ASSUME NEW c \in Consumers, Poll(c) PROVE PaidInv'
  BY <1>3 DEF Poll
<1>4. ASSUME NEW c \in Consumers, NEW m \in Msgs, Receive(c, m) PROVE PaidInv'
  BY <1>4 DEF Receive
<1>5. ASSUME NEW c \in Consumers, ReceiveNothing(c) PROVE PaidInv'
  BY <1>5 DEF ReceiveNothing
<1>6. ASSUME NEW c \in Consumers, Handle(c) PROVE PaidInv'
  BY <1>6 DEF Handle
<1>7. ASSUME NEW c \in Consumers, Reply(c) PROVE PaidInv'
  BY <1>7 DEF Reply
<1>8. ASSUME NEW c \in Consumers, Ack(c) PROVE PaidInv'
  BY <1>8 DEF Ack
<1>9. ASSUME NEW c \in Consumers, LazyAck(c) PROVE PaidInv'
  BY <1>9 DEF LazyAck
<1>10. ASSUME NEW c \in Consumers, Close(c) PROVE PaidInv'
  BY <1>10 DEF Close
<1>11. CASE Stop
  BY <1>11 DEF Stop
<1>12. CASE Disconnect
  BY <1>12 DEF Disconnect, Held, NoneUnacked
<1>13. CASE Crash
  BY <1>13 DEF Crash, Held, NoneUnacked
<1>14. CASE Restart
  BY <1>14 DEF Restart
<1>15. CASE UNCHANGED vars
  BY <1>15 DEF vars
<1>16. QED
  BY <1>1, <1>2, <1>3, <1>4, <1>5, <1>6, <1>7, <1>8, <1>9, <1>10, <1>11,
     <1>12, <1>13, <1>14, <1>15 DEF Next, Consumer
-----------------------------------------------------------------------------
(* AUTO mode: at most once.                                                *)

\* What has run is settled, and what a closure is about to run has not.
AutoInv == mode = "AUTO" =>
  /\ \A m \in Msgs : runs[m] <= 1 /\ (runs[m] > 0 => m \in settled)
  /\ \A c \in Consumers : pc[c] = "handle" => runs[cur[c]] = 0

LEMMA AutoStep ==
  ASSUME TypeOK, Owned, AutoInv, [Next]_vars PROVE AutoInv'
<1> USE ConsumerAssumption
      DEF TypeOK, Owned, AutoInv, Busy, Pcs, GoTo, Fault, NoFault, broker, history
<1>1. ASSUME NEW m \in Msgs, Arrive(m) PROVE AutoInv'
  BY <1>1 DEF Arrive
<1>2. ASSUME NEW c \in Consumers, Open(c) PROVE AutoInv'
  BY <1>2 DEF Open
<1>3. ASSUME NEW c \in Consumers, Poll(c) PROVE AutoInv'
  BY <1>3 DEF Poll
<1>4. ASSUME NEW c \in Consumers, NEW m \in Msgs, Receive(c, m) PROVE AutoInv'
  BY <1>4 DEF Receive
<1>5. ASSUME NEW c \in Consumers, ReceiveNothing(c) PROVE AutoInv'
  BY <1>5 DEF ReceiveNothing
<1>6. ASSUME NEW c \in Consumers, Handle(c) PROVE AutoInv'
  BY <1>6 DEF Handle
<1>7. ASSUME NEW c \in Consumers, Reply(c) PROVE AutoInv'
  BY <1>7 DEF Reply
<1>8. ASSUME NEW c \in Consumers, Ack(c) PROVE AutoInv'
  BY <1>8 DEF Ack
<1>9. ASSUME NEW c \in Consumers, LazyAck(c) PROVE AutoInv'
  BY <1>9 DEF LazyAck
<1>10. ASSUME NEW c \in Consumers, Close(c) PROVE AutoInv'
  BY <1>10 DEF Close
<1>11. CASE Stop
  BY <1>11 DEF Stop
<1>12. CASE Disconnect
  BY <1>12 DEF Disconnect, Held, NoneUnacked
<1>13. CASE Crash
  BY <1>13 DEF Crash, Held, NoneUnacked
<1>14. CASE Restart
  BY <1>14 DEF Restart
<1>15. CASE UNCHANGED vars
  BY <1>15 DEF vars
<1>16. QED
  BY <1>1, <1>2, <1>3, <1>4, <1>5, <1>6, <1>7, <1>8, <1>9, <1>10, <1>11,
     <1>12, <1>13, <1>14, <1>15 DEF Next, Consumer
-----------------------------------------------------------------------------
(* The theorems.                                                           *)

\* All the invariants together, which are inductive.
Safe == TypeOK /\ Owned /\ Kept /\ ClientInv /\ RerunInv /\ AutoInv

LEMMA SafeInit == Init => Safe
BY TypeInit, OwnedInit, KeptInit DEF Safe, Init, ClientInv, RerunInv, AutoInv, NoneUnacked

LEMMA AlwaysSafe == Spec => []Safe
<1>1. Safe /\ [Next]_vars => Safe'
  BY TypedStep, OwnedStep, KeptStep, ClientStep, RerunStep, AutoStep DEF Safe
<1>2. QED
  BY SafeInit, <1>1, PTL DEF Spec

\* In CLIENT mode no message is acknowledged that has not been routed and,
\* if it wants a reply, answered (ConsumeQueue and the closure of Start).
THEOREM AcknowledgedOnlyRouted == Spec => []AckedWasRouted
<1>1. Safe => AckedWasRouted
  BY DEF Safe, ClientInv, Done, AckedWasRouted
<1>2. QED
  BY AlwaysSafe, <1>1, PTL

\* In CLIENT mode the route runs again for a message only after its reply,
\* its acknowledgement, the connection or the process has failed, and at most
\* once more for each of these failures.
THEOREM RerunsAreExcused == Spec => []RerunExcused
<1>1. Init => PaidInv
  BY ConsumerAssumption DEF Init, PaidInv, Paid, NoneUnacked
<1>2. Safe /\ PaidInv /\ [Next]_vars => PaidInv'
  BY PaidStep DEF Safe
<1>3. Safe /\ PaidInv => RerunExcused
  BY DEF Safe, RerunInv, PaidInv, RerunExcused
<1>4. QED
  BY AlwaysSafe, <1>1, <1>2, <1>3, PTL DEF Spec

\* The steps of the starter are steps of QueueDelivery, or change nothing it
\* speaks of: Arrive is Arrive, a Handle that completes is Run, and what is
\* acknowledged, on receipt, by Ack or by the library, is Settle.
LEMMA DeliveryStep ==
  ASSUME Safe, [Next]_vars PROVE [Broker!Next]_(Broker!vars)
<1> USE ConsumerAssumption
      DEF Safe, TypeOK, Owned, Busy, Pcs, GoTo, Fault, NoFault, broker, history
<1> DEFINE Same == UNCHANGED <<mode, arrived, settled, runs>>
           Goal == Same \/ Broker!Next
<1>1. ASSUME NEW m \in Msgs, Arrive(m) PROVE Goal
  <2>1. Broker!Arrive(m)
    BY <1>1 DEF Arrive, Broker!Arrive
  <2>2. QED
    BY <2>1, Zenon DEF Broker!Next
<1>2. ASSUME NEW S \in SUBSET Msgs, Broker!Settle(S) PROVE Goal
  BY <1>2, Zenon DEF Broker!Next
<1>3. ASSUME NEW c \in Consumers, NEW m \in Msgs, Receive(c, m) PROVE Goal
  <2>1. Same \/ Broker!Settle({m})
    BY <1>3 DEF Receive, Broker!Settle
  <2>2. {m} \in SUBSET Msgs
    OBVIOUS
  <2>3. QED
    BY <1>2, <2>1, <2>2, Zenon
<1>4. ASSUME NEW c \in Consumers, Handle(c) PROVE Goal
  <2>1. Same \/ Broker!Run(cur[c])
    BY <1>4 DEF Handle, Broker!Run, Broker!RunAllowed, AutoInv, Modes
  <2>2. cur[c] \in Msgs
    BY <1>4 DEF Handle
  <2>3. QED
    BY <2>1, <2>2, Zenon DEF Broker!Next
<1>5. ASSUME NEW c \in Consumers, Ack(c) \/ LazyAck(c) PROVE Goal
  <2>1. Same \/ Broker!Settle(unacked[c])
    BY <1>5 DEF Ack, LazyAck, Broker!Settle, ClientInv, Done
  <2>2. unacked[c] \in SUBSET Msgs
    OBVIOUS
  <2>3. QED
    BY <1>2, <2>1, <2>2, Zenon
<1>6. ASSUME NEW c \in Consumers,
             Open(c) \/ Poll(c) \/ ReceiveNothing(c) \/ Reply(c) \/ Close(c)
      PROVE  Goal
  BY <1>6 DEF Open, Poll, ReceiveNothing, Reply, Close
<1>7. ASSUME Stop \/ Disconnect \/ Crash \/ Restart \/ UNCHANGED vars PROVE Goal
  BY <1>7 DEF Stop, Disconnect, Crash, Restart, vars
<1>8. Same => UNCHANGED Broker!vars
  BY DEF Broker!vars
<1> HIDE DEF Same
<1>9. QED
  BY <1>1, <1>3, <1>4, <1>5, <1>6, <1>7, <1>8, Zenon DEF Next, Consumer

\* The starter implements QueueDelivery, whatever its goroutines, the
\* connection and the process do.
THEOREM StarterDelivers == Spec => KeepsDelivery
<1>1. Init => Broker!Init
  BY DEF Init, Modes, Broker!Init
<1>2. Safe /\ [Next]_vars => [Broker!Next]_(Broker!vars)
  BY DeliveryStep
<1>3. QED
  BY <1>1, <1>2, AlwaysSafe, PTL DEF Spec, KeepsDelivery, Broker!Spec
-----------------------------------------------------------------------------
(* AUTO mode: how much a failure may lose.                                 *)

\* Messages that are settled, will not run any more, and never have.
Doomed == {m \in settled \ Poison :
             runs[m] = 0 /\ \A c \in Consumers : pc[c] = "handle" => cur[c] # m}

\* The messages that goroutines have received.
Received == {cur[c] : c \in Consumers}

DoomedFew == mode = "AUTO" =>
  /\ IsFiniteSet(Doomed)
  /\ Cardinality(Doomed) <= faults * Cardinality(Consumers)

\* There are no more messages at work than goroutines.
LEMMA FewReceived ==
  IsFiniteSet(Received) /\ Cardinality(Received) <= Cardinality(Consumers)
<1> DEFINE f == [c \in Consumers |-> cur[c]]
<1>1. f \in Surjection(Consumers, Received)
  BY DEF Surjection, Received
<1>2. QED
  BY <1>1, FS_Surjection, ConsumerAssumption

\* A step dooms nothing but messages at work, one at a time unless the
\* process ends, and only by a failure.
LEMMA DoomedGrows ==
  ASSUME Safe, [Next]_vars, mode = "AUTO"
  PROVE  \/ Doomed' \subseteq Doomed /\ faults' >= faults
         \/ Doomed' \subseteq Doomed \cup Received /\ faults' = faults + 1
<1> USE ConsumerAssumption
      DEF Safe, TypeOK, Owned, Busy, AutoInv, Pcs, GoTo, Fault, NoFault, broker, history
<1> DEFINE Fewer == Doomed' \subseteq Doomed /\ faults' >= faults
           Some == Doomed' \subseteq Doomed \cup Received /\ faults' = faults + 1
<1>1. ASSUME NEW m \in Msgs, Arrive(m) PROVE Fewer
  BY <1>1 DEF Arrive, Doomed
<1>2. ASSUME NEW c \in Consumers, NEW m \in Msgs, Receive(c, m) PROVE Fewer
  BY <1>2 DEF Receive, Doomed
<1>3. ASSUME NEW c \in Consumers, Handle(c) PROVE Fewer \/ Some
  BY <1>3 DEF Handle, Doomed, Received
<1>4. ASSUME NEW c \in Consumers, Ack(c) \/ LazyAck(c) PROVE Fewer
  BY <1>4 DEF Ack, LazyAck, Doomed
<1>5. ASSUME NEW c \in Consumers,
             Open(c) \/ Poll(c) \/ ReceiveNothing(c) \/ Reply(c) \/ Close(c)
      PROVE  Fewer
  BY <1>5 DEF Open, Poll, ReceiveNothing, Reply, Close, Doomed
<1>6. ASSUME Stop \/ Disconnect \/ Restart \/ UNCHANGED vars PROVE Fewer
  BY <1>6 DEF Stop, Disconnect, Restart, vars, Doomed
<1>7. ASSUME Crash PROVE Some
  BY <1>7 DEF Crash, Doomed, Received
<1> HIDE DEF Fewer, Some
<1>8. Fewer \/ Some
  BY <1>1, <1>2, <1>3, <1>4, <1>5, <1>6, <1>7, Zenon DEF Next, Consumer
<1>9. QED
  BY <1>8 DEF Fewer, Some

LEMMA DoomedStep ==
  ASSUME Safe, DoomedFew, [Next]_vars PROVE DoomedFew'
<1> SUFFICES ASSUME mode' = "AUTO"
             PROVE  IsFiniteSet(Doomed') /\ Cardinality(Doomed') <= faults' * Cardinality(Consumers)
  BY DEF DoomedFew
<1>1. mode = "AUTO"
  BY DEF Next, Consumer, Arrive, Open, Poll, Receive, ReceiveNothing, Handle, Reply,
         Ack, LazyAck, Close, Stop, Disconnect, Crash, Restart, vars
<1> DEFINE N == Cardinality(Consumers)
<1>2. N \in Nat /\ faults \in Nat
  BY FS_CardinalityType, ConsumerAssumption DEF Safe, TypeOK
<1>3. IsFiniteSet(Doomed) /\ Cardinality(Doomed) <= faults * N
  BY <1>1 DEF DoomedFew
<1>4. Cardinality(Doomed) \in Nat
  BY <1>3, FS_CardinalityType
<1>5. CASE Doomed' \subseteq Doomed /\ faults' >= faults
  <2>1. IsFiniteSet(Doomed') /\ Cardinality(Doomed') <= Cardinality(Doomed)
    BY <1>3, <1>5, FS_Subset
  <2>2. faults' \in Nat
    BY TypedStep, ConsumerAssumption DEF Safe, TypeOK
  <2>3. Cardinality(Doomed') \in Nat
    BY <2>1, FS_CardinalityType
  <2>4. \A a, b, n \in Nat : a <= b => a * n <= b * n
    BY SMT
  <2>5. faults * N <= faults' * N
    BY <1>2, <1>5, <2>2, <2>4
  <2>6. QED
    BY <1>2, <1>3, <1>4, <2>1, <2>2, <2>3, <2>5
<1>6. CASE Doomed' \subseteq Doomed \cup Received /\ faults' = faults + 1
  <2> DEFINE Both == Doomed \cup Received
  <2>1. /\ IsFiniteSet(Received) /\ Cardinality(Received) <= N
        /\ Cardinality(Received) \in Nat
    BY FewReceived, FS_CardinalityType
  <2>2. /\ IsFiniteSet(Both)
        /\ Cardinality(Both) <= Cardinality(Doomed) + Cardinality(Received)
    <3>1. IsFiniteSet(Doomed \cap Received)
      BY <1>3, FS_Intersection
    <3>2. Cardinality(Doomed \cap Received) \in Nat
      BY <3>1, FS_CardinalityType
    <3>3. /\ IsFiniteSet(Both)
          /\ Cardinality(Both) =
               Cardinality(Doomed) + Cardinality(Received) - Cardinality(Doomed \cap Received)
      BY <1>3, <2>1, FS_Union
    <3>4. QED
      BY <1>4, <2>1, <3>2, <3>3
  <2>3. /\ IsFiniteSet(Doomed') /\ Cardinality(Doomed') <= Cardinality(Both)
        /\ Cardinality(Doomed') \in Nat /\ Cardinality(Both) \in Nat
    BY <1>6, <2>2, FS_Subset, FS_CardinalityType
  <2>4. (faults + 1) * N = faults * N + N
    BY <1>2
  <2>5. QED
    BY <1>2, <1>3, <1>4, <1>6, <2>1, <2>2, <2>3, <2>4
<1>7. QED
  BY <1>1, <1>5, <1>6, DoomedGrows

\* In AUTO mode the route completes at most once for each message, and each
\* failure keeps at most one message per goroutine from ever being routed.
THEOREM AutoRoutesOnce == Spec => []AutoAtMostOnce
<1>1. Init => DoomedFew
  <2> SUFFICES ASSUME Init PROVE DoomedFew
    OBVIOUS
  <2>1. Doomed = {}
    BY DEF Doomed, Init
  <2>2. Cardinality(Consumers) \in Nat /\ faults = 0
    BY FS_CardinalityType, ConsumerAssumption DEF Init
  <2>3. QED
    BY <2>1, <2>2, FS_EmptySet DEF DoomedFew
<1>2. Safe /\ DoomedFew /\ [Next]_vars => DoomedFew'
  BY DoomedStep
<1>3. Safe /\ DoomedFew => AutoAtMostOnce
  <2> SUFFICES ASSUME Safe, DoomedFew, mode = "AUTO"
               PROVE  Cardinality(Lost) <= faults * Cardinality(Consumers)
    BY DEF Safe, AutoInv, AutoAtMostOnce
  <2>1. Lost \subseteq Doomed
    BY DEF Lost, Doomed
  <2>2. IsFiniteSet(Lost) /\ Cardinality(Lost) <= Cardinality(Doomed)
    BY <2>1, FS_Subset DEF DoomedFew
  <2>3. /\ Cardinality(Lost) \in Nat /\ Cardinality(Doomed) \in Nat
        /\ Cardinality(Consumers) \in Nat /\ faults \in Nat
    BY <2>2, FS_CardinalityType, ConsumerAssumption DEF DoomedFew, Safe, TypeOK
  <2>4. Cardinality(Doomed) <= faults * Cardinality(Consumers)
    BY DEF DoomedFew
  <2>5. QED
    BY <2>2, <2>3, <2>4
<1>4. QED
  BY <1>1, <1>2, <1>3, AlwaysSafe, PTL DEF Spec
-----------------------------------------------------------------------------
(* Nothing is left behind by a goroutine that ends.                        *)

\* A goroutine without a session holds nothing: the deferred closes hand back
\* what was not acknowledged, and a crash does.
NoSession == {"open", "closed", "down"}
EndedInv == \A c \in Consumers : pc[c] \in NoSession => unacked[c] = {}

LEMMA EndedStep ==
  ASSUME TypeOK, EndedInv, [Next]_vars PROVE EndedInv'
<1> USE DEF TypeOK, EndedInv, NoSession, GoTo, broker
<1>1. ASSUME NEW c \in Consumers, NEW m \in Msgs, Receive(c, m) PROVE EndedInv'
  BY <1>1 DEF Receive
<1>2. ASSUME NEW c \in Consumers, Open(c) \/ Poll(c) \/ ReceiveNothing(c) \/ Handle(c) \/ Reply(c)
      PROVE  EndedInv'
  BY <1>2 DEF Open, Poll, ReceiveNothing, Handle, Reply
<1>3. ASSUME NEW c \in Consumers, Ack(c) \/ LazyAck(c) \/ Close(c) PROVE EndedInv'
  BY <1>3 DEF Ack, LazyAck, Close
<1>4. CASE Disconnect \/ Crash
  BY <1>4 DEF Disconnect, Crash, NoneUnacked
<1>5. CASE Restart
  BY <1>5 DEF Restart
<1>6. ASSUME UNCHANGED <<pc, unacked>> PROVE EndedInv'
  BY <1>6
<1>7. (\E m \in Msgs : Arrive(m)) \/ Stop \/ UNCHANGED vars => UNCHANGED <<pc, unacked>>
  BY DEF Arrive, Stop, vars
<1> HIDE DEF EndedInv
<1>8. QED
  BY <1>1, <1>2, <1>3, <1>4, <1>5, <1>6, <1>7, Zenon DEF Next, Consumer

\* Every message that has arrived is in one place: settled, in the queue, or
\* held by the session of one goroutine, and that one has not ended.
MessagesKept ==
  \A m \in arrived :
    \/ m \in settled \ queue /\ \A c \in Consumers : m \notin unacked[c]
    \/ m \in queue \ settled /\ \A c \in Consumers : m \notin unacked[c]
    \/ /\ m \notin queue \cup settled
       /\ \E c \in Consumers : /\ m \in unacked[c] /\ pc[c] \notin Ended
                               /\ \A d \in Consumers \ {c} : m \notin unacked[d]

\* In every mode no message vanishes or is doubled, whichever goroutines end
\* and whatever fails: when none is left at work, all that is not settled is
\* in the queue for the next one.
THEOREM NoMessageVanishes == Spec => []MessagesKept
<1>1. Init => EndedInv
  BY DEF Init, EndedInv, NoneUnacked
<1>2. Safe /\ EndedInv /\ [Next]_vars => EndedInv'
  BY EndedStep DEF Safe
<1>3. Safe /\ EndedInv => MessagesKept
  <2> SUFFICES ASSUME Safe, EndedInv, NEW m \in arrived, m \notin queue \cup settled
               PROVE  \E c \in Consumers : /\ m \in unacked[c] /\ pc[c] \notin Ended
                                           /\ \A d \in Consumers \ {c} : m \notin unacked[d]
    BY DEF Safe, Owned, MessagesKept
  <2>1. PICK c \in Consumers : m \in unacked[c]
    BY DEF Safe, Kept
  <2>2. pc[c] \notin Ended
    BY <2>1 DEF EndedInv, NoSession, Ended
  <2>3. \A d \in Consumers \ {c} : m \notin unacked[d]
    BY <2>1 DEF Safe, Owned
  <2>4. QED
    BY <2>1, <2>2, <2>3
<1>4. QED
  BY <1>1, <1>2, <1>3, AlwaysSafe, PTL DEF Spec
-----------------------------------------------------------------------------
(* After Stop.                                                             *)

\* How many steps a goroutine may still take once the done channel is closed.
StepsLeft == [ receive |-> 6, handle |-> 5, reply |-> 4, ack |-> 3, open |-> 3,
               poll |-> 2, close |-> 1, closed |-> 0, down |-> 0 ]

Works(c) == Consumer(c) \/ \E m \in Msgs : Receive(c, m)

\* While done stays closed nothing takes a goroutine further from its end, and
\* each step of its own brings it nearer.
Winding ==
  done /\ done' => \A c \in Consumers :
    /\ StepsLeft[pc'[c]] <= StepsLeft[pc[c]]
    /\ Works(c) => StepsLeft[pc'[c]] < StepsLeft[pc[c]]

LEMMA WindingStep ==
  ASSUME TypeOK, [Next]_vars PROVE Winding
<1> USE DEF TypeOK, GoTo
<1>1. ASSUME done, NEW c \in Consumers, Works(c)
      PROVE  /\ \A d \in Consumers \ {c} : pc'[d] = pc[d]
             /\ \/ pc[c] = "open" /\ pc'[c] \in {"poll", "closed"}
                \/ pc[c] = "poll" /\ pc'[c] = "close"
                \/ pc[c] = "receive" /\ pc'[c] \in {"poll", "handle"}
                \/ pc[c] = "handle" /\ pc'[c] \in {"reply", "ack", "close"}
                \/ pc[c] = "reply" /\ pc'[c] \in {"ack", "close"}
                \/ pc[c] = "ack" /\ pc'[c] = "poll"
                \/ pc[c] = "close" /\ pc'[c] = "closed"
  BY <1>1 DEF Works, Consumer, Open, Poll, Receive, ReceiveNothing, Handle, Reply, Ack, Close
<1>2. ASSUME done, NEW c \in Consumers, Works(c)
      PROVE  /\ StepsLeft[pc'[c]] < StepsLeft[pc[c]]
             /\ \A d \in Consumers \ {c} : pc'[d] = pc[d]
  BY <1>1, <1>2 DEF StepsLeft
<1>3. \A label \in Pcs : StepsLeft[label] \in Nat /\ StepsLeft["down"] <= StepsLeft[label]
  BY DEF StepsLeft, Pcs
<1>4. ASSUME done, done', NEW c \in Consumers PROVE StepsLeft[pc'[c]] <= StepsLeft[pc[c]]
  <2>1. CASE \E d \in Consumers : Works(d)
    <3>1. PICK d \in Consumers : Works(d)
      BY <2>1
    <3>2. StepsLeft[pc'[c]] < StepsLeft[pc[c]] \/ pc'[c] = pc[c]
      BY <1>2, <1>4, <3>1
    <3>3. pc[c] \in Pcs /\ pc'[c] \in Pcs
      BY TypedStep
    <3>4. StepsLeft[pc[c]] \in Nat /\ StepsLeft[pc'[c]] \in Nat
      BY <1>3, <3>3
    <3>5. QED
      BY <3>2, <3>4
  <2>2. CASE Crash
    BY <1>3, <2>2 DEF Crash
  <2>3. ~Restart
    BY <1>4, Zenon DEF Restart
  <2>4. ASSUME \/ \E m \in Msgs : Arrive(m)
               \/ \E d \in Consumers : LazyAck(d)
               \/ Stop \/ Disconnect \/ UNCHANGED vars
        PROVE  pc' = pc
    BY <2>4 DEF Arrive, LazyAck, Stop, Disconnect, vars
  <2>5. ASSUME pc' = pc PROVE StepsLeft[pc'[c]] <= StepsLeft[pc[c]]
    BY <1>3, <2>5
  <2>6. QED
    BY <2>1, <2>2, <2>3, <2>4, <2>5, Zenon DEF Next, Works
<1>5. QED
  BY <1>2, <1>4 DEF Winding

\* Once Stop has closed the done channel a goroutine takes at most six more
\* steps, and so at most one more message: what StopEndsConsumers needs besides
\* the fairness of the scheduler.
THEOREM StopWindsDown == Spec => [][Winding]_vars
<1>1. TypeOK /\ [Next]_vars => Winding
  BY WindingStep
<1>2. QED
  BY <1>1, TypeCorrect, PTL DEF Spec
=============================================================================
