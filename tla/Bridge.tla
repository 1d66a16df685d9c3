------------------------------- MODULE Bridge --------------------------------
(***************************************************************************)
(* Two bridges joined by a queue.  A route of the front one answers HTTP   *)
(* requests (RestStarter) with the reply jms_send gets to the request it   *)
(* puts on the queue (RequestReply, with a temporary reply queue); a       *)
(* jms_queue_consumer of the back one takes the requests, runs its route   *)
(* and replies to the JMSReplyTo queue (JmsConsumer).  Either may lose its *)
(* connection, and the back one may crash; the front one stays up.         *)
(* Nothing in the program calls the Stop methods.                          *)
(***************************************************************************)
EXTENDS Naturals, FiniteSets

CONSTANTS
  Callers,     \* HTTP clients of the front bridge
  TextCallers, \* those whose front route leaves text, which needs no JSON
  MaxCalls,    \* bound on the requests of one client
  Confs,       \* configurations of jms_send, all with a temporary queue
  Consumers,   \* goroutines of the consumer of the back bridge
  NoMsg,
  Poison,      \* requests the back route fails on
  MaxFaults,     \* bound on the failures of the back bridge
  MaxCallFaults  \* and on those of the front bridge

VARIABLES
  \* RestStarter
  rest, status,
  \* RequestReply: pc is call, faults is callFaults; requests and answered
  \* are what the consumers make of them
  conf, linked, call, calls, open, got, temps, replies, callFaults,
  \* JmsConsumer
  mode, arrived, queue, settled, unacked, connected, done, pc, cur, runs,
  replied, slipped, faults

restVars  == <<rest, status>>
callVars  == <<conf, linked, call, calls, open, got, temps, callFaults>>
consVars  == <<mode, arrived, queue, settled, unacked, connected, done, pc, cur,
               runs, replied, slipped, faults>>
vars      == <<restVars, callVars, replies, consVars>>

Requests == Callers \X (1..MaxCalls)

ASSUME BridgeAssumption ==
  /\ IsFiniteSet(Consumers)
  /\ MaxCalls \in Nat /\ MaxFaults \in Nat /\ MaxCallFaults \in Nat
  /\ Confs \subseteq [via : {"tmp"}, timed : BOOLEAN, platform : {"linux", "windows"}]
  /\ Poison \subseteq Requests /\ NoMsg \notin Requests

Busy == {"handle", "reply"}

\* The requests the back bridge still has to answer: in the queue, about to
\* be routed or replied to, or to come back when their session closes.
Pending ==
  queue \cup {cur[c] : c \in {d \in Consumers : pc[d] \in Busy}}
        \cup ((UNION {unacked[c] : c \in Consumers}) \ replied)

Rest == INSTANCE RestStarter
RR == INSTANCE RequestReply WITH
        pc <- call, faults <- callFaults, MaxFaults <- MaxCallFaults,
        requests <- Pending, answered <- replied
JC == INSTANCE JmsConsumer WITH
        Msgs <- Requests, Selected <- Requests, WantsReply <- Requests,
        Fickle <- Requests
-----------------------------------------------------------------------------
Init ==
  /\ Rest!Init
  /\ JC!Init /\ mode \in {"AUTO", "CLIENT"}
  /\ RR!Init

\* A request with the right method; the route starts its jms_send.
Post(k) ==
  /\ Rest!Accept(k)
  /\ UNCHANGED consVars
  /\ RR!Prepare(k)

\* The request gets no further than the starter.  A client that has made its
\* MaxCalls calls sends nothing more.
Reject(k) ==
  /\ calls[k] < MaxCalls
  /\ Rest!Refuse(k) \/ Rest!BodyFails(k)
  /\ UNCHANGED <<callVars, replies, consVars>>

\* What is sent arrives in the queue.
Send(k) ==
  /\ JC!Arrive(RR!Request(k)) \/ UNCHANGED consVars
  /\ RR!Send(k)
  /\ UNCHANGED restVars

Wait(k) ==
  /\ UNCHANGED <<restVars, consVars>>
  /\ \/ RR!OpenReply(k) \/ RR!Timeout(k)
     \/ \E r \in Requests : RR!ReceiveReply(k, r)

\* The front bridge loses its connection, and with it the reply queues, or a
\* wait of one of its calls fails.
FrontFails ==
  /\ UNCHANGED <<restVars, consVars>>
  /\ RR!Disconnect \/ \E k \in Callers : RR!ReceiveFails(k)

\* jms_send has returned to the route, and the route to the starter.
Finish(k) ==
  /\ \/ /\ call[k] = "returned"
        /\ Rest!HandlerReturns(k)
     \/ /\ call[k] = "failed"
        /\ Rest!HandlerFails(k)
  /\ UNCHANGED <<callVars, replies, consVars>>

Answer(k) ==
  /\ \/ Rest!Respond(k)
     \/ k \notin TextCallers /\ Rest!MarshalFails(k)
  /\ UNCHANGED <<callVars, replies, consVars>>
-----------------------------------------------------------------------------
\* Mutant: the closures of the goroutines share one replyTo variable.
ReplyToShared(c) ==
  LET others == {cur[d] : d \in {e \in Consumers \ {c} : pc[e] \in Busy}}
  IN  IF others = {} THEN cur[c] ELSE CHOOSE m \in others : TRUE

\* The JMSReplyTo queue of the message, which is named after the request.
ReplyTo(c) == cur[c]

Delivered(c) ==
  /\ ReplyTo(c) \in temps
  /\ replied' = replied \cup {cur[c]}
  /\ replies' = replies \cup {<<ReplyTo(c), cur[c]>>}

\* The reply goes to the temporary queue while that exists; publishing to one
\* that is gone fails, and publishing may fail with the reply sent.
Reply(c) ==
  /\ JC!Reply(c)
  /\ \/ pc'[c] = "ack" /\ Delivered(c)
     \/ pc'[c] = "close" /\ faults' > faults /\ Delivered(c)
     \/ /\ pc'[c] = "close"
        /\ ReplyTo(c) \notin temps \/ ~connected \/ faults' > faults
        /\ UNCHANGED <<replied, replies>>

Consume(c) ==
  /\ \/ Reply(c)
     \/ /\ \/ JC!Open(c) \/ JC!Poll(c) \/ JC!ReceiveNothing(c)
           \/ JC!Handle(c) \/ JC!Ack(c) \/ JC!Close(c)
        /\ UNCHANGED replies
  /\ UNCHANGED <<restVars, callVars>>

Receive(c, m) ==
  /\ JC!Receive(c, m)
  /\ UNCHANGED <<restVars, callVars, replies>>

\* The back bridge loses its connection, dies or starts again.
Upset ==
  /\ JC!Disconnect \/ JC!Crash \/ JC!Restart
  /\ UNCHANGED <<restVars, callVars, replies>>
-----------------------------------------------------------------------------
Serve(k) == Send(k) \/ Wait(k) \/ Finish(k) \/ Answer(k)

Next ==
  \/ \E k \in Callers : Post(k) \/ Reject(k) \/ Serve(k)
  \/ \E c \in Consumers : Consume(c) \/ \E m \in Requests : Receive(c, m)
  \/ FrontFails \/ Upset

Spec == Init /\ [][Next]_vars

\* The goroutines of both bridges run, and the broker hands out what is
\* asked for again and again.
FairSpec ==
  /\ Spec
  /\ \A k \in Callers : WF_vars(Serve(k))
  /\ \A c \in Consumers : WF_vars(Consume(c))
  /\ \A m \in Requests : SF_vars(\E c \in Consumers : Receive(c, m))
-----------------------------------------------------------------------------
(* What the two bridges guarantee together.                                *)

\* The components keep their types, and a request in the hands of a route
\* has a call: in progress or ended, but never that of an earlier request.
TypeOK ==
  /\ rest \in [Callers -> Rest!Places] /\ status \in [Callers -> Rest!Codes]
  /\ RR!TypeOK /\ JC!TypeOK
  /\ \A k \in Callers :
       /\ rest[k] \in {"idle", "done"} => call[k] \notin RR!Active
       /\ rest[k] = "marshal" => call[k] = "returned"

\* Where the request of a client is, as a remote call.
Progress(k) ==
  CASE rest[k] \in {"handling", "marshal"} -> "open"
    [] rest[k] = "done" -> IF status[k] = 200 THEN "returned" ELSE "failed"
    [] rest[k] = "idle" -> "idle"

EndToEnd == INSTANCE RemoteCall WITH
              oneway <- FALSE,
              place  <- [k \in Callers |-> Progress(k)],
              served <- {r \in Requests : runs[r] > 0},
              result <- [k \in Callers |-> IF status[k] = 200 THEN got[k] ELSE {}]

\* The two bridges and the queue between them make a remote call of an HTTP
\* request: a client that gets status 200 has the reply to its own request,
\* and the back route has completed for that very request.
AnswersRequests == EndToEnd!Spec

\* The back route completes twice for one request only after a failure of
\* the back bridge, or when the front one has lost the reply queues with its
\* connection: not because a client has given up or is answered late, nor
\* because requests the route rejects end goroutines.
RoutedOnce ==
  \A r \in Requests : runs[r] > 1 => faults > 0 \/ ~linked

\* A client that has stopped waiting ends no consumer: while nothing fails,
\* and the reply queues have not gone with their connection, only a request
\* the route rejects does.
LateRepliesAccepted ==
  faults = 0 /\ linked => \A c \in Consumers : pc[c] = "close" => cur[c] \in Poison

\* The consumers are a service that RequestReply allows for: they answer
\* only what was sent, each to its own queue, and answer again only what
\* came back to the queue, so that what holds of calls there holds here.
ServesCalls == RR!Spec

\* With a replyTimeout every client gets a status code, whatever happens to
\* the back bridge.
PostsEnd ==
  \A k \in Callers : conf.timed /\ rest[k] = "handling" ~> rest[k] = "done"

Undisturbed ==
  /\ faults = 0 /\ callFaults = 0
  /\ \E c \in Consumers : pc[c] # "closed"

\* Without a replyTimeout nobody waits for ever: while nothing fails
\* and a consumer is left, every request its route
\* does not reject is answered with 200, although the call of a rejected one
\* never ends.
PatienceRewarded ==
  [](Undisturbed) =>
    \A r \in Requests \ Poison :
      LET k == r[1] IN
      ~conf.timed /\ rest[k] = "handling" /\ r = <<k, calls[k]>>
        ~> \/ conf.timed \/ status[k] = 200
           \/ k \notin TextCallers /\ rest[k] = "done"
=============================================================================
