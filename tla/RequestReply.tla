---------------------------- MODULE RequestReply ----------------------------
(***************************************************************************)
(* jms_send (src/processors/jms_send.go) and PublishTextMessage below it   *)
(* (tibco_linux.go, tibco_windows.go): each call opens handles of the EMS  *)
(* library, sends a request, with expectReply waits on a reply queue and   *)
(* replaces the payload by the reply, and runs its deferred closes.  Calls *)
(* of several routes or consumers run concurrently on one connection.  The *)
(* reply queue is a temporary one of the call, or the queue                *)
(* replyDestination names, which all calls share; no correlation id is set *)
(* or looked at.  The service that answers is external, and owes nothing.  *)
(* The broker keeps a temporary queue until it is deleted or the           *)
(* connection is lost, and deletes none that has a receiver.               *)
(***************************************************************************)
EXTENDS Naturals, FiniteSets, Sequences

CONSTANTS
  Callers,    \* goroutines whose route reaches the processor
  Confs,      \* the configurations considered
  MaxCalls,   \* bound on the calls of one caller
  MaxFaults   \* bound on the calls of the library that fail

\* via: useTmpReplyDestination, replyDestination, or a call that does not
\* wait: no expectReply, or no queue to wait on; timed: replyTimeout > 0,
\* where 0 waits for ever; platform: the implementation.
ASSUME RequestAssumption ==
  /\ Confs \subseteq [via : {"tmp", "named", "none"}, timed : BOOLEAN,
                      platform : {"linux", "windows"}]
  /\ MaxCalls \in Nat /\ MaxFaults \in Nat

VARIABLES
  conf,       \* the configuration
  linked,     \* the connection of the JMS component works
  pc, calls,  \* where each caller is, and the number of its call
  open,       \* the handles that are open, each with its call
  got,        \* the requests whose reply the payload of the call comes from
  requests,   \* requests the service has to answer
  answered,   \* requests it has answered at least once
  temps,      \* requests whose temporary queue exists
  replies,    \* replies waiting, and the queue each waits in
  faults      \* failures so far

vars == <<conf, linked, pc, calls, open, got, requests, answered, temps, replies, faults>>

Requests == Callers \X (1..MaxCalls)
Request(k) == <<k, calls[k]>>
Shared == <<"replyDestination">>

\* Mutant: one reply queue is made for the connection and shared.
OneReplyQueue(r) == Shared

\* The queue that the replies to a request go to.
QueueOf(r) == IF conf.via = "tmp" THEN r ELSE Shared

Active == {"prepared", "sent", "waiting"}
Pcs == Active \cup {"idle", "returned", "failed"}

\* What PublishTextMessage opens, in this order, before the reply queue.
Opened == <<"session", "destination", "producer", "message">>
Kinds == {Opened[n] : n \in 1..4} \cup {"reply", "consumer"}

\* Mutant: the closes are deferred only once there is a reply to wait for.
ReleasedWithReply(kinds) ==
  IF conf.platform = "linux" /\ "consumer" \in kinds THEN kinds \ {"reply"}
  ELSE kinds \cap {"consumer"}

\* The handles the deferred calls of a return close.  Closing the session
\* closes its producer; nobody destroys the handle of the reply queue, be it
\* temporary or named, and on Windows only the consumer is closed.
Released(kinds) ==
  IF conf.platform = "linux" THEN kinds \ {"reply"} ELSE kinds \cap {"consumer"}

Handles(r, kinds) == {r} \X kinds
OpenKinds(r) == {h[2] : h \in {x \in open : x[1] = r}}
\* The handles open after call r returns, when it has opened kinds.
Unwind(r, kinds) ==
  (open \ Handles(r, Released(kinds))) \cup Handles(r, kinds \ Released(kinds))

Fault   == faults < MaxFaults /\ faults' = faults + 1
NoFault == UNCHANGED faults
\* A call of the library succeeds, or fails, as it does without connection.
Works == linked /\ NoFault
Fails == (linked /\ Fault) \/ (~linked /\ NoFault)
GoTo(k, label) == pc' = [pc EXCEPT ![k] = label]
-----------------------------------------------------------------------------
Init ==
  /\ conf \in Confs /\ linked = TRUE
  /\ pc = [k \in Callers |-> "idle"]
  /\ calls = [k \in Callers |-> 0]
  /\ got = [k \in Callers |-> {}]
  /\ open = {}
  /\ requests = {} /\ answered = {} /\ temps = {} /\ replies = {}
  /\ faults = 0

\* The handles of the first n objects, and of the reply queue.
FirstOpened(n) == {Opened[i] : i \in 1..n}
AllOpened == FirstOpened(4) \cup (IF conf.via = "none" THEN {} ELSE {"reply"})

\* With the temporary queue of request r, if it is to have one.
NewTemps(r) == IF conf.via = "tmp" THEN temps \cup {r} ELSE temps

\* Process evaluates its expressions and PublishTextMessage creates session,
\* destination, producer, message and, last, the reply queue, each of which
\* may fail, the temporary queue without a connection always; so may naming
\* it in JMSReplyTo, which leaves the queue behind.
Prepare(k) ==
  LET r == <<k, calls[k] + 1>> IN
  /\ pc[k] \notin Active
  /\ calls[k] < MaxCalls
  /\ calls' = [calls EXCEPT ![k] = @ + 1]
  /\ got' = [got EXCEPT ![k] = {}]
  /\ \/ /\ NoFault
        /\ linked \/ conf.via # "tmp"
        /\ temps' = NewTemps(r)
        /\ open' = open \cup Handles(r, AllOpened)
        /\ GoTo(k, "prepared")
     \/ /\ Fails
        /\ GoTo(k, "failed")
        /\ \/ /\ \E n \in 0..4 : open' = Unwind(r, FirstOpened(n))
              /\ UNCHANGED temps
           \/ /\ linked \/ conf.via # "tmp"
              /\ open' = Unwind(r, AllOpened)
              /\ temps' = NewTemps(r)
  /\ UNCHANGED <<conf, linked, requests, answered, replies>>

\* The request is sent.  When the send fails, or reading the message id
\* after it, nothing tries to delete the temporary queue.
Send(k) ==
  LET r == Request(k) IN
  /\ pc[k] = "prepared"
  /\ \/ /\ Works
        /\ requests' = requests \cup {r}
        /\ \/ conf.via # "none" /\ GoTo(k, "sent") /\ UNCHANGED open
           \/ conf.via = "none" /\ GoTo(k, "returned") /\ open' = Unwind(r, OpenKinds(r))
     \/ /\ Fails
        /\ UNCHANGED requests \/ (linked /\ requests' = requests \cup {r})
        /\ open' = Unwind(r, OpenKinds(r))
        /\ GoTo(k, "failed")
  /\ UNCHANGED <<conf, linked, calls, got, answered, temps, replies>>

\* Mutant: the temporary queue is deleted at once, not deferred.
OpenReplyDeleting(k) ==
  /\ pc[k] = "sent" /\ Works
  /\ temps' = temps \ {Request(k)}
  /\ open' = open \cup Handles(Request(k), {"consumer"})
  /\ GoTo(k, "waiting")
  /\ UNCHANGED <<conf, linked, calls, got, requests, answered, replies>>

\* A consumer is created for the reply queue, after the request is out.
OpenReply(k) ==
  LET r == Request(k) IN
  /\ pc[k] = "sent"
  /\ \/ /\ Works
        /\ open' = open \cup Handles(r, {"consumer"})
        /\ GoTo(k, "waiting")
     \/ /\ Fails
        /\ open' = Unwind(r, OpenKinds(r))
        /\ GoTo(k, "failed")
  /\ UNCHANGED <<conf, linked, calls, got, requests, answered, temps, replies>>

\* Mutant: the temporary queue is deleted after its consumer is closed.
DeleteClosed(r) == temps \ {r}

\* The temporary queues once the broker was asked to delete that of r, which
\* it refuses while the queue has a receiver; nobody looks at the status.
DeleteQueue(r) == IF <<r, "consumer">> \in open THEN temps ELSE temps \ {r}

\* The deferred calls of a call that has waited, the last deferred first: the
\* temporary queue is to be deleted, then its consumer and the rest closed.  A
\* queue that goes takes its replies with it.
RunDeferred(r, kept) ==
  /\ temps' = DeleteQueue(r)
  /\ open' = Unwind(r, OpenKinds(r))
  /\ replies' = {x \in kept : x[1] \in temps' \cup {Shared}}

\* A reply arrives in time and replaces the payload (unless it is empty:
\* bodies are not modelled).
ReceiveReply(k, r) ==
  /\ pc[k] = "waiting" /\ linked
  /\ <<QueueOf(Request(k)), r>> \in replies
  /\ RunDeferred(Request(k), replies \ {<<QueueOf(Request(k)), r>>})
  /\ got' = [got EXCEPT ![k] = {r}]
  /\ GoTo(k, "returned")
  /\ UNCHANGED <<conf, linked, calls, requests, answered, faults>>

\* Mutant: replyTimeout is not passed on.
TimeoutNever(k) == FALSE /\ UNCHANGED vars

\* Mutant: a wait that times out is not an error.
TimeoutIgnored(k) ==
  /\ conf.timed
  /\ pc[k] = "waiting"
  /\ RunDeferred(Request(k), replies)
  /\ GoTo(k, "returned")
  /\ UNCHANGED <<conf, linked, calls, got, requests, answered, faults>>

\* The wait ends without a reply: the call fails although its request is out.
NoReply(k) ==
  /\ pc[k] = "waiting"
  /\ RunDeferred(Request(k), replies)
  /\ GoTo(k, "failed")
  /\ UNCHANGED <<conf, linked, calls, got, requests, answered>>

Timeout(k) == conf.timed /\ NoReply(k) /\ NoFault

\* The receive fails for another reason.
ReceiveFails(k) == NoReply(k) /\ Fails
-----------------------------------------------------------------------------
callState == <<conf, linked, pc, calls, open, got, temps, faults>>

\* The broker drops the connection: its temporary queues go, with all they
\* hold.  Nothing in the program opens it again.
Disconnect ==
  /\ linked /\ Fault
  /\ linked' = FALSE
  /\ temps' = {}
  /\ replies' = {x \in replies : x[1] = Shared}
  /\ UNCHANGED <<conf, pc, calls, open, got, requests, answered>>

\* The service answers a request, also one whose caller has given up; a
\* reply to a temporary queue that is gone is an error of the service.
Answer(r) ==
  /\ r \in requests
  /\ requests' = requests \ {r}
  /\ answered' = answered \cup {r}
  /\ replies' = IF conf.via = "named" \/ r \in temps
                  THEN replies \cup {<<QueueOf(r), r>>} ELSE replies
  /\ UNCHANGED callState

\* The service loses requests, or gets them again after answering them.
Lose(S) ==
  /\ requests' = requests \ S
  /\ UNCHANGED <<callState, answered, replies>>

Redeliver(S) ==
  /\ S \subseteq answered
  /\ requests' = requests \cup S
  /\ UNCHANGED <<callState, answered, replies>>
-----------------------------------------------------------------------------
Continue(k) ==
  \/ Send(k) \/ OpenReply(k) \/ Timeout(k)
  \/ \E r \in Requests : ReceiveReply(k, r)

Next ==
  \/ \E k \in Callers : Prepare(k) \/ Continue(k) \/ ReceiveFails(k)
  \/ Disconnect
  \/ \E r \in Requests : Answer(r)
  \/ \E S \in SUBSET Requests : Lose(S) \/ Redeliver(S)

Spec == Init /\ [][Next]_vars

\* The goroutine of a call runs; nothing is assumed of the service, nor that
\* a wait without a timeout notices that the connection is lost.
FairSpec == Spec /\ \A k \in Callers : WF_vars(Continue(k))
-----------------------------------------------------------------------------
(* What a call should guarantee.                                           *)

\* Every variable has its type; a call takes at most one reply, and the
\* temporary queue it waits on exists while the connection does, as do those
\* that hold replies.
TypeOK ==
  /\ conf \in Confs /\ linked \in BOOLEAN
  /\ pc \in [Callers -> Pcs]
  /\ calls \in [Callers -> 0..MaxCalls]
  /\ open \subseteq Requests \X Kinds
  /\ got \in [Callers -> SUBSET Requests]
  /\ \A k \in Callers : \A r, s \in got[k] : r = s
  /\ conf.via = "tmp" =>
       /\ \A k \in Callers : pc[k] = "waiting" /\ linked => Request(k) \in temps
       /\ \A x \in replies : x[1] \in temps
  /\ requests \subseteq Requests /\ answered \subseteq Requests /\ temps \subseteq Requests
  /\ replies \subseteq (Requests \cup {Shared}) \X Requests
  /\ faults \in 0..MaxFaults

\* A call that returns has the reply to its own request, however late or
\* often the service answers, and however many calls wait at a time.
OwnReply == \A k \in Callers : pc[k] = "returned" => got[k] \subseteq {Request(k)}

Remote == INSTANCE RemoteCall WITH
            oneway <- conf.via = "none",
            place  <- [k \in Callers |-> IF pc[k] \in Active THEN "open" ELSE pc[k]],
            served <- answered, result <- got

\* PublishTextMessage with a temporary reply queue, or without a reply, is a
\* remote call: it returns with the reply to that very request and only when
\* the service has answered, so a timeout is not a success, and a caller that
\* fails has nothing.
KeepsCalls == Remote!Spec

InProgress(r) == r[2] = calls[r[1]] /\ pc[r[1]] \in Active

\* Whichever library call fails, the Linux implementation leaves no handle
\* open when it returns but that of the reply queue, temporary or named.
LinuxReleasesHandles ==
  conf.platform = "linux" => \A h \in open : h[2] = "reply" \/ InProgress(h[1])

\* With a replyTimeout every call comes back, whatever the service does.
CallsReturn ==
  \A k \in Callers : conf.timed /\ pc[k] \in Active ~> pc[k] \notin Active
=============================================================================
