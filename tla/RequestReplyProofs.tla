------------------------- MODULE RequestReplyProofs --------------------------
(***************************************************************************)
(* Proofs about jms_send and PublishTextMessage, for any number of callers *)
(* and calls, any service and any failures of the library.                 *)
(***************************************************************************)
EXTENDS RequestReply, TLAPS

-----------------------------------------------------------------------------
(* Types, and how far a call is.                                           *)

Typed ==
  /\ conf \in Confs /\ linked \in BOOLEAN
  /\ pc \in [Callers -> Pcs]
  /\ calls \in [Callers -> 0..MaxCalls]
  /\ open \subseteq Requests \X Kinds
  /\ got \in [Callers -> SUBSET Requests]
  /\ requests \subseteq Requests /\ answered \subseteq Requests /\ temps \subseteq Requests
  /\ replies \subseteq (Requests \cup {Shared}) \X Requests
  /\ faults \in 0..MaxFaults
  /\ \A k \in Callers : pc[k] # "idle" => Request(k) \in Requests

\* The handles a call has opened are handles of the library.
LEMMA HandlesTyped ==
  /\ \A r \in Requests : OpenKinds(r) \subseteq {h[2] : h \in open}
  /\ \A n \in 0..4 : FirstOpened(n) \subseteq Kinds
  /\ AllOpened \subseteq Kinds
  /\ \A kinds : Released(kinds) \subseteq kinds
<1>1. \A n \in 0..4 : FirstOpened(n) \subseteq Kinds
  BY DEF FirstOpened, Kinds
<1>2. QED
  BY <1>1 DEF OpenKinds, AllOpened, Released, Kinds

\* Whatever a return closes, what stays open is typed.
LEMMA UnwindTyped ==
  ASSUME open \subseteq Requests \X Kinds, NEW r \in Requests, NEW kinds \in SUBSET Kinds
  PROVE  /\ Unwind(r, kinds) \subseteq Requests \X Kinds
         /\ Unwind(r, OpenKinds(r)) \subseteq Requests \X Kinds
BY HandlesTyped DEF Unwind, Handles, OpenKinds

LEMMA TypedStep ==
  ASSUME Typed, [Next]_vars PROVE Typed'
<1> USE RequestAssumption DEF Typed, Fault, NoFault, Works, Fails, GoTo, Pcs, Active, Request, callState
<1>1. ASSUME NEW k \in Callers, Prepare(k) PROVE Typed'
  <2> DEFINE r == <<k, calls[k] + 1>>
  <2>1. r \in Requests /\ calls' \in [Callers -> 0..MaxCalls]
    BY <1>1 DEF Prepare, Requests
  <2>2. open' \subseteq Requests \X Kinds
    BY <1>1, <2>1, HandlesTyped, UnwindTyped DEF Prepare, Handles
  <2>3. temps' \subseteq Requests
    BY <1>1, <2>1 DEF Prepare, NewTemps
  <2>4. QED
    BY <1>1, <2>1, <2>2, <2>3 DEF Prepare
<1>2. ASSUME NEW k \in Callers, Send(k) PROVE Typed'
  <2>1. Request(k) \in Requests
    BY <1>2 DEF Send
  <2>2. open' \subseteq Requests \X Kinds
    BY <1>2, <2>1, UnwindTyped DEF Send
  <2>3. requests' \subseteq Requests
    BY <1>2, <2>1 DEF Send
  <2>4. QED
    BY <1>2, <2>2, <2>3 DEF Send
<1>3. ASSUME NEW k \in Callers, OpenReply(k) PROVE Typed'
  <2>1. Request(k) \in Requests
    BY <1>3 DEF OpenReply
  <2>2. open' \subseteq Requests \X Kinds
    BY <1>3, <2>1, UnwindTyped DEF OpenReply, Handles, Kinds
  <2>3. QED
    BY <1>3, <2>2 DEF OpenReply
<1>4. ASSUME NEW k \in Callers, NEW r \in Requests, ReceiveReply(k, r) PROVE Typed'
  BY <1>4, UnwindTyped DEF ReceiveReply, RunDeferred, DeleteQueue
<1>5. ASSUME NEW k \in Callers, Timeout(k) \/ ReceiveFails(k) PROVE Typed'
  <2>1. NoReply(k) /\ faults' \in 0..MaxFaults
    BY <1>5 DEF Timeout, ReceiveFails
  <2>2. open' \subseteq Requests \X Kinds /\ temps' \subseteq temps
    BY <2>1, UnwindTyped DEF NoReply, RunDeferred, DeleteQueue
  <2>3. replies' \subseteq replies
    BY <2>1, Zenon DEF NoReply, RunDeferred
  <2>4. QED
    BY <2>1, <2>2, <2>3 DEF NoReply
<1>6. ASSUME NEW r \in Requests, Answer(r) PROVE Typed'
  BY <1>6 DEF Answer, QueueOf
<1>7. ASSUME NEW S \in SUBSET Requests, Lose(S) \/ Redeliver(S) PROVE Typed'
  BY <1>7 DEF Lose, Redeliver
<1>8. ASSUME Disconnect PROVE Typed'
  <2>1. temps' \subseteq temps /\ replies' \subseteq replies /\ faults' \in 0..MaxFaults
    BY <1>8 DEF Disconnect
  <2>2. linked' \in BOOLEAN /\ UNCHANGED <<conf, pc, calls, open, got, requests, answered>>
    BY <1>8, Zenon DEF Disconnect
  <2>3. QED
    BY <2>1, <2>2
<1>9. CASE UNCHANGED vars
  BY <1>9 DEF vars
<1>10. QED
  BY <1>1, <1>2, <1>3, <1>4, <1>5, <1>6, <1>7, <1>8, <1>9 DEF Next, Continue
-----------------------------------------------------------------------------
(* Whose reply a call gets.                                                *)

\* While the connection lasts the reply queue of every call in progress, and
\* of every request, exists; it holds replies only to requests the service
\* has answered.
QueueInv ==
  /\ conf.via # "tmp" => temps = {}
  /\ conf.via = "tmp" =>
       /\ linked => \A k \in Callers : pc[k] \in Active => Request(k) \in temps
       /\ \A x \in replies : x[1] \in temps
  /\ \A x \in replies : x[1] = QueueOf(x[2]) /\ x[2] \in answered

LEMMA QueueStep ==
  ASSUME Typed, QueueInv, [Next]_vars PROVE QueueInv'
<1> USE RequestAssumption
      DEF Typed, QueueInv, QueueOf, Fault, NoFault, Works, Fails, GoTo, Active, Request, Requests, callState
<1>1. ASSUME NEW k \in Callers, Prepare(k) PROVE QueueInv'
  BY <1>1 DEF Prepare, NewTemps
<1>2. ASSUME NEW k \in Callers, Send(k) PROVE QueueInv'
  BY <1>2 DEF Send
<1>3. ASSUME NEW k \in Callers, OpenReply(k) PROVE QueueInv'
  BY <1>3 DEF OpenReply
<1>4. ASSUME NEW k \in Callers, NEW r \in Requests, ReceiveReply(k, r) PROVE QueueInv'
  BY <1>4 DEF ReceiveReply, RunDeferred, DeleteQueue
<1>5. ASSUME NEW k \in Callers, Timeout(k) \/ ReceiveFails(k) PROVE QueueInv'
  <2>1. NoReply(k)
    BY <1>5 DEF Timeout, ReceiveFails
  <2>2. /\ UNCHANGED <<conf, linked, calls, answered>>
        /\ pc' = [pc EXCEPT ![k] = "failed"]
        /\ temps' \in {temps, temps \ {Request(k)}}
        /\ replies' = {x \in replies : x[1] \in temps' \cup {Shared}}
    BY <2>1 DEF NoReply, RunDeferred, DeleteQueue
  <2>3. \A x \in replies' : x \in replies /\ x[1] \in temps' \cup {Shared}
    BY <2>2, Zenon
  <2>4. conf.via = "tmp" => \A x \in replies : x[2] \in Requests /\ x[1] = x[2]
    OBVIOUS
  <2>5. conf.via = "tmp" => \A x \in replies' : x[1] \in temps'
    BY <2>3, <2>4 DEF Shared
  <2>6. QED
    BY <2>2, <2>3, <2>5
<1>6. ASSUME NEW r \in Requests, Answer(r) PROVE QueueInv'
  BY <1>6 DEF Answer
<1>7. ASSUME NEW S \in SUBSET Requests, Lose(S) \/ Redeliver(S) PROVE QueueInv'
  BY <1>7 DEF Lose, Redeliver
<1>8. ASSUME Disconnect PROVE QueueInv'
  <2>1. \A x \in replies' : x \in replies /\ x[1] = Shared
    BY <1>8, Zenon DEF Disconnect
  <2>2. linked' = FALSE /\ temps' = {} /\ UNCHANGED <<conf, answered>>
    BY <1>8 DEF Disconnect
  <2>3. conf.via = "tmp" => replies' = {}
    BY <2>1 DEF Shared
  <2>4. QED
    BY <2>1, <2>2, <2>3
<1>9. CASE UNCHANGED vars
  BY <1>9 DEF vars
<1>10. QED
  BY <1>1, <1>2, <1>3, <1>4, <1>5, <1>6, <1>7, <1>8, <1>9 DEF Next, Continue

\* What a call has got, and from whom.
GotInv ==
  \A k \in Callers :
    /\ \A r, s \in got[k] : r = s
    /\ got[k] \subseteq answered
    /\ pc[k] \in {"sent", "waiting"} => conf.via # "none"
    /\ pc[k] = "returned" /\ conf.via # "none" => got[k] # {}
    /\ pc[k] = "returned" /\ conf.via # "named" => got[k] \subseteq {Request(k)}
    /\ pc[k] \in Active => got[k] = {}

LEMMA GotStep ==
  ASSUME Typed, QueueInv, GotInv, [Next]_vars PROVE GotInv'
<1> USE RequestAssumption
      DEF Typed, QueueInv, GotInv, QueueOf, Fault, NoFault, Works, Fails, GoTo, Active, Request, callState
<1>1. ASSUME NEW k \in Callers, Prepare(k) PROVE GotInv'
  BY <1>1 DEF Prepare, NewTemps
<1>2. ASSUME NEW k \in Callers, Send(k) PROVE GotInv'
  BY <1>2 DEF Send
<1>3. ASSUME NEW k \in Callers, OpenReply(k) PROVE GotInv'
  BY <1>3 DEF OpenReply
<1>4. ASSUME NEW k \in Callers, NEW r \in Requests, ReceiveReply(k, r) PROVE GotInv'
  BY <1>4 DEF ReceiveReply, RunDeferred, DeleteQueue
<1>5. ASSUME NEW k \in Callers, Timeout(k) \/ ReceiveFails(k) PROVE GotInv'
  BY <1>5 DEF Timeout, ReceiveFails, NoReply, RunDeferred, DeleteQueue
<1>6. ASSUME NEW r \in Requests, Answer(r) PROVE GotInv'
  BY <1>6 DEF Answer
<1>7. ASSUME NEW S \in SUBSET Requests, Lose(S) \/ Redeliver(S) PROVE GotInv'
  BY <1>7 DEF Lose, Redeliver
<1>8. ASSUME Disconnect PROVE GotInv'
  BY <1>8 DEF Disconnect
<1>9. CASE UNCHANGED vars
  BY <1>9 DEF vars
<1>10. QED
  BY <1>1, <1>2, <1>3, <1>4, <1>5, <1>6, <1>7, <1>8, <1>9 DEF Next, Continue
\* The consumer of a call that waits is open, so that the broker refuses to
\* delete its queue, which only goes with the connection.
WaitInv ==
  \A k \in Callers : pc[k] = "waiting" => <<Request(k), "consumer">> \in open

\* What a call opens and closes is its own.
LEMMA UnwindsOwn ==
  ASSUME NEW r, NEW kinds, NEW h \in open, h[1] # r
  PROVE  h \in Unwind(r, kinds)
BY DEF Unwind, Handles

LEMMA WaitStep ==
  ASSUME Typed, WaitInv, [Next]_vars PROVE WaitInv'
<1> USE DEF Typed, WaitInv, GoTo, Request, callState
<1>1. ASSUME NEW k \in Callers, calls' = calls, pc' = [pc EXCEPT ![k] = pc'[k]],
             \A h \in open : h[1] # Request(k) => h \in open',
             pc'[k] = "waiting" => <<Request(k), "consumer">> \in open'
      PROVE  WaitInv'
  <2>1. ASSUME NEW j \in Callers, pc'[j] = "waiting", j # k
        PROVE  <<Request(j), "consumer">> \in open'
    BY <1>1, <2>1
  <2>2. QED
    BY <1>1, <2>1
<1>2. ASSUME NEW k \in Callers, Prepare(k) PROVE WaitInv'
  <2>1. calls' = [calls EXCEPT ![k] = @ + 1] /\ \E label : label # "waiting" /\ GoTo(k, label)
    BY <1>2, Zenon DEF Prepare
  <2>2. \A h \in open : h[1] # <<k, calls[k] + 1>> => h \in open'
    BY <1>2, UnwindsOwn DEF Prepare
  <2>3. ASSUME NEW j \in Callers, pc'[j] = "waiting" PROVE <<Request(j), "consumer">>' \in open'
    BY <2>1, <2>2, <2>3
  <2>4. QED
    BY <2>3
<1>3. ASSUME NEW k \in Callers, Send(k) PROVE WaitInv'
  <2>1. calls' = calls /\ \E label : label # "waiting" /\ GoTo(k, label)
    BY <1>3, Zenon DEF Send
  <2>2. \A h \in open : h[1] # Request(k) => h \in open'
    BY <1>3, UnwindsOwn DEF Send
  <2>3. QED
    BY <1>1, <2>1, <2>2
<1>4. ASSUME NEW k \in Callers, OpenReply(k) PROVE WaitInv'
  <2>1. /\ calls' = calls
        /\ \/ GoTo(k, "waiting") /\ open' = open \cup Handles(Request(k), {"consumer"})
           \/ GoTo(k, "failed") /\ open' = Unwind(Request(k), OpenKinds(Request(k)))
    BY <1>4, Zenon DEF OpenReply
  <2>2. \A h \in open : h[1] # Request(k) => h \in open'
    BY <2>1, UnwindsOwn
  <2>3. pc'[k] = "waiting" => <<Request(k), "consumer">> \in open'
    BY <2>1 DEF Handles
  <2>4. QED
    BY <1>1, <2>1, <2>2, <2>3
<1>5. ASSUME NEW k \in Callers,
             Timeout(k) \/ ReceiveFails(k) \/ \E r \in Requests : ReceiveReply(k, r)
      PROVE  WaitInv'
  <2>1. /\ calls' = calls
        /\ GoTo(k, "failed") \/ GoTo(k, "returned")
        /\ open' = Unwind(Request(k), OpenKinds(Request(k)))
    BY <1>5, Zenon DEF Timeout, ReceiveFails, NoReply, ReceiveReply, RunDeferred
  <2>2. \A h \in open : h[1] # Request(k) => h \in open'
    BY <2>1, UnwindsOwn
  <2>3. QED
    BY <1>1, <2>1, <2>2
<1>6. ASSUME UNCHANGED <<pc, calls, open>> PROVE WaitInv'
  BY <1>6
<1>7. QED
  BY <1>2, <1>3, <1>4, <1>5, <1>6
     DEF Next, Continue, Disconnect, Answer, Lose, Redeliver, vars
-----------------------------------------------------------------------------
(* The theorems.                                                           *)

Safe == Typed /\ QueueInv /\ GotInv /\ WaitInv

LEMMA AlwaysSafe == Spec => []Safe
<1>1. Init => Safe
  BY RequestAssumption
     DEF Init, Safe, Typed, QueueInv, GotInv, WaitInv, Pcs, Active, Requests
<1>2. Safe /\ [Next]_vars => Safe'
  BY TypedStep, QueueStep, GotStep, WaitStep DEF Safe
<1>3. QED
  BY <1>1, <1>2, PTL DEF Spec

\* Types; a call takes one reply, and its temporary queue exists while it
\* waits, with whatever is in it.
THEOREM TypeCorrect == Spec => []TypeOK
<1>1. Safe => TypeOK
  BY DEF Safe, Typed, QueueInv, GotInv, TypeOK, Active
<1>2. QED
  BY AlwaysSafe, <1>1, PTL

\* With temporary queues, and whenever no reply is asked for, a call returns
\* with the reply to its own request or none.
THEOREM CallsGetOwnReply ==
  ASSUME \A c \in Confs : c.via # "named" PROVE Spec => []OwnReply
<1>1. Safe => OwnReply
  BY DEF Safe, Typed, GotInv, OwnReply
<1>2. QED
  BY AlwaysSafe, <1>1, PTL

\* A call that expects a reply returns only with one from the service.
ReturnedWasAnswered ==
  conf.via # "none" =>
    \A k \in Callers : pc[k] = "returned" => got[k] # {} /\ got[k] \subseteq answered

\* In every configuration, a shared reply queue included, a call that expects
\* a reply and returns without an error has one, and from the service.
THEOREM TimeoutIsNoSuccess == Spec => []ReturnedWasAnswered
<1>1. Safe => ReturnedWasAnswered
  BY DEF Safe, GotInv, ReturnedWasAnswered
<1>2. QED
  BY AlwaysSafe, <1>1, PTL
-----------------------------------------------------------------------------
(* A call is a remote call.                                                *)

\* Requests the service has, or has answered, have been made by a call.
MadeInv == \A r \in requests \cup answered : r[2] <= calls[r[1]]

LEMMA MadeStep ==
  ASSUME Typed, MadeInv, [Next]_vars PROVE MadeInv'
<1> USE RequestAssumption DEF Typed, MadeInv, Fault, NoFault, Works, Fails, GoTo, Request, callState, Requests
<1>1. ASSUME NEW k \in Callers, Prepare(k) PROVE MadeInv'
  BY <1>1 DEF Prepare
<1>2. ASSUME NEW k \in Callers, Send(k) PROVE MadeInv'
  BY <1>2 DEF Send
<1>3. ASSUME NEW k \in Callers,
             \/ OpenReply(k) \/ Timeout(k) \/ ReceiveFails(k)
             \/ \E r \in Requests : ReceiveReply(k, r)
      PROVE  MadeInv'
  BY <1>3 DEF OpenReply, Timeout, ReceiveFails, NoReply, ReceiveReply
<1>4. ASSUME NEW r \in Requests, Answer(r) PROVE MadeInv'
  BY <1>4 DEF Answer
<1>5. ASSUME NEW S \in SUBSET Requests, Lose(S) \/ Redeliver(S) PROVE MadeInv'
  BY <1>5 DEF Lose, Redeliver
<1>6. CASE Disconnect \/ UNCHANGED vars
  BY <1>6 DEF Disconnect, vars
<1>7. QED
  BY <1>1, <1>2, <1>3, <1>4, <1>5, <1>6 DEF Next, Continue

\* How RemoteCall sees the place of a call, and what a move is there.
Seen(label) == IF label \in Active THEN "open" ELSE label
Place == [k \in Callers |-> IF pc[k] \in Active THEN "open" ELSE pc[k]]

LEMMA PlaceMoves ==
  ASSUME Typed, NEW k \in Callers, NEW label, GoTo(k, label)
  PROVE  Place' = [Place EXCEPT ![k] = Seen(label)]
BY DEF Typed, GoTo, Place, Seen, Active

\* A step of a call that stays open changes nothing that RemoteCall sees.
LEMMA PlaceStays ==
  ASSUME Typed, NEW k \in Callers, NEW label \in Active, pc[k] \in Active, GoTo(k, label)
  PROVE  Place' = Place
BY DEF Typed, GoTo, Place, Active

\* Every step is a step of the remote call or leaves it alone: the service
\* may lose requests and get them again without it.
LEMMA RemoteStep ==
  ASSUME Safe, MadeInv, conf.via # "named", [Next]_vars
  PROVE  [Remote!Next]_(Remote!vars)
<1> USE DEF Safe, Typed, GotInv, Place, Remote!vars
<1>1. ASSUME NEW k \in Callers, Prepare(k) PROVE Remote!Call(k)
  <2>1. /\ pc[k] \notin Active /\ Place[k] # "open" /\ UNCHANGED <<conf, answered>>
        /\ calls' = [calls EXCEPT ![k] = @ + 1] /\ got' = [got EXCEPT ![k] = {}]
    BY <1>1 DEF Prepare, Pcs, Active
  <2>2. GoTo(k, "prepared") \/ GoTo(k, "failed")
    BY <1>1, Zenon DEF Prepare
  <2>3. \E to \in {"open", "failed"} : Place' = [Place EXCEPT ![k] = to]
    BY <2>2, PlaceMoves DEF Seen, Active
  <2>4. QED
    BY <2>1, <2>3, Zenon DEF Remote!Call, Remote!Move
<1>2. ASSUME NEW k \in Callers, pc[k] \in Active, GoTo(k, "failed"),
             UNCHANGED <<conf, calls, got, answered>>
      PROVE  Remote!Fail(k)
  <2>1. Place[k] = "open" /\ Place' = [Place EXCEPT ![k] = "failed"]
    BY <1>2, PlaceMoves DEF Seen, Active
  <2>2. got' = [got EXCEPT ![k] = {}]
    BY <1>2
  <2>3. QED
    BY <1>2, <2>1, <2>2, Zenon DEF Remote!Fail, Remote!Move
<1>3. ASSUME NEW k \in Callers, NEW label \in Active, pc[k] \in Active, GoTo(k, label),
             UNCHANGED <<conf, calls, got, answered>>
      PROVE  UNCHANGED Remote!vars
  <2>1. Place' = Place
    BY <1>3, PlaceStays
  <2>2. QED
    BY <1>3, <2>1
<1>4. ASSUME NEW k \in Callers, Send(k) PROVE [Remote!Next]_(Remote!vars)
  <2>1. pc[k] \in Active /\ UNCHANGED <<conf, calls, got, answered>>
    BY <1>4 DEF Send, Active
  <2>2. \/ GoTo(k, "sent") \/ GoTo(k, "failed")
        \/ GoTo(k, "returned") /\ conf.via = "none"
    BY <1>4, Zenon DEF Send
  <2>3. CASE GoTo(k, "sent")
    BY <1>3, <2>1, <2>3 DEF Active
  <2>4. CASE GoTo(k, "failed")
    BY <1>2, <2>1, <2>4 DEF Remote!Next
  <2>5. CASE GoTo(k, "returned") /\ conf.via = "none"
    <3>1. Place[k] = "open" /\ Place' = [Place EXCEPT ![k] = "returned"]
      BY <2>1, <2>5, PlaceMoves DEF Seen, Active
    <3>2. got' = [got EXCEPT ![k] = {}]
      BY <2>1
    <3>3. Remote!Return(k)
      BY <2>1, <2>5, <3>1, <3>2 DEF Remote!Return, Remote!Move
    <3>4. QED
      BY <3>3 DEF Remote!Next
  <2>6. QED
    BY <2>2, <2>3, <2>4, <2>5
<1>5. ASSUME NEW k \in Callers, OpenReply(k) PROVE [Remote!Next]_(Remote!vars)
  <2>1. pc[k] \in Active /\ UNCHANGED <<conf, calls, got, answered>>
    BY <1>5 DEF OpenReply, Active
  <2>2. GoTo(k, "waiting") \/ GoTo(k, "failed")
    BY <1>5, Zenon DEF OpenReply
  <2>3. CASE GoTo(k, "waiting")
    BY <1>3, <2>1, <2>3 DEF Active
  <2>4. QED
    BY <1>2, <2>1, <2>2, <2>3 DEF Remote!Next
<1>6. ASSUME NEW k \in Callers, NEW r \in Requests, ReceiveReply(k, r) PROVE Remote!Return(k)
  <2>1. /\ pc[k] = "waiting" /\ <<QueueOf(Request(k)), r>> \in replies
        /\ GoTo(k, "returned") /\ got' = [got EXCEPT ![k] = {r}]
        /\ UNCHANGED <<conf, calls, answered>>
    BY <1>6 DEF ReceiveReply
  <2>2. conf.via = "tmp"
    BY <2>1, RequestAssumption
  <2>3. r = Request(k) /\ r \in answered
    BY <2>1, <2>2 DEF QueueInv, QueueOf
  <2>4. Place[k] = "open" /\ Place' = [Place EXCEPT ![k] = "returned"]
    BY <2>1, PlaceMoves DEF Seen, Active
  <2>5. QED
    BY <2>1, <2>2, <2>3, <2>4 DEF Remote!Return, Remote!Move, Remote!Request, Request
<1>7. ASSUME NEW k \in Callers, Timeout(k) \/ ReceiveFails(k) PROVE Remote!Fail(k)
  BY <1>2, <1>7 DEF Timeout, ReceiveFails, NoReply, Active
<1>8. ASSUME NEW r \in Requests, Answer(r) PROVE Remote!Serve(r)
  BY <1>8 DEF Answer, callState, MadeInv, Remote!Serve
<1>9. ASSUME NEW S \in SUBSET Requests, Lose(S) \/ Redeliver(S) PROVE UNCHANGED Remote!vars
  BY <1>9 DEF Lose, Redeliver, callState
<1>10. CASE Disconnect \/ UNCHANGED vars
  BY <1>10 DEF Disconnect, vars
<1>11. Remote!Requests = Requests
  BY DEF Remote!Requests, Requests
<1>12. QED
  BY <1>1, <1>4, <1>5, <1>6, <1>7, <1>8, <1>9, <1>10, <1>11, Zenon
     DEF Next, Continue, Remote!Next

\* With temporary queues, and whenever no reply is asked for, PublishTextMessage
\* is a remote call, for any number of concurrent callers, any failing library
\* call, with or without its connection, and any service.
THEOREM CallsRemotely ==
  ASSUME \A c \in Confs : c.via # "named" PROVE Spec => KeepsCalls
<1>1. Init => Remote!Init /\ MadeInv
  <2>1. Init => Place = [k \in Callers |-> "idle"] /\ MadeInv
    BY DEF Init, Place, Active, MadeInv
  <2>2. QED
    BY <2>1, Zenon DEF Init, Place, Remote!Init
<1>2. Safe /\ MadeInv /\ [Next]_vars => MadeInv'
  BY MadeStep DEF Safe
<1>3. Safe /\ MadeInv /\ [Next]_vars => [Remote!Next]_(Remote!vars)
  <2>1. Safe => conf.via # "named"
    BY DEF Safe, Typed
  <2>2. QED
    BY <2>1, RemoteStep
<1>4. QED
  BY <1>1, <1>2, <1>3, AlwaysSafe, PTL DEF Spec, KeepsCalls, Remote!Spec
-----------------------------------------------------------------------------
(* What calls leave behind.                                                *)

\* No temporary queue goes while the connection lasts: a call that asks for
\* its deletion still has the consumer open, and one that has failed before
\* it waits does not ask.
TempQueuesStay == [][linked' => temps \subseteq temps']_vars

LEMMA StayStep ==
  ASSUME Safe, [Next]_vars, linked' PROVE temps \subseteq temps'
<1>1. ASSUME NEW k \in Callers, RunDeferred(Request(k), replies) \/ temps' = DeleteQueue(Request(k)),
             pc[k] = "waiting"
      PROVE  temps' = temps
  BY <1>1 DEF RunDeferred, DeleteQueue, Safe, WaitInv
<1>2. ASSUME NEW k \in Callers,
             Timeout(k) \/ ReceiveFails(k) \/ \E r \in Requests : ReceiveReply(k, r)
      PROVE  temps' = temps
  BY <1>1, <1>2, Zenon DEF Timeout, ReceiveFails, NoReply, ReceiveReply, RunDeferred
<1>3. ASSUME NEW k \in Callers, Prepare(k) \/ Send(k) \/ OpenReply(k) PROVE temps \subseteq temps'
  BY <1>3 DEF Prepare, Send, OpenReply, NewTemps
<1>4. QED
  BY <1>2, <1>3 DEF Next, Continue, Disconnect, Answer, Lose, Redeliver, callState, vars

\* Every temporary queue of every call, however it ends, stays at the broker
\* until the connection is lost.
THEOREM QueuesStay == Spec => TempQueuesStay
<1>1. Safe /\ [Next]_vars => [linked' => temps \subseteq temps']_vars
  BY StayStep
<1>2. QED
  BY <1>1, AlwaysSafe, PTL DEF Spec, TempQueuesStay

\* On Linux a call that returns leaves the handle of its reply queue at most.
LEMMA HandlesLeft ==
  ASSUME conf.platform = "linux", NEW r, NEW kinds, NEW h \in Unwind(r, kinds)
  PROVE  h[2] = "reply" \/ (h \in open /\ h \notin Handles(r, kinds))
BY DEF Unwind, Handles, Released

LEMMA ReleasesStep ==
  ASSUME Typed, LinuxReleasesHandles, [Next]_vars PROVE LinuxReleasesHandles'
<1> SUFFICES ASSUME conf'.platform = "linux", NEW h \in open', h[2] # "reply"
             PROVE  InProgress(h[1])'
  BY DEF LinuxReleasesHandles
<1> USE RequestAssumption
      DEF Typed, LinuxReleasesHandles, InProgress, Fault, NoFault, Works, Fails, GoTo, Active,
          Request, callState, Requests
<1>0. conf' = conf
  BY DEF Next, Continue, Prepare, Send, OpenReply, ReceiveReply, Timeout, ReceiveFails, NoReply,
         Disconnect, Answer, Lose, Redeliver, vars
<1>1. ASSUME NEW k \in Callers, Prepare(k) PROVE InProgress(h[1])'
  BY <1>0, <1>1, HandlesLeft DEF Prepare, Handles
<1>2. ASSUME NEW k \in Callers, Send(k) PROVE InProgress(h[1])'
  BY <1>0, <1>2, HandlesLeft DEF Send, OpenKinds, Handles
<1>3. ASSUME NEW k \in Callers, OpenReply(k) PROVE InProgress(h[1])'
  BY <1>0, <1>3, HandlesLeft DEF OpenReply, OpenKinds, Handles
<1>4. ASSUME NEW k \in Callers, NEW r \in Requests, ReceiveReply(k, r) PROVE InProgress(h[1])'
  BY <1>0, <1>4, HandlesLeft DEF ReceiveReply, RunDeferred, OpenKinds, Handles
<1>5. ASSUME NEW k \in Callers, Timeout(k) \/ ReceiveFails(k) PROVE InProgress(h[1])'
  BY <1>0, <1>5, HandlesLeft
     DEF Timeout, ReceiveFails, NoReply, RunDeferred, OpenKinds, Handles
<1>6. ASSUME NEW r \in Requests, Answer(r) PROVE InProgress(h[1])'
  BY <1>0, <1>6 DEF Answer
<1>7. ASSUME NEW S \in SUBSET Requests, Lose(S) \/ Redeliver(S) PROVE InProgress(h[1])'
  BY <1>0, <1>7 DEF Lose, Redeliver
<1>8. CASE Disconnect \/ UNCHANGED vars
  BY <1>0, <1>8 DEF Disconnect, vars
<1>9. QED
  BY <1>1, <1>2, <1>3, <1>4, <1>5, <1>6, <1>7, <1>8 DEF Next, Continue

\* Whichever call of the library fails, with or without a connection, the
\* Linux PublishTextMessage leaves nothing open on any return but the handle
\* of its reply queue, and that one also when the queue is temporary.
THEOREM LinuxClosesAll == Spec => []LinuxReleasesHandles
<1>1. Init => LinuxReleasesHandles
  BY DEF Init, LinuxReleasesHandles
<1>2. Safe /\ LinuxReleasesHandles /\ [Next]_vars => LinuxReleasesHandles'
  BY ReleasesStep DEF Safe
<1>3. QED
  BY <1>1, <1>2, AlwaysSafe, PTL DEF Spec
=============================================================================
