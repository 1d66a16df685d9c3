--------------------------- MODULE QueueDelivery ----------------------------
(***************************************************************************)
(* What a jms_queue_consumer promises for the messages of its queue,       *)
(* whatever the number of its goroutines and however they, the connection  *)
(* or the process fail: in CLIENT mode a message is settled only after the *)
(* route has completed for it, and never routed after it is settled; in    *)
(* AUTO mode it is settled first, and then routed at most once.  DUPS_OK   *)
(* leaves both open.                                                       *)
(***************************************************************************)
EXTENDS Naturals

CONSTANT Msgs

VARIABLES mode,     \* "AUTO", "CLIENT" or "DUPS_OK"
          arrived,  \* messages sent to the queue
          settled,  \* messages the broker will not deliver again
          runs      \* how often the route has completed for each

vars == <<mode, arrived, settled, runs>>

Init == /\ mode \in {"AUTO", "CLIENT", "DUPS_OK"}
        /\ arrived = {}
        /\ settled = {}
        /\ runs = [m \in Msgs |-> 0]

Arrive(m) == /\ m \notin arrived
             /\ arrived' = arrived \cup {m}
             /\ UNCHANGED <<mode, settled, runs>>

RunAllowed(m) == CASE mode = "AUTO"    -> m \in settled /\ runs[m] = 0
                   [] mode = "CLIENT"  -> m \notin settled
                   [] mode = "DUPS_OK" -> TRUE

Run(m) == /\ m \in arrived
          /\ RunAllowed(m)
          /\ runs' = [runs EXCEPT ![m] = @ + 1]
          /\ UNCHANGED <<mode, arrived, settled>>

Settle(S) == /\ S \subseteq arrived
             /\ mode = "CLIENT" => \A m \in S : runs[m] > 0
             /\ settled' = settled \cup S
             /\ UNCHANGED <<mode, arrived, runs>>

Next == \/ \E m \in Msgs : Arrive(m) \/ Run(m)
        \/ \E S \in SUBSET Msgs : Settle(S)

Spec == Init /\ [][Next]_vars
=============================================================================
