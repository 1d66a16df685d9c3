---------------------------- MODULE FileDelivery ----------------------------
(***************************************************************************)
(* What a folder watched by a file_event starter promises, whatever the    *)
(* number of instances that poll it and however they fail: an item (one    *)
(* version of one file) reaches the handler only after it has arrived in   *)
(* the input folder, is moved to the output folder only after the handler  *)
(* has accepted it, and is then never lost.  Delivering an item again is a *)
(* stuttering step: delivery is at least once.                             *)
(***************************************************************************)
CONSTANT Items

VARIABLES arrived,    \* items written to the input folder
          delivered,  \* items the handler accepted at least once
          archived    \* items moved to the output folder

vars == <<arrived, delivered, archived>>

Init == /\ arrived = {}
        /\ delivered = {}
        /\ archived = {}

Arrive(x) == /\ x \notin arrived
             /\ arrived' = arrived \cup {x}
             /\ UNCHANGED <<delivered, archived>>

Deliver(x) == /\ x \in arrived \ delivered
              /\ delivered' = delivered \cup {x}
              /\ UNCHANGED <<arrived, archived>>

Archive(x) == /\ x \in delivered \ archived
              /\ archived' = archived \cup {x}
              /\ UNCHANGED <<arrived, delivered>>

Next == \E x \in Items : Arrive(x) \/ Deliver(x) \/ Archive(x)

Spec == Init /\ [][Next]_vars
=============================================================================
