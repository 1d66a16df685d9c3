----------------------------- MODULE RemoteCall ------------------------------
(***************************************************************************)
(* What a request and its reply promise to the one who asks, whatever lies *)
(* between it and the service: a call that returns has the result of that  *)
(* very call, made by a service that got it, or none when none was asked   *)
(* for.  A call may fail at any time, also when the service has served it, *)
(* and the service may serve it late, again or never.                      *)
(***************************************************************************)
EXTENDS Naturals

CONSTANTS Callers, MaxCalls

VARIABLES oneway,  \* TRUE when no reply is asked for
          calls,   \* the number of calls each caller has made
          place,   \* "idle", or its last call is "open", "returned" or "failed"
          served,  \* the calls the service has served
          result   \* the calls whose result the caller has

vars == <<oneway, calls, place, served, result>>

Requests == Callers \X (1..MaxCalls)
Request(k) == <<k, calls[k]>>

Init == /\ oneway \in BOOLEAN
        /\ calls = [k \in Callers |-> 0]
        /\ place = [k \in Callers |-> "idle"]
        /\ served = {}
        /\ result = [k \in Callers |-> {}]

Move(k, to, value) == /\ place' = [place EXCEPT ![k] = to]
                      /\ result' = [result EXCEPT ![k] = value]

\* A call may fail as it is made, or before it is one.
Call(k) == /\ place[k] # "open"
           /\ \/ \E to \in {"open", "failed"} : Move(k, to, {})
                 /\ calls' = [calls EXCEPT ![k] = @ + 1]
              \/ Move(k, "failed", {}) /\ UNCHANGED calls
           /\ UNCHANGED <<oneway, served>>

Serve(r) == /\ r[2] <= calls[r[1]]
            /\ served' = served \cup {r}
            /\ UNCHANGED <<oneway, calls, place, result>>

Return(k) == /\ place[k] = "open"
             /\ \/ oneway /\ Move(k, "returned", {})
                \/ ~oneway /\ Request(k) \in served /\ Move(k, "returned", {Request(k)})
             /\ UNCHANGED <<oneway, calls, served>>

Fail(k) == /\ place[k] = "open"
           /\ Move(k, "failed", {})
           /\ UNCHANGED <<oneway, calls, served>>

Next == \/ \E k \in Callers : Call(k) \/ Return(k) \/ Fail(k)
        \/ \E r \in Requests : Serve(r)

Spec == Init /\ [][Next]_vars
=============================================================================
