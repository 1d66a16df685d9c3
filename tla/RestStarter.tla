----------------------------- MODULE RestStarter -----------------------------
(***************************************************************************)
(* The rest starter (src/starters/rest.go): what the HTTP handler it       *)
(* registers does with one request at a time per caller.  The server runs  *)
(* it in a goroutine per request; the route is the handler it calls, and   *)
(* the payload the route leaves is the answer.  Nothing limits how long    *)
(* the route may take, and a client that goes away does not stop it.       *)
(***************************************************************************)
EXTENDS Naturals

CONSTANT Callers  \* HTTP clients

VARIABLES
  rest,    \* where the request of each caller is
  status   \* the status code its last request got, 0 for none yet

vars == <<rest, status>>

Places == {"idle", "handling", "marshal", "done"}
Codes  == {0, 200, 405, 500}

Go(k, place, code) ==
  /\ rest' = [rest EXCEPT ![k] = place]
  /\ status' = [status EXCEPT ![k] = code]

Init ==
  /\ rest = [k \in Callers |-> "idle"]
  /\ status = [k \in Callers |-> 0]

Free(k) == rest[k] \in {"idle", "done"}

\* The method is the one configured, and the body can be read.
Accept(k) == Free(k) /\ Go(k, "handling", 0)

Refuse(k)    == Free(k) /\ Go(k, "done", 405)
BodyFails(k) == Free(k) /\ Go(k, "done", 500)

\* The route returns.
HandlerFails(k)   == rest[k] = "handling" /\ Go(k, "done", 500)
HandlerReturns(k) == rest[k] = "handling" /\ Go(k, "marshal", 0)

\* Text and bytes go out as they are, anything else as JSON, which may fail
\* although the route has succeeded.
Respond(k)      == rest[k] = "marshal" /\ Go(k, "done", 200)
MarshalFails(k) == rest[k] = "marshal" /\ Go(k, "done", 500)
=============================================================================
