------------------------------ MODULE MCBridge -------------------------------
(* Two clients of one request each, and two consumers; the back route may  *)
(* reject the request of the second client.                                *)
EXTENDS Bridge

CONSTANTS k1, k2, c1, c2

MCCallers   == {k1, k2}
MCText      == {k1}
MCConsumers == {c1, c2}
MCConfs     == [via : {"tmp"}, timed : BOOLEAN, platform : {"linux"}]
MCPoison    == {<<k2, 1>>}
=============================================================================
