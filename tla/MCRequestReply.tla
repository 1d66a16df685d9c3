--------------------------- MODULE MCRequestReply ---------------------------
(* Two callers of two calls each, on either platform.                      *)
EXTENDS RequestReply

CONSTANTS k1, k2

MCCallers == {k1, k2}
Conf(via, platforms) == [via : {via}, timed : {TRUE}, platform : platforms]

\* With a temporary reply queue, and without a reply.
MCConfs == Conf("tmp", {"linux", "windows"}) \cup Conf("none", {"linux"})
MCNamed == Conf("named", {"linux"})
=============================================================================
