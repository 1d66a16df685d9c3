------------------------------ MODULE MCRoute -------------------------------
(* All lists of up to three processors and up to three links over three    *)
(* ids, and lists of up to two of each with ids left out.                  *)
EXTENDS Route, SequencesExt

CONSTANTS a, b, c

MCIds == {a, b, c}
Link(S) == [from : S, to : S]
MCProcLists == BoundedSeq(MCIds, 3) \cup BoundedSeq({a, b, NoId}, 2)
MCLinkLists == BoundedSeq(Link(MCIds), 3) \cup BoundedSeq(Link({a, b, NoId}), 2)
=============================================================================
