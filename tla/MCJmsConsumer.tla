--------------------------- MODULE MCJmsConsumer ----------------------------
(* Two consumers, two selected messages, one of which wants a reply, and a *)
(* message the selector rejects.                                           *)
EXTENDS JmsConsumer

CONSTANTS plain, request, hidden, c1, c2

MCConsumers  == {c1, c2}
MCMsgs       == {plain, request, hidden}
MCSelected   == {plain, request}
MCWantsReply == {request}
=============================================================================
