----------------------------- MODULE MCGateway -----------------------------
(***************************************************************************)
(* Gateway for TLC.                                                        *)
(***************************************************************************)
EXTENDS Gateway

CONSTANTS h, g, s, t1   \* an HTTP handler, an RPC, a stream, an event type

OneEvent == {[id |-> 1, type |-> t1, finite |-> TRUE]}
OnePartition == [t \in Types |-> 1]
EitherWay == {TRUE, FALSE}
=============================================================================
