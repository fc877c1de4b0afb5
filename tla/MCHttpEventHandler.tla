------------------------- MODULE MCHttpEventHandler -------------------------
(***************************************************************************)
(* Instances of HttpEventHandler for TLC.                                  *)
(***************************************************************************)
EXTENDS HttpEventHandler, TLC

CONSTANTS h1, h2, t1    \* handlers and an event type

Req(k, j, s) == [kind |-> k, json |-> j, items |-> s]

\* Singles and batches that race, every way to be refused, and a dry run.
MixedRequests ==
    {Req("single", TRUE, <<t1>>),
     Req("single", TRUE, <<BadItem>>),
     Req("batch", TRUE, <<t1, t1>>),
     Req("batch", TRUE, <<t1, BadItem>>),
     Req("batch", TRUE, <<t1, t1, t1>>),
     Req("batch", TRUE, << >>),
     Req("batch", FALSE, <<t1>>),
     Req("validate", TRUE, <<t1>>)}

Events == [id : 1..MaxIds, type : Types, finite : {TRUE}]

SamePartition == [t \in Types |-> 1]

HandlerSymmetry == Permutations(Callers)
=============================================================================
