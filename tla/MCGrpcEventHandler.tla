------------------------- MODULE MCGrpcEventHandler -------------------------
(***************************************************************************)
(* Instances of GrpcEventHandler for TLC.                                  *)
(***************************************************************************)
EXTENDS GrpcEventHandler, TLC

CONSTANTS h1, h2, t1, t2    \* handlers and event types

Good(i, t) == [id |-> i, type |-> t, complete |-> TRUE, finite |-> TRUE]
NotANumber(t) == [id |-> 0, type |-> t, complete |-> TRUE, finite |-> FALSE]
Incomplete(t) == [id |-> 0, type |-> t, complete |-> FALSE, finite |-> TRUE]

Req(k, f, s) == [kind |-> k, failFast |-> f, items |-> s]

\* A client that sends id 9 twice, with and without fail_fast, beside batches
\* whose middle event is rejected or cannot be encoded and requests that send
\* nothing.
BatchRequests ==
    {Req("unary", FALSE, <<Good(9, t1)>>),
     Req("batch", TRUE, <<Good(9, t1), Good(0, t1)>>),
     Req("batch", FALSE, <<Good(9, t1), Incomplete(t1), Good(8, t1)>>),
     Req("batch", TRUE, <<Good(9, t1), NotANumber(t1), Good(8, t1)>>),
     Req("batch", FALSE, << >>),
     Req("unary", FALSE, <<NilEvent>>),
     Req("validate", FALSE, <<Good(0, t1)>>)}

\* Every other way an RPC can go.
OtherRequests ==
    {Req("unary", FALSE, <<Incomplete(t1)>>),
     Req("unary", FALSE, <<NotANumber(t1)>>),
     Req("validate", FALSE, <<NilEvent>>),
     Req("validate", FALSE, <<Incomplete(t1)>>),
     Req("batch", TRUE, <<NotANumber(t1), Good(0, t1)>>),
     Req("batch", FALSE, <<Good(0, t1), Good(0, t2)>>),
     Req("batch", TRUE, <<Incomplete(t1), Good(0, t2)>>)}

\* One handler, any request.
AnyRequest == BatchRequests \cup OtherRequests

Events == [id : 1..MaxIds \cup {8, 9}, type : Types, finite : {TRUE}]
          \cup [id : 1..MaxIds, type : {t1}, finite : {FALSE}]

SamePartition == [t \in Types |-> 1]
SplitPartition == [t \in Types |-> IF t = t1 THEN 1 ELSE 2]

HandlerSymmetry == Permutations(Callers)
=============================================================================
