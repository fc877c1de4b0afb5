-------------------------- MODULE MCHttpMiddleware --------------------------
(***************************************************************************)
(* HttpMiddleware for TLC.                                                 *)
(***************************************************************************)
EXTENDS HttpMiddleware, TLC

CONSTANTS w1, w2    \* workers

\* Bodies at the limit (2) and above it, announced and chunked.
MixedRequests ==
    {[method |-> "OPTIONS", length |-> 0, size |-> 0],
     [method |-> "GET", length |-> 0, size |-> 0],
     [method |-> "POST", length |-> 2, size |-> 2],
     [method |-> "POST", length |-> 3, size |-> 2],
     [method |-> "POST", length |-> -1, size |-> 3]}

WorkerSymmetry == Permutations(Workers)
=============================================================================
