----------------------------- MODULE MCProducer -----------------------------
(***************************************************************************)
(* Instances of Producer for TLC: the events and the partitioning given to *)
(* its constants.                                                          *)
(***************************************************************************)
EXTENDS ProducerRefinement, TLC

CONSTANTS c1, c2, t1    \* callers and an event type

Ev(i, t, f) == [id |-> i, type |-> t, finite |-> f]

\* Callers race for one log; one event cannot be encoded.
SameType == {Ev(1, t1, TRUE), Ev(2, t1, TRUE), Ev(3, t1, FALSE)}

\* All types on partition 1.
SamePartition == [t \in Types |-> 1]

CallerSymmetry == Permutations(Callers)
=============================================================================
