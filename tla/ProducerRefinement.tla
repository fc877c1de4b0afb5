------------------------- MODULE ProducerRefinement -------------------------
(***************************************************************************)
(* Producer over Kafka implements AtLeastOnce: offered is what sarama      *)
(* admitted, durable the committed prefix of each partition, confirmed     *)
(* what ProduceEvent returned.                                             *)
(***************************************************************************)
EXTENDS Producer

offeredBar == {e \in Event : sends[e] > 0}

durableBar == [p \in Partitions |-> SubSeq(log[p], 1, hw[p])]

ALO == INSTANCE AtLeastOnce WITH
    Events <- Event,
    Parts <- Partitions,
    Home <- [e \in Event |-> PartitionOf(e)],
    offered <- offeredBar,
    durable <- durableBar,
    confirmed <- acked

\* Every step of the producer and the broker is a step of the promise or leaves
\* it unchanged: durable records are never cut, moved or reordered, and only a
\* record that is already durable is acknowledged.
ImplementsAtLeastOnce == ALO!Spec
=============================================================================
