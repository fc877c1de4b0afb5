------------------------------- MODULE Kafka -------------------------------
(***************************************************************************)
(* The Kafka topic the gateway writes to, as the gateway observes it.      *)
(* External: the repository holds no broker code.  It is modelled from     *)
(* what internal/kafka/producer.go asks of it (acks = all, hash            *)
(* partitioning, sarama's retries) and from the broker's documented        *)
(* contract with unclean leader election off.                              *)
(*                                                                         *)
(* A partition is the log of its current leader and a high watermark: the  *)
(* records at positions 1..hw are replicated to every in-sync replica and  *)
(* survive any failover; the tail above hw may be lost with the leader.    *)
(* Position i stands for Kafka offset i - 1.                               *)
(***************************************************************************)
EXTENDS Naturals, Sequences

CONSTANTS
    Event,          \* the events clients may send, see EventAssumption
    Types,          \* event types: the message key, hence the partition
    Partitions,     \* partitions of the topic
    HashPartition,  \* sarama's hash partitioner: a function of the key
    MaxFailovers    \* bound on leader changes

\* An event as the producer sees it: an identity, its key, and whether its data
\* is free of NaN and Inf.  json.Marshal refuses those; a protobuf Struct can
\* carry them, a JSON body cannot.
ASSUME EventAssumption ==
    \A e \in Event : e.type \in Types /\ e.finite \in BOOLEAN

ASSUME HashPartitionAssumption == HashPartition \in [Types -> Partitions]
ASSUME MaxFailoversAssumption == MaxFailovers \in Nat

VARIABLES
    log,        \* log[p]: the records in the log of p's leader
    hw,         \* hw[p]: how many of them are committed
    failovers   \* leader changes so far

brokerVars == <<log, hw, failovers>>

PartitionOf(e) == HashPartition[e.type]

BrokerTypeOK ==
    /\ log \in [Partitions -> Seq(Event)]
    /\ hw \in [Partitions -> Nat]
    /\ failovers \in Nat

BrokerInit ==
    /\ log = [p \in Partitions |-> << >>]
    /\ hw = [p \in Partitions |-> 0]
    /\ failovers = 0

\* The leader of e's partition appends a copy of e.
AppendRecord(e) ==
    /\ log' = [log EXCEPT ![PartitionOf(e)] = Append(@, e)]
    /\ UNCHANGED <<hw, failovers>>

\* The in-sync replicas of p have fetched one more record.
ReplicateRecord(p) ==
    /\ hw[p] < Len(log[p])
    /\ hw' = [hw EXCEPT ![p] = @ + 1]
    /\ UNCHANGED <<log, failovers>>

\* An in-sync replica that holds the first n records takes over partition p.
FailoverTo(p, n) ==
    /\ failovers < MaxFailovers
    /\ n \in hw[p]..Len(log[p])
    /\ log' = [log EXCEPT ![p] = SubSeq(@, 1, n)]
    /\ failovers' = failovers + 1
    /\ UNCHANGED hw

\* e is at position i of its partition and can no longer be lost.
CommittedAt(e, p, i) ==
    /\ i \in 1..hw[p]
    /\ log[p][i] = e

Durable(e) == \E i \in 1..hw[PartitionOf(e)] : log[PartitionOf(e)][i] = e

Stored(e) == \E p \in Partitions : \E i \in 1..Len(log[p]) : log[p][i] = e
=============================================================================
