---------------------------- MODULE AtLeastOnce ----------------------------
(***************************************************************************)
(* What the gateway promises its clients, whatever the network and the     *)
(* brokers do: a durable log per partition that only ever grows at its     *)
(* end, only with events that were offered to it and only in the partition *)
(* of their type; and a confirmation that always names a durable record.   *)
(* An event may become durable several times, or although its sender was   *)
(* told it failed; a confirmed one never disappears.                       *)
(***************************************************************************)
EXTENDS Naturals, Sequences

CONSTANTS
    Events,     \* what may be offered
    Parts,      \* the partitions
    Home        \* the partition of each event, in [Events -> Parts]

VARIABLES
    offered,    \* events handed to the log
    durable,    \* durable[p]: the records of p that can no longer be lost
    confirmed   \* [event, part, pos] records confirmed to their senders

vars == <<offered, durable, confirmed>>

Init ==
    /\ offered = {}
    /\ durable = [p \in Parts |-> << >>]
    /\ confirmed = {}

Offer(e) ==
    /\ offered' = offered \cup {e}
    /\ UNCHANGED <<durable, confirmed>>

Commit(e) ==
    /\ e \in offered
    /\ durable' = [durable EXCEPT ![Home[e]] = Append(@, e)]
    /\ UNCHANGED <<offered, confirmed>>

Confirm(e, i) ==
    /\ i \in 1..Len(durable[Home[e]])
    /\ durable[Home[e]][i] = e
    /\ confirmed' = confirmed \cup {[event |-> e, part |-> Home[e], pos |-> i]}
    /\ UNCHANGED <<offered, durable>>

Next ==
    \E e \in Events :
        \/ Offer(e)
        \/ Commit(e)
        \/ \E i \in 1..Len(durable[Home[e]]) : Confirm(e, i)

Spec == Init /\ [][Next]_vars
=============================================================================
