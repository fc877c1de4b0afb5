------------------------------ MODULE Producer ------------------------------
(***************************************************************************)
(* internal/kafka/producer.go: the wrapper every handler of the gateway    *)
(* calls to store an event, over sarama's SyncProducer (external).         *)
(*                                                                         *)
(* Callers are the goroutines of HTTP and gRPC handlers; each has at most  *)
(* one SendMessage outstanding, because the call blocks.  The life of a    *)
(* call is pc[c]:                                                          *)
(*                                                                         *)
(*   idle -> checked -> queued -> sent -> stored -> ok                     *)
(*                         ^        |        | \--> lost (tail cut off by  *)
(*                         |        |        |        |    a failover)     *)
(*                         +--------+--------+--------+ retry, then failed *)
(*                                                                         *)
(* plus the ends without a message in flight: failed (context done, data   *)
(* that JSON cannot encode, producer shutting down) and panicked (producer *)
(* closed).  A call that is checked has looked at its context and encoded  *)
(* its event, and sarama does not know of it yet.                          *)
(***************************************************************************)
EXTENDS Kafka, FiniteSets

CONSTANTS
    Callers,    \* goroutines that call ProduceEvent
    MaxRetries, \* cfg.Retries, given to sarama as Producer.Retry.Max
    MaxSends,   \* bound: calls admitted per event by the environment
    NoEvent     \* cur[c] before c's first call

ASSUME CallersAssumption == IsFiniteSet(Callers)
ASSUME MaxRetriesAssumption == MaxRetries \in Nat
ASSUME MaxSendsAssumption == MaxSends \in Nat

VARIABLES
    pc,         \* pc[c]: where c's current or last call is
    cur,        \* cur[c]: the event of that call
    tries,      \* tries[c]: retries made for it
    pos,        \* pos[c]: position of the copy the current attempt stored
    cancelled,  \* callers whose context is done
    producer,   \* the sarama producer: open, closing, closed
    late,       \* late[e]: copies of e given up on, still on the network
    sends,      \* history: sends[e], calls for e that sarama admitted
    acked       \* history: what was returned with a nil error

callVars == <<pc, cur, tries, pos>>
historyVars == <<sends, acked>>
vars == <<brokerVars, callVars, cancelled, producer, late, historyVars>>

InFlightStates == {"queued", "sent", "stored", "lost"}
ReturnedStates == {"ok", "failed", "panicked"}

\* c's message is in sarama's hands.
InFlight(c) == pc[c] \in InFlightStates

\* c is inside ProduceEvent.
InCall(c) == pc[c] = "checked" \/ InFlight(c)

Ack == [event : Event, part : Partitions, pos : Nat]

Init ==
    /\ BrokerInit
    /\ pc = [c \in Callers |-> "idle"]
    /\ cur = [c \in Callers |-> NoEvent]
    /\ tries = [c \in Callers |-> 0]
    /\ pos = [c \in Callers |-> 0]
    /\ cancelled = {}
    /\ producer = "open"
    /\ late = [e \in Event |-> 0]
    /\ sends = [e \in Event |-> 0]
    /\ acked = {}

----------------------------------------------------------------------------
(* ProduceEvent up to the hand-over to sarama.                             *)

BeginCall(c, e, where) ==
    /\ ~InCall(c)
    /\ pc' = [pc EXCEPT ![c] = where]
    /\ cur' = [cur EXCEPT ![c] = e]
    /\ tries' = [tries EXCEPT ![c] = 0]
    /\ pos' = [pos EXCEPT ![c] = 0]

\* Bugs: the serialization error, or the context, is not looked at.
PassesUnserialized(c, e) == c \notin cancelled
PassesCancelled(c, e) == e.finite

\* The call passes the context check and json.Marshal.
Passes(c, e) == c \notin cancelled /\ e.finite

\* The call begins: an error at once (ctx.Err() or a serialization error), or
\* on to the hand-over, before which the context may end and Close may come.
ProduceEvent(c, e) ==
    /\ BeginCall(c, e, IF Passes(c, e) THEN "checked" ELSE "failed")
    /\ UNCHANGED <<brokerVars, cancelled, producer, late, historyVars>>

Answer(c, where) ==
    /\ pc[c] = "checked"
    /\ pc' = [pc EXCEPT ![c] = where]
    /\ UNCHANGED <<brokerVars, cur, tries, pos, cancelled, producer, late, acked>>

\* sarama takes the message out of its input channel.
Admit(c) ==
    /\ producer = "open"
    /\ Answer(c, "queued")
    /\ sends' = [sends EXCEPT ![cur[c]] = @ + 1]

\* Behind AsyncClose it answers ErrShuttingDown.
ShuttingDown(c) ==
    /\ producer = "closing"
    /\ Answer(c, "failed")
    /\ UNCHANGED sends

\* SendMessage on a closed producer sends on a closed channel.
SendOnClosed(c) ==
    /\ producer = "closed"
    /\ Answer(c, "panicked")
    /\ UNCHANGED sends

\* SendMessage, which looks at no context.
HandOver(c) == Admit(c) \/ ShuttingDown(c) \/ SendOnClosed(c)

----------------------------------------------------------------------------
(* sarama's delivery of one admitted message.                              *)

\* The flush (500 ms or BatchSize messages) sends the request to the leader.
Transmit(c) ==
    /\ pc[c] = "queued"
    /\ pc' = [pc EXCEPT ![c] = "sent"]
    /\ UNCHANGED <<brokerVars, cur, tries, pos, cancelled, producer, late,
                   historyVars>>

\* The request reaches the leader, which appends the record.
AppendCopy(c) ==
    /\ pc[c] = "sent"
    /\ AppendRecord(cur[c])
    /\ pc' = [pc EXCEPT ![c] = "stored"]
    /\ pos' = [pos EXCEPT ![c] = Len(log[PartitionOf(cur[c])]) + 1]
    /\ UNCHANGED <<cur, tries, cancelled, producer, late, historyVars>>

\* Bug: the leader alone answers, as with the configured required_acks = 1.
WaitForLocal(c) == pos[c] > 0

\* RequiredAcks: the leader answers once the record is committed.
WaitForAll(c) == pos[c] <= hw[PartitionOf(cur[c])]

\* The answer arrives, and ProduceEvent returns the partition and the offset.
Acknowledge(c) ==
    LET p == PartitionOf(cur[c]) IN
    /\ pc[c] = "stored"
    /\ WaitForAll(c)
    /\ pc' = [pc EXCEPT ![c] = "ok"]
    /\ acked' = acked \cup {[event |-> cur[c], part |-> p, pos |-> pos[c]]}
    /\ UNCHANGED <<brokerVars, cur, tries, pos, cancelled, producer, late,
                   sends>>

\* Bugs: one retry too many; no limit at all.
RetryOnceMore(c) ==
    /\ pos' = [pos EXCEPT ![c] = 0]
    /\ tries' = [tries EXCEPT ![c] = @ + 1]
    /\ pc' = [pc EXCEPT ![c] = IF tries[c] <= MaxRetries THEN "queued" ELSE "failed"]
RetryForEver(c) ==
    /\ pos' = [pos EXCEPT ![c] = 0]
    /\ pc' = [pc EXCEPT ![c] = "queued"]
    /\ UNCHANGED tries

\* sarama's retry rule: try again, or return the error after Retry.Max.
RetryOrFail(c) ==
    /\ pos' = [pos EXCEPT ![c] = 0]
    /\ \/ /\ tries[c] < MaxRetries
          /\ tries' = [tries EXCEPT ![c] = @ + 1]
          /\ pc' = [pc EXCEPT ![c] = "queued"]
       \/ /\ tries[c] >= MaxRetries
          /\ pc' = [pc EXCEPT ![c] = "failed"]
          /\ UNCHANGED tries

\* An attempt fails: no leader, request lost, or the answer lost after the
\* record was appended (the copy stays in the log).
AttemptFails(c) ==
    /\ InFlight(c)
    /\ RetryOrFail(c)
    /\ UNCHANGED <<brokerVars, cur, cancelled, producer, late, historyVars>>

\* An attempt times out while its request is still on the way.
AttemptTimesOut(c) ==
    /\ pc[c] = "sent"
    /\ RetryOrFail(c)
    /\ late' = [late EXCEPT ![cur[c]] = @ + 1]
    /\ UNCHANGED <<brokerVars, cur, cancelled, producer, historyVars>>

\* An error sarama does not retry (message too large, ...).
Rejected(c) ==
    /\ pc[c] = "sent"
    /\ pc' = [pc EXCEPT ![c] = "failed"]
    /\ UNCHANGED <<brokerVars, cur, tries, pos, cancelled, producer, late,
                   historyVars>>

\* SendMessage, from the hand-over to its return.
SendStep(c) ==
    \/ HandOver(c)
    \/ Transmit(c)
    \/ AppendCopy(c)
    \/ Acknowledge(c)
    \/ AttemptFails(c)
    \/ AttemptTimesOut(c)
    \/ Rejected(c)

\* The producer is not idempotent: the leader appends a late copy too.
LateAppend(e) ==
    /\ late[e] > 0
    /\ late' = [late EXCEPT ![e] = @ - 1]
    /\ AppendRecord(e)
    /\ UNCHANGED <<callVars, cancelled, producer, historyVars>>

----------------------------------------------------------------------------
(* The broker's own steps, the clients' contexts, and Close.               *)

Replicate(p) ==
    /\ ReplicateRecord(p)
    /\ UNCHANGED <<callVars, cancelled, producer, late, historyVars>>

\* Bug: a pending answer survives the failover of its leader.
AnswerSurvives(c, p) == FALSE

\* The request of c was pending at the old leader of p: its record was not
\* committed, so it was not answered, and the new leader knows nothing of it.
Unanswered(c, p) ==
    /\ pc[c] = "stored"
    /\ PartitionOf(cur[c]) = p
    /\ pos[c] > hw[p]

\* A leader is replaced; its pending requests will never be answered.
Failover(p, n) ==
    /\ FailoverTo(p, n)
    /\ pc' = [c \in Callers |-> IF Unanswered(c, p) THEN "lost" ELSE pc[c]]
    /\ UNCHANGED <<cur, tries, pos, cancelled, producer, late, historyVars>>

\* The client goes away or its deadline passes; only ProduceEvent's first
\* lines look at it.
Cancel(c) ==
    /\ c \notin cancelled
    /\ cancelled' = cancelled \cup {c}
    /\ UNCHANGED <<brokerVars, callVars, producer, late, historyVars>>

\* Close -> sarama's AsyncClose: no new message, those in flight go on.
Close ==
    /\ producer = "open"
    /\ producer' = "closing"
    /\ UNCHANGED <<brokerVars, callVars, cancelled, late, historyVars>>

\* sarama's count of messages in flight is zero.
Drained == \A c \in Callers : ~InFlight(c)

\* sarama closes its channels, Close returns.
CloseReturns ==
    /\ producer = "closing"
    /\ Drained
    /\ producer' = "closed"
    /\ UNCHANGED <<brokerVars, callVars, cancelled, late, historyVars>>

Environment ==
    \/ \E e \in Event : LateAppend(e)
    \/ \E p \in Partitions : Replicate(p)
    \/ \E p \in Partitions : \E n \in hw[p]..Len(log[p]) : Failover(p, n)

\* The calls for e that sarama has taken or is about to take.
CallsFor(e) ==
    sends[e] + Cardinality({c \in Callers : pc[c] = "checked" /\ cur[c] = e})

Next ==
    \/ \E c \in Callers, e \in Event : CallsFor(e) < MaxSends /\ ProduceEvent(c, e)
    \/ \E c \in Callers : SendStep(c)
    \/ \E c \in Callers : Cancel(c)
    \/ Close
    \/ CloseReturns
    \/ Environment

Spec == Init /\ [][Next]_vars

----------------------------------------------------------------------------
(* Safety.                                                                 *)

\* The variables keep their types; in particular sarama never retries a
\* message more than Retry.Max times, and every running call has an event.
TypeOK ==
    /\ BrokerTypeOK
    /\ pc \in [Callers -> {"idle", "checked"} \cup InFlightStates \cup ReturnedStates]
    /\ cur \in [Callers -> Event \cup {NoEvent}]
    /\ tries \in [Callers -> 0..MaxRetries]
    /\ pos \in [Callers -> Nat]
    /\ cancelled \subseteq Callers
    /\ producer \in {"open", "closing", "closed"}
    /\ late \in [Event -> Nat]
    /\ sends \in [Event -> Nat]
    /\ acked \subseteq Ack
    /\ \A c \in Callers : InCall(c) => cur[c] \in Event

\* The promise of ProduceEvent: once it has returned (partition, offset, nil),
\* the event is at that offset of its type's partition, committed, whatever
\* fails over, is retried, cancelled or closed afterwards.
AckedDurable ==
    \A a \in acked :
        /\ a.part = PartitionOf(a.event)
        /\ CommittedAt(a.event, a.part, a.pos)

\* sarama took e from a caller at least once, and JSON could encode it.
Admitted(e) == sends[e] > 0 /\ e.finite

\* An event reaches the log only through a call sarama admitted, and only in the
\* partition of its type: refused calls (context done, bad data, shutting down)
\* leave no trace, copies that arrive late included.
OnlyAdmittedStored ==
    /\ \A p \in Partitions : \A i \in 1..Len(log[p]) :
          Admitted(log[p][i]) /\ PartitionOf(log[p][i]) = p
    /\ \A e \in Event : late[e] > 0 => Admitted(e)
    /\ \A c \in Callers : InFlight(c) => Admitted(cur[c])
    /\ \A c \in Callers : pc[c] = "checked" => cur[c].finite

Copies(e) ==
    Cardinality({i \in 1..Len(log[PartitionOf(e)]) :
                    log[PartitionOf(e)][i] = e})

\* Without an idempotent producer a call may store its event several times, but
\* never more than once per attempt: 1 + Retry.Max copies, late ones included.
CopiesBounded == \A e \in Event : Copies(e) + late[e] <= sends[e] * (MaxRetries + 1)

\* Two calls that hold an offset never hold the same one: the offset a caller
\* is given identifies its own record, not that of a call it raced with.
OneRecordPerCall ==
    \A c, d \in Callers :
        (/\ c # d
         /\ {pc[c], pc[d]} \subseteq {"stored", "ok"}
         /\ PartitionOf(cur[c]) = PartitionOf(cur[d])) => pos[c] # pos[d]
=============================================================================
