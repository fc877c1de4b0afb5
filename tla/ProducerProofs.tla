--------------------------- MODULE ProducerProofs ---------------------------
(***************************************************************************)
(* Theorems about Producer, for every set of callers, events, types and    *)
(* partitions and every bound.                                             *)
(***************************************************************************)
EXTENDS ProducerRefinement, TLAPS, SequenceTheorems

USE DEF InFlightStates, ReturnedStates, InFlight, InCall, WaitForAll, Unanswered

-----------------------------------------------------------------------------
(* The steps of the producer.                                              *)

\* Next without the bound on the calls of its environment: the modules that
\* compose handlers with Producer take these steps.
Step ==
    \/ \E c \in Callers, e \in Event : ProduceEvent(c, e)
    \/ \E c \in Callers : SendStep(c)
    \/ \E c \in Callers : Cancel(c)
    \/ Close
    \/ CloseReturns
    \/ Environment

\* Every step of the specification is one of them.
LEMMA NextIsStep == [Next]_vars => [Step]_vars
BY DEF Next, Step

-----------------------------------------------------------------------------
(* What the broker's three operations do to the logs.                      *)

\* The partition of an event of the model is one of the topic's.
LEMMA PartitionOfType ==
    ASSUME NEW e \in Event
    PROVE  PartitionOf(e) \in Partitions
BY EventAssumption, HashPartitionAssumption DEF PartitionOf

\* Appending a record adds it behind the others and disturbs none of them.
LEMMA AppendRecordLog ==
    ASSUME BrokerTypeOK, NEW e \in Event, AppendRecord(e)
    PROVE  /\ BrokerTypeOK'
           /\ hw' = hw
           /\ \A p \in Partitions : Len(log'[p]) >= Len(log[p])
           /\ \A p \in Partitions : \A i \in 1..Len(log[p]) :
                 log'[p][i] = log[p][i]
           /\ Len(log'[PartitionOf(e)]) = Len(log[PartitionOf(e)]) + 1
           /\ log'[PartitionOf(e)][Len(log[PartitionOf(e)]) + 1] = e
           /\ \A p \in Partitions : p # PartitionOf(e) => log'[p] = log[p]
<1>1. PartitionOf(e) \in Partitions
  BY PartitionOfType
<1>2. log' \in [Partitions -> Seq(Event)]
  BY <1>1, AppendProperties DEF AppendRecord, BrokerTypeOK
<1>3. QED
  BY <1>1, <1>2, AppendProperties DEF AppendRecord, BrokerTypeOK

\* A failover keeps a prefix that holds every committed record.
LEMMA FailoverLog ==
    ASSUME BrokerTypeOK, NEW p \in Partitions, NEW n \in hw[p]..Len(log[p]),
           FailoverTo(p, n)
    PROVE  /\ BrokerTypeOK'
           /\ hw' = hw
           /\ Len(log'[p]) = n
           /\ \A i \in 1..n : log'[p][i] = log[p][i]
           /\ \A q \in Partitions : q # p => log'[q] = log[q]
<1>1. /\ log[p] \in Seq(Event)
      /\ hw[p] \in Nat
      /\ n \in 0..Len(log[p])
  BY LenProperties DEF BrokerTypeOK
<1>2. /\ SubSeq(log[p], 1, n) \in Seq(Event)
      /\ Len(SubSeq(log[p], 1, n)) = n
      /\ \A i \in 1..n : SubSeq(log[p], 1, n)[i] = log[p][i]
  BY <1>1, SubSeqProperties
<1>3. /\ hw' = hw
      /\ failovers' \in Nat
      /\ log' = [log EXCEPT ![p] = SubSeq(@, 1, n)]
  BY DEF FailoverTo, BrokerTypeOK
<1>4. /\ log'[p] = SubSeq(log[p], 1, n)
      /\ \A q \in Partitions : q # p => log'[q] = log[q]
      /\ log' \in [Partitions -> Seq(Event)]
  BY <1>2, <1>3 DEF BrokerTypeOK
<1>5. QED
  BY <1>2, <1>3, <1>4 DEF BrokerTypeOK

-----------------------------------------------------------------------------
(* Type correctness.                                                       *)

\* The types hold before the first call ...
LEMMA InitTypeOK == Init => TypeOK
BY MaxRetriesAssumption DEF Init, TypeOK, BrokerInit, BrokerTypeOK

\* A call that begins leaves cur, tries and pos well typed.
LEMMA BeginCallType ==
    ASSUME TypeOK, NEW c \in Callers, NEW e \in Event,
           NEW where \in {"checked", "failed"},
           BeginCall(c, e, where)
    PROVE  /\ pc' \in [Callers -> {"idle", "checked"} \cup InFlightStates \cup ReturnedStates]
           /\ cur' \in [Callers -> Event \cup {NoEvent}]
           /\ tries' \in [Callers -> 0..MaxRetries]
           /\ pos' \in [Callers -> Nat]
           /\ \A d \in Callers : InCall(d)' => cur'[d] \in Event
BY MaxRetriesAssumption DEF TypeOK, BeginCall

\* ... and are kept by the beginning of a call ...
LEMMA ProduceEventType ==
    ASSUME TypeOK, NEW c \in Callers, NEW e \in Event, ProduceEvent(c, e)
    PROVE  TypeOK'
<1>1. PICK where \in {"checked", "failed"} : BeginCall(c, e, where)
  BY DEF ProduceEvent
<1>2. QED
  BY <1>1, BeginCallType
  DEF ProduceEvent, TypeOK, BrokerTypeOK, brokerVars, historyVars

\* ... by its hand-over to sarama ...
LEMMA HandOverType ==
    ASSUME TypeOK, NEW c \in Callers, HandOver(c)
    PROVE  TypeOK'
<1> USE DEF TypeOK, BrokerTypeOK, brokerVars
<1>1. /\ pc' \in [Callers -> {"idle", "checked"} \cup InFlightStates \cup ReturnedStates]
      /\ \A d \in Callers : InCall(d)' => InCall(d)
      /\ UNCHANGED <<brokerVars, cur, tries, pos, cancelled, producer, late, acked>>
      /\ cur[c] \in Event
  BY DEF HandOver, Admit, ShuttingDown, SendOnClosed, Answer
<1>2. sends' \in [Event -> Nat]
  <2>1. sends' = [sends EXCEPT ![cur[c]] = @ + 1] \/ sends' = sends
    BY DEF HandOver, Admit, ShuttingDown, SendOnClosed
  <2>2. sends \in [Event -> Nat] /\ cur[c] \in Event
    BY <1>1
  <2>3. QED
    BY <2>1, <2>2
<1>3. QED
  BY <1>1, <1>2

\* ... by the retry rule, which stays within Retry.Max ...
LEMMA RetryOrFailType ==
    ASSUME TypeOK, NEW c \in Callers, InFlight(c), RetryOrFail(c)
    PROVE  /\ pc' \in [Callers -> {"idle", "checked"} \cup InFlightStates \cup ReturnedStates]
           /\ tries' \in [Callers -> 0..MaxRetries]
           /\ pos' \in [Callers -> Nat]
           /\ \A d \in Callers : InCall(d)' => InCall(d)
BY MaxRetriesAssumption DEF TypeOK, RetryOrFail

\* ... by the delivery of a message ...
LEMMA SendStepType ==
    ASSUME TypeOK, NEW c \in Callers, SendStep(c)
    PROVE  TypeOK'
<1> USE DEF TypeOK, BrokerTypeOK, brokerVars, historyVars
<1>1. CASE Transmit(c)
  BY <1>1 DEF Transmit
<1>2. CASE AppendCopy(c)
  <2>1. cur[c] \in Event
    BY <1>2 DEF AppendCopy
  <2>2. BrokerTypeOK'
    BY <1>2, <2>1, AppendRecordLog DEF AppendCopy
  <2>3. Len(log[PartitionOf(cur[c])]) \in Nat
    BY <2>1, PartitionOfType, LenProperties
  <2>4. QED
    BY <1>2, <2>2, <2>3 DEF AppendCopy
<1>3. CASE Acknowledge(c)
  <2>1. cur[c] \in Event /\ PartitionOf(cur[c]) \in Partitions
    BY <1>3, PartitionOfType DEF Acknowledge
  <2>2. QED
    BY <1>3, <2>1 DEF Acknowledge, Ack
<1>4. CASE AttemptFails(c)
  BY <1>4, RetryOrFailType DEF AttemptFails
<1>5. CASE AttemptTimesOut(c)
  <2>1. InFlight(c) /\ cur[c] \in Event
    BY <1>5 DEF AttemptTimesOut
  <2>2. late' \in [Event -> Nat]
    BY <1>5, <2>1 DEF AttemptTimesOut
  <2>3. QED
    BY <1>5, <2>1, <2>2, RetryOrFailType DEF AttemptTimesOut
<1>6. CASE Rejected(c)
  BY <1>6 DEF Rejected
<1>7. CASE HandOver(c)
  BY <1>7, HandOverType
<1>8. QED
  BY <1>1, <1>2, <1>3, <1>4, <1>5, <1>6, <1>7 DEF SendStep

\* ... by the brokers and late copies ...
LEMMA EnvironmentType ==
    ASSUME TypeOK, Environment
    PROVE  TypeOK'
<1> USE DEF TypeOK, callVars, historyVars
<1>1. ASSUME NEW e \in Event, LateAppend(e)
      PROVE  TypeOK'
  <2>1. BrokerTypeOK'
    BY <1>1, AppendRecordLog DEF LateAppend
  <2>2. late' \in [Event -> Nat]
    BY <1>1 DEF LateAppend
  <2>3. QED
    BY <1>1, <2>1, <2>2 DEF LateAppend
<1>2. ASSUME NEW p \in Partitions, Replicate(p)
      PROVE  TypeOK'
  <2>1. BrokerTypeOK'
    BY <1>2 DEF Replicate, ReplicateRecord, BrokerTypeOK
  <2>2. QED
    BY <1>2, <2>1 DEF Replicate
<1>3. ASSUME NEW p \in Partitions, NEW n \in hw[p]..Len(log[p]), Failover(p, n)
      PROVE  TypeOK'
  <2>1. BrokerTypeOK'
    BY <1>3, FailoverLog DEF Failover
  <2>2. QED
    BY <1>3, <2>1 DEF Failover
<1>4. QED
  BY <1>1, <1>2, <1>3 DEF Environment

\* ... and so by every step.
LEMMA TypeStep == TypeOK /\ [Step]_vars => TypeOK'
<1> SUFFICES ASSUME TypeOK, [Step]_vars
             PROVE  TypeOK'
  OBVIOUS
<1> USE DEF brokerVars, callVars, historyVars
<1>1. ASSUME NEW c \in Callers, NEW e \in Event, ProduceEvent(c, e)
      PROVE  TypeOK'
  BY <1>1, ProduceEventType
<1>2. ASSUME NEW c \in Callers, SendStep(c)
      PROVE  TypeOK'
  BY <1>2, SendStepType
<1>3. ASSUME NEW c \in Callers, Cancel(c)
      PROVE  TypeOK'
  BY <1>3 DEF Cancel, TypeOK, BrokerTypeOK
<1>4. CASE Close
  BY <1>4 DEF Close, TypeOK, BrokerTypeOK
<1>5. CASE CloseReturns
  BY <1>5 DEF CloseReturns, TypeOK, BrokerTypeOK
<1>6. CASE Environment
  BY <1>6, EnvironmentType
<1>7. CASE UNCHANGED vars
  BY <1>7 DEF vars, TypeOK, BrokerTypeOK
<1>8. QED
  BY <1>1, <1>2, <1>3, <1>4, <1>5, <1>6, <1>7 DEF Step

\* The variables of the producer model are always well typed; in particular a
\* message is never retried more than Retry.Max times.
THEOREM TypeCorrect == Spec => []TypeOK
BY InitTypeOK, TypeStep, NextIsStep, PTL DEF Spec

-----------------------------------------------------------------------------
(* Durability.  Seen from the logs there are five kinds of steps.          *)

LogUnchanged == log' = log /\ hw' = hw

\* What a step does to the records: nothing, one more at the end of a log, one
\* more committed, or the loss of an uncommitted tail.
LogStep ==
    \/ LogUnchanged
    \/ \E e \in Event : AppendRecord(e)
    \/ \E p \in Partitions : ReplicateRecord(p)
    \/ \E p \in Partitions : \E n \in hw[p]..Len(log[p]) : FailoverTo(p, n)

\* Every step is one of the log's steps.
LEMMA NextLogStep ==
    ASSUME TypeOK, [Step]_vars
    PROVE  LogStep
<1> USE DEF LogStep, LogUnchanged, brokerVars
<1>1. ASSUME NEW c \in Callers, NEW e \in Event, ProduceEvent(c, e)
      PROVE  LogStep
  BY <1>1 DEF ProduceEvent
<1>2. ASSUME NEW c \in Callers, SendStep(c)
      PROVE  LogStep
  <2>1. CASE AppendCopy(c)
    <3>1. cur[c] \in Event
      BY <2>1 DEF AppendCopy, TypeOK
    <3>2. QED
      BY <2>1, <3>1 DEF AppendCopy
  <2>2. QED
    BY <1>2, <2>1
    DEF SendStep, HandOver, Admit, ShuttingDown, SendOnClosed, Answer, Transmit,
        Acknowledge, AttemptFails, AttemptTimesOut, Rejected
<1>3. CASE Environment
  BY <1>3 DEF Environment, LateAppend, Replicate, Failover
<1>4. QED
  BY <1>1, <1>2, <1>3 DEF Step, Cancel, Close, CloseReturns, vars

\* The committed prefix lies within the leader's log.
HwWithinLog == \A p \in Partitions : hw[p] <= Len(log[p])

\* While an attempt waits for its answer, its record is where it was put.
StoredInPlace ==
    \A c \in Callers : pc[c] = "stored" =>
        /\ pos[c] \in 1..Len(log[PartitionOf(cur[c])])
        /\ log[PartitionOf(cur[c])][pos[c]] = cur[c]

\* AckedDurable is not inductive alone: it needs the other three.
DurabilityInv == TypeOK /\ HwWithinLog /\ StoredInPlace /\ AckedDurable

\* The committed prefix stays within the log: appends and failovers leave hw
\* alone, and no failover cuts below it.
LEMMA HwStep ==
    ASSUME TypeOK, HwWithinLog, LogStep
    PROVE  HwWithinLog'
<1> USE DEF HwWithinLog
<1>1. ASSUME NEW e \in Event, AppendRecord(e)
      PROVE  HwWithinLog'
  <2>1. \A p \in Partitions : /\ Len(log'[p]) \in Nat
                              /\ Len(log[p]) \in Nat
                              /\ hw[p] \in Nat
    BY <1>1, AppendRecordLog, LenProperties DEF TypeOK, BrokerTypeOK
  <2>2. QED
    BY <1>1, <2>1, AppendRecordLog DEF TypeOK
<1>2. ASSUME NEW p \in Partitions, ReplicateRecord(p)
      PROVE  HwWithinLog'
  <2>1. \A q \in Partitions : Len(log[q]) \in Nat /\ hw[q] \in Nat
    BY LenProperties DEF TypeOK, BrokerTypeOK
  <2>2. QED
    BY <1>2, <2>1 DEF ReplicateRecord, TypeOK, BrokerTypeOK
<1>3. ASSUME NEW p \in Partitions, NEW n \in hw[p]..Len(log[p]), FailoverTo(p, n)
      PROVE  HwWithinLog'
  <2>1. /\ hw' = hw
        /\ Len(log'[p]) = n
        /\ \A q \in Partitions : q # p => log'[q] = log[q]
    BY <1>3, FailoverLog DEF TypeOK
  <2>2. n >= hw[p]
    BY LenProperties DEF TypeOK, BrokerTypeOK
  <2>3. QED
    BY <2>1, <2>2
<1>4. QED
  BY <1>1, <1>2, <1>3 DEF LogStep, LogUnchanged

\* A committed record stays where it is, whatever the step.
LEMMA CommittedStays ==
    ASSUME TypeOK, HwWithinLog, LogStep,
           NEW e, NEW p \in Partitions, NEW i, CommittedAt(e, p, i)
    PROVE  CommittedAt(e, p, i)'
<1> USE DEF CommittedAt
<1>1. /\ hw[p] \in Nat
      /\ Len(log[p]) \in Nat
      /\ hw[p] <= Len(log[p])
      /\ i \in 1..hw[p]
      /\ i \in 1..Len(log[p])
      /\ log[p][i] = e
  BY LenProperties DEF TypeOK, BrokerTypeOK, HwWithinLog
<1>2. ASSUME NEW f \in Event, AppendRecord(f)
      PROVE  CommittedAt(e, p, i)'
  BY <1>1, <1>2, AppendRecordLog DEF TypeOK
<1>3. ASSUME NEW q \in Partitions, ReplicateRecord(q)
      PROVE  CommittedAt(e, p, i)'
  BY <1>1, <1>3 DEF ReplicateRecord, TypeOK, BrokerTypeOK
<1>4. ASSUME NEW q \in Partitions, NEW n \in hw[q]..Len(log[q]), FailoverTo(q, n)
      PROVE  CommittedAt(e, p, i)'
  <2>1. /\ hw' = hw
        /\ \A j \in 1..n : log'[q][j] = log[q][j]
        /\ \A r \in Partitions : r # q => log'[r] = log[r]
    BY <1>4, FailoverLog DEF TypeOK
  <2>2. CASE p = q
    BY <1>1, <2>1, <2>2
  <2>3. CASE p # q
    BY <1>1, <2>1, <2>3
  <2>4. QED
    BY <2>2, <2>3
<1>5. QED
  BY <1>1, <1>2, <1>3, <1>4 DEF LogStep, LogUnchanged

\* StoredInPlace for one caller.
InPlace(c) ==
    pc[c] = "stored" =>
        /\ pos[c] \in 1..Len(log[PartitionOf(cur[c])])
        /\ log[PartitionOf(cur[c])][pos[c]] = cur[c]

\* An append disturbs no caller that waits and keeps its place.
LEMMA AppendKeepsInPlace ==
    ASSUME TypeOK, NEW e \in Event, AppendRecord(e),
           NEW c \in Callers, InPlace(c),
           pc'[c] = pc[c], cur'[c] = cur[c], pos'[c] = pos[c]
    PROVE  InPlace(c)'
<1> SUFFICES ASSUME pc[c] = "stored"
             PROVE  /\ pos[c] \in 1..Len(log'[PartitionOf(cur[c])])
                    /\ log'[PartitionOf(cur[c])][pos[c]] = cur[c]
  BY DEF InPlace, PartitionOf
<1>1. cur[c] \in Event
  BY DEF TypeOK
<1>2. PartitionOf(cur[c]) \in Partitions
  BY <1>1, PartitionOfType
<1>3. /\ log[PartitionOf(cur[c])] \in Seq(Event)
      /\ log'[PartitionOf(cur[c])] \in Seq(Event)
  BY <1>2, AppendRecordLog DEF TypeOK, BrokerTypeOK
<1>4. /\ Len(log[PartitionOf(cur[c])]) \in Nat
      /\ Len(log'[PartitionOf(cur[c])]) \in Nat
      /\ Len(log'[PartitionOf(cur[c])]) >= Len(log[PartitionOf(cur[c])])
  BY <1>2, <1>3, AppendRecordLog, LenProperties DEF TypeOK
<1>5. QED
  BY <1>2, <1>4, AppendRecordLog DEF InPlace, TypeOK

\* The delivery of a message leaves stored records in place.
LEMMA StoredSendStep ==
    ASSUME TypeOK, StoredInPlace, NEW c \in Callers, SendStep(c)
    PROVE  StoredInPlace'
<1>1. \A d \in Callers : InPlace(d)
  BY DEF StoredInPlace, InPlace
<1> SUFFICES ASSUME NEW d \in Callers
             PROVE  InPlace(d)'
  BY DEF StoredInPlace, InPlace
<1> USE DEF brokerVars
<1>2. CASE AppendCopy(c)
  <2>1. cur[c] \in Event /\ AppendRecord(cur[c]) /\ cur' = cur
    BY <1>2 DEF AppendCopy, TypeOK
  <2>2. CASE d = c
    <3>1. PartitionOf(cur[c]) \in Partitions
      BY <2>1, PartitionOfType
    <3>2. pos'[c] = Len(log[PartitionOf(cur[c])]) + 1
      BY <1>2 DEF AppendCopy, TypeOK
    <3>3. /\ Len(log'[PartitionOf(cur[c])]) = Len(log[PartitionOf(cur[c])]) + 1
          /\ log'[PartitionOf(cur[c])][Len(log[PartitionOf(cur[c])]) + 1] = cur[c]
      BY <2>1, AppendRecordLog DEF TypeOK
    <3>4. Len(log[PartitionOf(cur[c])]) \in Nat
      BY <3>1, LenProperties DEF TypeOK, BrokerTypeOK
    <3>5. QED
      BY <2>1, <2>2, <3>2, <3>3, <3>4 DEF InPlace, PartitionOf
  <2>3. CASE d # c
    <3>1. pc'[d] = pc[d] /\ pos'[d] = pos[d]
      BY <1>2, <2>3 DEF AppendCopy, TypeOK
    <3>2. QED
      BY <1>1, <2>1, <3>1, AppendKeepsInPlace
  <2>4. QED
    BY <2>2, <2>3
<1>3. CASE ~AppendCopy(c)
  <2>1. /\ log' = log /\ cur' = cur
        /\ pc'[c] # "stored"
        /\ d # c => pc'[d] = pc[d] /\ pos'[d] = pos[d]
    BY <1>3
    DEF SendStep, HandOver, Admit, ShuttingDown, SendOnClosed, Answer, Transmit,
        Acknowledge, AttemptFails, AttemptTimesOut, Rejected, RetryOrFail, TypeOK
  <2>2. QED
    BY <1>1, <2>1 DEF InPlace, PartitionOf
<1>4. QED
  BY <1>2, <1>3

\* So does every step: a failover that cuts a record unanswers its call.
LEMMA StoredStep ==
    ASSUME TypeOK, HwWithinLog, StoredInPlace, [Step]_vars
    PROVE  StoredInPlace'
<1>1. \A d \in Callers : InPlace(d)
  BY DEF StoredInPlace, InPlace
<1> SUFFICES ASSUME NEW d \in Callers
             PROVE  InPlace(d)'
  BY DEF StoredInPlace, InPlace
<1> USE DEF brokerVars, callVars
<1>2. ASSUME NEW c \in Callers, NEW e \in Event, ProduceEvent(c, e)
      PROVE  InPlace(d)'
  <2>1. /\ log' = log
        /\ pc'[c] # "stored"
        /\ d # c => pc'[d] = pc[d] /\ pos'[d] = pos[d] /\ cur'[d] = cur[d]
    BY <1>2 DEF ProduceEvent, BeginCall, TypeOK
  <2>2. QED
    BY <1>1, <2>1 DEF InPlace, PartitionOf
<1>3. ASSUME NEW c \in Callers, SendStep(c)
      PROVE  InPlace(d)'
  BY <1>3, StoredSendStep DEF StoredInPlace, InPlace
<1>4. ASSUME NEW e \in Event, LateAppend(e)
      PROVE  InPlace(d)'
  BY <1>1, <1>4, AppendKeepsInPlace DEF LateAppend
<1>5. ASSUME NEW p \in Partitions, NEW n \in hw[p]..Len(log[p]), Failover(p, n)
      PROVE  InPlace(d)'
  <2>1. /\ cur' = cur /\ pos' = pos
        /\ pc'[d] = "stored" =>
              /\ pc[d] = "stored"
              /\ PartitionOf(cur[d]) = p => pos[d] <= hw[p]
    <3>1. pos[d] \in Nat /\ hw[p] \in Nat
      BY DEF TypeOK, BrokerTypeOK
    <3>2. QED
      BY <1>5, <3>1 DEF Failover
  <2> SUFFICES ASSUME pc'[d] = "stored"
               PROVE  /\ pos[d] \in 1..Len(log'[PartitionOf(cur[d])])
                      /\ log'[PartitionOf(cur[d])][pos[d]] = cur[d]
    BY <2>1 DEF InPlace, PartitionOf
  <2>2. PartitionOf(cur[d]) \in Partitions
    BY <2>1, PartitionOfType DEF TypeOK
  <2>3. /\ Len(log'[p]) = n
        /\ \A i \in 1..n : log'[p][i] = log[p][i]
        /\ \A q \in Partitions : q # p => log'[q] = log[q]
    BY <1>5, FailoverLog DEF Failover, TypeOK
  <2>4. n \in Nat /\ hw[p] \in Nat /\ hw[p] <= n
    BY LenProperties DEF TypeOK, BrokerTypeOK
  <2>5. CASE PartitionOf(cur[d]) = p
    BY <1>1, <2>1, <2>3, <2>4, <2>5 DEF InPlace
  <2>6. CASE PartitionOf(cur[d]) # p
    BY <1>1, <2>1, <2>2, <2>3, <2>6 DEF InPlace
  <2>7. QED
    BY <2>5, <2>6
<1>6. CASE UNCHANGED <<log, callVars>>
  BY <1>1, <1>6 DEF InPlace, PartitionOf
<1>7. QED
  BY <1>2, <1>3, <1>4, <1>5, <1>6
  DEF Step, Environment, Replicate, ReplicateRecord, Cancel, Close,
      CloseReturns, vars

\* What was acknowledged stays committed.
LEMMA AckedStep ==
    ASSUME TypeOK, HwWithinLog, StoredInPlace, AckedDurable, [Step]_vars
    PROVE  AckedDurable'
<1> SUFFICES ASSUME NEW a \in acked'
             PROVE  a.part = PartitionOf(a.event) /\ CommittedAt(a.event, a.part, a.pos)'
  BY DEF AckedDurable, PartitionOf
<1> LogStep
  BY NextLogStep
<1>1. CASE a \in acked
  <2>1. /\ a.part \in Partitions
        /\ a.part = PartitionOf(a.event)
        /\ CommittedAt(a.event, a.part, a.pos)
    BY <1>1 DEF AckedDurable, TypeOK, Ack
  <2>2. QED
    BY <2>1, CommittedStays
<1>2. CASE a \notin acked
  <2>1. PICK c \in Callers : Acknowledge(c)
    BY <1>2
    DEF Step, ProduceEvent, SendStep, HandOver, Admit, ShuttingDown,
        SendOnClosed, Answer, Transmit, AppendCopy, AttemptFails, AttemptTimesOut, Rejected, Cancel, Close,
        CloseReturns, Environment, LateAppend, Replicate, Failover,
        historyVars, vars
  <2>2. /\ pc[c] = "stored"
        /\ pos[c] <= hw[PartitionOf(cur[c])]
        /\ a = [event |-> cur[c], part |-> PartitionOf(cur[c]), pos |-> pos[c]]
    BY <1>2, <2>1 DEF Acknowledge
  <2>3. PartitionOf(cur[c]) \in Partitions
    BY <2>2, PartitionOfType DEF TypeOK
  <2>4. CommittedAt(cur[c], PartitionOf(cur[c]), pos[c])
    BY <2>2, <2>3, LenProperties
    DEF CommittedAt, StoredInPlace, HwWithinLog, TypeOK, BrokerTypeOK
  <2>5. QED
    BY <2>2, <2>3, <2>4, CommittedStays
<1>3. QED
  BY <1>1, <1>2

\* DurabilityInv is inductive.
LEMMA DurabilityInit == Init => DurabilityInv
BY InitTypeOK
DEF DurabilityInv, HwWithinLog, StoredInPlace, AckedDurable, Init, BrokerInit

\* Every step keeps it.
LEMMA DurabilityStep == DurabilityInv /\ [Step]_vars => DurabilityInv'
BY TypeStep, NextLogStep, HwStep, StoredStep, AckedStep DEF DurabilityInv

\* What a nil error from ProduceEvent promises holds for ever: an acknowledged
\* event is committed at the partition and offset that were returned.  Together
\* with the invariants it rests on.
THEOREM DurabilityInvariant == Spec => []DurabilityInv
BY DurabilityInit, DurabilityStep, NextIsStep, PTL DEF Spec

\* The same for AckedDurable alone.
THEOREM AckedAreDurable == Spec => []AckedDurable
<1>1. DurabilityInv => AckedDurable
  BY DEF DurabilityInv
<1>2. QED
  BY <1>1, DurabilityInvariant, PTL
=============================================================================
