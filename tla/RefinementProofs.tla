-------------------------- MODULE RefinementProofs --------------------------
(***************************************************************************)
(* Producer over Kafka implements AtLeastOnce, for every value of the      *)
(* constants.  The proof needs DurabilityInv and OnlyAdmittedStored.       *)
(***************************************************************************)
EXTENDS CallProofs

USE DEF InFlightStates, ReturnedStates, InFlight, InCall, WaitForAll, Unanswered

-----------------------------------------------------------------------------
(* Only admitted events are stored.                                        *)

\* An admitted event stays admitted.
LEMMA AdmittedStays ==
    ASSUME TypeOK, [Step]_vars, NEW e \in Event, Admitted(e)
    PROVE  Admitted(e)'
<1>1. ASSUME NEW c \in Callers, Admit(c)
      PROVE  sends'[e] >= sends[e] /\ sends[e] \in Nat /\ sends'[e] \in Nat
  <2>1. sends' = [sends EXCEPT ![cur[c]] = @ + 1] /\ cur[c] \in Event
    BY <1>1 DEF Admit, Answer, TypeOK
  <2>2. sends \in [Event -> Nat]
    BY DEF TypeOK
  <2>3. QED
    BY <2>1, <2>2
<1>2. CASE sends' = sends
  BY <1>2 DEF Admitted
<1>3. CASE sends' # sends
  <2>1. PICK c \in Callers : Admit(c)
    BY <1>3
    DEF Step, ProduceEvent, SendStep, HandOver, ShuttingDown, SendOnClosed,
        Transmit, AppendCopy, Acknowledge, AttemptFails, AttemptTimesOut, Rejected, Cancel, Close,
        CloseReturns, Environment, LateAppend, Replicate, Failover,
        historyVars, vars
  <2>2. sends'[e] >= sends[e] /\ sends[e] \in Nat /\ sends'[e] \in Nat
    BY <1>1, <2>1
  <2>3. QED
    BY <2>2 DEF Admitted
<1>4. QED
  BY <1>2, <1>3

\* The three places an event can be: in a log, on the network, in a call.
LogAdmitted ==
    \A p \in Partitions : \A i \in 1..Len(log[p]) :
        Admitted(log[p][i]) /\ PartitionOf(log[p][i]) = p
LateAdmitted == \A e \in Event : late[e] > 0 => Admitted(e)
FlightAdmitted ==
    /\ \A c \in Callers : InFlight(c) => Admitted(cur[c])
    /\ \A c \in Callers : pc[c] = "checked" => cur[c].finite

\* What is late was admitted before it was sent.
LEMMA LateStep ==
    ASSUME TypeOK, OnlyAdmittedStored, [Step]_vars
    PROVE  LateAdmitted'
<1> SUFFICES ASSUME NEW e \in Event, late'[e] > 0
             PROVE  Admitted(e)
  BY AdmittedStays DEF LateAdmitted
<1>1. ASSUME NEW c \in Callers, AttemptTimesOut(c)
      PROVE  Admitted(e)
  BY <1>1 DEF AttemptTimesOut, OnlyAdmittedStored, TypeOK
<1>2. ASSUME NEW f \in Event, LateAppend(f)
      PROVE  Admitted(e)
  BY <1>2 DEF LateAppend, OnlyAdmittedStored, TypeOK
<1>3. CASE late' = late
  BY <1>3 DEF OnlyAdmittedStored
<1>4. QED
  BY <1>1, <1>2, <1>3
  DEF Step, ProduceEvent, SendStep, HandOver, Admit, ShuttingDown, SendOnClosed,
      Answer, Transmit, AppendCopy, Acknowledge, AttemptFails, Rejected, Cancel,
      Close, CloseReturns, Environment, Replicate, Failover, vars

\* What is past json.Marshal can be encoded.
LEMMA CheckedStep ==
    ASSUME TypeOK, OnlyAdmittedStored, [Step]_vars, NEW d \in Callers,
           pc'[d] = "checked"
    PROVE  cur'[d].finite
<1>1. ASSUME NEW c \in Callers, NEW e \in Event, ProduceEvent(c, e)
      PROVE  cur'[d].finite
  <2>1. CASE d = c
    BY <1>1, <2>1 DEF ProduceEvent, BeginCall, Passes, TypeOK
  <2>2. CASE d # c
    BY <1>1, <2>2 DEF ProduceEvent, BeginCall, OnlyAdmittedStored, TypeOK
  <2>3. QED
    BY <2>1, <2>2
<1>2. CASE pc[d] = "checked" /\ cur'[d] = cur[d]
  BY <1>2 DEF OnlyAdmittedStored
<1>3. ASSUME NEW c \in Callers, SendStep(c)
      PROVE  pc[d] = "checked" /\ cur'[d] = cur[d]
  BY <1>3
  DEF SendStep, HandOver, Admit, ShuttingDown, SendOnClosed, Answer, Transmit,
      AppendCopy, Acknowledge, AttemptFails, AttemptTimesOut, Rejected,
      RetryOrFail, TypeOK
<1>4. ASSUME Environment
      PROVE  pc[d] = "checked" /\ cur'[d] = cur[d]
  BY <1>4 DEF Environment, LateAppend, Replicate, Failover, callVars
<1>5. CASE UNCHANGED callVars
  BY <1>2, <1>5 DEF callVars
<1>6. QED
  BY <1>1, <1>2, <1>3, <1>4, <1>5
  DEF Step, Cancel, Close, CloseReturns, vars, callVars

\* What is in flight has been admitted.
LEMMA FlightStep ==
    ASSUME TypeOK, OnlyAdmittedStored, [Step]_vars
    PROVE  FlightAdmitted'
<1> SUFFICES ASSUME NEW d \in Callers, InFlight(d)'
             PROVE  Admitted(cur[d])'
  BY CheckedStep DEF FlightAdmitted
<1>1. ASSUME NEW c \in Callers, Admit(c)
      PROVE  Admitted(cur[d])'
  <2>1. CASE d = c
    <3>1. cur' = cur /\ cur[d].finite /\ cur[d] \in Event
      BY <1>1, <2>1 DEF Admit, Answer, OnlyAdmittedStored, TypeOK
    <3>2. sends' = [sends EXCEPT ![cur[d]] = @ + 1] /\ sends \in [Event -> Nat]
      BY <1>1, <2>1 DEF Admit, TypeOK
    <3>3. sends'[cur[d]] > 0
      BY <3>1, <3>2
    <3>4. QED
      BY <3>1, <3>3 DEF Admitted
  <2>2. CASE d # c
    <3>1. cur'[d] = cur[d] /\ InFlight(d)
      BY <1>1, <2>2 DEF Admit, Answer, TypeOK
    <3>2. QED
      BY <3>1, AdmittedStays DEF OnlyAdmittedStored, TypeOK
  <2>3. QED
    BY <2>1, <2>2
<1>2. CASE InFlight(d) /\ cur'[d] = cur[d]
  BY <1>2, AdmittedStays DEF OnlyAdmittedStored, TypeOK
<1>3. ASSUME NEW c \in Callers, NEW e \in Event, ProduceEvent(c, e)
      PROVE  InFlight(d) /\ cur'[d] = cur[d]
  BY <1>3 DEF ProduceEvent, BeginCall, TypeOK
<1>4. ASSUME NEW c \in Callers, SendStep(c), ~Admit(c)
      PROVE  InFlight(d) /\ cur'[d] = cur[d]
  BY <1>4
  DEF SendStep, HandOver, ShuttingDown, SendOnClosed, Answer, Transmit,
      AppendCopy, Acknowledge, AttemptFails, AttemptTimesOut, Rejected,
      RetryOrFail, TypeOK
<1>5. ASSUME Environment
      PROVE  InFlight(d) /\ cur'[d] = cur[d]
  BY <1>5 DEF Environment, LateAppend, Replicate, Failover, callVars
<1>6. CASE UNCHANGED callVars
  BY <1>2, <1>6 DEF callVars
<1>7. QED
  BY <1>1, <1>2, <1>3, <1>4, <1>5, <1>6
  DEF Step, Cancel, Close, CloseReturns, vars, callVars

\* LogStep again: what a step appends is admitted.
LEMMA AppendsAdmitted ==
    ASSUME TypeOK, OnlyAdmittedStored, [Step]_vars
    PROVE  \/ log' = log
           \/ \E e \in Event : Admitted(e) /\ AppendRecord(e)
           \/ \E p \in Partitions : \E n \in hw[p]..Len(log[p]) : FailoverTo(p, n)
<1>1. ASSUME NEW c \in Callers, AppendCopy(c)
      PROVE  \E e \in Event : Admitted(e) /\ AppendRecord(e)
  BY <1>1 DEF AppendCopy, OnlyAdmittedStored, TypeOK
<1>2. ASSUME NEW e \in Event, LateAppend(e)
      PROVE  Admitted(e) /\ AppendRecord(e)
  BY <1>2 DEF LateAppend, OnlyAdmittedStored
<1>3. QED
  BY <1>1, <1>2
  DEF Step, ProduceEvent, SendStep, HandOver, Admit, ShuttingDown, SendOnClosed,
      Answer, Transmit, Acknowledge, AttemptFails, AttemptTimesOut, Rejected,
      Cancel, Close, CloseReturns, Environment, Replicate, ReplicateRecord, Failover,
      brokerVars, vars

\* So has everything in a log.
LEMMA LogAdmittedStep ==
    ASSUME TypeOK, OnlyAdmittedStored, [Step]_vars
    PROVE  LogAdmitted'
<1>1. \A p \in Partitions : log[p] \in Seq(Event) /\ log'[p] \in Seq(Event)
  BY TypeStep DEF TypeOK, BrokerTypeOK
<1> SUFFICES ASSUME NEW p \in Partitions, NEW i \in 1..Len(log'[p]),
                    NEW r \in Event, r = log'[p][i]
             PROVE  Admitted(r) /\ PartitionOf(r) = p
  <2>1. ASSUME NEW p \in Partitions, NEW i \in 1..Len(log'[p])
        PROVE  log'[p][i] \in Event
    BY <1>1, ElementOfSeq
  <2>2. QED
    BY <2>1, AdmittedStays DEF LogAdmitted, PartitionOf
<1>2. i \in Nat \ {0} /\ Len(log[p]) \in Nat /\ Len(log'[p]) \in Nat
  BY <1>1, LenProperties
<1>3. CASE i \in 1..Len(log[p]) /\ r = log[p][i]
  BY <1>3 DEF OnlyAdmittedStored
<1>4. ASSUME NEW e \in Event, Admitted(e), AppendRecord(e)
      PROVE  Admitted(r) /\ PartitionOf(r) = p
  <2>1. /\ \A j \in 1..Len(log[p]) : log'[p][j] = log[p][j]
        /\ p # PartitionOf(e) => log'[p] = log[p]
        /\ p = PartitionOf(e) => /\ Len(log'[p]) = Len(log[p]) + 1
                                 /\ log'[p][Len(log[p]) + 1] = e
    BY <1>4, AppendRecordLog DEF TypeOK
  <2>2. CASE i \in 1..Len(log[p])
    BY <1>3, <2>1, <2>2
  <2>3. CASE i \notin 1..Len(log[p])
    <3>1. p = PartitionOf(e) /\ i = Len(log[p]) + 1
      BY <1>2, <2>1, <2>3
    <3>2. QED
      BY <1>4, <2>1, <3>1
  <2>4. QED
    BY <2>2, <2>3
<1>5. ASSUME NEW q \in Partitions, NEW n \in hw[q]..Len(log[q]), FailoverTo(q, n)
      PROVE  i \in 1..Len(log[p]) /\ r = log[p][i]
  <2>1. /\ Len(log'[q]) = n
        /\ \A j \in 1..n : log'[q][j] = log[q][j]
        /\ \A s \in Partitions : s # q => log'[s] = log[s]
    BY <1>5, FailoverLog DEF TypeOK
  <2>2. n <= Len(log[q]) /\ n \in Nat
    BY <1>1, LenProperties DEF TypeOK, BrokerTypeOK
  <2>3. CASE p = q
    BY <1>2, <2>1, <2>2, <2>3
  <2>4. CASE p # q
    BY <1>2, <2>1, <2>4
  <2>5. QED
    BY <2>3, <2>4
<1>6. CASE log' = log
  BY <1>3, <1>6
<1>7. QED
  BY <1>3, <1>4, <1>5, <1>6, AppendsAdmitted

\* The three together.
LEMMA AdmittedStep == TypeOK /\ OnlyAdmittedStored /\ [Step]_vars => OnlyAdmittedStored'
<1> SUFFICES ASSUME TypeOK, OnlyAdmittedStored, [Step]_vars
             PROVE  LogAdmitted' /\ LateAdmitted' /\ FlightAdmitted'
  BY DEF OnlyAdmittedStored, LogAdmitted, LateAdmitted, FlightAdmitted
<1> QED
  BY LogAdmittedStep, LateStep, FlightStep

\* Nothing is ever stored, or can still arrive, that no caller handed to sarama
\* in a call that was not refused; and every record is in its type's partition.
THEOREM OnlyAdmittedAreStored == Spec => []OnlyAdmittedStored
<1>1. Init => OnlyAdmittedStored
  BY DEF Init, BrokerInit, OnlyAdmittedStored
<1>2. QED
  BY <1>1, InitTypeOK, TypeStep, AdmittedStep, NextIsStep, PTL DEF Spec

-----------------------------------------------------------------------------
(* The refinement.                                                         *)

\* What the proof knows of a step's source and target states.
RefinementInv == DurabilityInv /\ OnlyAdmittedStored

\* The committed prefix of a log.
LEMMA CommittedPrefix ==
    ASSUME NEW s \in Seq(Event), NEW n \in 0..Len(s)
    PROVE  /\ SubSeq(s, 1, n) \in Seq(Event)
           /\ Len(SubSeq(s, 1, n)) = n
           /\ \A i \in 1..n : SubSeq(s, 1, n)[i] = s[i]
BY SubSeqProperties, LenProperties

\* A step that keeps hw and the records below it keeps the durable logs.
LEMMA DurableUnchanged ==
    ASSUME TypeOK, HwWithinLog, TypeOK', HwWithinLog', hw' = hw,
           \A p \in Partitions : \A i \in 1..hw[p] : log'[p][i] = log[p][i]
    PROVE  durableBar' = durableBar
<1> SUFFICES ASSUME NEW p \in Partitions
             PROVE  SubSeq(log'[p], 1, hw[p]) = SubSeq(log[p], 1, hw[p])
  BY DEF durableBar
<1>1. /\ log[p] \in Seq(Event) /\ log'[p] \in Seq(Event)
      /\ hw[p] \in 0..Len(log[p]) /\ hw[p] \in 0..Len(log'[p])
  BY LenProperties DEF TypeOK, BrokerTypeOK, HwWithinLog
<1> DEFINE u == SubSeq(log[p], 1, hw[p])
           v == SubSeq(log'[p], 1, hw[p])
<1>2. /\ u \in Seq(Event) /\ v \in Seq(Event)
      /\ Len(u) = hw[p] /\ Len(v) = hw[p]
      /\ \A i \in 1..hw[p] : u[i] = log[p][i] /\ v[i] = log'[p][i]
  BY <1>1, CommittedPrefix
<1>3. \A i \in 1..Len(v) : v[i] = u[i]
  BY <1>2
<1> HIDE DEF u, v
<1>4. v = u
  BY <1>2, <1>3, SeqEqual
<1>5. QED
  BY <1>4 DEF u, v

\* One more committed record is one more record at the end of the durable log.
LEMMA ReplicateCommits ==
    ASSUME TypeOK, HwWithinLog, TypeOK', HwWithinLog',
           NEW p \in Partitions, ReplicateRecord(p)
    PROVE  /\ log[p][hw[p] + 1] \in Event
           /\ durableBar' = [durableBar EXCEPT ![p] = Append(@, log[p][hw[p] + 1])]
<1>1. /\ log[p] \in Seq(Event)
      /\ hw[p] \in Nat /\ hw[p] + 1 \in 1..Len(log[p])
      /\ hw[p] \in 0..Len(log[p]) /\ hw[p] + 1 \in 0..Len(log[p])
  BY LenProperties DEF TypeOK, BrokerTypeOK, HwWithinLog, ReplicateRecord
<1> DEFINE r == log[p][hw[p] + 1]
           u == SubSeq(log[p], 1, hw[p])
           v == SubSeq(log[p], 1, hw[p] + 1)
<1>2. r \in Event
  BY <1>1, ElementOfSeq
<1>3. /\ u \in Seq(Event) /\ v \in Seq(Event)
      /\ Len(u) = hw[p] /\ Len(v) = hw[p] + 1
      /\ \A i \in 1..hw[p] : u[i] = log[p][i]
      /\ \A i \in 1..(hw[p] + 1) : v[i] = log[p][i]
  BY <1>1, CommittedPrefix
<1> HIDE DEF u, v
<1>4. v = Append(u, r)
  <2>1. /\ Append(u, r) \in Seq(Event)
        /\ Len(Append(u, r)) = hw[p] + 1
        /\ \A i \in 1..hw[p] : Append(u, r)[i] = u[i]
        /\ Append(u, r)[hw[p] + 1] = r
    BY <1>2, <1>3, AppendProperties
  <2>2. \A i \in 1..Len(v) : v[i] = Append(u, r)[i]
    BY <1>1, <1>3, <2>1
  <2>3. QED
    BY <1>3, <2>1, <2>2, SeqEqual
<1>5. /\ log' = log
      /\ hw' = [hw EXCEPT ![p] = @ + 1]
      /\ hw \in [Partitions -> Nat]
  BY DEF ReplicateRecord, TypeOK, BrokerTypeOK
<1>6. durableBar' = [durableBar EXCEPT ![p] = v]
  BY <1>5 DEF durableBar, v
<1>7. durableBar[p] = u
  BY DEF durableBar, u
<1>8. QED
  BY <1>2, <1>4, <1>6, <1>7 DEF r

\* The step of the promise a step of the producer stands for, by what changes:
\* Admit offers, Replicate commits, Acknowledge confirms, the others stutter.
LEMMA AppendStutters ==
    ASSUME RefinementInv, RefinementInv', NEW e \in Event, AppendRecord(e)
    PROVE  durableBar' = durableBar
<1>1. \A p \in Partitions : \A i \in 1..hw[p] : i \in 1..Len(log[p])
  BY LenProperties DEF RefinementInv, DurabilityInv, HwWithinLog, TypeOK, BrokerTypeOK
<1>2. QED
  BY <1>1, AppendRecordLog, DurableUnchanged DEF RefinementInv, DurabilityInv, TypeOK

\* A failover cuts nothing that is durable.
LEMMA FailoverStutters ==
    ASSUME RefinementInv, RefinementInv',
           NEW p \in Partitions, NEW n \in hw[p]..Len(log[p]), FailoverTo(p, n)
    PROVE  durableBar' = durableBar
<1>1. /\ hw' = hw
      /\ \A i \in 1..n : log'[p][i] = log[p][i]
      /\ \A q \in Partitions : q # p => log'[q] = log[q]
  BY FailoverLog DEF RefinementInv, DurabilityInv, TypeOK
<1>2. n \in Nat /\ hw[p] \in Nat /\ hw[p] <= n
  BY LenProperties DEF RefinementInv, DurabilityInv, TypeOK, BrokerTypeOK
<1>3. \A q \in Partitions : \A i \in 1..hw[q] : log'[q][i] = log[q][i]
  BY <1>1, <1>2
<1>4. QED
  BY <1>1, <1>3, DurableUnchanged DEF RefinementInv, DurabilityInv

\* Every step is one of AtLeastOnce's, or stutters.
LEMMA RefinementStep ==
    ASSUME RefinementInv, RefinementInv', [Step]_vars
    PROVE  [ALO!Next]_(ALO!vars)
<1> USE DEF ALO!vars
<1>1. ASSUME NEW c \in Callers, Admit(c)
      PROVE  ALO!Next
  <2>1. /\ sends' = [sends EXCEPT ![cur[c]] = @ + 1] /\ sends \in [Event -> Nat]
        /\ cur[c] \in Event
    BY <1>1 DEF Admit, Answer, RefinementInv, DurabilityInv, TypeOK
  <2>2. PICK e \in Event : e = cur[c]
    BY <2>1
  <2>3. offeredBar' = offeredBar \cup {e}
    BY <2>1, <2>2 DEF offeredBar
  <2>4. durableBar' = durableBar /\ acked' = acked
    BY <1>1 DEF Admit, Answer, durableBar, brokerVars
  <2>5. QED
    BY <2>3, <2>4 DEF ALO!Next, ALO!Offer
<1>2. ASSUME NEW p \in Partitions, Replicate(p)
      PROVE  ALO!Next
  <2> DEFINE r == log[p][hw[p] + 1]
  <2>1. ReplicateRecord(p)
    BY <1>2 DEF Replicate
  <2>2. /\ r \in Event
        /\ durableBar' = [durableBar EXCEPT ![p] = Append(@, r)]
    BY <2>1, ReplicateCommits DEF RefinementInv, DurabilityInv
  <2>3. hw[p] + 1 \in 1..Len(log[p])
    BY <2>1, LenProperties
    DEF ReplicateRecord, RefinementInv, DurabilityInv, TypeOK, BrokerTypeOK
  <2>4. Admitted(r) /\ PartitionOf(r) = p
    BY <2>3 DEF RefinementInv, OnlyAdmittedStored
  <2>5. r \in offeredBar /\ offeredBar' = offeredBar /\ acked' = acked
    BY <1>2, <2>2, <2>4 DEF offeredBar, Admitted, Replicate, historyVars
  <2> HIDE DEF r
  <2>6. ALO!Commit(r)
    BY <2>2, <2>4, <2>5 DEF ALO!Commit
  <2>7. QED
    BY <2>2, <2>6 DEF ALO!Next
<1>3. ASSUME NEW c \in Callers, Acknowledge(c)
      PROVE  ALO!Next
  <2> DEFINE e == cur[c]
             p == PartitionOf(cur[c])
             i == pos[c]
  <2>1. /\ e \in Event
        /\ p \in Partitions
        /\ acked' = acked \cup {[event |-> e, part |-> p, pos |-> i]}
    BY <1>3, PartitionOfType
    DEF Acknowledge, RefinementInv, DurabilityInv, TypeOK
  <2>2. /\ log[p] \in Seq(Event)
        /\ hw[p] \in 0..Len(log[p])
        /\ i \in 1..hw[p]
        /\ log[p][i] = e
    BY <1>3, <2>1, LenProperties
    DEF Acknowledge, RefinementInv, DurabilityInv, TypeOK, BrokerTypeOK,
        HwWithinLog, StoredInPlace
  <2>3. /\ i \in 1..Len(durableBar[p])
        /\ durableBar[p][i] = e
    BY <2>1, <2>2, CommittedPrefix DEF durableBar
  <2>4. offeredBar' = offeredBar /\ durableBar' = durableBar
    BY <1>3 DEF Acknowledge, offeredBar, durableBar, brokerVars
  <2> HIDE DEF e, p, i
  <2>5. PartitionOf(e) = p
    BY DEF e, p
  <2>6. ALO!Confirm(e, i)
    BY <2>1, <2>3, <2>4, <2>5 DEF ALO!Confirm
  <2>7. QED
    BY <2>1, <2>3, <2>5, <2>6 DEF ALO!Next
<1>4. ASSUME NEW e \in Event, AppendRecord(e), UNCHANGED historyVars
      PROVE  UNCHANGED ALO!vars
  BY <1>4, AppendStutters DEF offeredBar, historyVars
<1>5. ASSUME NEW p \in Partitions, NEW n \in hw[p]..Len(log[p]), Failover(p, n)
      PROVE  UNCHANGED ALO!vars
  BY <1>5, FailoverStutters DEF Failover, offeredBar, historyVars
<1>6. CASE UNCHANGED <<brokerVars, historyVars>>
  BY <1>6 DEF offeredBar, durableBar, brokerVars, historyVars
<1>7. ASSUME NEW c \in Callers, AppendCopy(c)
      PROVE  /\ cur[c] \in Event
             /\ AppendRecord(cur[c])
             /\ UNCHANGED historyVars
  BY <1>7 DEF AppendCopy, RefinementInv, DurabilityInv, TypeOK
<1>8. ASSUME NEW e \in Event, LateAppend(e)
      PROVE  AppendRecord(e) /\ UNCHANGED historyVars
  BY <1>8 DEF LateAppend
<1>9. QED
  BY <1>1, <1>2, <1>3, <1>4, <1>5, <1>6, <1>7, <1>8
  DEF Step, ProduceEvent, SendStep, HandOver, ShuttingDown, SendOnClosed, Answer,
      Transmit, AttemptFails, AttemptTimesOut, Rejected, Cancel, Close,
      CloseReturns, Environment, historyVars, vars

\* So are the initial states.
LEMMA RefinementInit == Init => ALO!Init
<1>1. Init => offeredBar = {} /\ acked = {}
  BY DEF Init, offeredBar
<1>2. ASSUME Init, NEW p \in Partitions
      PROVE  durableBar[p] = << >>
  <2>1. log[p] = << >> /\ hw[p] = 0
    BY <1>2 DEF Init, BrokerInit
  <2>2. SubSeq(log[p], 1, hw[p]) = << >>
    BY <2>1
  <2>3. QED
    BY <2>2 DEF durableBar
<1>3. Init => durableBar = [p \in Partitions |-> << >>]
  BY <1>2 DEF durableBar
<1>4. QED
  BY <1>1, <1>3 DEF ALO!Init

\* The producer and the broker together implement the at-least-once promise:
\* the durable logs only grow at their ends, with admitted events in their own
\* partitions, and every confirmation names a durable record.
THEOREM Refinement == Spec => ImplementsAtLeastOnce
<1>1. RefinementInv /\ RefinementInv' /\ [Step]_vars => [ALO!Next]_(ALO!vars)
  BY RefinementStep
<1>2. Spec => []DurabilityInv
  BY DurabilityInvariant
<1>3. Spec => []OnlyAdmittedStored
  BY OnlyAdmittedAreStored
<1>4. DurabilityInv /\ OnlyAdmittedStored <=> RefinementInv
  BY DEF RefinementInv
<1>5. QED
  BY <1>1, <1>2, <1>3, <1>4, RefinementInit, NextIsStep, PTL
  DEF Spec, ImplementsAtLeastOnce, ALO!Spec

-----------------------------------------------------------------------------
(* For the modules that compose handlers with Producer.                    *)

\* Every invariant of the producer that is proved, but the refinement.
ProducerInv == OneRecordInv /\ OnlyAdmittedStored /\ CloseDrains

\* It holds before the first call.
LEMMA ProducerInvInit == Init => ProducerInv
<1>1. Init => OnlyAdmittedStored /\ CloseDrains
  BY DEF Init, BrokerInit, OnlyAdmittedStored, CloseDrains
<1>2. QED
  BY <1>1, OneRecordInit DEF ProducerInv

\* Every step keeps it.
LEMMA ProducerInvStep == ProducerInv /\ [Step]_vars => ProducerInv'
<1>1. ProducerInv => TypeOK
  BY DEF ProducerInv, OneRecordInv, DurabilityInv
<1>2. QED
  BY <1>1, OneRecordInvStep, AdmittedStep, CloseStep DEF ProducerInv

\* And every step keeps the promise of AtLeastOnce.
LEMMA PromiseStep == ProducerInv /\ ProducerInv' /\ [Step]_vars => [ALO!Next]_(ALO!vars)
BY RefinementStep DEF ProducerInv, OneRecordInv, RefinementInv
=============================================================================
