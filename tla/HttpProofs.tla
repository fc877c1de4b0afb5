----------------------------- MODULE HttpProofs -----------------------------
(***************************************************************************)
(* Theorems about the HTTP handlers, for any number of them, any requests  *)
(* and any batch size: what a 202 promises, and what part of a batch can   *)
(* be in Kafka.                                                            *)
(***************************************************************************)
EXTENDS HttpEventHandler, RefinementProofs, FiniteSetTheorems

USE DEF InFlightStates, ReturnedStates, InFlight, InCall, WaitForAll, Unanswered

-----------------------------------------------------------------------------
(* The inductive invariant.                                                *)

\* The types of the handlers' own variables.
HttpTypes ==
    /\ stage \in [Callers -> {"idle", "sending", "waiting", "done"}]
    /\ req \in [Callers -> Requests \cup {NoRequest}]
    /\ events \in [Callers -> Seq(Event)]
    /\ next \in [Callers -> Nat]
    /\ reply \in [Callers -> [status : {0, 200, 202, 207, 400, 500}, named : Seq(Event)]]
    /\ lastId \in 0..MaxIds

\* The event that uuid.New's n-th id makes, by its type.
Made(n, t) == [id |-> n, type |-> t, finite |-> TRUE]

\* Every event of every request has an id of its own, ...
OwnIds ==
    /\ \A h \in Callers : \A i \in 1..Len(events[h]) :
          \E n \in 1..lastId, t \in Types : events[h][i] = Made(n, t)
    /\ \A g, h \in Callers : \A i \in 1..Len(events[g]), j \in 1..Len(events[h]) :
          events[g][i].id = events[h][j].id => g = h /\ i = j

\* ... and no call was made for an id before it was handed out.
FreshIds == \A n \in (lastId + 1)..MaxIds, t \in Types : sends[Made(n, t)] = 0

\* Where h is in its request.
InRange(h) ==
    /\ stage[h] = "idle" =>
          req[h] = NoRequest /\ events[h] = << >> /\ next[h] = 1
    /\ stage[h] # "done" => reply[h] = NoReply
    /\ stage[h] \in {"sending", "waiting"} =>
          /\ ValidRequest(req[h]) /\ req[h].kind # "validate"
          /\ next[h] \in 1..Len(events[h])
    /\ stage[h] = "waiting" =>
          cur[h] = events[h][next[h]] /\ pc[h] # "idle"
    /\ InCall(h) => stage[h] = "waiting"

\* h has called SendEvent for its i-th event.
HandedOver(h, i) ==
    /\ ~NotForIngestion(req[h])
    /\ i < next[h] \/ (i = next[h] /\ stage[h] \in {"waiting", "done"})

\* What was not handed over, sarama has not seen.
Untouched ==
    \A h \in Callers : \A i \in 1..Len(events[h]) :
        ~HandedOver(h, i) => sends[events[h][i]] = 0

\* The loop only goes on behind a nil error.
EarlierDurable ==
    \A h \in Callers : \A i \in 1..Len(events[h]) :
        i < next[h] => Durable(events[h][i])

\* A copy of an event of a batch has one of each earlier event before it.
InOrder ==
    \A h \in Callers : \A i, j \in 1..Len(events[h]) :
        i < j => Precedes(events[h][i], events[h][j])

\* What the answers promise.
Answered ==
    \A h \in Callers :
        /\ reply[h].status # 207
        /\ reply[h].status = 202 =>
              /\ events[h] # << >>
              /\ reply[h].named = events[h]
              /\ \A i \in 1..Len(events[h]) : Durable(events[h][i])

HttpInv ==
    /\ ProducerInv
    /\ HttpTypes
    /\ OwnIds
    /\ FreshIds
    /\ \A h \in Callers : InRange(h)
    /\ Untouched
    /\ EarlierDurable
    /\ InOrder
    /\ Answered

-----------------------------------------------------------------------------
(* What the steps of the producer do to the events of a batch.             *)

\* What the proofs need of ProducerInv.
LEMMA ProducerParts ==
    ASSUME ProducerInv
    PROVE  /\ TypeOK /\ HwWithinLog /\ StoredInPlace /\ ReturnedCommitted
           /\ OnlyAdmittedStored
BY DEF ProducerInv, OneRecordInv, DurabilityInv

\* A committed event stays committed.
LEMMA DurableStays ==
    ASSUME ProducerInv, [Step]_vars, NEW e \in Event, Durable(e)
    PROVE  Durable(e)'
<1>1. TypeOK /\ HwWithinLog /\ LogStep
  BY ProducerParts, NextLogStep
<1>2. PartitionOf(e) \in Partitions
  BY PartitionOfType
<1>3. PICK i \in 1..hw[PartitionOf(e)] : log[PartitionOf(e)][i] = e
  BY DEF Durable
<1>4. CommittedAt(e, PartitionOf(e), i)
  BY <1>3 DEF CommittedAt
<1>5. PICK p \in Partitions : p = PartitionOf(e)
  BY <1>2
<1>6. CommittedAt(e, p, i)'
  BY <1>1, <1>4, <1>5, CommittedStays
<1>7. QED
  BY <1>5, <1>6 DEF CommittedAt, Durable, PartitionOf

\* What no call was made for is in no log.
LEMMA UnsentNotStored ==
    ASSUME ProducerInv, NEW e \in Event, sends[e] = 0
    PROVE  ~Stored(e)
<1>1. ~Admitted(e)
  BY DEF Admitted
<1>2. QED
  BY <1>1, ProducerParts DEF OnlyAdmittedStored, Stored

\* Hence whatever comes before it in a batch precedes it.
LEMMA UnsentFollows ==
    ASSUME ProducerInv, NEW e \in Event, NEW f \in Event, sends[f] = 0
    PROVE  Precedes(e, f)
<1>1. ~Stored(f) /\ PartitionOf(f) \in Partitions
  BY UnsentNotStored, PartitionOfType
<1>2. QED
  BY <1>1 DEF Stored, Precedes

\* Behind a committed event only appends of admitted events add copies.
LEMMA PrecedesStays ==
    ASSUME ProducerInv, [Step]_vars, NEW e \in Event, NEW f \in Event,
           Precedes(e, f), Admitted(f) => Durable(e)
    PROVE  Precedes(e, f)'
<1> SUFFICES ASSUME PartitionOf(e) = PartitionOf(f),
                    NEW j \in 1..Len(log'[PartitionOf(f)]),
                    log'[PartitionOf(f)][j] = f
             PROVE  \E i \in 1..(j - 1) : log'[PartitionOf(f)][i] = e
  BY DEF Precedes, PartitionOf
<1>1. PICK p \in Partitions : p = PartitionOf(f) /\ p = PartitionOf(e)
  BY PartitionOfType
<1>2. /\ TypeOK /\ HwWithinLog /\ OnlyAdmittedStored
      /\ log[p] \in Seq(Event) /\ log'[p] \in Seq(Event)
      /\ Len(log[p]) \in Nat /\ Len(log'[p]) \in Nat
      /\ hw[p] \in Nat /\ hw[p] <= Len(log[p])
  <2>1. TypeOK /\ HwWithinLog /\ OnlyAdmittedStored
    BY ProducerParts
  <2>2. TypeOK'
    BY <2>1, TypeStep
  <2>3. QED
    BY <2>1, <2>2, LenProperties DEF TypeOK, BrokerTypeOK, HwWithinLog
<1>3. ASSUME NEW k \in 1..Len(log[p]), log[p][k] = f
      PROVE  \E i \in 1..(k - 1) : log[p][i] = e
  BY <1>1, <1>3 DEF Precedes
<1>4. ASSUME NEW g \in Event, Admitted(g), AppendRecord(g)
      PROVE  \E i \in 1..(j - 1) : log'[p][i] = e
  <2>1. /\ \A k \in 1..Len(log[p]) : log'[p][k] = log[p][k]
        /\ p # PartitionOf(g) => log'[p] = log[p]
        /\ p = PartitionOf(g) => /\ Len(log'[p]) = Len(log[p]) + 1
                                 /\ log'[p][Len(log[p]) + 1] = g
    BY <1>2, <1>4, AppendRecordLog DEF TypeOK
  <2>2. CASE j \in 1..Len(log[p])
    <3>1. PICK i \in 1..(j - 1) : log[p][i] = e
      BY <1>1, <1>3, <2>1, <2>2
    <3>2. i \in 1..Len(log[p])
      BY <1>2, <2>2, <3>1
    <3>3. QED
      BY <2>1, <3>1, <3>2
  <2>3. CASE j \notin 1..Len(log[p])
    <3>1. j = Len(log[p]) + 1 /\ g = f
      BY <1>1, <1>2, <2>1, <2>3
    <3>2. PICK i \in 1..hw[p] : log[p][i] = e
      BY <1>1, <1>4, <3>1 DEF Durable
    <3>3. QED
      BY <1>2, <2>1, <3>1, <3>2
  <2>4. QED
    BY <2>2, <2>3
<1>5. ASSUME NEW q \in Partitions, NEW n \in hw[q]..Len(log[q]), FailoverTo(q, n)
      PROVE  \E i \in 1..(j - 1) : log'[p][i] = e
  <2>1. /\ Len(log'[q]) = n
        /\ \A k \in 1..n : log'[q][k] = log[q][k]
        /\ \A s \in Partitions : s # q => log'[s] = log[s]
    BY <1>2, <1>5, FailoverLog DEF TypeOK
  <2>2. n <= Len(log[q]) /\ n \in Nat
    BY <1>2, LenProperties DEF TypeOK, BrokerTypeOK
  <2>3. j \in 1..Len(log[p]) /\ log[p][j] = f
    BY <1>1, <1>2, <2>1, <2>2
  <2>4. PICK i \in 1..(j - 1) : log[p][i] = e
    BY <1>3, <2>3
  <2>5. log'[p][i] = log[p][i]
    BY <1>1, <1>2, <2>1, <2>2, <2>4
  <2>6. QED
    BY <2>4, <2>5
<1>6. CASE log' = log
  BY <1>1, <1>3, <1>6
<1>7. QED
  BY <1>1, <1>2, <1>4, <1>5, <1>6, AppendsAdmitted DEF ReplicateRecord

\* Nothing changes for an event while the logs stay the same.
LEMMA SameLogs ==
    ASSUME UNCHANGED <<log, hw>>
    PROVE  /\ \A e : Durable(e) => Durable(e)'
           /\ \A e, f : Precedes(e, f) => Precedes(e, f)'
BY DEF Durable, Precedes, PartitionOf

-----------------------------------------------------------------------------
(* The handlers.                                                           *)

\* An event is made with the id it is given.
LEMMA MadeId == \A n, t : Made(n, t).id = n
BY DEF Made

\* It is an event of the model within the bound on ids.
LEMMA MadeIsEvent ==
    ASSUME NEW n \in 1..MaxIds, NEW t \in Types
    PROVE  Made(n, t) \in Event
BY IdsAssumption DEF Made

\* A valid request makes one event per item, with the next ids.
LEMMA ToEventsOf ==
    ASSUME HttpTypes, NEW r \in Requests, ValidRequest(r),
           lastId + Len(r.items) <= MaxIds
    PROVE  /\ ToEvents(r) \in Seq(Event)
           /\ Len(ToEvents(r)) = Len(r.items)
           /\ Len(r.items) \in Nat \ {0}
           /\ \A k \in 1..Len(r.items) :
                 /\ r.items[k] \in Types
                 /\ ToEvents(r)[k] = Made(lastId + k, r.items[k])
<1> DEFINE n == Len(r.items)
<1>1. /\ r.items \in Seq(Types \cup {BadItem})
      /\ n \in Nat \ {0}
      /\ lastId \in Nat
  BY RequestsAssumption, LenProperties, MaxBatchAssumption DEF ValidRequest, HttpTypes
<1>2. \A k \in 1..n : r.items[k] \in Types
  BY <1>1, ElementOfSeq DEF ValidRequest, ValidItem
<1> HIDE DEF n
<1>3. GoodItems(r) = 1..n
  BY DEF GoodItems, ValidRequest, n
<1>4. \A k \in 1..n : Cardinality({j \in 1..n : j <= k}) = k
  <2> SUFFICES ASSUME NEW k \in 1..n
               PROVE  Cardinality({j \in 1..n : j <= k}) = k
    OBVIOUS
  <2>1. {j \in 1..n : j <= k} = 1..k
    BY <1>1
  <2>2. Cardinality(1..k) = k
    BY <1>1, FS_Interval
  <2>3. QED
    BY <2>1, <2>2
<1>5. \A k \in 1..n : Nth(1..n, k) = k
  BY <1>4 DEF Nth
<1>6. Cardinality(1..n) = n
  BY <1>1, FS_Interval
<1>7. ToEvents(r) = [k \in 1..n |-> Made(lastId + k, r.items[k])]
  BY <1>3, <1>5, <1>6 DEF ToEvents, Made
<1>8. \A k \in 1..n : Made(lastId + k, r.items[k]) \in Event
  <2> SUFFICES ASSUME NEW k \in 1..n
               PROVE  Made(lastId + k, r.items[k]) \in Event
    OBVIOUS
  <2>1. lastId + k \in 1..MaxIds
    BY <1>1, MaxIdsAssumption DEF n
  <2>2. QED
    BY <1>2, <2>1, MadeIsEvent
<1>9. ToEvents(r) \in Seq(Event) /\ Len(ToEvents(r)) = n
  BY <1>1, <1>7, <1>8, IsASeq
<1>10. QED
  BY <1>1, <1>2, <1>7, <1>9 DEF n

\* Before the first request.
LEMMA HttpInvInit == HttpInit => HttpInv
<1> SUFFICES ASSUME HttpInit
             PROVE  HttpInv
  OBVIOUS
<1>1. ProducerInv
  BY ProducerInvInit DEF HttpInit
<1>2. \A h \in Callers : /\ stage[h] = "idle" /\ req[h] = NoRequest /\ next[h] = 1
                         /\ events[h] = << >> /\ reply[h] = NoReply
  BY DEF HttpInit
<1>3. HttpTypes
  <2>1. << >> \in Seq(Event) /\ 0 \in 0..MaxIds
    BY MaxIdsAssumption
  <2>2. NoReply \in [status : {0, 200, 202, 207, 400, 500}, named : Seq(Event)]
    BY <2>1 DEF NoReply
  <2>3. QED
    BY <2>1, <2>2 DEF HttpInit, HttpTypes
<1>4. FreshIds
  <2> SUFFICES ASSUME NEW n \in (lastId + 1)..MaxIds, NEW t \in Types
               PROVE  sends[Made(n, t)] = 0
    BY DEF FreshIds
  <2>1. n \in 1..MaxIds
    BY DEF HttpInit
  <2>2. QED
    BY <2>1, MadeIsEvent DEF HttpInit, Init
<1>5. \A h \in Callers : InRange(h)
  BY <1>2 DEF HttpInit, Init, InRange
<1>6. OwnIds /\ Untouched /\ EarlierDurable /\ InOrder
  BY <1>2 DEF OwnIds, Untouched, EarlierDurable, InOrder
<1>7. Answered
  BY <1>2 DEF Answered, NoReply
<1>8. QED
  BY <1>1, <1>3, <1>4, <1>5, <1>6, <1>7 DEF HttpInv

\* What h sends is an event.
LEMMA SentIsEvent ==
    ASSUME HttpInv, NEW h \in Callers, stage[h] \in {"sending", "waiting"}
    PROVE  /\ next[h] \in 1..Len(events[h])
           /\ events[h][next[h]] \in Event
<1>1. next[h] \in 1..Len(events[h]) /\ events[h] \in Seq(Event)
  BY DEF HttpInv, InRange, HttpTypes
<1>2. QED
  BY <1>1, ElementOfSeq

\* The handlers do to the producer what Producer allows its callers to do.
LEMMA HttpIsProducer ==
    ASSUME HttpInv, [HttpNext]_allVars
    PROVE  [Step]_vars
<1>1. ASSUME NEW h \in Callers, SendNext(h)
      PROVE  Step
  BY <1>1, SentIsEvent DEF SendNext, Step
<1>2. CASE UNCHANGED vars
  BY <1>2
<1>3. CASE (\E h \in Callers : SendStep(h)) \/ Close \/ CloseReturns \/ Environment
  BY <1>3 DEF Step
<1>4. QED
  BY <1>1, <1>2, <1>3
  DEF HttpNext, Receive, Refuse400, DryRun, Ingest, HandlerStep, SendOk,
      SendFailed, SendPanicked, allVars

\* So are all events of a request.
LEMMA EventsAreEvents ==
    ASSUME HttpInv, NEW h \in Callers, NEW i \in 1..Len(events[h])
    PROVE  events[h][i] \in Event
BY ElementOfSeq DEF HttpInv, HttpTypes

\* Only requests meant for it are ingested.
LEMMA IngestedIsMeant ==
    ASSUME HttpInv, NEW h \in Callers, stage[h] \in {"sending", "waiting"}
    PROVE  ~NotForIngestion(req[h])
<1>1. ValidRequest(req[h]) /\ req[h].kind # "validate"
  BY DEF HttpInv, InRange
<1>2. QED
  BY <1>1, MaxBatchAssumption DEF ValidRequest, ValidItem, NotForIngestion

\* When an event of a batch is in sarama's hands, the earlier ones are committed.
LEMMA EarlierFirst ==
    ASSUME HttpInv, NEW h \in Callers,
           NEW i \in 1..Len(events[h]), NEW j \in 1..Len(events[h]), i < j,
           sends[events[h][j]] # 0
    PROVE  Durable(events[h][i])
<1>1. j <= next[h]
  <2>1. HandedOver(h, j)
    BY DEF HttpInv, Untouched
  <2>2. next[h] \in Nat /\ j \in Nat
    BY DEF HttpInv, HttpTypes
  <2>3. QED
    BY <2>1, <2>2 DEF HandedOver
<1>2. i < next[h]
  BY <1>1 DEF HttpInv, HttpTypes
<1>3. QED
  BY <1>2 DEF HttpInv, EarlierDurable

-----------------------------------------------------------------------------
(* Steps that leave the handlers where they are.                           *)

\* A call under way is for the event its handler has reached.
LEMMA CallsAreHandedOver ==
    ASSUME HttpInv, NEW h \in Callers, InCall(h)
    PROVE  /\ next[h] \in 1..Len(events[h]) /\ cur[h] = events[h][next[h]]
           /\ HandedOver(h, next[h])
<1>1. stage[h] = "waiting" /\ cur[h] = events[h][next[h]]
  BY DEF HttpInv, InRange
<1>2. QED
  BY <1>1, SentIsEvent, IngestedIsMeant DEF HandedOver

\* A step that leaves the handlers alone, and has nothing sent but the events
\* they are waiting for.
LEMMA QuietKeeps ==
    ASSUME HttpInv, [Step]_vars, UNCHANGED httpVars,
           \A h \in Callers :
              /\ cur'[h] = cur[h]
              /\ pc'[h] = "idle" => pc[h] = "idle"
              /\ InCall(h)' => InCall(h),
           \A e \in Event :
              sends'[e] = sends[e] \/ \E h \in Callers : InCall(h) /\ cur[h] = e
    PROVE  HttpInv'
<1> USE DEF httpVars
<1>1. ProducerInv'
  BY ProducerInvStep DEF HttpInv
<1>2. HttpTypes' /\ OwnIds'
  BY DEF HttpInv, HttpTypes, OwnIds
<1>3. FreshIds'
  <2> SUFFICES ASSUME NEW n \in (lastId + 1)..MaxIds, NEW t \in Types
               PROVE  sends'[Made(n, t)] = 0
    BY DEF FreshIds, Made
  <2>1. Made(n, t) \in Event /\ sends[Made(n, t)] = 0 /\ lastId \in Nat
    BY MadeIsEvent DEF HttpInv, HttpTypes, FreshIds
  <2>2. ASSUME NEW h \in Callers, InCall(h), cur[h] = Made(n, t)
        PROVE  FALSE
    <3>1. next[h] \in 1..Len(events[h]) /\ events[h][next[h]] = Made(n, t)
      BY <2>2, CallsAreHandedOver
    <3>2. PICK m \in 1..lastId, u \in Types : events[h][next[h]] = Made(m, u)
      BY <3>1 DEF HttpInv, OwnIds
    <3>3. Made(n, t) = Made(m, u)
      BY <3>1, <3>2
    <3>4. n = m
      BY <3>3, MadeId
    <3>5. QED
      BY <2>1, <3>4
  <2>3. QED
    BY <2>1, <2>2
<1>4. Untouched'
  <2> SUFFICES ASSUME NEW g \in Callers, NEW i \in 1..Len(events[g]), ~HandedOver(g, i)
               PROVE  sends'[events[g][i]] = 0
    BY DEF Untouched, HandedOver
  <2>1. events[g][i] \in Event /\ sends[events[g][i]] = 0
    BY EventsAreEvents DEF HttpInv, Untouched
  <2>2. ASSUME NEW h \in Callers, InCall(h), cur[h] = events[g][i]
        PROVE  FALSE
    <3>1. /\ next[h] \in 1..Len(events[h]) /\ HandedOver(h, next[h])
          /\ events[h][next[h]].id = events[g][i].id
      BY <2>2, CallsAreHandedOver
    <3>2. g = h /\ i = next[h]
      BY <3>1 DEF HttpInv, OwnIds
    <3>3. QED
      BY <3>1, <3>2
  <2>3. QED
    BY <2>1, <2>2
<1>5. \A h \in Callers : InRange(h)'
  BY DEF HttpInv, InRange
<1>6. ASSUME NEW h \in Callers, NEW i \in 1..Len(events[h]), Durable(events[h][i])
      PROVE  Durable(events[h][i])'
  <2>1. PICK e \in Event : e = events[h][i]
    BY EventsAreEvents
  <2>2. Durable(e)'
    BY <1>6, <2>1, DurableStays DEF HttpInv
  <2>3. QED
    BY <2>1, <2>2 DEF Durable, PartitionOf
<1>7. EarlierDurable'
  BY <1>6 DEF HttpInv, EarlierDurable
<1>8. Answered'
  BY <1>6 DEF HttpInv, Answered
<1>9. InOrder'
  <2> SUFFICES ASSUME NEW h \in Callers,
                      NEW i \in 1..Len(events[h]), NEW j \in 1..Len(events[h]), i < j
               PROVE  Precedes(events[h][i], events[h][j])'
    BY DEF InOrder
  <2>1. PICK e \in Event, f \in Event : e = events[h][i] /\ f = events[h][j]
    BY EventsAreEvents
  <2>2. Precedes(e, f)
    BY <2>1 DEF HttpInv, InOrder
  <2>3. Admitted(f) => Durable(e)
    BY <2>1, EarlierFirst DEF Admitted
  <2>4. Precedes(e, f)'
    BY <2>2, <2>3, PrecedesStays DEF HttpInv
  <2>5. QED
    BY <2>1, <2>4 DEF Precedes, PartitionOf
<1>10. QED
  BY <1>1, <1>2, <1>3, <1>4, <1>5, <1>7, <1>8, <1>9 DEF HttpInv

\* They are sarama's, the brokers' and main's.
LEMMA ProducerKeeps ==
    ASSUME HttpInv, UNCHANGED httpVars,
           (\E h \in Callers : SendStep(h)) \/ Close \/ CloseReturns \/ Environment
    PROVE  HttpInv'
<1>1. Step
  BY DEF Step
<1>2. ASSUME NEW h \in Callers, SendStep(h)
      PROVE  /\ cur' = cur
             /\ \A g \in Callers :
                   /\ pc'[g] = "idle" => pc[g] = "idle"
                   /\ InCall(g)' => InCall(g)
             /\ sends' = sends \/ (InCall(h) /\ sends' = [sends EXCEPT ![cur[h]] = @ + 1])
  BY <1>2, ProducerParts
  DEF HttpInv, SendStep, HandOver, Admit, ShuttingDown, SendOnClosed, Answer,
      Transmit, AppendCopy, Acknowledge, AttemptFails,
      AttemptTimesOut, Rejected, RetryOrFail, historyVars, TypeOK
<1>3. ASSUME Close \/ CloseReturns \/ Environment
      PROVE  /\ sends' = sends /\ cur' = cur
             /\ \A g \in Callers :
                   /\ pc'[g] = "idle" => pc[g] = "idle"
                   /\ InCall(g)' => InCall(g)
  BY <1>3
  DEF Close, CloseReturns, Environment, LateAppend, Replicate, Failover,
      callVars, historyVars
<1>4. CASE \E h \in Callers : SendStep(h)
  <2>1. PICK h \in Callers : SendStep(h)
    BY <1>4
  <2>2. sends \in [Event -> Nat]
    BY ProducerParts DEF HttpInv, TypeOK
  <2>3. \A e \in Event : sends'[e] = sends[e] \/ (InCall(h) /\ cur[h] = e)
    BY <1>2, <2>1, <2>2
  <2>4. QED
    BY <1>1, <1>2, <2>1, <2>3, QuietKeeps
<1>5. CASE Close \/ CloseReturns \/ Environment
  BY <1>1, <1>3, <1>5, QuietKeeps
<1>6. QED
  BY <1>4, <1>5

-----------------------------------------------------------------------------
(* A request arrives.                                                      *)

\* A request that is refused leaves everything but its answer.
LEMMA RefuseKeeps ==
    ASSUME HttpInv, NEW h \in Callers, NEW r \in Requests, Refuse400(h, r)
    PROVE  HttpInv'
<1> USE DEF Refuse400, Reply
<1>1. ProducerInv'
  BY ProducerInvStep DEF HttpInv
<1>2. /\ UNCHANGED <<log, hw, sends, cur, pc, events, next, lastId>>
      /\ HttpTypes /\ events[h] = << >> /\ next[h] = 1
  BY DEF vars, brokerVars, callVars, historyVars, HttpInv, InRange
<1>3. /\ req'[h] = r /\ stage'[h] = "done"
      /\ reply'[h] = [status |-> 400, named |-> << >>]
      /\ \A g \in Callers : g # h =>
            req'[g] = req[g] /\ stage'[g] = stage[g] /\ reply'[g] = reply[g]
  BY <1>2 DEF HttpTypes
<1>4. HttpTypes'
  <2>1. << >> \in Seq(Event)
    OBVIOUS
  <2>2. [status |-> 400, named |-> << >>] \in
            [status : {0, 200, 202, 207, 400, 500}, named : Seq(Event)]
    BY <2>1
  <2>3. QED
    BY <1>2, <2>2 DEF HttpTypes
<1>5. OwnIds' /\ FreshIds'
  BY <1>2 DEF HttpInv, OwnIds, FreshIds
<1>6. ASSUME NEW g \in Callers
      PROVE  InRange(g)'
  BY <1>2, <1>3 DEF HttpInv, InRange
<1>7. Untouched'
  <2> SUFFICES ASSUME NEW g \in Callers, g # h, NEW i \in 1..Len(events[g]),
                      ~HandedOver(g, i)'
               PROVE  sends[events[g][i]] = 0
    BY <1>2 DEF Untouched
  <2>1. ~HandedOver(g, i)
    BY <1>2, <1>3 DEF HandedOver
  <2>2. QED
    BY <2>1 DEF HttpInv, Untouched
<1>8. EarlierDurable' /\ InOrder'
  <2>1. EarlierDurable'
    BY <1>2, SameLogs DEF HttpInv, EarlierDurable
  <2>2. InOrder'
    BY <1>2, SameLogs DEF HttpInv, InOrder
  <2>3. QED
    BY <2>1, <2>2
<1>9. Answered'
  BY <1>2, <1>3, SameLogs DEF HttpInv, Answered
<1>10. QED
  BY <1>1, <1>4, <1>5, <1>6, <1>7, <1>8, <1>9 DEF HttpInv

\* Building the events of a request.
Builds(h, r) ==
    /\ stage[h] = "idle"
    /\ ValidRequest(r)
    /\ lastId + Len(r.items) <= MaxIds
    /\ req' = [req EXCEPT ![h] = r]
    /\ events' = [events EXCEPT ![h] = ToEvents(r)]
    /\ lastId' = lastId + Len(ToEvents(r))
    /\ UNCHANGED <<vars, next>>

\* What is there to say of a request whose events are being built.
LEMMA BuildsFacts ==
    ASSUME HttpInv, NEW h \in Callers, NEW r \in Requests, Builds(h, r)
    PROVE  /\ HttpTypes /\ OwnIds /\ FreshIds /\ ProducerInv
           /\ UNCHANGED <<log, hw, sends, cur, pc, next>>
           /\ next[h] = 1 /\ events[h] = << >>
           /\ events'[h] = ToEvents(r) /\ req'[h] = r
           /\ \A g \in Callers : g # h => events'[g] = events[g] /\ req'[g] = req[g]
           /\ ToEvents(r) \in Seq(Event)
           /\ lastId \in Nat /\ lastId' \in Nat /\ Len(ToEvents(r)) \in Nat \ {0}
           /\ lastId' = lastId + Len(ToEvents(r)) /\ lastId' <= MaxIds
           /\ \A k \in 1..Len(ToEvents(r)) :
                 /\ ToEvents(r)[k] \in Event
                 /\ sends[ToEvents(r)[k]] = 0
                 /\ \E t \in Types : ToEvents(r)[k] = Made(lastId + k, t)
<1>1. HttpTypes /\ OwnIds /\ FreshIds /\ ProducerInv
  BY DEF HttpInv
<1>2. /\ UNCHANGED <<log, hw, sends, cur, pc, next>>
      /\ next[h] = 1 /\ events[h] = << >>
  BY DEF HttpInv, InRange, Builds, vars, brokerVars, callVars, historyVars
<1>3. /\ events'[h] = ToEvents(r) /\ req'[h] = r
      /\ \A g \in Callers : g # h => events'[g] = events[g] /\ req'[g] = req[g]
  BY <1>1 DEF Builds, HttpTypes
<1>4. /\ ToEvents(r) \in Seq(Event)
      /\ Len(ToEvents(r)) = Len(r.items)
      /\ Len(ToEvents(r)) \in Nat \ {0}
  BY <1>1, ToEventsOf DEF Builds
<1>5. /\ lastId \in Nat /\ lastId' \in Nat
      /\ lastId' = lastId + Len(ToEvents(r)) /\ lastId' <= MaxIds
  BY <1>1, <1>4 DEF Builds, HttpTypes
<1>6. ASSUME NEW k \in 1..Len(ToEvents(r))
      PROVE  /\ ToEvents(r)[k] \in Event
             /\ sends[ToEvents(r)[k]] = 0
             /\ \E t \in Types : ToEvents(r)[k] = Made(lastId + k, t)
  <2>1. PICK t \in Types : ToEvents(r)[k] = Made(lastId + k, t)
    BY <1>1, <1>4, ToEventsOf DEF Builds
  <2>2. lastId + k \in (lastId + 1)..MaxIds
    BY <1>4, <1>5, MaxIdsAssumption
  <2>3. QED
    BY <1>1, <1>4, <2>1, <2>2, ElementOfSeq DEF FreshIds
<1>7. QED
  BY <1>1, <1>2, <1>3, <1>4, <1>5, <1>6

\* The new events' ids are new.
LEMMA BuildsIds ==
    ASSUME HttpInv, NEW h \in Callers, NEW r \in Requests, Builds(h, r)
    PROVE  OwnIds' /\ FreshIds'
<1>1. /\ OwnIds /\ FreshIds
      /\ lastId \in Nat /\ lastId' \in Nat /\ Len(ToEvents(r)) \in Nat
      /\ lastId' = lastId + Len(ToEvents(r))
      /\ events'[h] = ToEvents(r)
      /\ \A g \in Callers : g # h => events'[g] = events[g]
  BY BuildsFacts
<1>2. \A k \in 1..Len(ToEvents(r)) :
         \E t \in Types : ToEvents(r)[k] = Made(lastId + k, t)
  BY BuildsFacts
<1>3. \A k \in 1..Len(ToEvents(r)) : ToEvents(r)[k].id = lastId + k
  BY <1>2, MadeId
<1>4. \A g \in Callers : \A i \in 1..Len(events[g]) :
         \E n \in 1..lastId, t \in Types : events[g][i] = Made(n, t)
  BY <1>1 DEF OwnIds
<1>5. \A g \in Callers : \A i \in 1..Len(events[g]) : events[g][i].id \in 1..lastId
  BY <1>4, MadeId
<1>6. \A g \in Callers : \A i \in 1..Len(events'[g]) :
         \E n \in 1..lastId', t \in Types : events'[g][i] = Made(n, t)
  <2> SUFFICES ASSUME NEW g \in Callers, NEW i \in 1..Len(events'[g])
               PROVE  \E n \in 1..lastId', t \in Types : events'[g][i] = Made(n, t)
    OBVIOUS
  <2>1. CASE g = h
    <3>1. lastId + i \in 1..lastId'
      BY <1>1, <2>1
    <3>2. QED
      BY <1>1, <1>2, <2>1, <3>1
  <2>2. CASE g # h
    <3>1. PICK n \in 1..lastId, t \in Types : events[g][i] = Made(n, t)
      BY <1>1, <1>4, <2>2
    <3>2. n \in 1..lastId'
      BY <1>1
    <3>3. QED
      BY <1>1, <2>2, <3>1, <3>2
  <2>3. QED
    BY <2>1, <2>2
<1>7. ASSUME NEW f \in Callers, NEW g \in Callers,
             NEW i \in 1..Len(events[f]), NEW j \in 1..Len(events[g]),
             events[f][i].id = events[g][j].id
      PROVE  f = g /\ i = j
  BY <1>1, <1>7 DEF OwnIds
<1>8. \A f, g \in Callers : \A i \in 1..Len(events'[f]), j \in 1..Len(events'[g]) :
         events'[f][i].id = events'[g][j].id => f = g /\ i = j
  <2> SUFFICES ASSUME NEW f \in Callers, NEW g \in Callers,
                      NEW i \in 1..Len(events'[f]), NEW j \in 1..Len(events'[g]),
                      events'[f][i].id = events'[g][j].id
               PROVE  f = g /\ i = j
    OBVIOUS
  <2>1. CASE f = h /\ g = h
    BY <1>1, <1>3, <2>1
  <2>2. CASE f # h /\ g # h
    <3>1. events'[f] = events[f] /\ events'[g] = events[g]
      BY <1>1, <2>2
    <3>2. QED
      BY <1>7, <3>1
  <2>3. CASE f = h /\ g # h
    <3>1. events'[f][i].id = lastId + i
      BY <1>1, <1>3, <2>3
    <3>2. events'[g][j].id \in 1..lastId
      BY <1>1, <1>5, <2>3
    <3>3. QED
      BY <1>1, <3>1, <3>2
  <2>4. CASE f # h /\ g = h
    <3>1. events'[g][j].id = lastId + j
      BY <1>1, <1>3, <2>4
    <3>2. events'[f][i].id \in 1..lastId
      BY <1>1, <1>5, <2>4
    <3>3. QED
      BY <1>1, <3>1, <3>2
  <2>5. QED
    BY <2>1, <2>2, <2>3, <2>4
<1>9. FreshIds'
  <2>1. sends' = sends
    BY BuildsFacts
  <2>2. \A n \in (lastId' + 1)..MaxIds : n \in (lastId + 1)..MaxIds
    BY <1>1, MaxIdsAssumption
  <2>3. QED
    BY <1>1, <2>1, <2>2 DEF FreshIds, Made
<1>10. QED
  BY <1>6, <1>8, <1>9 DEF OwnIds, Made

\* Nothing was sent of the new events, so nothing can be wrong with them.
LEMMA BuildsEvents ==
    ASSUME HttpInv, NEW h \in Callers, NEW r \in Requests, Builds(h, r),
           \A g \in Callers : g # h => stage'[g] = stage[g]
    PROVE  Untouched' /\ EarlierDurable' /\ InOrder'
<1>1. /\ UNCHANGED <<log, hw, sends, next>>
      /\ next[h] = 1 /\ ProducerInv
      /\ events'[h] = ToEvents(r)
      /\ \A g \in Callers : g # h => events'[g] = events[g] /\ req'[g] = req[g]
      /\ \A k \in 1..Len(ToEvents(r)) :
            ToEvents(r)[k] \in Event /\ sends[ToEvents(r)[k]] = 0
  BY BuildsFacts
<1>2. Untouched'
  <2> SUFFICES ASSUME NEW g \in Callers, g # h, NEW i \in 1..Len(events[g]),
                      ~HandedOver(g, i)'
               PROVE  sends[events[g][i]] = 0
    BY <1>1 DEF Untouched
  <2>1. ~HandedOver(g, i)
    BY <1>1 DEF HandedOver
  <2>2. QED
    BY <2>1 DEF HttpInv, Untouched
<1>3. EarlierDurable'
  <2> SUFFICES ASSUME NEW g \in Callers, NEW i \in 1..Len(events'[g]), i < next[g]
               PROVE  Durable(events[g][i])'
    BY <1>1 DEF EarlierDurable
  <2>1. g # h
    BY <1>1
  <2>2. Durable(events[g][i])
    BY <1>1, <2>1 DEF HttpInv, EarlierDurable
  <2>3. QED
    BY <1>1, <2>1, <2>2 DEF Durable, PartitionOf
<1>4. InOrder'
  <2> SUFFICES ASSUME NEW g \in Callers,
                      NEW i \in 1..Len(events'[g]), NEW j \in 1..Len(events'[g]), i < j
               PROVE  Precedes(events[g][i], events[g][j])'
    BY DEF InOrder
  <2>1. PICK e, f : e = events'[g][i] /\ f = events'[g][j]
    OBVIOUS
  <2>2. Precedes(e, f)
    <3>1. CASE g = h
      BY <1>1, <2>1, <3>1, UnsentFollows
    <3>2. CASE g # h
      BY <1>1, <2>1, <3>2 DEF HttpInv, InOrder
    <3>3. QED
      BY <3>1, <3>2
  <2>3. QED
    BY <1>1, <2>1, <2>2 DEF Precedes, PartitionOf
<1>5. QED
  BY <1>2, <1>3, <1>4

\* A dry run has its answer, and its events are nobody's.
LEMMA DryRunKeeps ==
    ASSUME HttpInv, NEW h \in Callers, NEW r \in Requests, DryRun(h, r),
           lastId + Len(r.items) <= MaxIds
    PROVE  HttpInv'
<1> USE DEF DryRun, Reply
<1>1. Builds(h, r)
  BY DEF Builds
<1>2. ProducerInv'
  BY ProducerInvStep DEF HttpInv
<1>3. /\ HttpTypes /\ ToEvents(r) \in Seq(Event)
      /\ lastId' \in 0..MaxIds
      /\ UNCHANGED <<log, hw, cur, pc, next>>
      /\ events'[h] = ToEvents(r) /\ req'[h] = r
      /\ \A g \in Callers : g # h => events'[g] = events[g] /\ req'[g] = req[g]
  BY <1>1, BuildsFacts
<1>4. /\ stage'[h] = "done"
      /\ reply'[h] = [status |-> 200, named |-> ToEvents(r)]
      /\ \A g \in Callers : g # h =>
            stage'[g] = stage[g] /\ reply'[g] = reply[g]
  BY <1>3 DEF HttpTypes
<1>5. HttpTypes'
  <2>1. [status |-> 200, named |-> ToEvents(r)] \in
            [status : {0, 200, 202, 207, 400, 500}, named : Seq(Event)]
    BY <1>3
  <2>2. QED
    BY <1>3, <2>1 DEF HttpTypes
<1>6. OwnIds' /\ FreshIds'
  BY <1>1, BuildsIds
<1>7. Untouched' /\ EarlierDurable' /\ InOrder'
  BY <1>1, <1>4, BuildsEvents
<1>8. ASSUME NEW g \in Callers
      PROVE  InRange(g)'
  BY <1>3, <1>4 DEF HttpInv, InRange
<1>9. Answered'
  <2> SUFFICES ASSUME NEW g \in Callers
               PROVE  /\ reply'[g].status # 207
                      /\ reply'[g].status = 202 =>
                            /\ events'[g] # << >>
                            /\ reply'[g].named = events'[g]
                            /\ \A i \in 1..Len(events'[g]) : Durable(events[g][i])'
    BY DEF Answered
  <2>1. CASE g = h
    BY <1>4, <2>1
  <2>2. CASE g # h
    BY <1>3, <1>4, <2>2, SameLogs DEF HttpInv, Answered
  <2>3. QED
    BY <2>1, <2>2
<1>10. QED
  BY <1>2, <1>5, <1>6, <1>7, <1>8, <1>9 DEF HttpInv

\* A request to be ingested has its events before it sends the first.
LEMMA IngestKeeps ==
    ASSUME HttpInv, NEW h \in Callers, NEW r \in Requests, Ingest(h, r),
           lastId + Len(r.items) <= MaxIds
    PROVE  HttpInv'
<1> USE DEF Ingest
<1>1. Builds(h, r)
  BY DEF Builds
<1>2. ProducerInv'
  BY ProducerInvStep DEF HttpInv
<1>3. /\ HttpTypes /\ ToEvents(r) \in Seq(Event)
      /\ lastId' \in 0..MaxIds
      /\ Len(ToEvents(r)) \in Nat \ {0}
      /\ UNCHANGED <<log, hw, cur, pc, next>>
      /\ next[h] = 1
      /\ events'[h] = ToEvents(r) /\ req'[h] = r
      /\ \A g \in Callers : g # h => events'[g] = events[g] /\ req'[g] = req[g]
  BY <1>1, BuildsFacts
<1>4. /\ stage'[h] = "sending"
      /\ reply' = reply /\ reply[h] = NoReply
      /\ \A g \in Callers : g # h => stage'[g] = stage[g]
  BY <1>3 DEF HttpTypes, HttpInv, InRange
<1>5. HttpTypes'
  BY <1>3, <1>4 DEF HttpTypes
<1>6. OwnIds' /\ FreshIds'
  BY <1>1, BuildsIds
<1>7. Untouched' /\ EarlierDurable' /\ InOrder'
  BY <1>1, <1>4, BuildsEvents
<1>8. ASSUME NEW g \in Callers
      PROVE  InRange(g)'
  <2>1. CASE g = h
    BY <1>3, <1>4, <2>1 DEF HttpInv, InRange, ValidRequest
  <2>2. CASE g # h
    BY <1>3, <1>4, <2>2 DEF HttpInv, InRange
  <2>3. QED
    BY <2>1, <2>2
<1>9. Answered'
  <2> SUFFICES ASSUME NEW g \in Callers
               PROVE  /\ reply[g].status # 207
                      /\ reply[g].status = 202 =>
                            /\ events'[g] # << >>
                            /\ reply[g].named = events'[g]
                            /\ \A i \in 1..Len(events'[g]) : Durable(events[g][i])'
    BY <1>4 DEF Answered
  <2>1. CASE g = h
    BY <1>4, <2>1 DEF NoReply
  <2>2. CASE g # h
    BY <1>3, <1>4, <2>2, SameLogs DEF HttpInv, Answered
  <2>3. QED
    BY <2>1, <2>2
<1>10. QED
  BY <1>2, <1>5, <1>6, <1>7, <1>8, <1>9 DEF HttpInv

-----------------------------------------------------------------------------
(* SendEvent is called and returns.                                        *)

\* SendEvent is called for the next event.
LEMMA SendNextKeeps ==
    ASSUME HttpInv, NEW h \in Callers, SendNext(h)
    PROVE  HttpInv'
<1> DEFINE e == events[h][next[h]]
<1>1. /\ HttpTypes /\ ProducerInv /\ TypeOK
      /\ next[h] \in 1..Len(events[h]) /\ e \in Event
      /\ stage[h] = "sending"
      /\ UNCHANGED <<req, events, next, reply, lastId>>
  BY SentIsEvent, ProducerParts DEF SendNext, HttpInv
<1>2. /\ stage'[h] = "waiting"
      /\ \A g \in Callers : g # h => stage'[g] = stage[g]
  BY <1>1 DEF SendNext, HttpTypes
<1>3. /\ [Step]_vars
      /\ ProducerInv'
  <2>1. Step
    BY <1>1 DEF SendNext, Step
  <2>2. QED
    BY <1>1, <2>1, ProducerInvStep
<1>4. /\ UNCHANGED <<log, hw, sends>>
      /\ cur'[h] = e /\ pc'[h] # "idle"
      /\ \A g \in Callers : g # h => cur'[g] = cur[g] /\ pc'[g] = pc[g]
  BY <1>1 DEF SendNext, ProduceEvent, BeginCall, brokerVars, historyVars, TypeOK
<1>5. HttpTypes' /\ OwnIds' /\ FreshIds'
  <2>1. HttpTypes'
    BY <1>1 DEF SendNext, HttpTypes
  <2>2. OwnIds' /\ FreshIds'
    BY <1>1, <1>4 DEF HttpInv, OwnIds, FreshIds
  <2>3. QED
    BY <2>1, <2>2
<1>6. ASSUME NEW g \in Callers
      PROVE  InRange(g)'
  BY <1>1, <1>2, <1>4 DEF HttpInv, InRange
<1>7. Untouched'
  <2> SUFFICES ASSUME NEW g \in Callers, NEW i \in 1..Len(events[g]),
                      ~HandedOver(g, i)'
               PROVE  sends[events[g][i]] = 0
    BY <1>1, <1>4 DEF Untouched
  <2>1. ~HandedOver(g, i)
    BY <1>1, <1>2 DEF HandedOver
  <2>2. QED
    BY <2>1 DEF HttpInv, Untouched
<1>8. EarlierDurable' /\ InOrder' /\ Answered'
  BY <1>1, <1>4, SameLogs DEF HttpInv, EarlierDurable, InOrder, Answered
<1>9. QED
  BY <1>3, <1>5, <1>6, <1>7, <1>8 DEF HttpInv

\* A nil error means that the event is committed.
LEMMA OkIsDurable ==
    ASSUME HttpInv, NEW h \in Callers, stage[h] = "waiting", pc[h] = "ok"
    PROVE  Durable(events[h][next[h]])
<1>1. cur[h] = events[h][next[h]]
  BY DEF HttpInv, InRange
<1>2. CommittedAt(cur[h], PartitionOf(cur[h]), pos[h])
  BY ProducerParts DEF HttpInv, ReturnedCommitted
<1>3. Durable(cur[h])
  BY <1>2 DEF CommittedAt, Durable
<1>4. QED
  BY <1>1, <1>3

\* SendEvent returned nil and there is another event to send.
LEMMA SendOkGoesOn ==
    ASSUME HttpInv, NEW h \in Callers, SendOk(h), MoreToSend(h),
           next' = [next EXCEPT ![h] = @ + 1],
           stage' = [stage EXCEPT ![h] = "sending"],
           UNCHANGED reply
    PROVE  HttpInv'
<1>1. /\ HttpTypes
      /\ stage[h] = "waiting" /\ pc[h] = "ok"
      /\ next[h] \in Nat /\ next[h] + 1 \in 1..Len(events[h])
      /\ UNCHANGED <<log, hw, sends, cur, pc, req, events, lastId>>
  <2>1. HttpTypes /\ next[h] \in Nat /\ Len(events[h]) \in Nat
    BY LenProperties DEF HttpInv, HttpTypes
  <2>2. QED
    BY <2>1 DEF SendOk, MoreToSend, vars, brokerVars, callVars, historyVars
<1>2. /\ next'[h] = next[h] + 1 /\ stage'[h] = "sending"
      /\ next' \in [Callers -> Nat]
      /\ \A g \in Callers : g # h => next'[g] = next[g] /\ stage'[g] = stage[g]
  BY <1>1 DEF HttpTypes
<1>3. ProducerInv'
  BY ProducerInvStep DEF SendOk, HttpInv
<1>4. HttpTypes'
  BY <1>1, <1>2 DEF HttpTypes
<1>5. OwnIds' /\ FreshIds'
  BY <1>1 DEF HttpInv, OwnIds, FreshIds
<1>6. ASSUME NEW g \in Callers
      PROVE  InRange(g)'
  BY <1>1, <1>2 DEF HttpInv, InRange
<1>7. Untouched'
  <2> SUFFICES ASSUME NEW g \in Callers, NEW i \in 1..Len(events[g]),
                      ~HandedOver(g, i)'
               PROVE  sends[events[g][i]] = 0
    BY <1>1 DEF Untouched
  <2>1. ~HandedOver(g, i)
    <3>1. CASE g = h
      BY <1>1, <1>2, <3>1 DEF HandedOver
    <3>2. CASE g # h
      BY <1>1, <1>2, <3>2 DEF HandedOver
    <3>3. QED
      BY <3>1, <3>2
  <2>2. QED
    BY <2>1 DEF HttpInv, Untouched
<1>8. EarlierDurable'
  <2> SUFFICES ASSUME NEW g \in Callers, NEW i \in 1..Len(events[g]), i < next'[g]
               PROVE  Durable(events[g][i])
    BY <1>1, SameLogs DEF EarlierDurable
  <2>1. CASE i < next[g]
    BY <2>1 DEF HttpInv, EarlierDurable
  <2>2. CASE ~(i < next[g])
    <3>1. g = h /\ i = next[h]
      BY <1>1, <1>2, <2>2
    <3>2. QED
      BY <1>1, <3>1, OkIsDurable DEF SendOk
  <2>3. QED
    BY <2>1, <2>2
<1>9. InOrder'
  BY <1>1, SameLogs DEF HttpInv, InOrder
<1>10. Answered'
  BY <1>1, SameLogs DEF HttpInv, Answered
<1>11. QED
  BY <1>3, <1>4, <1>5, <1>6, <1>7, <1>8, <1>9, <1>10 DEF HttpInv

\* A request whose events are not touched any more gets an answer.
Ends(h, status, named) ==
    /\ stage[h] = "waiting"
    /\ ~InCall(h)
    /\ Reply(h, status, named)
    /\ UNCHANGED <<vars, req, events, next, lastId>>

\* The answer keeps the invariant if it is true.
LEMMA EndsKeeps ==
    ASSUME HttpInv, NEW h \in Callers, NEW status \in {202, 500},
           NEW named \in Seq(Event), Ends(h, status, named),
           status = 202 =>
              /\ named = events[h]
              /\ \A i \in 1..Len(events[h]) : Durable(events[h][i])
    PROVE  HttpInv'
<1>1. /\ HttpTypes
      /\ stage[h] = "waiting" /\ ~InCall(h)
      /\ next[h] \in 1..Len(events[h])
      /\ UNCHANGED <<log, hw, sends, cur, pc, req, events, next, lastId>>
  BY DEF HttpInv, InRange, Ends, vars, brokerVars, callVars, historyVars
<1>2. /\ stage'[h] = "done"
      /\ reply'[h] = [status |-> status, named |-> named]
      /\ \A g \in Callers : g # h => stage'[g] = stage[g] /\ reply'[g] = reply[g]
  BY <1>1 DEF HttpTypes, Ends, Reply
<1>3. ProducerInv'
  BY ProducerInvStep DEF Ends, HttpInv
<1>4. HttpTypes'
  <2>1. [status |-> status, named |-> named] \in
            [status : {0, 200, 202, 207, 400, 500}, named : Seq(Event)]
    OBVIOUS
  <2>2. QED
    BY <1>1, <2>1 DEF HttpTypes, Ends, Reply
<1>5. OwnIds' /\ FreshIds'
  BY <1>1 DEF HttpInv, OwnIds, FreshIds
<1>6. ASSUME NEW g \in Callers
      PROVE  InRange(g)'
  BY <1>1, <1>2 DEF HttpInv, InRange
<1>7. Untouched'
  <2> SUFFICES ASSUME NEW g \in Callers, NEW i \in 1..Len(events[g]),
                      ~HandedOver(g, i)'
               PROVE  sends[events[g][i]] = 0
    BY <1>1 DEF Untouched
  <2>1. ~HandedOver(g, i)
    BY <1>1, <1>2 DEF HandedOver
  <2>2. QED
    BY <2>1 DEF HttpInv, Untouched
<1>8. EarlierDurable'
  BY <1>1, SameLogs DEF HttpInv, EarlierDurable
<1>9. InOrder'
  BY <1>1, SameLogs DEF HttpInv, InOrder
<1>10. Answered'
  <2> SUFFICES ASSUME NEW g \in Callers
               PROVE  /\ reply'[g].status # 207
                      /\ reply'[g].status = 202 =>
                            /\ events[g] # << >>
                            /\ reply'[g].named = events[g]
                            /\ \A i \in 1..Len(events[g]) : Durable(events[g][i])
    BY <1>1, SameLogs DEF Answered
  <2>1. CASE g = h
    BY <1>1, <1>2, <2>1
  <2>2. CASE g # h
    BY <1>2, <2>2 DEF HttpInv, Answered
  <2>3. QED
    BY <2>1, <2>2
<1>11. QED
  BY <1>3, <1>4, <1>5, <1>6, <1>7, <1>8, <1>9, <1>10 DEF HttpInv

\* SendEvent returned nil.
LEMMA SendOkKeeps ==
    ASSUME HttpInv, NEW h \in Callers, SendOk(h)
    PROVE  HttpInv'
<1>1. CASE MoreToSend(h)
  BY <1>1, SendOkGoesOn DEF SendOk
<1>2. CASE ~MoreToSend(h)
  <2>1. AcceptedStatus(req[h]) = 202
    <3>1. ValidRequest(req[h])
      BY DEF SendOk, HttpInv, InRange
    <3>2. QED
      BY <3>1 DEF ValidRequest, AcceptedStatus, GoodItems
  <2>2. /\ Ends(h, 202, events[h])
        /\ stage[h] = "waiting" /\ pc[h] = "ok"
    BY <1>2, <2>1 DEF SendOk, Ends
  <2>3. events[h] \in Seq(Event) /\ Len(events[h]) \in Nat /\ next[h] \in Nat
    BY LenProperties DEF HttpInv, HttpTypes
  <2>4. ASSUME NEW i \in 1..Len(events[h])
        PROVE  Durable(events[h][i])
    <3>1. CASE i < next[h]
      BY <3>1 DEF HttpInv, EarlierDurable
    <3>2. CASE ~(i < next[h])
      <4>1. i = next[h]
        BY <1>2, <2>3, <3>2, <2>2 DEF MoreToSend
      <4>2. QED
        BY <2>2, <4>1, OkIsDurable
    <3>3. QED
      BY <3>1, <3>2
  <2>5. QED
    BY <2>2, <2>3, <2>4, EndsKeeps
<1>3. QED
  BY <1>1, <1>2

\* SendEvent returned an error, or did not return.
LEMMA SendBrokenKeeps ==
    ASSUME HttpInv, NEW h \in Callers, SendFailed(h) \/ SendPanicked(h)
    PROVE  HttpInv'
<1>1. events[h] \in Seq(Event) /\ << >> \in Seq(Event)
  BY DEF HttpInv, HttpTypes
<1>2. PICK named \in Seq(Event) : Ends(h, 500, named)
  BY <1>1 DEF SendFailed, SendPanicked, Ends, NamedOnFailure
<1>3. QED
  BY <1>2, EndsKeeps

-----------------------------------------------------------------------------
(* The theorems.                                                           *)

\* Every step of the handlers, sarama, the brokers and main.
LEMMA HttpInvStep == HttpInv /\ [HttpNext]_allVars => HttpInv'
<1> SUFFICES ASSUME HttpInv, [HttpNext]_allVars
             PROVE  HttpInv'
  OBVIOUS
<1>1. ASSUME NEW h \in Callers, NEW r \in Requests,
             lastId + Len(r.items) <= MaxIds, Receive(h, r)
      PROVE  HttpInv'
  BY <1>1, RefuseKeeps, DryRunKeeps, IngestKeeps DEF Receive
<1>2. ASSUME NEW h \in Callers, HandlerStep(h)
      PROVE  HttpInv'
  BY <1>2, SendNextKeeps, SendOkKeeps, SendBrokenKeeps, ProducerKeeps DEF HandlerStep
<1>3. CASE (Close \/ CloseReturns \/ Environment) /\ UNCHANGED httpVars
  BY <1>3, ProducerKeeps
<1>4. CASE UNCHANGED allVars
  BY <1>4, QuietKeeps DEF allVars, vars, callVars, historyVars
<1>5. QED
  BY <1>1, <1>2, <1>3, <1>4 DEF HttpNext

\* The inductive invariant of the HTTP handlers.
THEOREM HttpInvariant == HttpSpec => []HttpInv
BY HttpInvInit, HttpInvStep, PTL DEF HttpSpec

\* The handlers' variables and the producer's keep their types; a handler that
\* sends has an event to send.
THEOREM HttpTypesHold == HttpSpec => []HttpTypeOK
<1>1. HttpInv => HttpTypeOK
  BY ProducerParts DEF HttpInv, HttpTypes, InRange, HttpTypeOK
<1>2. QED
  BY <1>1, HttpInvariant, PTL

\* "Event ingested successfully": the ids in a 202 body are those of committed
\* events, whatever else the producer, the brokers and the other handlers do.
THEOREM AcceptedAreDurable == HttpSpec => []AcceptedDurable
<1>1. HttpInv => AcceptedDurable
  BY DEF HttpInv, Answered, AcceptedDurable
<1>2. QED
  BY <1>1, HttpInvariant, PTL

\* The part of a batch that is in Kafka is a prefix of it, committed but for its
\* last event, in the order of the request within each partition.
THEOREM BatchesArePrefixes == HttpSpec => []BatchPrefix
<1>1. ASSUME HttpInv, NEW h \in Callers, NEW i \in 1..Len(events[h]),
             NEW j \in 1..Len(events[h]), i < j, Stored(events[h][j])
      PROVE  Durable(events[h][i]) /\ Precedes(events[h][i], events[h][j])
  <2>1. sends[events[h][j]] # 0
    BY <1>1, EventsAreEvents, UnsentNotStored DEF HttpInv
  <2>2. QED
    BY <1>1, <2>1, EarlierFirst DEF HttpInv, InOrder
<1>2. HttpInv => BatchPrefix
  BY <1>1 DEF BatchPrefix
<1>3. QED
  BY <1>2, HttpInvariant, PTL

\* A request that is refused, or only validated, leaves nothing in Kafka.
THEOREM RefusedAreNotStored == HttpSpec => []RefusedStoresNothing
<1>1. ASSUME HttpInv, NEW h \in Callers, NotForIngestion(req[h]),
             NEW i \in 1..Len(events[h])
      PROVE  sends[events[h][i]] = 0 /\ ~Stored(events[h][i])
  <2>1. sends[events[h][i]] = 0
    BY <1>1 DEF HttpInv, Untouched, HandedOver
  <2>2. QED
    BY <1>1, <2>1, EventsAreEvents, UnsentNotStored DEF HttpInv
<1>2. HttpInv => RefusedStoresNothing
  BY <1>1 DEF RefusedStoresNothing
<1>3. QED
  BY <1>2, HttpInvariant, PTL

\* The branch of IngestBatch that answers 207 is never taken.
THEOREM NeverPartial == HttpSpec => []NoPartialAnswer
<1>1. HttpInv => NoPartialAnswer
  BY DEF HttpInv, Answered, NoPartialAnswer
<1>2. QED
  BY <1>1, HttpInvariant, PTL

\* Requests, batches and dry runs beside each other use the producer as Producer
\* lets callers do: together they still implement the at-least-once promise.
THEOREM HttpKeepsPromise == HttpSpec => ImplementsAtLeastOnce
<1>1. HttpInit => ALO!Init
  BY RefinementInit DEF HttpInit
<1>2. HttpInv /\ HttpInv' /\ [HttpNext]_allVars => [ALO!Next]_(ALO!vars)
  BY HttpIsProducer, PromiseStep DEF HttpInv
<1>3. QED
  BY <1>1, <1>2, HttpInvariant, PTL DEF HttpSpec, ImplementsAtLeastOnce, ALO!Spec
=============================================================================
