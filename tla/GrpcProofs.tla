----------------------------- MODULE GrpcProofs -----------------------------
(***************************************************************************)
(* Theorems about the RPCs, for any number of handlers, any requests and   *)
(* any scripts: what the results of a batch and the replies of a stream    *)
(* say, in which order, and what a cancelled call still does.              *)
(***************************************************************************)
EXTENDS GrpcStream, RefinementProofs, FiniteSetTheorems

USE DEF InFlightStates, ReturnedStates, InFlight, InCall, WaitForAll, Unanswered

-----------------------------------------------------------------------------
(* The inductive invariant of the unary and batch RPCs.                    *)

Result ==
    [id : Nat, status : {"ACCEPTED", "REJECTED", "FAILED"},
     part : Partitions \cup {0}, pos : Nat]

\* The types of the handlers' own variables, the streams' stages included.
GrpcTypes ==
    /\ stage \in [Callers -> {"idle", "sending", "waiting", "done"} \cup StreamStages]
    /\ req \in [Callers -> Requests \cup {NoRequest}]
    /\ next \in [Callers -> Nat]
    /\ results \in [Callers -> Seq(Result)]
    /\ code \in [Callers -> {"none", "OK", "InvalidArgument", "Internal",
                             "IsValid", "IsInvalid", "Canceled"}]
    /\ lastId \in 0..MaxIds

Loops(h) == stage[h] \in {"sending", "waiting"}

\* Where h is in its request.
AtItem(h) ==
    /\ Loops(h) =>
          /\ req[h] \in Requests
          /\ req[h].kind # "validate"
          /\ req[h].kind = "unary" => Valid(req[h].items[1])
          /\ next[h] \in 1..Len(req[h].items)
          /\ Len(results[h]) = next[h] - 1
    /\ stage[h] = "waiting" =>
          /\ pc[h] # "idle"
          /\ Valid(Item(h))
          /\ \E n \in Nat : /\ cur[h] = WithId(Item(h), n)
                            /\ Item(h).id # 0 => n = Item(h).id
    /\ ~Loops(h) /\ stage[h] # "done" =>
          req[h] = NoRequest /\ next[h] = 1 /\ results[h] = << >>
    /\ results[h] # << >> => req[h] \in Requests
    /\ Len(results[h]) <= Len(req[h].items)

\* res is true of item, see ResultsAnswerItems.
RightResult(item, res) ==
    /\ item.id # 0 => res.id = item.id
    /\ res.status = "REJECTED" <=> ~Valid(item)
    /\ res.status = "ACCEPTED" =>
          LET e == [id |-> res.id, type |-> item.type, finite |-> TRUE]
          IN  res.part = PartitionOf(e) /\ CommittedAt(e, res.part, res.pos)

\* ResultsAnswerItems for one handler.
RightResults(h) ==
    \A i \in 1..Len(results[h]) : RightResult(req[h].items[i], results[h][i])

\* With fail_fast the loop only goes on behind an ACCEPTED result.
AllAccepted(h) ==
    (Loops(h) /\ req[h].failFast) =>
        \A i \in 1..Len(results[h]) : results[h][i].status = "ACCEPTED"

\* The record of the current event lies behind those of the results so far.
Behind(h, part, n) ==
    \A i \in 1..Len(results[h]) :
        (results[h][i].status = "ACCEPTED" /\ results[h][i].part = part) =>
            results[h][i].pos < n

StoredBehind(h) ==
    (stage[h] = "waiting" /\ pc[h] \in {"stored", "ok"}) =>
        Behind(h, PartitionOf(cur[h]), pos[h])

GrpcInv ==
    /\ ProducerInv
    /\ GrpcTypes
    /\ \A h \in Callers :
          /\ AtItem(h)
          /\ RightResults(h)
          /\ AllAccepted(h)
          /\ StoredBehind(h)
    /\ OffsetsFollowBatch
    /\ BatchEnd

-----------------------------------------------------------------------------
(* What the producer's steps leave true.                                   *)

\* The producer's invariants by name.
LEMMA ProducerParts ==
    ASSUME ProducerInv
    PROVE  /\ TypeOK /\ HwWithinLog /\ StoredInPlace /\ ReturnedCommitted
           /\ OnlyAdmittedStored
BY DEF ProducerInv, OneRecordInv, DurabilityInv

\* An item of a request that is not missing is one the producer can be sent.
LEMMA ItemSendable ==
    ASSUME NEW r \in Requests, NEW i \in 1..Len(r.items), r.items[i] # NilEvent
    PROVE  /\ Sendable(r.items[i])
           /\ r.items[i].id \in Nat
           /\ r.items[i].type \in Types
           /\ r.items[i].finite \in BOOLEAN
<1>1. Sendable(r.items[i])
  BY GrpcRequestsAssumption
<1>2. r.items[i] \in ClientEvent
  BY <1>1 DEF Sendable
<1>3. QED
  BY <1>1, <1>2 DEF ClientEvent

\* A result that is true stays true, since what is committed stays committed.
LEMMA RightStays ==
    ASSUME ProducerInv, [Step]_vars, NEW item, NEW res, RightResult(item, res),
           res.status = "ACCEPTED" => item.type \in Types
    PROVE  RightResult(item, res)'
<1>1. TypeOK /\ HwWithinLog /\ LogStep
  BY ProducerParts, NextLogStep
<1>2. CASE res.status = "ACCEPTED"
  <2> DEFINE e == [id |-> res.id, type |-> item.type, finite |-> TRUE]
  <2>1. res.part = PartitionOf(e) /\ CommittedAt(e, res.part, res.pos)
    BY <1>2 DEF RightResult
  <2>2. PartitionOf(e) \in Partitions
    BY <1>2, HashPartitionAssumption DEF PartitionOf
  <2>3. CommittedAt(e, res.part, res.pos)'
    <3> HIDE DEF e
    <3>1. res.part \in Partitions /\ CommittedAt(e, res.part, res.pos)
      BY <2>1, <2>2
    <3>2. QED
      BY <1>1, <3>1, CommittedStays
  <2>4. QED
    BY <1>2, <2>1, <2>3 DEF RightResult, PartitionOf, Valid
<1>3. CASE res.status # "ACCEPTED"
  BY <1>3 DEF RightResult, Valid
<1>4. QED
  BY <1>2, <1>3

\* What uuid.New or the client makes of an item is an event.
LEMMA EventOfItem ==
    ASSUME lastId \in 0..MaxIds, NEW item, Sendable(item), TakeId(item)
    PROVE  /\ EventOf(item) \in Event
           /\ lastId' \in 0..MaxIds
           /\ \E n \in Nat : /\ EventOf(item) = WithId(item, n)
                             /\ item.id # 0 => n = item.id
<1>1. item.id \in Nat
  BY DEF Sendable, ClientEvent
<1>2. CASE item.id # 0
  BY <1>1, <1>2 DEF Sendable, EventOf, TakeId
<1>3. CASE item.id = 0
  <2>1. lastId + 1 \in 1..MaxIds /\ lastId' = lastId + 1
    BY <1>3, MaxIdsAssumption DEF TakeId
  <2>2. EventOf(item) = WithId(item, lastId + 1)
    BY <1>3 DEF EventOf
  <2>3. QED
    BY <1>3, <2>1, <2>2, MaxIdsAssumption DEF Sendable
<1>4. QED
  BY <1>2, <1>3

\* The item a handler is at is one of its request.
LEMMA CurrentItem ==
    ASSUME GrpcInv, NEW h \in Callers, Loops(h)
    PROVE  /\ req[h] \in Requests
           /\ req[h].kind \in {"unary", "batch"}
           /\ next[h] \in 1..Len(req[h].items)
           /\ Len(req[h].items) \in Nat
           /\ Len(results[h]) = next[h] - 1
           /\ Item(h) # NilEvent
           /\ Sendable(Item(h))
<1>1. /\ req[h] \in Requests
      /\ req[h].kind \in {"unary", "batch"}
      /\ next[h] \in 1..Len(req[h].items)
      /\ Len(results[h]) = next[h] - 1
      /\ req[h].kind = "unary" => Valid(req[h].items[1])
  BY GrpcRequestsAssumption DEF GrpcInv, AtItem, Kinds
<1>2. Item(h) # NilEvent
  <2>1. CASE req[h].kind = "batch"
    BY <1>1, <2>1, GrpcRequestsAssumption DEF Item
  <2>2. CASE req[h].kind = "unary"
    <3>1. next[h] = 1
      BY <1>1, <2>2, GrpcRequestsAssumption
    <3>2. QED
      BY <1>1, <2>2, <3>1 DEF Item, Valid
  <2>3. QED
    BY <1>1, <2>1, <2>2
<1>3. req[h].items \in Seq(ClientEvent \cup {NilEvent})
  BY <1>1, GrpcRequestsAssumption
<1>4. QED
  BY <1>1, <1>2, <1>3, GrpcRequestsAssumption, LenProperties DEF Item

\* The handlers do to the producer what Producer allows its callers to do.
LEMMA GrpcIsProducer ==
    ASSUME GrpcInv, [GrpcNext]_allVars
    PROVE  [Step]_vars
<1>1. ASSUME NEW h \in Callers, SendNext(h)
      PROVE  Step
  <2>1. EventOf(Item(h)) \in Event
    BY <1>1, CurrentItem, EventOfItem DEF SendNext, Loops, GrpcInv, GrpcTypes
  <2>2. QED
    BY <1>1, <2>1 DEF SendNext, Step
<1>2. CASE UNCHANGED vars
  BY <1>2
<1>3. CASE \/ \E h \in Callers : SendStep(h) \/ Cancel(h)
           \/ Close \/ CloseReturns \/ Environment
  BY <1>3 DEF Step
<1>4. QED
  BY <1>1, <1>2, <1>3
  DEF GrpcNext, Receive, NilDereference, InvalidArgument, Validate, Ingest,
      Arrive, HandlerStep, Reject, SendOk, SendFailed, SendPanicked, CancelRPC,
      allVars

-----------------------------------------------------------------------------
(* Steps that leave the handlers where they are.                           *)

\* All results stay true; those of accepted items are about items with a type.
LEMMA ResultsStay ==
    ASSUME GrpcInv, [Step]_vars, NEW h \in Callers,
           NEW i \in 1..Len(results[h])
    PROVE  RightResult(req[h].items[i], results[h][i])
               /\ \A item, res : (item = req[h].items[i] /\ res = results[h][i])
                                    => RightResult(item, res)'
<1>1. RightResult(req[h].items[i], results[h][i])
  BY DEF GrpcInv, RightResults
<1> SUFFICES ASSUME NEW item, NEW res, item = req[h].items[i], res = results[h][i]
             PROVE  RightResult(item, res)'
  BY <1>1
<1>2. /\ req[h] \in Requests
      /\ i \in 1..Len(req[h].items)
  <2>1. /\ results[h] # << >> => req[h] \in Requests
        /\ Len(results[h]) <= Len(req[h].items)
        /\ results[h] \in Seq(Result)
    BY DEF GrpcInv, AtItem, GrpcTypes
  <2>2. req[h] \in Requests
    BY <2>1
  <2>3. Len(req[h].items) \in Nat /\ Len(results[h]) \in Nat
    BY <2>1, <2>2, GrpcRequestsAssumption, LenProperties
  <2>4. QED
    BY <2>1, <2>2, <2>3
<1>3. res.status = "ACCEPTED" => item.type \in Types
  <2>1. res.status = "ACCEPTED" => item # NilEvent
    BY <1>1 DEF RightResult, Valid
  <2>2. QED
    BY <1>2, <2>1, ItemSendable
<1>4. QED
  BY <1>1, <1>3, RightStays DEF GrpcInv

\* The record a step appends for h lies behind those of its results: they are
\* committed, and appends are put behind everything that is.
LEMMA AppendedBehind ==
    ASSUME GrpcInv, NEW h \in Callers, AppendCopy(h)
    PROVE  Behind(h, PartitionOf(cur[h]), Len(log[PartitionOf(cur[h])]) + 1)
<1> SUFFICES ASSUME NEW i \in 1..Len(results[h]),
                    results[h][i].status = "ACCEPTED",
                    results[h][i].part = PartitionOf(cur[h])
             PROVE  results[h][i].pos < Len(log[PartitionOf(cur[h])]) + 1
  BY DEF Behind
<1>1. TypeOK /\ HwWithinLog
  BY ProducerParts DEF GrpcInv
<1>2. PartitionOf(cur[h]) \in Partitions
  <2>1. cur[h] \in Event
    BY <1>1 DEF AppendCopy, TypeOK
  <2>2. QED
    BY <2>1, PartitionOfType
<1>3. results[h][i].pos \in 1..hw[PartitionOf(cur[h])]
  <2>1. RightResult(req[h].items[i], results[h][i])
    BY DEF GrpcInv, RightResults
  <2>2. QED
    BY <2>1 DEF RightResult, CommittedAt
<1>4. /\ hw[PartitionOf(cur[h])] \in Nat
      /\ Len(log[PartitionOf(cur[h])]) \in Nat
      /\ hw[PartitionOf(cur[h])] <= Len(log[PartitionOf(cur[h])])
  BY <1>1, <1>2, LenProperties DEF TypeOK, BrokerTypeOK, HwWithinLog
<1>5. QED
  BY <1>3, <1>4

\* A step of the producer, or of a handler that serves a stream or nothing.
Elsewhere ==
    /\ UNCHANGED <<req, next, results>>
    /\ \A h \in Callers :
          \/ stage'[h] = stage[h] /\ code'[h] = code[h]
          \/ stage[h] # "done" /\ ~Loops(h) /\ ~Loops(h)'
    /\ \A h \in Callers : stage[h] = "waiting" => cur'[h] = cur[h] /\ pc'[h] # "idle"

\* Such a step keeps the invariant of the RPCs.
LEMMA ElsewhereKeeps ==
    ASSUME GrpcInv, [Step]_vars, Elsewhere, GrpcTypes'
    PROVE  GrpcInv'
<1> USE DEF Elsewhere
<1>1. ProducerInv'
  BY ProducerInvStep DEF GrpcInv
<1>2. ASSUME NEW h \in Callers
      PROVE  AtItem(h)'
  <2>1. AtItem(h)
    BY DEF GrpcInv
  <2>2. CASE stage'[h] = stage[h]
    BY <2>1, <2>2 DEF AtItem, Loops, Item
  <2>3. CASE stage[h] # "done" /\ ~Loops(h) /\ ~Loops(h)'
    BY <2>1, <2>3 DEF AtItem, Loops
  <2>4. QED
    BY <2>2, <2>3
<1>3. ASSUME NEW h \in Callers
      PROVE  RightResults(h)'
  <2> SUFFICES ASSUME NEW i \in 1..Len(results[h])
               PROVE  RightResult(req[h].items[i], results[h][i])'
    BY DEF RightResults
  <2>1. PICK item, res : item = req[h].items[i] /\ res = results[h][i]
    OBVIOUS
  <2>2. RightResult(item, res)'
    BY <2>1, ResultsStay
  <2>3. QED
    BY <2>1, <2>2 DEF RightResult, CommittedAt, PartitionOf, Valid
<1>4. ASSUME NEW h \in Callers
      PROVE  AllAccepted(h)'
  BY DEF GrpcInv, AllAccepted, Loops
<1>5. ASSUME NEW h \in Callers
      PROVE  StoredBehind(h)'
  <2> SUFFICES ASSUME stage[h] = "waiting", cur'[h] = cur[h],
                      pc'[h] \in {"stored", "ok"}
               PROVE  Behind(h, PartitionOf(cur[h]), pos'[h])
    BY DEF StoredBehind, Behind, Loops, PartitionOf
  <2>1. TypeOK
    BY ProducerParts DEF GrpcInv
  <2>2. CASE AppendCopy(h)
    <3>1. pos'[h] = Len(log[PartitionOf(cur[h])]) + 1
      BY <2>1, <2>2 DEF AppendCopy, TypeOK
    <3>2. QED
      BY <2>2, <3>1, AppendedBehind
  <2>3. CASE ~AppendCopy(h)
    <3>1. pc[h] \in {"stored", "ok"} /\ pos'[h] = pos[h]
      BY <2>1, <2>3, HeldBefore
    <3>2. QED
      BY <3>1 DEF GrpcInv, StoredBehind
  <2>4. QED
    BY <2>2, <2>3
<1>6. OffsetsFollowBatch'
  BY DEF GrpcInv, OffsetsFollowBatch
<1>7. BatchEnd'
  <2> SUFFICES ASSUME NEW h \in Callers, stage'[h] = "done", req[h].kind = "batch"
               PROVE  stage[h] = "done" /\ code'[h] = code[h]
    BY DEF GrpcInv, BatchEnd
  <2>1. req[h] # NoRequest
    BY DEF NoRequest
  <2>2. AtItem(h)
    BY DEF GrpcInv
  <2>3. QED
    BY <2>1, <2>2 DEF AtItem, Loops
<1>8. QED
  BY <1>1, <1>2, <1>3, <1>4, <1>5, <1>6, <1>7 DEF GrpcInv

\* The steps of sarama, the brokers, main and the clients' contexts.
LEMMA ProducerKeeps ==
    ASSUME GrpcInv, UNCHANGED grpcVars,
           \/ \E h \in Callers : SendStep(h) \/ Cancel(h)
           \/ Close \/ CloseReturns \/ Environment
    PROVE  GrpcInv'
<1>1. Step
  BY DEF Step
<1>2. ASSUME NEW h \in Callers, SendStep(h)
      PROVE  /\ cur' = cur
             /\ \A g \in Callers : pc'[g] = "idle" => pc[g] = "idle"
  BY <1>2, ProducerParts
  DEF GrpcInv, SendStep, HandOver, Admit, ShuttingDown, SendOnClosed, Answer,
      Transmit, AppendCopy, Acknowledge, AttemptFails, AttemptTimesOut, Rejected,
      RetryOrFail, historyVars, TypeOK
<1>3. ASSUME \/ \E h \in Callers : Cancel(h)
             \/ Close \/ CloseReturns \/ Environment
      PROVE  /\ cur' = cur
             /\ \A g \in Callers : pc'[g] = "idle" => pc[g] = "idle"
  BY <1>3
  DEF Cancel, Close, CloseReturns, Environment, LateAppend, Replicate, Failover,
      callVars, historyVars
<1>4. Elsewhere
  BY <1>2, <1>3 DEF Elsewhere, grpcVars, GrpcInv, AtItem
<1>5. GrpcTypes'
  BY DEF GrpcInv, GrpcTypes, grpcVars
<1>6. QED
  BY <1>1, <1>4, <1>5, ElsewhereKeeps

-----------------------------------------------------------------------------
(* The handlers of the unary and batch RPCs.                               *)

\* Before the first request.
LEMMA GrpcInvInit == GrpcInit => GrpcInv
<1> SUFFICES ASSUME GrpcInit
             PROVE  GrpcInv
  OBVIOUS
<1>1. ProducerInv
  BY ProducerInvInit DEF GrpcInit
<1>2. \A h \in Callers : /\ stage[h] = "idle" /\ req[h] = NoRequest /\ next[h] = 1
                         /\ results[h] = << >>
  BY DEF GrpcInit
<1>3. GrpcTypes
  <2>1. << >> \in Seq(Result) /\ 0 \in 0..MaxIds
    BY MaxIdsAssumption
  <2>2. QED
    BY <2>1 DEF GrpcInit, GrpcTypes
<1>4. \A h \in Callers : AtItem(h)
  <2>1. Len(NoRequest.items) = 1 /\ Len(<< >>) = 0
    BY DEF NoRequest
  <2>2. QED
    BY <1>2, <2>1 DEF AtItem, Loops
<1>5. \A h \in Callers : RightResults(h) /\ AllAccepted(h) /\ StoredBehind(h)
  BY <1>2 DEF RightResults, AllAccepted, StoredBehind, Behind
<1>6. OffsetsFollowBatch /\ BatchEnd
  BY <1>2 DEF OffsetsFollowBatch, BatchEnd
<1>7. QED
  BY <1>1, <1>3, <1>4, <1>5, <1>6 DEF GrpcInv

\* What there is to say of a request that has arrived.
LEMMA ReceiveFacts ==
    ASSUME GrpcInv, NEW h \in Callers, NEW r \in Requests, Receive(h, r)
    PROVE  /\ UNCHANGED <<vars, next, results, lastId>>
           /\ stage[h] = "idle" /\ next[h] = 1 /\ results[h] = << >>
           /\ req'[h] = r
           /\ stage'[h] \in {"sending", "done"}
           /\ stage'[h] = "sending" =>
                 /\ r.kind # "validate"
                 /\ r.kind = "unary" => Valid(r.items[1])
                 /\ 1 \in 1..Len(r.items)
           /\ stage'[h] = "done" => code'[h] # "OK"
           /\ \A g \in Callers : g # h =>
                 stage'[g] = stage[g] /\ req'[g] = req[g] /\ code'[g] = code[g]
           /\ GrpcTypes'
<1>1. GrpcTypes /\ AtItem(h)
  BY DEF GrpcInv
<1>2. Arrive(h, r)
  BY DEF Receive, NilDereference, InvalidArgument, Validate, Ingest
<1>3. /\ UNCHANGED <<vars, next, results, lastId>>
      /\ stage[h] = "idle" /\ next[h] = 1 /\ results[h] = << >>
      /\ req'[h] = r /\ req' \in [Callers -> Requests \cup {NoRequest}]
      /\ \A g \in Callers : g # h => req'[g] = req[g]
  BY <1>1, <1>2 DEF Arrive, AtItem, Loops, GrpcTypes
<1>4. ASSUME NEW c \in {"Internal", "InvalidArgument", "IsValid", "IsInvalid"}, Return(h, c)
      PROVE  /\ stage'[h] = "done" /\ code'[h] # "OK"
             /\ \A g \in Callers : g # h => stage'[g] = stage[g] /\ code'[g] = code[g]
             /\ GrpcTypes'
  BY <1>1, <1>3, <1>4 DEF Return, GrpcTypes
<1>5. CASE NilDereference(h, r) \/ InvalidArgument(h, r) \/ Validate(h, r)
  <2>1. \E c \in {"Internal", "InvalidArgument", "IsValid", "IsInvalid"} : Return(h, c)
    BY <1>5 DEF NilDereference, InvalidArgument, Validate
  <2>2. QED
    BY <1>3, <1>4, <2>1
<1>6. CASE Ingest(h, r)
  <2>1. /\ stage'[h] = "sending" /\ code' = code
        /\ \A g \in Callers : g # h => stage'[g] = stage[g]
        /\ GrpcTypes'
    BY <1>1, <1>3, <1>6 DEF Ingest, GrpcTypes
  <2>2. /\ r.kind # "validate"
        /\ r.kind = "unary" => Valid(r.items[1])
    BY <1>6 DEF Ingest
  <2>3. 1 \in 1..Len(r.items)
    <3>1. CASE r.kind = "unary"
      <4>1. Len(r.items) = 1
        BY <3>1, GrpcRequestsAssumption
      <4>2. QED
        BY <4>1
    <3>2. CASE r.kind = "batch" /\ r.items # << >>
      <4>1. r.items \in Seq(ClientEvent \cup {NilEvent})
        BY GrpcRequestsAssumption
      <4>2. Len(r.items) \in Nat \ {0}
        BY <3>2, <4>1, EmptySeq, LenProperties
      <4>3. QED
        BY <4>2
    <3>3. QED
      BY <1>6, <3>1, <3>2 DEF Ingest
  <2>4. QED
    BY <1>3, <2>1, <2>2, <2>3
<1>7. QED
  BY <1>5, <1>6 DEF Receive

\* A request that arrives has no results yet.
LEMMA ReceiveKeeps ==
    ASSUME GrpcInv, NEW h \in Callers, NEW r \in Requests, Receive(h, r)
    PROVE  GrpcInv'
<1>1. /\ UNCHANGED <<vars, next, results, lastId>>
      /\ stage[h] = "idle" /\ next[h] = 1 /\ results[h] = << >>
      /\ req'[h] = r
      /\ stage'[h] \in {"sending", "done"}
      /\ stage'[h] = "sending" =>
            /\ r.kind # "validate"
            /\ r.kind = "unary" => Valid(r.items[1])
            /\ 1 \in 1..Len(r.items)
      /\ stage'[h] = "done" => code'[h] # "OK"
      /\ \A g \in Callers : g # h =>
            stage'[g] = stage[g] /\ req'[g] = req[g] /\ code'[g] = code[g]
      /\ GrpcTypes'
  BY ReceiveFacts
<1>2. ProducerInv'
  BY <1>1, ProducerInvStep DEF GrpcInv
<1>3. UNCHANGED <<log, hw, pc, cur, pos>>
  BY <1>1 DEF vars, brokerVars, callVars
<1>4. ASSUME NEW g \in Callers
      PROVE  AtItem(g)'
  <2>1. CASE g = h
    <3>1. Len(r.items) \in Nat
      BY GrpcRequestsAssumption, LenProperties
    <3>2. QED
      BY <1>1, <2>1, <3>1 DEF AtItem, Loops
  <2>2. CASE g # h
    BY <1>1, <1>3, <2>2 DEF GrpcInv, AtItem, Loops, Item
  <2>3. QED
    BY <2>1, <2>2
<1>5. ASSUME NEW g \in Callers
      PROVE  RightResults(g)' /\ AllAccepted(g)' /\ StoredBehind(g)'
  <2>1. CASE g = h
    BY <1>1, <2>1 DEF RightResults, AllAccepted, StoredBehind
  <2>2. CASE g # h
    <3>1. RightResults(g)'
      <4> SUFFICES ASSUME NEW i \in 1..Len(results[g])
                   PROVE  RightResult(req[g].items[i], results[g][i])'
        BY <1>1 DEF RightResults
      <4>1. PICK item, res : item = req[g].items[i] /\ res = results[g][i]
        OBVIOUS
      <4>2. RightResult(item, res)'
        BY <1>1, <4>1, ResultsStay
      <4>3. QED
        BY <1>1, <2>2, <4>1, <4>2 DEF RightResult, CommittedAt, PartitionOf, Valid
    <3>2. AllAccepted(g)' /\ StoredBehind(g)'
      BY <1>1, <1>3, <2>2
      DEF GrpcInv, AllAccepted, StoredBehind, Behind, Loops, PartitionOf
    <3>3. QED
      BY <3>1, <3>2
  <2>3. QED
    BY <2>1, <2>2
<1>6. OffsetsFollowBatch'
  BY <1>1 DEF GrpcInv, OffsetsFollowBatch
<1>7. BatchEnd'
  BY <1>1 DEF GrpcInv, BatchEnd
<1>8. QED
  BY <1>1, <1>2, <1>4, <1>5, <1>6, <1>7 DEF GrpcInv

\* What there is to say of a result that is added.
LEMMA AddResultFacts ==
    ASSUME GrpcInv, NEW h \in Callers, Loops(h), NEW res \in Result,
           AddResult(h, res), UNCHANGED <<vars, req, lastId>>
    PROVE  /\ next[h] \in Nat \ {0} /\ Len(results[h]) = next[h] - 1
           /\ results'[h] \in Seq(Result) /\ Len(results'[h]) = next[h]
           /\ \A i \in 1..Len(results[h]) : results'[h][i] = results[h][i]
           /\ results'[h][next[h]] = res
           /\ \A g \in Callers : g # h =>
                 /\ results'[g] = results[g] /\ stage'[g] = stage[g]
                 /\ next'[g] = next[g] /\ code'[g] = code[g]
           /\ \/ /\ LastItem(h) \/ Breaks(h, res)
                 /\ stage'[h] = "done" /\ next'[h] = next[h]
              \/ /\ ~LastItem(h) /\ ~Breaks(h, res)
                 /\ stage'[h] = "sending" /\ next'[h] = next[h] + 1
           /\ GrpcTypes'
<1>1. /\ GrpcTypes
      /\ next[h] \in Nat \ {0} /\ Len(results[h]) = next[h] - 1
  BY CurrentItem DEF GrpcInv
<1>2. results[h] \in Seq(Result)
  BY <1>1 DEF GrpcTypes
<1>3. /\ Append(results[h], res) \in Seq(Result)
      /\ Len(Append(results[h], res)) = next[h]
      /\ \A i \in 1..Len(results[h]) : Append(results[h], res)[i] = results[h][i]
      /\ Append(results[h], res)[next[h]] = res
  BY <1>1, <1>2, AppendProperties
<1>4. /\ results' \in [Callers -> Seq(Result)]
      /\ results'[h] = Append(results[h], res)
      /\ \A g \in Callers : g # h => results'[g] = results[g]
  BY <1>1, <1>3 DEF AddResult, GrpcTypes
<1>5. CASE /\ LastItem(h) \/ Breaks(h, res)
           /\ Return(h, "OK")
           /\ UNCHANGED next
  BY <1>1, <1>3, <1>4, <1>5 DEF Return, GrpcTypes
<1>6. CASE /\ ~LastItem(h) /\ ~Breaks(h, res)
           /\ stage' = [stage EXCEPT ![h] = "sending"]
           /\ next' = [next EXCEPT ![h] = @ + 1]
           /\ UNCHANGED code
  BY <1>1, <1>3, <1>4, <1>6 DEF GrpcTypes
<1>7. QED
  BY <1>5, <1>6 DEF AddResult

\* A true result whose record, if it names one, lies behind the earlier ones.
LEMMA AddResultKeeps ==
    ASSUME GrpcInv, NEW h \in Callers, Loops(h), NEW res \in Result,
           AddResult(h, res), UNCHANGED <<vars, req, lastId>>,
           RightResult(Item(h), res),
           res.status = "ACCEPTED" => Behind(h, res.part, res.pos)
    PROVE  GrpcInv'
<1>1. /\ next[h] \in Nat \ {0} /\ Len(results[h]) = next[h] - 1
      /\ results'[h] \in Seq(Result) /\ Len(results'[h]) = next[h]
      /\ \A i \in 1..Len(results[h]) : results'[h][i] = results[h][i]
      /\ results'[h][next[h]] = res
      /\ \A g \in Callers : g # h =>
            /\ results'[g] = results[g] /\ stage'[g] = stage[g]
            /\ next'[g] = next[g] /\ code'[g] = code[g]
      /\ \/ /\ LastItem(h) \/ Breaks(h, res)
            /\ stage'[h] = "done" /\ next'[h] = next[h]
         \/ /\ ~LastItem(h) /\ ~Breaks(h, res)
            /\ stage'[h] = "sending" /\ next'[h] = next[h] + 1
      /\ GrpcTypes'
  BY AddResultFacts
<1>2. /\ req[h] \in Requests /\ req' = req
      /\ Len(req[h].items) \in Nat
      /\ next[h] \in 1..Len(req[h].items)
  BY CurrentItem
<1>3. ProducerInv'
  BY ProducerInvStep DEF GrpcInv
<1>4. UNCHANGED <<log, hw, pc, cur, pos>>
  BY DEF vars, brokerVars, callVars
<1>5. ASSUME NEW g \in Callers
      PROVE  AtItem(g)'
  <2>1. CASE g = h
    <3>1. AtItem(h) /\ (req[h].kind # "validate") /\ (req[h].kind = "unary" => Valid(req[h].items[1]))
      BY DEF GrpcInv, AtItem
    <3>2. QED
      BY <1>1, <1>2, <2>1, <3>1 DEF AtItem, Loops, LastItem, Valid
  <2>2. CASE g # h
    <3>1. AtItem(g)
      BY DEF GrpcInv
    <3>2. /\ results'[g] = results[g] /\ stage'[g] = stage[g]
          /\ next'[g] = next[g]
      BY <1>1, <2>2
    <3>3. QED
      BY <1>2, <1>4, <3>1, <3>2 DEF AtItem, Loops, Item
  <2>3. QED
    BY <2>1, <2>2
<1>6. ASSUME NEW g \in Callers, NEW i \in 1..Len(results'[g])
      PROVE  RightResult(req[g].items[i], results[g][i])'
  <2>1. PICK item, r : item = req[g].items[i] /\ r = results'[g][i]
    OBVIOUS
  <2>2. RightResult(item, r)
    <3>1. CASE g = h /\ i = next[h]
      BY <1>1, <2>1, <3>1 DEF Item
    <3>2. CASE g = h /\ i # next[h]
      BY <1>1, <2>1, <3>2 DEF GrpcInv, RightResults
    <3>3. CASE g # h
      BY <1>1, <2>1, <3>3 DEF GrpcInv, RightResults
    <3>4. QED
      BY <3>1, <3>2, <3>3
  <2>3. QED
    BY <1>2, <1>4, <2>1, <2>2 DEF RightResult, CommittedAt, PartitionOf, Valid
<1>7. ASSUME NEW g \in Callers
      PROVE  RightResults(g)' /\ AllAccepted(g)' /\ StoredBehind(g)'
  <2>1. RightResults(g)'
    BY <1>6 DEF RightResults
  <2>2. CASE g = h
    <3>1. StoredBehind(h)'
      BY <1>1 DEF StoredBehind
    <3>2. ASSUME stage'[h] = "sending", req[h].failFast, NEW i \in 1..Len(results'[h])
          PROVE  results'[h][i].status = "ACCEPTED"
      <4>1. CASE i = next[h]
        BY <1>1, <3>2, <4>1 DEF Breaks
      <4>2. CASE i # next[h]
        <5>1. i \in 1..Len(results[h])
          BY <1>1, <4>2
        <5>2. QED
          BY <1>1, <3>2, <5>1 DEF GrpcInv, AllAccepted
      <4>3. QED
        BY <4>1, <4>2
    <3>3. AllAccepted(h)'
      BY <1>1, <1>2, <3>2 DEF AllAccepted, Loops
    <3>4. QED
      BY <2>1, <2>2, <3>1, <3>3
  <2>3. CASE g # h
    BY <1>1, <1>2, <1>4, <2>1, <2>3
    DEF GrpcInv, AllAccepted, StoredBehind, Behind, Loops, PartitionOf
  <2>4. QED
    BY <2>2, <2>3
<1>8. OffsetsFollowBatch'
  <2> SUFFICES ASSUME NEW g \in Callers,
                      NEW i \in 1..Len(results'[g]), NEW j \in 1..Len(results'[g]),
                      i < j, results'[g][i].status = "ACCEPTED",
                      results'[g][j].status = "ACCEPTED",
                      results'[g][i].part = results'[g][j].part
               PROVE  results'[g][i].pos < results'[g][j].pos
    BY DEF OffsetsFollowBatch
  <2>1. CASE g = h /\ j = next[h]
    <3>1. i \in 1..Len(results[h])
      BY <1>1, <2>1
    <3>2. results'[h][i] = results[h][i] /\ results'[h][j] = res
      BY <1>1, <2>1, <3>1
    <3>3. QED
      BY <2>1, <3>1, <3>2 DEF Behind
  <2>2. CASE g = h /\ j # next[h]
    <3>1. i \in 1..Len(results[h]) /\ j \in 1..Len(results[h])
      BY <1>1, <2>2
    <3>2. results'[h][i] = results[h][i] /\ results'[h][j] = results[h][j]
      BY <1>1, <3>1
    <3>3. QED
      BY <2>2, <3>1, <3>2 DEF GrpcInv, OffsetsFollowBatch
  <2>3. CASE g # h
    BY <1>1, <2>3 DEF GrpcInv, OffsetsFollowBatch
  <2>4. QED
    BY <2>1, <2>2, <2>3
<1>9. BatchEnd'
  <2> SUFFICES ASSUME NEW g \in Callers, stage'[g] = "done", code'[g] = "OK",
                      req[g].kind = "batch"
               PROVE  \/ /\ ~req[g].failFast
                         /\ Len(results'[g]) = Len(req[g].items)
                      \/ /\ req[g].failFast
                         /\ \A i \in 1..(Len(results'[g]) - 1) :
                               results'[g][i].status = "ACCEPTED"
                         /\ \/ Len(results'[g]) = Len(req[g].items)
                            \/ results'[g][Len(results'[g])].status # "ACCEPTED"
    BY <1>2 DEF BatchEnd
  <2>1. CASE g = h
    <3>1. req[h].failFast \in BOOLEAN
      BY <1>2, GrpcRequestsAssumption
    <3>2. req[h].failFast =>
              \A i \in 1..Len(results[h]) : results[h][i].status = "ACCEPTED"
      BY DEF GrpcInv, AllAccepted
    <3>3. LastItem(h) \/ Breaks(h, res)
      BY <1>1, <2>1
    <3>4. CASE ~req[h].failFast
      BY <1>1, <2>1, <3>3, <3>4 DEF LastItem, Breaks
    <3>5. CASE req[h].failFast
      <4>1. \A i \in 1..(Len(results'[h]) - 1) : results'[h][i].status = "ACCEPTED"
        BY <1>1, <3>2, <3>5
      <4>2. \/ Len(results'[h]) = Len(req[h].items)
            \/ results'[h][Len(results'[h])].status # "ACCEPTED"
        BY <1>1, <3>3 DEF LastItem, Breaks
      <4>3. QED
        BY <2>1, <3>5, <4>1, <4>2
    <3>6. QED
      BY <3>4, <3>5
  <2>2. CASE g # h
    BY <1>1, <2>2 DEF GrpcInv, BatchEnd
  <2>3. QED
    BY <2>1, <2>2
<1>10. QED
  BY <1>1, <1>3, <1>5, <1>7, <1>8, <1>9 DEF GrpcInv

\* An invalid event of a batch gets its REJECTED result.
LEMMA RejectKeeps ==
    ASSUME GrpcInv, NEW h \in Callers, Reject(h)
    PROVE  GrpcInv'
<1> DEFINE res == NotAccepted(Item(h).id, "REJECTED")
<1>1. Loops(h) /\ ~Valid(Item(h))
  BY DEF Reject, Loops
<1>2. Item(h).id \in Nat
  BY <1>1, CurrentItem DEF Sendable, ClientEvent
<1>3. /\ res \in Result
      /\ RightResult(Item(h), res)
      /\ res.status # "ACCEPTED"
  BY <1>1, <1>2 DEF NotAccepted, Result, RightResult
<1> HIDE DEF res
<1>4. AddResult(h, res) /\ UNCHANGED <<vars, req, lastId>>
  BY DEF Reject, res
<1>5. QED
  BY <1>1, <1>3, <1>4, AddResultKeeps

\* The event of a call is what its item was made into.
LEMMA CurrentEvent ==
    ASSUME GrpcInv, NEW h \in Callers, stage[h] = "waiting"
    PROVE  /\ Valid(Item(h))
           /\ cur[h].id \in Nat
           /\ cur[h].type = Item(h).type
           /\ cur[h].finite = Item(h).finite
           /\ cur[h] = [id |-> cur[h].id, type |-> Item(h).type,
                        finite |-> Item(h).finite]
           /\ Item(h).id # 0 => cur[h].id = Item(h).id
<1>1. Valid(Item(h))
  BY DEF GrpcInv, AtItem
<1>2. PICK n \in Nat : /\ cur[h] = WithId(Item(h), n)
                       /\ Item(h).id # 0 => n = Item(h).id
  BY DEF GrpcInv, AtItem
<1>3. QED
  BY <1>1, <1>2 DEF WithId

\* The producer returned an offset: that of a committed record of the event.
LEMMA SendOkKeeps ==
    ASSUME GrpcInv, NEW h \in Callers, SendOk(h)
    PROVE  GrpcInv'
<1> DEFINE res == [id |-> cur[h].id, status |-> "ACCEPTED",
                   part |-> PartitionOf(cur[h]), pos |-> pos[h]]
<1>1. Loops(h) /\ stage[h] = "waiting" /\ pc[h] = "ok"
  BY DEF SendOk, Loops
<1>2. /\ TypeOK /\ HwWithinLog /\ OnlyAdmittedStored /\ ReturnedCommitted
  BY ProducerParts DEF GrpcInv
<1>3. /\ cur[h] \in Event
      /\ PartitionOf(cur[h]) \in Partitions
      /\ CommittedAt(cur[h], PartitionOf(cur[h]), pos[h])
  BY <1>1, <1>2, PartitionOfType DEF ReturnedCommitted
<1>4. cur[h].finite = TRUE
  <2>1. /\ hw[PartitionOf(cur[h])] \in Nat
        /\ Len(log[PartitionOf(cur[h])]) \in Nat
        /\ hw[PartitionOf(cur[h])] <= Len(log[PartitionOf(cur[h])])
    BY <1>2, <1>3, LenProperties DEF TypeOK, BrokerTypeOK, HwWithinLog
  <2>2. /\ pos[h] \in 1..Len(log[PartitionOf(cur[h])])
        /\ log[PartitionOf(cur[h])][pos[h]] = cur[h]
    BY <1>3, <2>1 DEF CommittedAt
  <2>3. Admitted(cur[h])
    BY <1>2, <1>3, <2>2 DEF OnlyAdmittedStored
  <2>4. QED
    BY <1>3, <2>3, EventAssumption DEF Admitted
<1>5. res \in Result
  BY <1>1, <1>2, <1>3, CurrentEvent DEF Result, TypeOK
<1>6. RightResult(Item(h), res)
  <2>1. /\ Valid(Item(h))
        /\ Item(h).id # 0 => res.id = Item(h).id
        /\ [id |-> res.id, type |-> Item(h).type, finite |-> TRUE] = cur[h]
    BY <1>1, <1>4, CurrentEvent
  <2>2. QED
    BY <1>3, <2>1 DEF RightResult
<1>7. Behind(h, res.part, res.pos)
  BY <1>1 DEF GrpcInv, StoredBehind
<1> HIDE DEF res
<1>8. AddResult(h, res) /\ UNCHANGED <<vars, req, lastId>>
  BY DEF SendOk, res
<1>9. QED
  BY <1>1, <1>5, <1>6, <1>7, <1>8, AddResultKeeps

\* h ends with no result of its own: an error, or what a panic leaves.
LEMMA EndKeeps ==
    ASSUME GrpcInv, NEW h \in Callers, stage[h] = "waiting",
           NEW rs \in {results[h], << >>},
           results' = [results EXCEPT ![h] = rs],
           Return(h, "Internal"), UNCHANGED <<vars, req, next, lastId>>
    PROVE  GrpcInv'
<1>1. /\ GrpcTypes
      /\ UNCHANGED <<log, hw, pc, cur, pos>>
  BY DEF GrpcInv, vars, brokerVars, callVars
<1>2. /\ stage'[h] = "done" /\ code'[h] = "Internal" /\ results'[h] = rs
      /\ \A g \in Callers : g # h =>
            /\ stage'[g] = stage[g] /\ code'[g] = code[g]
            /\ results'[g] = results[g]
  BY <1>1 DEF Return, GrpcTypes
<1>3. \A g \in Callers : results'[g] = results[g] \/ results'[g] = << >>
  BY <1>2
<1>4. ProducerInv'
  BY ProducerInvStep DEF GrpcInv
<1>5. GrpcTypes'
  <2>1. rs \in Seq(Result)
    <3>1. results[h] \in Seq(Result)
      BY <1>1 DEF GrpcTypes
    <3>2. << >> \in Seq(Result)
      OBVIOUS
    <3>3. QED
      BY <3>1, <3>2
  <2>2. results \in [Callers -> Seq(Result)]
    BY <1>1 DEF GrpcTypes
  <2>3. results' \in [Callers -> Seq(Result)]
    BY <2>1, <2>2
  <2>4. QED
    BY <1>1, <2>3 DEF Return, GrpcTypes
<1>6. ASSUME NEW g \in Callers
      PROVE  AtItem(g)'
  <2>1. AtItem(g)
    BY DEF GrpcInv
  <2>2. CASE g = h
    <3>1. Len(<< >>) = 0 /\ req[h] \in Requests /\ Len(req[h].items) \in Nat
      BY CurrentItem DEF Loops
    <3>2. QED
      BY <1>2, <2>1, <2>2, <3>1 DEF AtItem, Loops
  <2>3. CASE g # h
    BY <1>1, <1>2, <2>1, <2>3 DEF AtItem, Loops, Item
  <2>4. QED
    BY <2>2, <2>3
<1>7. ASSUME NEW g \in Callers
      PROVE  RightResults(g)' /\ AllAccepted(g)' /\ StoredBehind(g)'
  <2>1. RightResults(g)'
    <3> SUFFICES ASSUME NEW i \in 1..Len(results'[g])
                 PROVE  RightResult(req[g].items[i], results[g][i])'
      BY DEF RightResults
    <3>1. results'[g] = results[g]
      BY <1>3
    <3>2. PICK item, res : item = req[g].items[i] /\ res = results[g][i]
      OBVIOUS
    <3>3. RightResult(item, res)
      BY <3>1, <3>2 DEF GrpcInv, RightResults
    <3>4. QED
      BY <1>1, <3>1, <3>2, <3>3 DEF RightResult, CommittedAt, PartitionOf, Valid
  <2>2. AllAccepted(g)'
    BY <1>2, <1>3 DEF GrpcInv, AllAccepted, Loops
  <2>3. StoredBehind(g)'
    BY <1>1, <1>2 DEF GrpcInv, StoredBehind, Behind, PartitionOf
  <2>4. QED
    BY <2>1, <2>2, <2>3
<1>8. OffsetsFollowBatch'
  BY <1>3 DEF GrpcInv, OffsetsFollowBatch
<1>9. BatchEnd'
  BY <1>2 DEF GrpcInv, BatchEnd
<1>10. QED
  BY <1>4, <1>5, <1>6, <1>7, <1>8, <1>9 DEF GrpcInv

\* An error of the producer ends a unary RPC, and is a result of a batch.
LEMMA SendFailedKeeps ==
    ASSUME GrpcInv, NEW h \in Callers, SendFailed(h)
    PROVE  GrpcInv'
<1>1. Loops(h) /\ stage[h] = "waiting"
  BY DEF SendFailed, Loops
<1>2. CASE Return(h, "Internal") /\ UNCHANGED <<next, results>>
  <2>1. results' = [results EXCEPT ![h] = results[h]]
    BY <1>2 DEF GrpcInv, GrpcTypes
  <2>2. QED
    BY <1>1, <1>2, <2>1, EndKeeps DEF SendFailed
<1>3. CASE AddResult(h, NotAccepted(cur[h].id, "FAILED"))
  <2> DEFINE res == NotAccepted(cur[h].id, "FAILED")
  <2>1. /\ res \in Result
        /\ RightResult(Item(h), res)
        /\ res.status # "ACCEPTED"
    BY <1>1, CurrentEvent DEF NotAccepted, Result, RightResult
  <2> HIDE DEF res
  <2>2. AddResult(h, res) /\ UNCHANGED <<vars, req, lastId>>
    BY <1>3 DEF SendFailed, res
  <2>3. QED
    BY <1>1, <2>1, <2>2, AddResultKeeps
<1>4. QED
  BY <1>2, <1>3 DEF SendFailed

\* The producer is handed the next event.
LEMMA SendNextKeeps ==
    ASSUME GrpcInv, NEW h \in Callers, SendNext(h)
    PROVE  GrpcInv'
<1>1. /\ GrpcTypes /\ TypeOK /\ Loops(h)
      /\ stage[h] = "sending" /\ Valid(Item(h))
      /\ UNCHANGED <<req, next, results, code>>
  BY ProducerParts DEF SendNext, Loops, GrpcInv
<1>2. /\ EventOf(Item(h)) \in Event
      /\ lastId' \in 0..MaxIds
      /\ \E n \in Nat : /\ EventOf(Item(h)) = WithId(Item(h), n)
                        /\ Item(h).id # 0 => n = Item(h).id
  BY <1>1, CurrentItem, EventOfItem DEF SendNext, GrpcTypes
<1>3. [Step]_vars
  BY <1>2 DEF Step, SendNext
<1>4. ProducerInv'
  BY <1>3, ProducerInvStep DEF GrpcInv
<1>5. /\ UNCHANGED <<log, hw>>
      /\ cur'[h] = EventOf(Item(h)) /\ pc'[h] \in {"checked", "failed"}
      /\ \A g \in Callers : g # h =>
            cur'[g] = cur[g] /\ pc'[g] = pc[g] /\ pos'[g] = pos[g]
  BY <1>1 DEF SendNext, ProduceEvent, BeginCall, TypeOK, brokerVars
<1>6. /\ stage'[h] = "waiting"
      /\ \A g \in Callers : g # h => stage'[g] = stage[g]
  BY <1>1 DEF SendNext, GrpcTypes
<1>7. GrpcTypes'
  BY <1>1, <1>2 DEF SendNext, GrpcTypes
<1>8. ASSUME NEW g \in Callers
      PROVE  AtItem(g)'
  <2>1. AtItem(g)
    BY DEF GrpcInv
  <2>2. CASE g = h
    <3>1. Item(h)' = Item(h)
      BY <1>1 DEF Item
    <3>2. QED
      BY <1>1, <1>2, <1>5, <1>6, <2>1, <2>2, <3>1 DEF AtItem, Loops, Valid
  <2>3. CASE g # h
    BY <1>1, <1>5, <1>6, <2>1, <2>3 DEF AtItem, Loops, Item
  <2>4. QED
    BY <2>2, <2>3
<1>9. ASSUME NEW g \in Callers
      PROVE  RightResults(g)' /\ AllAccepted(g)' /\ StoredBehind(g)'
  <2>1. RightResults(g)'
    <3> SUFFICES ASSUME NEW i \in 1..Len(results[g])
                 PROVE  RightResult(req[g].items[i], results[g][i])'
      BY <1>1 DEF RightResults
    <3>1. PICK item, res : item = req[g].items[i] /\ res = results[g][i]
      OBVIOUS
    <3>2. RightResult(item, res)'
      BY <1>3, <3>1, ResultsStay
    <3>3. QED
      BY <1>1, <3>1, <3>2 DEF RightResult, CommittedAt, PartitionOf, Valid
  <2>2. AllAccepted(g)'
    BY <1>1, <1>6 DEF GrpcInv, AllAccepted, Loops
  <2>3. StoredBehind(g)'
    BY <1>1, <1>5, <1>6 DEF GrpcInv, StoredBehind, Behind, PartitionOf
  <2>4. QED
    BY <2>1, <2>2, <2>3
<1>10. OffsetsFollowBatch'
  BY <1>1 DEF GrpcInv, OffsetsFollowBatch
<1>11. BatchEnd'
  BY <1>1, <1>6 DEF GrpcInv, BatchEnd
<1>12. QED
  BY <1>4, <1>7, <1>8, <1>9, <1>10, <1>11 DEF GrpcInv

\* Every step of the RPCs, sarama, the brokers and main.
LEMMA GrpcInvStep == GrpcInv /\ [GrpcNext]_allVars => GrpcInv'
<1> SUFFICES ASSUME GrpcInv, [GrpcNext]_allVars
             PROVE  GrpcInv'
  OBVIOUS
<1>1. ASSUME NEW h \in Callers, NEW r \in Requests, Receive(h, r)
      PROVE  GrpcInv'
  BY <1>1, ReceiveKeeps
<1>2. ASSUME NEW h \in Callers, SendPanicked(h)
      PROVE  GrpcInv'
  BY <1>2, EndKeeps DEF SendPanicked
<1>3. ASSUME NEW h \in Callers, HandlerStep(h)
      PROVE  GrpcInv'
  BY <1>2, <1>3, RejectKeeps, SendNextKeeps, SendOkKeeps, SendFailedKeeps,
     ProducerKeeps DEF HandlerStep
<1>4. ASSUME NEW h \in Callers, CancelRPC(h)
      PROVE  GrpcInv'
  BY <1>4, ProducerKeeps DEF CancelRPC
<1>5. CASE (Close \/ CloseReturns \/ Environment) /\ UNCHANGED grpcVars
  BY <1>5, ProducerKeeps
<1>6. CASE UNCHANGED allVars
  <2>1. Elsewhere /\ GrpcTypes'
    BY <1>6 DEF allVars, vars, callVars, grpcVars, Elsewhere, GrpcInv, GrpcTypes, AtItem
  <2>2. QED
    BY <1>6, <2>1, ElsewhereKeeps DEF allVars
<1>7. QED
  BY <1>1, <1>3, <1>4, <1>5, <1>6 DEF GrpcNext

\* The inductive invariant of the RPCs.
LEMMA GrpcInvariant == GrpcSpec => []GrpcInv
BY GrpcInvInit, GrpcInvStep, PTL DEF GrpcSpec

-----------------------------------------------------------------------------
(* The theorems about the unary and batch RPCs.                            *)

\* Without streams.
UnaryTypes ==
    /\ stage \in [Callers -> {"idle", "sending", "waiting", "done"}]
    /\ code \in [Callers -> {"none", "OK", "InvalidArgument", "Internal",
                             "IsValid", "IsInvalid"}]

\* No RPC is ever in a stage or has a code of the streams.
LEMMA UnaryTypesStep == UnaryTypes /\ [GrpcNext]_allVars => UnaryTypes'
BY DEF UnaryTypes, GrpcNext, Receive, NilDereference, InvalidArgument, Validate,
       Ingest, HandlerStep, Reject, SendNext, SendOk, SendFailed, SendPanicked,
       AddResult, Return, CancelRPC, grpcVars, allVars

\* The variables of the RPC handlers are always well typed; in particular a batch
\* never has more results than events, and its loop stays within them.
THEOREM GrpcTypesHold == GrpcSpec => []GrpcTypeOK
<1>1. GrpcInit => UnaryTypes
  BY DEF GrpcInit, UnaryTypes
<1>2. GrpcInv /\ UnaryTypes => GrpcTypeOK
  <2> SUFFICES ASSUME GrpcInv, UnaryTypes
               PROVE  GrpcTypeOK
    OBVIOUS
  <2>1. TypeOK
    BY ProducerParts DEF GrpcInv
  <2>2. \A h \in Callers :
           /\ req[h] \in Requests \cup {NoRequest}
           /\ stage[h] \in {"sending", "waiting"} => next[h] \in 1..Len(req[h].items)
           /\ Len(results[h]) <= Len(req[h].items)
    BY DEF GrpcInv, GrpcTypes, AtItem, Loops
  <2>3. lastId \in 0..MaxIds
    BY DEF GrpcInv, GrpcTypes
  <2>4. QED
    BY <2>1, <2>2, <2>3 DEF UnaryTypes, GrpcTypeOK
<1>3. QED
  BY <1>1, <1>2, UnaryTypesStep, GrpcInvariant, PTL DEF GrpcSpec

\* RightResults says it of one handler.
LEMMA ResultsAreRight == GrpcInv => ResultsAnswerItems
BY DEF GrpcInv, RightResults, RightResult, ResultsAnswerItems

\* A result of a batch is about the event at its place in the request, whatever
\* was rejected or failed before it, and ACCEPTED means committed at the partition
\* and offset it gives: for any requests, retries and failovers, and for ids that
\* clients send twice.
THEOREM ResultsAreTrue == GrpcSpec => []ResultsAnswerItems
BY ResultsAreRight, GrpcInvariant, PTL

\* A batch that is answered OK has a result for every event; with fail_fast it may
\* end behind the first that was not accepted, and only there.
THEOREM BatchesEnd == GrpcSpec => []BatchEnd
<1>1. GrpcInv => BatchEnd
  BY DEF GrpcInv
<1>2. QED
  BY <1>1, GrpcInvariant, PTL

\* A call that has returned stays as it is until its caller makes the next.
LEMMA ReturnedStays ==
    ASSUME TypeOK, NEW c \in Callers, ~InCall(c),
           \/ \E d \in Callers \ {c}, e \in Event : ProduceEvent(d, e)
           \/ \E d \in Callers : SendStep(d) \/ Cancel(d)
           \/ Close \/ CloseReturns \/ Environment \/ UNCHANGED vars
    PROVE  pc'[c] = pc[c] /\ cur'[c] = cur[c] /\ pos'[c] = pos[c]
<1>1. ASSUME NEW d \in Callers \ {c}, NEW e \in Event, ProduceEvent(d, e)
      PROVE  pc'[c] = pc[c] /\ cur'[c] = cur[c] /\ pos'[c] = pos[c]
  BY <1>1 DEF ProduceEvent, BeginCall, TypeOK
<1>2. ASSUME NEW d \in Callers, SendStep(d)
      PROVE  pc'[c] = pc[c] /\ cur'[c] = cur[c] /\ pos'[c] = pos[c]
  <2>1. InCall(d)
    BY <1>2 DEF SendStep, HandOver, Admit, ShuttingDown, SendOnClosed, Answer,
                Transmit, AppendCopy, Acknowledge, AttemptFails, AttemptTimesOut,
                Rejected
  <2>2. QED
    BY <1>2, <2>1 DEF SendStep, HandOver, Admit, ShuttingDown, SendOnClosed, Answer,
                      Transmit, AppendCopy, Acknowledge, AttemptFails,
                      AttemptTimesOut, Rejected, RetryOrFail, TypeOK
<1>3. CASE Environment
  BY <1>3 DEF Environment, LateAppend, Replicate, Failover, callVars, TypeOK
<1>4. CASE (\E d \in Callers : Cancel(d)) \/ Close \/ CloseReturns \/ UNCHANGED vars
  BY <1>4 DEF Cancel, Close, CloseReturns, callVars, vars
<1>5. QED
  BY <1>1, <1>2, <1>3, <1>4

\* A step of the handler of h, whose context is done.
LEMMA CancelledKeeps ==
    ASSUME GrpcInv, NEW h \in cancelled,
           \/ \E r \in Requests : Receive(h, r)
           \/ Reject(h) \/ SendNext(h) \/ SendOk(h) \/ SendFailed(h) \/ SendPanicked(h)
    PROVE  Kept(h)' \subseteq Kept(h)
<1>1. h \in Callers /\ TypeOK /\ GrpcTypes
  BY ProducerParts DEF GrpcInv, TypeOK
<1>2. ASSUME NEW r \in Requests, Receive(h, r)
      PROVE  Kept(h)' \subseteq Kept(h)
  BY <1>1, <1>2, ReceiveFacts DEF Kept
<1>3. ASSUME SendNext(h)
      PROVE  Kept(h)' \subseteq Kept(h)
  <2>1. pc'[h] = "failed" /\ results' = results
    BY <1>1, <1>3 DEF SendNext, ProduceEvent, BeginCall, Passes, TypeOK
  <2>2. QED
    BY <2>1 DEF Kept
<1>4. ASSUME NEW res \in Result, Loops(h), AddResult(h, res),
             UNCHANGED <<vars, req, lastId>>,
             res.status = "ACCEPTED" => stage[h] = "waiting" /\ pc[h] = "ok"
      PROVE  Kept(h)' \subseteq Kept(h)
  <2>1. /\ stage'[h] # "waiting"
        /\ next[h] \in Nat \ {0} /\ Len(results[h]) = next[h] - 1
        /\ Len(results'[h]) = next[h]
        /\ \A i \in 1..Len(results[h]) : results'[h][i] = results[h][i]
        /\ results'[h][next[h]] = res
    BY <1>1, <1>4, AddResultFacts
  <2>2. ASSUME NEW i \in 1..Len(results'[h]), results'[h][i].status = "ACCEPTED"
        PROVE  i \in Kept(h)
    <3>1. CASE i = next[h]
      BY <1>4, <2>1, <2>2, <3>1 DEF Kept
    <3>2. CASE i # next[h]
      BY <2>1, <2>2, <3>2 DEF Kept
    <3>3. QED
      BY <3>1, <3>2
  <2>3. QED
    BY <2>1, <2>2 DEF Kept
<1>5. ASSUME NEW c, Return(h, c), results' = results \/ results'[h] = << >>
      PROVE  Kept(h)' \subseteq Kept(h)
  BY <1>1, <1>5 DEF Return, GrpcTypes, Kept
<1>6. CASE Reject(h) \/ SendFailed(h)
  <2>1. Loops(h)
    BY <1>6 DEF Reject, SendFailed, Loops
  <2>2. ASSUME NEW n \in Nat, NEW status \in {"REJECTED", "FAILED"}
        PROVE  /\ NotAccepted(n, status) \in Result
               /\ NotAccepted(n, status).status # "ACCEPTED"
    BY DEF NotAccepted, Result
  <2>3. CASE Reject(h)
    <3>1. Item(h).id \in Nat
      BY <1>1, <2>1, CurrentItem DEF Sendable, ClientEvent
    <3>2. QED
      BY <1>4, <2>1, <2>2, <2>3, <3>1 DEF Reject
  <2>4. CASE SendFailed(h) /\ req[h].kind # "batch"
    BY <1>5, <2>4 DEF SendFailed
  <2>5. CASE SendFailed(h) /\ req[h].kind = "batch"
    <3>1. cur[h].id \in Nat
      BY <1>1, <2>5, CurrentEvent DEF SendFailed
    <3>2. QED
      BY <1>4, <2>1, <2>2, <2>5, <3>1 DEF SendFailed
  <2>6. QED
    BY <1>6, <2>3, <2>4, <2>5
<1>7. CASE SendOk(h)
  <2>1. cur[h] \in Event /\ pos[h] \in Nat /\ stage[h] = "waiting" /\ pc[h] = "ok"
    BY <1>1, <1>7, ProducerParts DEF SendOk, GrpcInv, ReturnedCommitted, TypeOK
  <2> DEFINE res == [id |-> cur[h].id, status |-> "ACCEPTED",
                     part |-> PartitionOf(cur[h]), pos |-> pos[h]]
  <2>2. res \in Result
    BY <1>1, <2>1, CurrentEvent, PartitionOfType DEF Result
  <2> HIDE DEF res
  <2>3. AddResult(h, res) /\ UNCHANGED <<vars, req, lastId>>
    BY <1>7 DEF SendOk, res
  <2>4. QED
    BY <1>1, <1>4, <2>1, <2>2, <2>3 DEF Loops
<1>8. CASE SendPanicked(h)
  BY <1>1, <1>5, <1>8 DEF SendPanicked, GrpcTypes
<1>9. QED
  BY <1>2, <1>3, <1>6, <1>7, <1>8

\* Once an RPC's context is done, its batch keeps at most the event whose call had
\* passed the check before: nothing behind it is accepted, however many events the
\* batch still has, and a call that starts later fails.
THEOREM CancelStops == GrpcSpec => CancelStopsBatch
<1>1. ASSUME GrpcInv, [GrpcNext]_allVars, NEW h \in cancelled
      PROVE  Kept(h)' \subseteq Kept(h)
  <2>1. h \in Callers /\ TypeOK /\ GrpcTypes
    <3>1. TypeOK /\ GrpcTypes
      BY <1>1, ProducerParts DEF GrpcInv
    <3>2. QED
      BY <3>1 DEF TypeOK
  <2>2. ASSUME UNCHANGED <<results, next, stage>>,
               \/ \E d \in Callers : SendStep(d) \/ Cancel(d)
               \/ Close \/ CloseReturns \/ Environment \/ UNCHANGED vars
        PROVE  Kept(h)' \subseteq Kept(h)
    <3>1. ~InCall(h) => pc'[h] = pc[h]
      BY <2>1, <2>2, ReturnedStays
    <3>2. pc[h] \in {"failed", "panicked"} => pc'[h] = pc[h]
      BY <3>1
    <3>3. /\ results'[h] = results[h] /\ next'[h] = next[h] /\ stage'[h] = stage[h]
          /\ pc'[h] \notin {"failed", "panicked"} => pc[h] \notin {"failed", "panicked"}
      BY <2>2, <3>2
    <3>4. ASSUME NEW i \in Kept(h)'
          PROVE  i \in Kept(h)
      BY <3>3, <3>4 DEF Kept
    <3>5. QED
      BY <3>4
  <2>3. ASSUME NEW g \in Callers,
               \/ \E r \in Requests : Receive(g, r)
               \/ Reject(g) \/ SendNext(g) \/ SendOk(g) \/ SendFailed(g) \/ SendPanicked(g),
               g # h
        PROVE  Kept(h)' \subseteq Kept(h)
    <3>1. /\ stage'[h] = stage[h] /\ results'[h] = results[h] /\ next'[h] = next[h]
          /\ pc'[h] = pc[h]
      BY <2>1, <2>3
      DEF Receive, NilDereference, InvalidArgument, Validate, Ingest, Arrive, Reject,
          SendNext, SendOk, SendFailed, SendPanicked, AddResult, Return, ProduceEvent,
          BeginCall, TypeOK, GrpcTypes, vars, callVars
    <3>2. QED
      BY <3>1 DEF Kept
  <2>4. CASE UNCHANGED allVars
    BY <2>2, <2>4 DEF allVars, grpcVars
  <2>5. QED
    BY <1>1, <2>2, <2>3, <2>4, CancelledKeeps
    DEF GrpcNext, HandlerStep, CancelRPC, grpcVars
<1>2. GrpcInv /\ [GrpcNext]_allVars =>
          [\A h \in cancelled : Kept(h)' \subseteq Kept(h)]_allVars
  BY <1>1
<1>3. QED
  BY <1>2, GrpcInvariant, PTL DEF GrpcSpec, CancelStopsBatch

-----------------------------------------------------------------------------
(* Streams: counting messages.                                             *)

\* The k-th message counts if it is an event or a ping.
LEMMA AskedNext ==
    ASSUME NEW h, NEW k \in Nat
    PROVE  /\ Asked(h, 0) = 0
           /\ Asked(h, k) \in Nat
           /\ Answerable(script[h][k + 1]) => Asked(h, k + 1) = Asked(h, k) + 1
           /\ ~Answerable(script[h][k + 1]) => Asked(h, k + 1) = Asked(h, k)
<1> DEFINE S(n) == {j \in 1..n : Answerable(script[h][j])}
<1>1. \A n : Asked(h, n) = Cardinality(S(n))
  BY DEF Asked
<1>2. S(0) = {}
  OBVIOUS
<1>3. IsFiniteSet(S(k)) /\ Cardinality(S(k)) \in Nat
  <2>1. IsFiniteSet(1..k)
    BY FS_Interval
  <2>2. S(k) \subseteq 1..k
    OBVIOUS
  <2>3. QED
    BY <2>1, <2>2, FS_Subset, FS_CardinalityType
<1>4. CASE Answerable(script[h][k + 1])
  <2>1. S(k + 1) = S(k) \cup {k + 1} /\ k + 1 \notin S(k)
    BY <1>4
  <2>2. Cardinality(S(k + 1)) = Cardinality(S(k)) + 1
    BY <1>3, <2>1, FS_AddElement
  <2>3. QED
    BY <1>1, <1>2, <1>3, <1>4, <2>2, FS_EmptySet
<1>5. CASE ~Answerable(script[h][k + 1])
  <2>1. S(k + 1) = S(k)
    BY <1>5
  <2>2. QED
    BY <1>1, <1>2, <1>3, <1>5, <2>1, FS_EmptySet
<1>6. QED
  BY <1>4, <1>5

\* More messages, no fewer to be answered.
LEMMA AskedMonotone ==
    ASSUME NEW h, NEW k \in Nat, NEW m \in Nat, k <= m
    PROVE  Asked(h, k) <= Asked(h, m)
<1> DEFINE S(n) == {j \in 1..n : Answerable(script[h][j])}
<1>1. IsFiniteSet(S(m))
  <2>1. IsFiniteSet(1..m)
    BY FS_Interval
  <2>2. S(m) \subseteq 1..m
    OBVIOUS
  <2>3. QED
    BY <2>1, <2>2, FS_Subset
<1>2. S(k) \subseteq S(m)
  OBVIOUS
<1>3. Cardinality(S(k)) <= Cardinality(S(m))
  BY <1>1, <1>2, FS_Subset
<1>4. QED
  BY <1>3 DEF Asked

-----------------------------------------------------------------------------
(* Streams: the inductive invariant.                                       *)

ReplyRecord ==
    [kind : {"pong", "error"}]
    \cup [kind : {"ack"}, id : Nat, part : Partitions, pos : Nat]

StreamTypes ==
    /\ script \in [Callers -> Scripts \cup {<< >>}]
    /\ got \in [Callers -> Nat]
    /\ replies \in [Callers -> Seq(ReplyRecord)]

\* The reply to h's message is still to come.
Pending(h) == stage[h] \in {"handling", "producing", "replying"}

\* h has called ProduceEvent for its message.
Sent(h) ==
    \/ stage[h] = "producing"
    \/ stage[h] = "replying" /\ Message(h).kind = "event" /\ Valid(Message(h).event)

\* Where h is in its stream.
AtMessage(h) ==
    /\ got[h] \in 0..Len(script[h])
    /\ stage[h] \in {"idle", "sending", "waiting"} =>
          got[h] = 0 /\ replies[h] = << >>
    /\ Pending(h) => got[h] # 0 /\ Answerable(Message(h))
    /\ stage[h] \in {"handling", "producing"} => Message(h).kind = "event"
    /\ stage[h] = "producing" => Valid(Message(h).event)
    /\ Sent(h) => /\ pc[h] # "idle"
                  /\ stage[h] = "replying" => pc[h] \in {"ok", "failed"}
                  /\ \E n \in Nat : /\ cur[h] = WithId(Message(h).event, n)
                                    /\ Message(h).event.id # 0 => n = Message(h).event.id

\* One reply for every event and ping, but the one h is at.
Counted(h) ==
    /\ Pending(h) => Asked(h, got[h]) = Len(replies[h]) + 1
    /\ ~Pending(h) /\ stage[h] # "done" => Asked(h, got[h]) = Len(replies[h])
    /\ stage[h] = "done" =>
          \/ Asked(h, got[h]) = Len(replies[h])
          \/ Asked(h, got[h]) = Len(replies[h]) + 1 /\ code[h] # "OK"

RightReplies(h) ==
    \A k \in 1..got[h] :
        (Answerable(script[h][k]) /\ Asked(h, k) <= Len(replies[h])) =>
            Answers(replies[h][Asked(h, k)], script[h][k])

\* What is acknowledged is committed.
AcksCommitted(h) ==
    \A i \in 1..Len(replies[h]) :
        replies[h][i].kind = "ack" =>
            /\ replies[h][i].part \in Partitions
            /\ replies[h][i].pos \in 1..hw[replies[h][i].part]

\* Position n of partition part lies behind the records acknowledged there.
BehindAcks(h, part, n) ==
    \A i \in 1..Len(replies[h]) :
        (replies[h][i].kind = "ack" /\ replies[h][i].part = part) =>
            replies[h][i].pos < n

SentBehind(h) ==
    (Sent(h) /\ pc[h] \in {"stored", "ok"}) =>
        BehindAcks(h, PartitionOf(cur[h]), pos[h])

StreamOf(h) ==
    /\ AtMessage(h)
    /\ Counted(h)
    /\ RightReplies(h)
    /\ AcksCommitted(h)
    /\ SentBehind(h)

StreamInv ==
    /\ GrpcInv
    /\ StreamTypes
    /\ \A h \in Callers : StreamOf(h)
    /\ AcksInOrder

\* A message a handler has received is one of its client's script.
LEMMA ReceivedMessage ==
    ASSUME StreamInv, NEW h \in Callers, NEW k \in 1..Len(script[h])
    PROVE  /\ script[h] \in Scripts
           /\ Len(script[h]) \in Nat
           /\ script[h][k] \in StreamMessage
           /\ script[h][k].kind \in {"event", "ping", "config", "unset"}
           /\ script[h][k].kind = "event" => /\ Sendable(script[h][k].event)
                                             /\ script[h][k].event.type \in Types
<1>1. script[h] \in Scripts
  <2>1. script[h] \in Scripts \cup {<< >>}
    BY DEF StreamInv, StreamTypes
  <2>2. script[h] # << >>
    BY EmptySeq
  <2>3. QED
    BY <2>1, <2>2
<1>2. /\ script[h] \in Seq(StreamMessage)
      /\ script[h][k].kind = "event" => Sendable(script[h][k].event)
  BY <1>1, ScriptsAssumption
<1>3. Len(script[h]) \in Nat /\ script[h][k] \in StreamMessage
  BY <1>2, ElementOfSeq, LenProperties
<1>4. script[h][k].kind \in {"event", "ping", "config", "unset"}
  BY <1>3 DEF StreamMessage
<1>5. Sendable(script[h][k].event) => script[h][k].event.type \in Types
  BY DEF Sendable, ClientEvent
<1>6. QED
  BY <1>1, <1>2, <1>3, <1>4, <1>5

\* An answer that is true stays true.
LEMMA AnswersStay ==
    ASSUME ProducerInv, [Step]_vars, NEW reply, NEW m, Answers(reply, m),
           m.kind = "event" => m.event.type \in Types,
           m.kind \in {"event", "ping"}
    PROVE  Answers(reply, m)'
<1>1. TypeOK /\ HwWithinLog /\ LogStep
  BY ProducerParts, NextLogStep
<1>2. CASE reply.kind = "ack"
  <2> DEFINE e == [id |-> reply.id, type |-> m.event.type, finite |-> TRUE]
             p == HashPartition[m.event.type]
  <2>1. m.event.type \in Types /\ CommittedAt(e, p, reply.pos)
    BY <1>2 DEF Answers
  <2>2. p \in Partitions
    BY <2>1, HashPartitionAssumption
  <2> HIDE DEF e, p
  <2>3. CommittedAt(e, p, reply.pos)'
    BY <1>1, <2>1, <2>2, CommittedStays
  <2>4. QED
    BY <1>2, <2>3 DEF Answers, e, p
<1>3. CASE reply.kind # "ack"
  BY <1>3 DEF Answers
<1>4. QED
  BY <1>2, <1>3

\* The committed prefixes do not shrink.
LEMMA HwGrows ==
    ASSUME ProducerInv, [Step]_vars, NEW p \in Partitions
    PROVE  hw[p] \in Nat /\ hw'[p] \in Nat /\ hw[p] <= hw'[p]
<1>1. TypeOK /\ LogStep /\ TypeOK'
  BY ProducerParts, NextLogStep, TypeStep
<1>2. hw[p] \in Nat /\ hw'[p] \in Nat /\ hw \in [Partitions -> Nat]
  BY <1>1 DEF TypeOK, BrokerTypeOK
<1>3. QED
  BY <1>1, <1>2 DEF LogStep, LogUnchanged, AppendRecord, ReplicateRecord, FailoverTo

\* A call under way keeps its event, and is not idle when it returns.
LEMMA CallStays ==
    ASSUME TypeOK, [Step]_vars, NEW c \in Callers, InCall(c)
    PROVE  cur'[c] = cur[c] /\ pc'[c] # "idle"
<1>1. ASSUME NEW d \in Callers, NEW e \in Event, ProduceEvent(d, e)
      PROVE  cur'[c] = cur[c] /\ pc'[c] # "idle"
  <2>1. c # d
    BY <1>1 DEF ProduceEvent, BeginCall
  <2>2. QED
    BY <1>1, <2>1 DEF ProduceEvent, BeginCall, TypeOK
<1>2. ASSUME NEW d \in Callers, SendStep(d)
      PROVE  cur'[c] = cur[c] /\ pc'[c] # "idle"
  BY <1>2 DEF SendStep, HandOver, Admit, ShuttingDown, SendOnClosed, Answer, Transmit, AppendCopy, Acknowledge, AttemptFails,
              AttemptTimesOut, Rejected, RetryOrFail, TypeOK
<1>3. CASE Environment
  BY <1>3 DEF Environment, LateAppend, Replicate, Failover, callVars, TypeOK
<1>4. CASE (\E d \in Callers : Cancel(d)) \/ Close \/ CloseReturns \/ UNCHANGED vars
  BY <1>4 DEF Cancel, Close, CloseReturns, callVars, vars
<1>5. QED
  BY <1>1, <1>2, <1>3, <1>4 DEF Step

\* The replies a stream has stay true, and so do the places of their records.
LEMMA RepliesStay ==
    ASSUME StreamInv, [Step]_vars, NEW h \in Callers
    PROVE  /\ \A k \in 1..got[h] : \A reply, m :
                 /\ Answerable(script[h][k]) /\ Asked(h, k) <= Len(replies[h])
                 /\ reply = replies[h][Asked(h, k)] /\ m = script[h][k]
                 => Answers(reply, m)'
           /\ \A i \in 1..Len(replies[h]) : \A p :
                 (replies[h][i].kind = "ack" /\ p = replies[h][i].part) =>
                     p \in Partitions /\ replies[h][i].pos \in 1..hw'[p]
<1>1. /\ ProducerInv /\ AtMessage(h) /\ RightReplies(h) /\ AcksCommitted(h)
  BY DEF StreamInv, StreamOf, GrpcInv
<1>2. ASSUME NEW k \in 1..got[h], NEW reply, NEW m,
             Answerable(script[h][k]), Asked(h, k) <= Len(replies[h]),
             reply = replies[h][Asked(h, k)], m = script[h][k]
      PROVE  Answers(reply, m)'
  <2>1. Answers(reply, m)
    BY <1>1, <1>2 DEF RightReplies
  <2>2. k \in 1..Len(script[h])
    <3>1. got[h] \in Nat /\ got[h] <= Len(script[h])
      BY <1>1 DEF AtMessage
    <3>2. QED
      BY <3>1
  <2>3. m.kind \in {"event", "ping"} /\ (m.kind = "event" => m.event.type \in Types)
    BY <1>2, <2>2, ReceivedMessage DEF Answerable
  <2>4. QED
    BY <1>1, <2>1, <2>3, AnswersStay
<1>3. ASSUME NEW i \in 1..Len(replies[h]), NEW p,
             replies[h][i].kind = "ack", p = replies[h][i].part
      PROVE  p \in Partitions /\ replies[h][i].pos \in 1..hw'[p]
  <2>1. p \in Partitions /\ replies[h][i].pos \in 1..hw[p]
    BY <1>1, <1>3 DEF AcksCommitted
  <2>2. QED
    BY <1>1, <2>1, HwGrows
<1>4. QED
  BY <1>2, <1>3

\* Replies stay right while nothing is received or sent.
LEMMA SameReplies ==
    ASSUME StreamInv, [Step]_vars, NEW h \in Callers,
           script'[h] = script[h], got'[h] = got[h], replies'[h] = replies[h]
    PROVE  RightReplies(h)' /\ AcksCommitted(h)'
<1>1. \A k : Asked(h, k)' = Asked(h, k)
  BY DEF Asked
<1>2. RightReplies(h)'
  <2> SUFFICES ASSUME NEW k \in 1..got[h], Answerable(script[h][k]),
                      Asked(h, k) <= Len(replies[h])
               PROVE  Answers(replies[h][Asked(h, k)], script[h][k])'
    BY <1>1 DEF RightReplies
  <2>1. PICK reply, m : reply = replies[h][Asked(h, k)] /\ m = script[h][k]
    OBVIOUS
  <2>2. Answers(reply, m)'
    BY <2>1, RepliesStay
  <2>3. QED
    BY <1>1, <2>1, <2>2 DEF Answers, CommittedAt
<1>3. AcksCommitted(h)'
  BY RepliesStay DEF AcksCommitted
<1>4. QED
  BY <1>2, <1>3

\* A record a step appends lies behind what is acknowledged.
LEMMA AppendedBehindAcks ==
    ASSUME StreamInv, NEW h \in Callers, AppendCopy(h)
    PROVE  BehindAcks(h, PartitionOf(cur[h]), Len(log[PartitionOf(cur[h])]) + 1)
<1> SUFFICES ASSUME NEW i \in 1..Len(replies[h]),
                    replies[h][i].kind = "ack",
                    replies[h][i].part = PartitionOf(cur[h])
             PROVE  replies[h][i].pos < Len(log[PartitionOf(cur[h])]) + 1
  BY DEF BehindAcks
<1>1. TypeOK /\ HwWithinLog
  BY ProducerParts DEF StreamInv, GrpcInv
<1>2. /\ PartitionOf(cur[h]) \in Partitions
      /\ replies[h][i].pos \in 1..hw[PartitionOf(cur[h])]
  BY DEF StreamInv, StreamOf, AcksCommitted
<1>3. /\ hw[PartitionOf(cur[h])] \in Nat
      /\ Len(log[PartitionOf(cur[h])]) \in Nat
      /\ hw[PartitionOf(cur[h])] <= Len(log[PartitionOf(cur[h])])
  BY <1>1, <1>2, LenProperties DEF TypeOK, BrokerTypeOK, HwWithinLog
<1>4. QED
  BY <1>2, <1>3

\* A handler whose stream a step leaves alone.
Undisturbed(h) ==
    /\ script'[h] = script[h] /\ got'[h] = got[h] /\ replies'[h] = replies[h]
    /\ \/ stage'[h] = stage[h] /\ code'[h] = code[h]
       \/ /\ stage[h] \in {"idle", "sending", "waiting"}
          /\ stage'[h] \in {"idle", "sending", "waiting", "done"}
    /\ Sent(h) /\ ~InCall(h) =>
          pc'[h] = pc[h] /\ cur'[h] = cur[h] /\ pos'[h] = pos[h]

\* Its stream stays in order, whatever the producer does.
LEMMA UndisturbedKeeps ==
    ASSUME StreamInv, [Step]_vars, NEW h \in Callers, Undisturbed(h)
    PROVE  StreamOf(h)'
<1>1. /\ StreamOf(h) /\ TypeOK /\ TypeOK'
  BY ProducerParts, TypeStep DEF StreamInv, GrpcInv
<1>2. /\ script'[h] = script[h] /\ got'[h] = got[h] /\ replies'[h] = replies[h]
      /\ \/ stage'[h] = stage[h] /\ code'[h] = code[h]
         \/ /\ stage[h] \in {"idle", "sending", "waiting"}
            /\ stage'[h] \in {"idle", "sending", "waiting", "done"}
  BY DEF Undisturbed
<1>3. /\ Message(h)' = Message(h)
      /\ \A k : Asked(h, k)' = Asked(h, k)
  BY <1>2 DEF Message, Asked
<1>4. (Sent(h)' <=> Sent(h)) /\ (Pending(h)' <=> Pending(h))
  BY <1>2, <1>3 DEF Sent, Pending, Valid
<1>5. Sent(h) =>
         /\ cur'[h] = cur[h]
         /\ pc'[h] # "idle"
         /\ ~InCall(h) => pc'[h] = pc[h]
         /\ pc'[h] \in {"stored", "ok"} =>
               \/ AppendCopy(h)
               \/ pc[h] \in {"stored", "ok"} /\ pos'[h] = pos[h]
  <2> SUFFICES ASSUME Sent(h)
               PROVE  /\ cur'[h] = cur[h]
                      /\ pc'[h] # "idle"
                      /\ ~InCall(h) => pc'[h] = pc[h]
                      /\ pc'[h] \in {"stored", "ok"} =>
                            \/ AppendCopy(h)
                            \/ pc[h] \in {"stored", "ok"} /\ pos'[h] = pos[h]
    OBVIOUS
  <2>1. ~InCall(h) => pc'[h] = pc[h] /\ cur'[h] = cur[h] /\ pos'[h] = pos[h]
    BY DEF Undisturbed
  <2>2. pc[h] # "idle"
    BY <1>1 DEF StreamOf, AtMessage
  <2>3. CASE InCall(h)
    <3>1. cur'[h] = cur[h] /\ pc'[h] # "idle"
      BY <1>1, <2>3, CallStays
    <3>2. QED
      BY <1>1, <2>3, <3>1, HeldBefore
  <2>4. CASE ~InCall(h)
    BY <2>1, <2>2, <2>4
  <2>5. QED
    BY <2>3, <2>4
<1>6. AtMessage(h)'
  <2>1. AtMessage(h)
    BY <1>1 DEF StreamOf
  <2>2. Sent(h) /\ stage[h] = "replying" => pc'[h] = pc[h]
    BY <1>5, <2>1 DEF AtMessage
  <2>3. QED
    BY <1>2, <1>3, <1>4, <1>5, <2>1, <2>2 DEF AtMessage, Valid
<1>7. Counted(h)'
  BY <1>1, <1>2, <1>3, <1>4 DEF StreamOf, Counted, AtMessage, Pending
<1>8. RightReplies(h)' /\ AcksCommitted(h)'
  BY <1>2, SameReplies
<1>9. SentBehind(h)'
  <2> SUFFICES ASSUME Sent(h), pc'[h] \in {"stored", "ok"}, cur'[h] = cur[h]
               PROVE  BehindAcks(h, PartitionOf(cur[h]), pos'[h])
    BY <1>2, <1>4, <1>5 DEF SentBehind, BehindAcks, PartitionOf
  <2>1. CASE AppendCopy(h)
    <3>1. pos'[h] = Len(log[PartitionOf(cur[h])]) + 1
      BY <1>1, <2>1 DEF AppendCopy, TypeOK
    <3>2. QED
      BY <2>1, <3>1, AppendedBehindAcks
  <2>2. CASE ~AppendCopy(h)
    BY <1>1, <1>5, <2>2 DEF StreamOf, SentBehind
  <2>3. QED
    BY <2>1, <2>2
<1>10. QED
  BY <1>6, <1>7, <1>8, <1>9 DEF StreamOf

-----------------------------------------------------------------------------
(* Streams: the steps.                                                     *)

\* Before the first stream.
LEMMA StreamInvInit == StreamInit => StreamInv
<1> SUFFICES ASSUME StreamInit
             PROVE  StreamInv
  OBVIOUS
<1>1. GrpcInv
  BY GrpcInvInit DEF StreamInit
<1>2. \A h \in Callers : /\ stage[h] = "idle" /\ script[h] = << >> /\ got[h] = 0
                         /\ replies[h] = << >>
  BY DEF StreamInit, GrpcInit
<1>3. StreamTypes
  BY DEF StreamInit, StreamTypes
<1>4. Len(<< >>) = 0
  OBVIOUS
<1>5. ASSUME NEW h \in Callers
      PROVE  StreamOf(h)
  <2>1. ~Sent(h) /\ ~Pending(h)
    BY <1>2 DEF Sent, Pending
  <2>2. Asked(h, 0) = 0
    BY AskedNext
  <2>3. QED
    BY <1>2, <1>4, <2>1, <2>2
    DEF StreamOf, AtMessage, Counted, RightReplies, AcksCommitted, SentBehind
<1>6. AcksInOrder
  BY <1>2, <1>4 DEF AcksInOrder
<1>7. QED
  BY <1>1, <1>3, <1>5, <1>6 DEF StreamInv

\* The unary and batch RPCs leave the streams alone.
LEMMA RPCsKeepStreams ==
    ASSUME StreamInv, GrpcNext, UNCHANGED streamVars
    PROVE  StreamInv'
<1>1. GrpcInv /\ TypeOK /\ GrpcTypes
  BY ProducerParts DEF StreamInv, GrpcInv
<1>2. GrpcInv' /\ [Step]_vars
  BY <1>1, GrpcInvStep, GrpcIsProducer
<1>3. UNCHANGED <<script, got, replies>>
  BY DEF streamVars
<1>4. ASSUME NEW h \in Callers, UNCHANGED stage, UNCHANGED code,
             \/ \E d \in Callers : SendStep(d) \/ Cancel(d)
             \/ Close \/ CloseReturns \/ Environment
      PROVE  Undisturbed(h)
  BY <1>1, <1>3, <1>4, ReturnedStays DEF Undisturbed
<1>5. ASSUME NEW h \in Callers, NEW g \in Callers,
             stage[g] \in {"idle", "sending", "waiting"},
             stage'[g] \in {"idle", "sending", "waiting", "done"},
             \A k \in Callers : k # g => stage'[k] = stage[k] /\ code'[k] = code[k],
             UNCHANGED vars \/ \E e \in Event : ProduceEvent(g, e)
      PROVE  Undisturbed(h)
  <2>1. CASE h = g
    BY <1>3, <1>5, <2>1 DEF Undisturbed, Sent
  <2>2. CASE h # g
    BY <1>1, <1>3, <1>5, <2>2, ReturnedStays DEF Undisturbed
  <2>3. QED
    BY <2>1, <2>2
<1>6. ASSUME NEW h \in Callers, NEW g \in Callers, NEW r \in Requests, Receive(g, r)
      PROVE  Undisturbed(h)
  BY <1>1, <1>5, <1>6, ReceiveFacts
<1>7. ASSUME NEW h \in Callers, NEW g \in Callers, SendNext(g)
      PROVE  Undisturbed(h)
  <2>1. EventOf(Item(g)) \in Event
    BY <1>1, <1>7, CurrentItem, EventOfItem DEF SendNext, Loops, GrpcTypes
  <2>2. /\ stage[g] = "sending" /\ stage'[g] = "waiting" /\ code' = code
        /\ \A k \in Callers : k # g => stage'[k] = stage[k]
    BY <1>1, <1>7 DEF SendNext, GrpcTypes
  <2>3. QED
    BY <1>5, <1>7, <2>1, <2>2 DEF SendNext
<1>8. ASSUME NEW h \in Callers, NEW g \in Callers,
             Reject(g) \/ SendOk(g) \/ SendFailed(g) \/ SendPanicked(g)
      PROVE  Undisturbed(h)
  <2>1. /\ stage[g] \in {"sending", "waiting"} /\ UNCHANGED vars
        /\ \/ \E c \in {"OK", "Internal"} : Return(g, c)
           \/ stage' = [stage EXCEPT ![g] = "sending"] /\ UNCHANGED code
    BY <1>8 DEF Reject, SendOk, SendFailed, SendPanicked, AddResult
  <2>2. /\ stage'[g] \in {"sending", "done"}
        /\ \A k \in Callers : k # g => stage'[k] = stage[k] /\ code'[k] = code[k]
    BY <1>1, <2>1 DEF Return, GrpcTypes
  <2>3. QED
    BY <1>5, <2>1, <2>2
<1>9. ASSUME NEW h \in Callers
      PROVE  Undisturbed(h)
  BY <1>4, <1>6, <1>7, <1>8, <1>9 DEF GrpcNext, HandlerStep, CancelRPC, grpcVars
<1>10. \A h \in Callers : StreamOf(h)'
  BY <1>2, <1>9, UndisturbedKeeps
<1>11. StreamTypes' /\ AcksInOrder'
  BY <1>3 DEF StreamInv, StreamTypes, AcksInOrder
<1>12. QED
  BY <1>2, <1>10, <1>11 DEF StreamInv

\* A step of the handler of stream h, as the others see it.
OnStream(h) ==
    /\ UNCHANGED vars \/ \E e \in Event : ProduceEvent(h, e)
    /\ UNCHANGED <<req, next, results>>
    /\ stage[h] \in StreamStages \cup {"idle"}
    /\ stage'[h] \in StreamStages \cup {"done"}
    /\ \A g \in Callers : g # h =>
          /\ stage'[g] = stage[g] /\ code'[g] = code[g]
          /\ script'[g] = script[g] /\ got'[g] = got[g] /\ replies'[g] = replies[g]

\* It suffices to look at h: the step disturbs nobody else.
LEMMA OnStreamKeeps ==
    ASSUME StreamInv, NEW h \in Callers, OnStream(h),
           GrpcTypes', StreamTypes', StreamOf(h)', AcksInOrder'
    PROVE  StreamInv'
<1> USE DEF OnStream
<1>1. GrpcInv /\ TypeOK /\ [Step]_vars
  BY ProducerParts DEF StreamInv, GrpcInv, Step
<1>2. \A g \in Callers : g # h => pc'[g] = pc[g] /\ cur'[g] = cur[g] /\ pos'[g] = pos[g]
  BY <1>1 DEF vars, callVars, ProduceEvent, BeginCall, TypeOK
<1>3. stage[h] # "done" /\ ~Loops(h) /\ ~Loops(h)'
  BY DEF StreamStages, Loops
<1>4. Elsewhere
  <2>1. \A g \in Callers :
           \/ stage'[g] = stage[g] /\ code'[g] = code[g]
           \/ stage[g] # "done" /\ ~Loops(g) /\ ~Loops(g)'
    BY <1>3
  <2>2. \A g \in Callers : stage[g] = "waiting" => pc[g] # "idle"
    BY <1>1 DEF GrpcInv, AtItem
  <2>3. \A g \in Callers : stage[g] = "waiting" => g # h
    BY <1>3 DEF Loops
  <2>4. QED
    BY <1>2, <2>1, <2>2, <2>3 DEF Elsewhere
<1>5. GrpcInv'
  BY <1>1, <1>4, ElsewhereKeeps
<1>6. ASSUME NEW g \in Callers, g # h
      PROVE  StreamOf(g)'
  <2>1. Undisturbed(g)
    BY <1>2, <1>6 DEF Undisturbed
  <2>2. QED
    BY <1>1, <2>1, UndisturbedKeeps
<1>7. QED
  BY <1>5, <1>6 DEF StreamInv

\* The steps in which the handler of h only goes on to another stage.
Moves(h) ==
    /\ UNCHANGED <<vars, req, next, results, lastId, streamVars>>
    /\ \A g \in Callers : g # h => stage'[g] = stage[g] /\ code'[g] = code[g]
    /\ \/ stage[h] = "checking" /\ stage'[h] = "receiving"
       \/ stage[h] \in {"checking", "receiving"} /\ stage'[h] = "done"
       \/ /\ stage[h] \in {"producing", "replying"}
          /\ stage'[h] = "done" /\ code'[h] # "OK"
       \/ /\ stage[h] = "handling" /\ ~Valid(Message(h).event)
          /\ stage'[h] = "replying"
       \/ /\ stage[h] = "producing" /\ pc[h] \in {"ok", "failed"}
          /\ stage'[h] = "replying"

\* They receive nothing, send nothing and keep the count.
LEMMA MovesKeeps ==
    ASSUME StreamInv, NEW h \in Callers, Moves(h), GrpcTypes'
    PROVE  StreamInv'
<1>1. /\ UNCHANGED <<script, got, replies, pc, cur, pos, log, hw, req, next, results>>
      /\ StreamOf(h)
  BY DEF Moves, vars, brokerVars, callVars, streamVars, StreamInv
<1>2. OnStream(h)
  BY DEF Moves, OnStream, StreamStages, streamVars
<1>3. Message(h)' = Message(h) /\ \A k : Asked(h, k)' = Asked(h, k)
  BY <1>1 DEF Message, Asked
<1>4. AtMessage(h)'
  <2>1. AtMessage(h)
    BY <1>1 DEF StreamOf
  <2>2. CASE stage'[h] \in {"receiving", "done"}
    <3>1. ~Sent(h)' /\ ~Pending(h)'
      BY <2>2 DEF Sent, Pending
    <3>2. QED
      BY <1>1, <2>1, <2>2, <3>1 DEF AtMessage
  <2>3. CASE /\ stage[h] = "handling" /\ ~Valid(Message(h).event)
             /\ stage'[h] = "replying"
    <3>1. ~Sent(h)'
      BY <1>3, <2>3 DEF Sent, Valid
    <3>2. Pending(h)
      BY <2>3 DEF Pending
    <3>3. QED
      BY <1>1, <1>3, <2>1, <2>3, <3>1, <3>2 DEF AtMessage, Answerable
  <2>4. CASE /\ stage[h] = "producing" /\ pc[h] \in {"ok", "failed"}
             /\ stage'[h] = "replying"
    <3>1. Sent(h) /\ Pending(h)
      BY <2>4 DEF Sent, Pending
    <3>2. QED
      BY <1>1, <1>3, <2>1, <2>4, <3>1 DEF AtMessage, Answerable
  <2>5. QED
    BY <2>2, <2>3, <2>4 DEF Moves
<1>5. Counted(h)'
  BY <1>1, <1>3 DEF Moves, StreamOf, Counted, Pending
<1>6. RightReplies(h)' /\ AcksCommitted(h)'
  BY <1>1, SameReplies DEF Moves
<1>7. SentBehind(h)'
  <2>1. Sent(h)' => Sent(h)
    BY <1>3 DEF Moves, Sent, Valid
  <2>2. QED
    BY <1>1, <2>1 DEF StreamOf, SentBehind, BehindAcks, PartitionOf
<1>8. StreamTypes' /\ AcksInOrder'
  BY <1>1 DEF StreamInv, StreamTypes, AcksInOrder
<1>9. QED
  BY <1>2, <1>4, <1>5, <1>6, <1>7, <1>8, OnStreamKeeps DEF StreamOf

\* Which steps these are.
LEMMA MovingSteps ==
    ASSUME StreamInv, NEW h \in Callers,
           \/ CheckContext(h) \/ RecvEOF(h) \/ RecvFails(h) \/ RejectEvent(h)
           \/ EventProduced(h) \/ StreamPanicked(h) \/ SendReplyFails(h)
    PROVE  StreamInv'
<1>1. GrpcTypes
  BY DEF StreamInv, GrpcInv
<1>2. ASSUME NEW from, NEW to \in StreamStages, Goes(h, from, to), UNCHANGED streamVars
      PROVE  /\ stage[h] = from /\ stage'[h] = to
             /\ UNCHANGED <<vars, req, next, results, lastId, streamVars>>
             /\ \A g \in Callers : g # h => stage'[g] = stage[g] /\ code'[g] = code[g]
             /\ GrpcTypes'
  BY <1>1, <1>2 DEF Goes, GrpcTypes
<1>3. ASSUME NEW from, NEW c \in {"OK", "Internal", "Canceled"}, Ends(h, from, c)
      PROVE  /\ stage[h] = from /\ stage'[h] = "done" /\ code'[h] = c
             /\ UNCHANGED <<vars, req, next, results, lastId, streamVars>>
             /\ \A g \in Callers : g # h => stage'[g] = stage[g] /\ code'[g] = code[g]
             /\ GrpcTypes'
  BY <1>1, <1>3 DEF Ends, Return, GrpcTypes
<1>4. \A s \in {"receiving", "replying"} : s \in StreamStages
  BY DEF StreamStages
<1>5. Moves(h) /\ GrpcTypes'
  <2>1. CASE CheckContext(h)
    BY <1>2, <1>3, <1>4, <2>1 DEF CheckContext, Moves
  <2>2. CASE RecvEOF(h)
    BY <1>3, <2>2 DEF RecvEOF, Moves
  <2>3. CASE RecvFails(h)
    BY <1>3, <2>3 DEF RecvFails, Moves
  <2>4. CASE RejectEvent(h)
    BY <1>2, <1>4, <2>4 DEF RejectEvent, Moves
  <2>5. CASE EventProduced(h)
    BY <1>2, <1>4, <2>5 DEF EventProduced, Moves
  <2>6. CASE StreamPanicked(h)
    BY <1>3, <2>6 DEF StreamPanicked, Moves
  <2>7. CASE SendReplyFails(h)
    BY <1>3, <2>7 DEF SendReplyFails, Moves
  <2>8. QED
    BY <2>1, <2>2, <2>3, <2>4, <2>5, <2>6, <2>7
<1>6. QED
  BY <1>5, MovesKeeps

\* A stream begins with nothing received and nothing sent.
LEMMA OpenStreamKeeps ==
    ASSUME StreamInv, NEW h \in Callers, NEW s \in Scripts, OpenStream(h, s)
    PROVE  StreamInv'
<1>1. /\ UNCHANGED <<vars, req, next, results, lastId, got, replies, code>>
      /\ stage[h] = "idle" /\ stage'[h] = "checking" /\ script'[h] = s
      /\ \A g \in Callers : g # h => stage'[g] = stage[g] /\ script'[g] = script[g]
      /\ GrpcTypes' /\ StreamTypes'
  BY DEF OpenStream, Goes, StreamInv, GrpcInv, GrpcTypes, StreamTypes, StreamStages
<1>2. OnStream(h)
  BY <1>1 DEF OnStream, StreamStages
<1>3. got[h] = 0 /\ replies[h] = << >>
  BY <1>1 DEF StreamInv, StreamOf, AtMessage
<1>4. StreamOf(h)'
  <2>1. ~Sent(h)' /\ ~Pending(h)'
    BY <1>1 DEF Sent, Pending
  <2>2. Asked(h, 0)' = 0
    BY <1>1, FS_EmptySet DEF Asked
  <2>3. Len(s) \in Nat
    BY ScriptsAssumption, LenProperties
  <2>4. Len(<< >>) = 0
    OBVIOUS
  <2>5. QED
    BY <1>1, <1>3, <2>1, <2>2, <2>3, <2>4
    DEF StreamOf, AtMessage, Counted, RightReplies, AcksCommitted, SentBehind
<1>5. AcksInOrder'
  BY <1>1 DEF StreamInv, AcksInOrder
<1>6. QED
  BY <1>1, <1>2, <1>4, <1>5, OnStreamKeeps

\* A message is received; it counts if it has to be answered.
LEMMA RecvMessageKeeps ==
    ASSUME StreamInv, NEW h \in Callers, RecvMessage(h)
    PROVE  StreamInv'
<1> DEFINE k == got[h] + 1
           m == script[h][k]
           to == CASE m.kind = "event" -> "handling"
                   [] m.kind = "ping" -> "replying"
                   [] OTHER -> "checking"
<1>1. /\ StreamTypes /\ GrpcTypes /\ StreamOf(h)
      /\ got[h] \in Nat
  BY DEF StreamInv, StreamTypes, GrpcInv
<1>2. /\ got'[h] = k
      /\ \A g \in Callers : g # h => got'[g] = got[g]
      /\ got' \in [Callers -> Nat]
      /\ UNCHANGED <<vars, req, next, results, code, lastId, script, replies>>
  BY <1>1 DEF RecvMessage, Goes, StreamTypes
<1>3. k \in 1..Len(script[h])
  <2>1. got[h] < Len(script[h]) /\ Len(script[h]) \in Nat
    <3>1. script[h] \in Scripts \cup {<< >>} /\ << >> \in Seq(StreamMessage)
      BY <1>1 DEF StreamTypes
    <3>2. script[h] \in Seq(StreamMessage)
      BY <3>1, ScriptsAssumption
    <3>3. QED
      BY <3>2, LenProperties DEF RecvMessage
  <2>2. QED
    BY <1>1, <2>1
<1>4. m.kind \in {"event", "ping", "config", "unset"}
  BY <1>3, ReceivedMessage
<1>5. Goes(h, "receiving", to)
  BY <1>2 DEF RecvMessage
<1>6. /\ to \in {"handling", "replying", "checking"}
      /\ to = "handling" <=> m.kind = "event"
      /\ to = "replying" <=> m.kind = "ping"
  BY <1>4
<1> HIDE DEF to
<1>7. /\ stage[h] = "receiving" /\ stage'[h] = to
      /\ \A g \in Callers : g # h => stage'[g] = stage[g]
      /\ GrpcTypes' /\ StreamTypes'
  BY <1>1, <1>2, <1>5, <1>6 DEF Goes, GrpcTypes, StreamTypes, StreamStages
<1>8. OnStream(h)
  BY <1>2, <1>6, <1>7 DEF OnStream, StreamStages
<1>9. Message(h)' = m
  BY <1>2 DEF Message
<1>10. /\ Pending(h)' <=> Answerable(m)
       /\ ~Sent(h)' /\ ~Pending(h)
  BY <1>6, <1>7, <1>9 DEF Pending, Answerable, Sent
<1>11. AtMessage(h)'
  BY <1>1, <1>2, <1>3, <1>6, <1>7, <1>9, <1>10 DEF AtMessage, Answerable
<1>12. \A n : Asked(h, n)' = Asked(h, n)
  BY <1>2 DEF Asked
<1>13. /\ Asked(h, got[h]) = Len(replies[h]) /\ Asked(h, got[h]) \in Nat
       /\ Answerable(m) => Asked(h, k) = Asked(h, got[h]) + 1
       /\ ~Answerable(m) => Asked(h, k) = Asked(h, got[h])
  <2>1. Asked(h, got[h]) = Len(replies[h])
    BY <1>1, <1>7, <1>10 DEF StreamOf, Counted
  <2>2. QED
    BY <1>1, <2>1, AskedNext
<1> HIDE DEF m
<1>14. Counted(h)'
  <2>1. Asked(h, got[h])' = Asked(h, k)
    BY <1>2, <1>12
  <2>2. QED
    BY <1>2, <1>6, <1>7, <1>10, <1>13, <2>1 DEF Counted
<1>15. RightReplies(h)'
  <2> SUFFICES ASSUME NEW n \in 1..k, Answerable(script[h][n]),
                      Asked(h, n) <= Len(replies[h])
               PROVE  Answers(replies[h][Asked(h, n)], script[h][n])'
    BY <1>2, <1>12 DEF RightReplies
  <2>1. n # k
    BY <1>13 DEF m
  <2>2. n \in 1..got[h]
    BY <1>1, <2>1
  <2>3. PICK reply, msg : reply = replies[h][Asked(h, n)] /\ msg = script[h][n]
    OBVIOUS
  <2>4. Answers(reply, msg)'
    BY <1>2, <2>2, <2>3, RepliesStay
  <2>5. QED
    BY <1>2, <1>12, <2>3, <2>4 DEF Answers, CommittedAt
<1>16. AcksCommitted(h)'
  BY <1>1, <1>2 DEF StreamOf, AcksCommitted, vars, brokerVars
<1>17. SentBehind(h)'
  BY <1>10 DEF SentBehind
<1>18. AcksInOrder'
  BY <1>2 DEF StreamInv, AcksInOrder
<1>19. QED
  BY <1>7, <1>8, <1>11, <1>14, <1>15, <1>16, <1>17, <1>18, OnStreamKeeps DEF StreamOf

\* The producer is handed the event of a message.
LEMMA HandleEventKeeps ==
    ASSUME StreamInv, NEW h \in Callers, HandleEvent(h)
    PROVE  StreamInv'
<1> DEFINE item == Message(h).event
<1>1. /\ StreamTypes /\ GrpcTypes /\ TypeOK /\ StreamOf(h) /\ AtMessage(h)
      /\ stage[h] = "handling" /\ Valid(item)
  BY ProducerParts DEF StreamInv, GrpcInv, StreamOf, HandleEvent
<1>2. Message(h).kind = "event" /\ Pending(h) /\ got[h] \in 1..Len(script[h])
  BY <1>1 DEF AtMessage, Pending
<1>3. Sendable(item)
  BY <1>2, ReceivedMessage DEF Message
<1>4. /\ EventOf(item) \in Event
      /\ lastId' \in 0..MaxIds
      /\ \E n \in Nat : EventOf(item) = WithId(item, n) /\ (item.id # 0 => n = item.id)
  BY <1>1, <1>3, EventOfItem DEF HandleEvent, GrpcTypes
<1>5. /\ ProduceEvent(h, EventOf(item))
      /\ UNCHANGED <<req, next, results, code, script, got, replies>>
      /\ stage'[h] = "producing"
      /\ \A g \in Callers : g # h => stage'[g] = stage[g]
      /\ GrpcTypes' /\ StreamTypes'
  BY <1>1, <1>4 DEF HandleEvent, GrpcTypes, StreamTypes, StreamStages, streamVars
<1>6. [Step]_vars
  BY <1>4, <1>5 DEF Step
<1>7. cur'[h] = EventOf(item) /\ pc'[h] \in {"checked", "failed"}
  BY <1>1, <1>5 DEF ProduceEvent, BeginCall, TypeOK
<1>8. OnStream(h)
  BY <1>1, <1>4, <1>5 DEF OnStream, StreamStages
<1>9. Message(h)' = Message(h) /\ Asked(h, got[h])' = Asked(h, got[h])
  BY <1>5 DEF Message, Asked
<1>10. Pending(h)' /\ Sent(h)'
  BY <1>5 DEF Pending, Sent
<1>11. AtMessage(h)'
  BY <1>1, <1>2, <1>4, <1>5, <1>7, <1>9 DEF AtMessage, Valid
<1>12. Counted(h)'
  BY <1>1, <1>2, <1>5, <1>9, <1>10 DEF StreamOf, Counted
<1>13. RightReplies(h)' /\ AcksCommitted(h)'
  BY <1>5, <1>6, SameReplies
<1>14. SentBehind(h)'
  BY <1>7 DEF SentBehind
<1>15. AcksInOrder'
  BY <1>5 DEF StreamInv, AcksInOrder
<1>16. QED
  BY <1>5, <1>8, <1>11, <1>12, <1>13, <1>14, <1>15, OnStreamKeeps DEF StreamOf

\* The reply to h's message is true, and its record lies behind the earlier ones.
LEMMA ReplyIsRight ==
    ASSUME StreamInv, NEW h \in Callers, stage[h] = "replying"
    PROVE  /\ ReplyOf(h) \in ReplyRecord
           /\ Answers(ReplyOf(h), Message(h))
           /\ ReplyOf(h).kind = "ack" =>
                 /\ ReplyOf(h).part \in Partitions
                 /\ ReplyOf(h).pos \in 1..hw[ReplyOf(h).part]
                 /\ BehindAcks(h, ReplyOf(h).part, ReplyOf(h).pos)
<1>1. /\ AtMessage(h) /\ SentBehind(h) /\ TypeOK /\ HwWithinLog
      /\ OnlyAdmittedStored /\ ReturnedCommitted
  BY ProducerParts DEF StreamInv, GrpcInv, StreamOf
<1>2. Pending(h) /\ Message(h).kind \in {"event", "ping"}
  BY <1>1 DEF AtMessage, Pending, Answerable
<1>3. CASE Message(h).kind = "ping"
  BY <1>3 DEF ReplyOf, ReplyRecord, Answers
<1>4. CASE Message(h).kind = "event" /\ ~(Valid(Message(h).event) /\ pc[h] = "ok")
  BY <1>4 DEF ReplyOf, ReplyRecord, Answers
<1>5. CASE Message(h).kind = "event" /\ Valid(Message(h).event) /\ pc[h] = "ok"
  <2> DEFINE item == Message(h).event
             p == PartitionOf(cur[h])
  <2>1. ReplyOf(h) = [kind |-> "ack", id |-> cur[h].id, part |-> p, pos |-> pos[h]]
    BY <1>5 DEF ReplyOf
  <2>2. /\ cur[h] \in Event /\ p \in Partitions
        /\ CommittedAt(cur[h], p, pos[h])
    BY <1>1, <1>5, PartitionOfType DEF ReturnedCommitted
  <2>3. Sent(h)
    BY <1>5 DEF Sent
  <2>4. PICK n \in Nat : cur[h] = WithId(item, n) /\ (item.id # 0 => n = item.id)
    BY <1>1, <2>3 DEF AtMessage
  <2>5. /\ cur[h].id = n
        /\ cur[h].type = item.type
        /\ cur[h].finite = item.finite
    BY <2>4 DEF WithId
  <2>6. cur[h].finite = TRUE
    <3>1. /\ hw[p] \in Nat /\ Len(log[p]) \in Nat /\ hw[p] <= Len(log[p])
      BY <1>1, <2>2, LenProperties DEF TypeOK, BrokerTypeOK, HwWithinLog
    <3>2. pos[h] \in 1..Len(log[p]) /\ log[p][pos[h]] = cur[h]
      BY <2>2, <3>1 DEF CommittedAt
    <3>3. Admitted(cur[h])
      BY <1>1, <2>2, <3>2 DEF OnlyAdmittedStored
    <3>4. QED
      BY <2>2, <3>3, EventAssumption DEF Admitted
  <2>7. cur[h] = [id |-> n, type |-> item.type, finite |-> TRUE]
    BY <2>4, <2>5, <2>6 DEF WithId
  <2>8. p = HashPartition[item.type]
    BY <2>5 DEF PartitionOf
  <2>9. BehindAcks(h, p, pos[h])
    BY <1>1, <1>5, <2>3 DEF SentBehind
  <2>10. pos[h] \in 1..hw[p] /\ pos[h] \in Nat
    BY <1>1, <2>2 DEF CommittedAt, TypeOK
  <2> HIDE DEF item, p
  <2>11. ReplyOf(h) \in ReplyRecord
    BY <2>1, <2>2, <2>5, <2>10 DEF ReplyRecord
  <2>12. Answers(ReplyOf(h), Message(h))
    <3>1. ReplyOf(h).kind = "ack" /\ ReplyOf(h).id = n /\ ReplyOf(h).part = p
          /\ ReplyOf(h).pos = pos[h]
      BY <2>1, <2>5
    <3>2. CommittedAt([id |-> n, type |-> item.type, finite |-> TRUE], p, pos[h])
      BY <2>2, <2>7
    <3>3. item.id \in {0, n}
      BY <2>4
    <3>4. QED
      BY <1>5, <2>8, <3>1, <3>2, <3>3 DEF Answers, item
  <2>13. QED
    BY <2>1, <2>2, <2>9, <2>10, <2>11, <2>12
<1>6. QED
  BY <1>2, <1>3, <1>4, <1>5

\* The reply is the answer to the last event or ping received.
LEMMA SendReplyKeeps ==
    ASSUME StreamInv, NEW h \in Callers, SendReply(h)
    PROVE  StreamInv'
<1> DEFINE rep == ReplyOf(h)
           s == replies[h]
<1>1. /\ StreamTypes /\ GrpcTypes /\ StreamOf(h) /\ AtMessage(h)
      /\ stage[h] = "replying" /\ Pending(h)
  BY DEF StreamInv, GrpcInv, StreamOf, SendReply, Goes, Pending
<1>2. /\ rep \in ReplyRecord
      /\ Answers(rep, Message(h))
      /\ rep.kind = "ack" => /\ rep.part \in Partitions
                             /\ rep.pos \in 1..hw[rep.part]
                             /\ BehindAcks(h, rep.part, rep.pos)
  BY <1>1, ReplyIsRight
<1> HIDE DEF rep
<1>3. s \in Seq(ReplyRecord)
  BY <1>1 DEF StreamTypes
<1>4. /\ Append(s, rep) \in Seq(ReplyRecord)
      /\ Len(s) \in Nat /\ Len(Append(s, rep)) = Len(s) + 1
      /\ \A i \in 1..Len(s) : Append(s, rep)[i] = s[i]
      /\ Append(s, rep)[Len(s) + 1] = rep
  BY <1>2, <1>3, AppendProperties, LenProperties
<1>5. /\ replies'[h] = Append(s, rep)
      /\ \A g \in Callers : g # h => replies'[g] = replies[g]
      /\ replies' \in [Callers -> Seq(ReplyRecord)]
  BY <1>1, <1>4 DEF SendReply, StreamTypes, rep
<1>6. /\ UNCHANGED <<vars, req, next, results, code, script, got>>
      /\ stage'[h] = "checking"
      /\ \A g \in Callers : g # h => stage'[g] = stage[g]
      /\ GrpcTypes' /\ StreamTypes'
  BY <1>1, <1>5 DEF SendReply, Goes, GrpcTypes, StreamTypes, StreamStages
<1>7. OnStream(h)
  BY <1>1, <1>5, <1>6 DEF OnStream, StreamStages
<1>8. /\ got[h] \in Nat \ {0} /\ got[h] \in 1..Len(script[h])
      /\ Answerable(script[h][got[h]])
  BY <1>1 DEF AtMessage, Message
<1>9. /\ Message(h) = script[h][got[h]]
      /\ \A k : Asked(h, k)' = Asked(h, k)
      /\ Asked(h, got[h]) = Len(s) + 1
  BY <1>1, <1>6 DEF Message, Asked, StreamOf, Counted
<1>10. \A k \in 1..got[h] :
          (Answerable(script[h][k]) /\ k # got[h]) => Asked(h, k) \in 1..Len(s)
  <2> SUFFICES ASSUME NEW k \in 1..got[h], Answerable(script[h][k]), k # got[h]
               PROVE  Asked(h, k) \in 1..Len(s)
    OBVIOUS
  <2>1. k \in Nat /\ k - 1 \in Nat /\ got[h] - 1 \in Nat /\ k <= got[h] - 1
        /\ (k - 1) + 1 = k /\ (got[h] - 1) + 1 = got[h]
    BY <1>8
  <2>2. Asked(h, k) <= Asked(h, got[h] - 1)
    BY <2>1, AskedMonotone
  <2>3. Asked(h, got[h] - 1) \in Nat /\ Asked(h, got[h]) = Asked(h, got[h] - 1) + 1
    BY <1>8, <2>1, AskedNext
  <2>4. Asked(h, k - 1) \in Nat /\ Asked(h, k) = Asked(h, k - 1) + 1
    BY <2>1, AskedNext
  <2>5. QED
    BY <1>4, <1>9, <2>2, <2>3, <2>4
<1>11. AtMessage(h)'
  <2>1. ~Pending(h)' /\ ~Sent(h)'
    BY <1>6 DEF Pending, Sent
  <2>2. QED
    BY <1>1, <1>6, <1>8, <2>1 DEF AtMessage
<1>12. Counted(h)'
  BY <1>4, <1>5, <1>6, <1>9 DEF Counted, Pending
<1>13. ASSUME NEW k \in 1..got[h], Answerable(script[h][k])
       PROVE  Answers(replies[h][Asked(h, k)], script[h][k])'
  <2>1. PICK reply, m : reply = replies'[h][Asked(h, k)] /\ m = script[h][k]
    OBVIOUS
  <2>2. Answers(reply, m)
    <3>1. CASE k = got[h]
      <4>1. reply = rep /\ m = Message(h)
        BY <1>4, <1>5, <1>9, <2>1, <3>1
      <4>2. QED
        BY <1>2, <4>1
    <3>2. CASE k # got[h]
      <4>1. Asked(h, k) \in 1..Len(s)
        BY <1>10, <1>13, <3>2
      <4>2. reply = s[Asked(h, k)] /\ Asked(h, k) <= Len(replies[h])
        BY <1>4, <1>5, <2>1, <4>1
      <4>3. QED
        BY <1>1, <1>13, <2>1, <4>2 DEF StreamOf, RightReplies
    <3>3. QED
      BY <3>1, <3>2
  <2>3. UNCHANGED <<log, hw>>
    BY <1>6 DEF vars, brokerVars
  <2>4. QED
    BY <1>6, <1>9, <2>1, <2>2, <2>3 DEF Answers, CommittedAt
<1>14. RightReplies(h)'
  BY <1>6, <1>13 DEF RightReplies
<1>15. AcksCommitted(h)'
  <2> SUFFICES ASSUME NEW i \in 1..Len(replies'[h]), replies'[h][i].kind = "ack"
               PROVE  /\ replies'[h][i].part \in Partitions
                      /\ replies'[h][i].pos \in 1..hw[replies'[h][i].part]
    BY <1>6 DEF AcksCommitted, vars, brokerVars
  <2>1. CASE i = Len(s) + 1
    BY <1>2, <1>4, <1>5, <2>1
  <2>2. CASE i \in 1..Len(s)
    BY <1>1, <1>4, <1>5, <2>2 DEF StreamOf, AcksCommitted
  <2>3. QED
    BY <1>4, <1>5, <2>1, <2>2
<1>16. SentBehind(h)'
  BY <1>6 DEF SentBehind, Sent
<1>17. AcksInOrder'
  <2> SUFFICES ASSUME NEW g \in Callers,
                      NEW i \in 1..Len(replies'[g]), NEW j \in 1..Len(replies'[g]),
                      i < j, replies'[g][i].kind = "ack", replies'[g][j].kind = "ack",
                      replies'[g][i].part = replies'[g][j].part
               PROVE  replies'[g][i].pos < replies'[g][j].pos
    BY DEF AcksInOrder
  <2>1. CASE g # h
    BY <1>5, <2>1 DEF StreamInv, AcksInOrder
  <2>2. CASE g = h /\ j = Len(s) + 1
    <3>1. i \in 1..Len(s)
      BY <1>4, <1>5, <2>2
    <3>2. replies'[h][i] = s[i] /\ replies'[h][j] = rep
      BY <1>4, <1>5, <2>2, <3>1
    <3>3. QED
      BY <1>2, <2>2, <3>1, <3>2 DEF BehindAcks
  <2>3. CASE g = h /\ j \in 1..Len(s)
    <3>1. i \in 1..Len(s)
      BY <1>4, <2>3
    <3>2. replies'[h][i] = s[i] /\ replies'[h][j] = s[j]
      BY <1>4, <1>5, <2>3, <3>1
    <3>3. QED
      BY <2>3, <3>1, <3>2 DEF StreamInv, AcksInOrder
  <2>4. QED
    BY <1>4, <1>5, <2>1, <2>2, <2>3
<1>18. QED
  BY <1>6, <1>7, <1>11, <1>12, <1>14, <1>15, <1>16, <1>17, OnStreamKeeps DEF StreamOf

\* A client reads, its context ends, or nothing happens.
LEMMA QuietStreamKeeps ==
    ASSUME StreamInv, UNCHANGED <<grpcVars, script, got, replies>>,
           UNCHANGED vars \/ \E h \in Callers : Cancel(h)
    PROVE  StreamInv'
<1>1. GrpcInv /\ TypeOK /\ GrpcTypes
  BY ProducerParts DEF StreamInv, GrpcInv
<1>2. [Step]_vars
  BY DEF Step
<1>3. UNCHANGED callVars
  BY DEF Cancel, vars
<1>4. GrpcInv'
  <2>1. Elsewhere /\ GrpcTypes'
    BY <1>1, <1>3 DEF Elsewhere, grpcVars, callVars, GrpcInv, GrpcTypes, AtItem
  <2>2. QED
    BY <1>1, <1>2, <2>1, ElsewhereKeeps
<1>5. ASSUME NEW h \in Callers
      PROVE  StreamOf(h)'
  <2>1. Undisturbed(h)
    BY <1>3 DEF Undisturbed, grpcVars, callVars
  <2>2. QED
    BY <1>2, <2>1, UndisturbedKeeps
<1>6. StreamTypes' /\ AcksInOrder'
  BY DEF StreamInv, StreamTypes, AcksInOrder
<1>7. QED
  BY <1>4, <1>5, <1>6 DEF StreamInv

\* Every step of the handlers, the clients, sarama, the brokers and main.
LEMMA StreamInvStep == StreamInv /\ [StreamNext]_allStreamVars => StreamInv'
<1> SUFFICES ASSUME StreamInv, [StreamNext]_allStreamVars
             PROVE  StreamInv'
  OBVIOUS
<1>1. CASE GrpcNext /\ UNCHANGED streamVars
  BY <1>1, RPCsKeepStreams
<1>2. ASSUME NEW h \in Callers, NEW s \in Scripts, OpenStream(h, s)
      PROVE  StreamInv'
  BY <1>2, OpenStreamKeeps
<1>3. ASSUME NEW h \in Callers, StreamStep(h) \/ RecvEOF(h) \/ RecvFails(h)
      PROVE  StreamInv'
  BY <1>3, MovingSteps, HandleEventKeeps, SendReplyKeeps DEF StreamStep, RecvError
<1>4. ASSUME NEW h \in Callers, RecvMessage(h)
      PROVE  StreamInv'
  BY <1>4, RecvMessageKeeps
<1>5. ASSUME NEW h \in Callers, ClientReads(h) \/ CancelStream(h)
      PROVE  StreamInv'
  <2>1. /\ UNCHANGED <<grpcVars, script, got, replies>>
        /\ UNCHANGED vars \/ Cancel(h)
    BY <1>5 DEF ClientReads, CancelStream, allVars, streamVars
  <2>2. QED
    BY <2>1, QuietStreamKeeps
<1>6. CASE UNCHANGED allStreamVars
  BY <1>6, QuietStreamKeeps DEF allStreamVars, allVars, streamVars
<1>7. QED
  BY <1>1, <1>2, <1>3, <1>4, <1>5, <1>6 DEF StreamNext

\* The inductive invariant of the streams.
LEMMA StreamInvariant == StreamSpec => []StreamInv
BY StreamInvInit, StreamInvStep, PTL DEF StreamSpec

-----------------------------------------------------------------------------
(* The theorems about streams.                                             *)

\* Beside streams too, the offsets of a batch that went to one partition grow
\* with the position in the batch: the loop waits for one send to return before
\* it makes the next, and an append is put behind everything committed.
THEOREM BatchOffsetsGrow == StreamSpec => []OffsetsFollowBatch
BY StreamInvariant, PTL DEF StreamInv, GrpcInv

\* The offsets acknowledged on one stream grow within each partition.
THEOREM StreamAcksGrow == StreamSpec => []AcksInOrder
BY StreamInvariant, PTL DEF StreamInv

\* Every event and ping a stream's handler has received has its reply, in order,
\* but at most the last one, and that only when the stream did not end well; and
\* every acknowledgement names an event that is committed where it says.
THEOREM RepliesCount == StreamSpec => []RepliesCanBeCounted
<1>1. StreamInv => RepliesCanBeCounted
  <2> SUFFICES ASSUME StreamInv, NEW h \in Callers
               PROVE  /\ Asked(h, got[h]) - Len(replies[h]) \in
                            IF stage[h] = "done" /\ code[h] = "OK" THEN {0} ELSE {0, 1}
                      /\ RightReplies(h)
    BY DEF RepliesCanBeCounted, RightReplies
  <2>1. /\ StreamTypes /\ AtMessage(h) /\ Counted(h) /\ RightReplies(h)
    BY DEF StreamInv, StreamOf
  <2>2. Len(replies[h]) \in Nat
    BY <2>1, LenProperties DEF StreamTypes
  <2>3. \/ Asked(h, got[h]) = Len(replies[h])
        \/ /\ Asked(h, got[h]) = Len(replies[h]) + 1
           /\ ~(stage[h] = "done" /\ code[h] = "OK")
    BY <2>1 DEF Counted, Pending
  <2>4. QED
    BY <2>1, <2>2, <2>3
<1>2. QED
  BY <1>1, StreamInvariant, PTL

-----------------------------------------------------------------------------
(* The promise of the composition.                                         *)

\* Streams, too, do to the producer what Producer allows its callers to do.
LEMMA StreamIsProducer ==
    ASSUME StreamInv, [StreamNext]_allStreamVars
    PROVE  [Step]_vars
<1>1. CASE GrpcNext
  BY <1>1, GrpcIsProducer DEF StreamInv
<1>2. ASSUME NEW h \in Callers, HandleEvent(h)
      PROVE  Step
  <2>1. Message(h).kind = "event" /\ got[h] \in 1..Len(script[h])
    BY <1>2 DEF StreamInv, StreamOf, AtMessage, HandleEvent, Pending
  <2>2. Sendable(Message(h).event)
    BY <2>1, ReceivedMessage DEF Message, StreamInv
  <2>3. EventOf(Message(h).event) \in Event
    BY <1>2, <2>2, EventOfItem DEF HandleEvent, StreamInv, GrpcInv, GrpcTypes
  <2>4. QED
    BY <1>2, <2>3 DEF HandleEvent, Step
<1>3. ASSUME NEW h \in Callers, CancelStream(h)
      PROVE  Step
  BY <1>3 DEF CancelStream, Step
<1>4. CASE UNCHANGED vars
  BY <1>4
<1>5. QED
  BY <1>1, <1>2, <1>3, <1>4
  DEF StreamNext, OpenStream, StreamStep, CheckContext, RecvMessage, RecvEOF,
      RecvFails, RecvError, RejectEvent, EventProduced, StreamPanicked, SendReply,
      SendReplyFails, ClientReads, Goes, Ends, allVars, allStreamVars

\* RPCs, batches and streams, cancelled at any point, implement together the
\* at-least-once promise of the producer they share.
THEOREM StreamsKeepPromise == StreamSpec => ImplementsAtLeastOnce
<1>1. StreamInit => ALO!Init
  BY RefinementInit DEF StreamInit, GrpcInit
<1>2. (StreamInv => ProducerInv) /\ (StreamInv' => ProducerInv')
  BY DEF StreamInv, GrpcInv
<1>3. StreamInv /\ StreamInv' /\ [StreamNext]_allStreamVars => [ALO!Next]_(ALO!vars)
  BY <1>2, StreamIsProducer, PromiseStep
<1>4. QED
  BY <1>1, <1>3, StreamInvariant, PTL DEF StreamSpec, ImplementsAtLeastOnce, ALO!Spec
=============================================================================
