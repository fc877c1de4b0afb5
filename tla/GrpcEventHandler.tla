-------------------------- MODULE GrpcEventHandler --------------------------
(***************************************************************************)
(* internal/api/grpc/handlers/event_handler.go: the unary and batch RPCs   *)
(* IngestEvent, IngestEventBatch and ValidateEvent, over Producer.         *)
(*                                                                         *)
(* One caller of the producer is one handler goroutine, which serves one   *)
(* RPC.  Unlike the HTTP handlers it passes the RPC's context on, so it    *)
(* may be cancelled (Producer's Cancel) at any point: by the client, its   *)
(* deadline or the connection's end.  Events keep the client's id; the     *)
(* same id may be sent again, by a client that retries.                    *)
(***************************************************************************)
EXTENDS Producer

CONSTANTS
    Requests,   \* the requests clients may send
    NilEvent,   \* the event field of a unary request that leaves it out
    MaxIds      \* bound: ids generated in all

Kinds == {"unary", "batch", "validate"}

ASSUME MaxIdsAssumption == MaxIds \in Nat

\* An event of a request.  id: the client's, or 0 for none; complete: it has a
\* type, a source and data; finite: its data holds no NaN or Inf.
ClientEvent == [id : Nat, type : Types, complete : BOOLEAN, finite : BOOLEAN]

\* The event the producer is given, with the id n.
WithId(item, n) == [id |-> n, type |-> item.type, finite |-> item.finite]

\* Whatever id it has or gets, it is one of the events of the instance.
Sendable(item) ==
    /\ item \in ClientEvent
    /\ \A n \in (1..MaxIds) \cup ({item.id} \ {0}) : WithId(item, n) \in Event

\* Only a unary request can leave its event out, protobuf decodes no list with a
\* hole.
ASSUME GrpcRequestsAssumption ==
    \A r \in Requests :
        /\ r.kind \in Kinds
        /\ r.failFast \in BOOLEAN
        /\ r.items \in Seq(ClientEvent \cup {NilEvent})
        /\ r.kind # "batch" => Len(r.items) = 1
        /\ r.kind = "batch" => \A i \in 1..Len(r.items) : r.items[i] # NilEvent
        /\ \A i \in 1..Len(r.items) : r.items[i] # NilEvent => Sendable(r.items[i])

VARIABLES
    stage,      \* stage[h]: idle, sending, waiting, done
    req,        \* req[h]: the request being served
    next,       \* next[h]: index of its current event
    results,    \* results[h]: results so far, returned when code is OK
    code,       \* code[h]: status code of the RPC once done
    lastId      \* ids handed out by uuid.New

grpcVars == <<stage, req, next, results, code, lastId>>
allVars == <<vars, grpcVars>>

NoRequest == [kind |-> "validate", failFast |-> FALSE, items |-> <<NilEvent>>]

GrpcInit ==
    /\ Init
    /\ stage = [h \in Callers |-> "idle"]
    /\ req = [h \in Callers |-> NoRequest]
    /\ next = [h \in Callers |-> 1]
    /\ results = [h \in Callers |-> << >>]
    /\ code = [h \in Callers |-> "none"]
    /\ lastId = 0

Item(h) == req[h].items[next[h]]

\* validateEvent.
Valid(item) == item # NilEvent /\ item.complete

\* The event given to the producer: uuid.New makes an id if there is none.
EventOf(item) == WithId(item, IF item.id = 0 THEN lastId + 1 ELSE item.id)

\* The id is taken, within the bound on ids.
TakeId(item) ==
    \/ item.id # 0 /\ lastId' = lastId
    \/ item.id = 0 /\ lastId < MaxIds /\ lastId' = lastId + 1

Return(h, c) ==
    /\ stage' = [stage EXCEPT ![h] = "done"]
    /\ code' = [code EXCEPT ![h] = c]

\* Bug: the loop runs once too often.
PastLastItem(h) == next[h] > Len(req[h].items)

LastItem(h) == next[h] = Len(req[h].items)

\* Bug: fail_fast is ignored.
NeverBreaks(h, res) == FALSE

\* fail_fast: the loop breaks behind a result that is not ACCEPTED.
Breaks(h, res) == req[h].failFast /\ res.status # "ACCEPTED"

\* A result of a batch, and the end of its loop or its next round.
AddResult(h, res) ==
    /\ results' = [results EXCEPT ![h] = Append(@, res)]
    /\ \/ /\ LastItem(h) \/ Breaks(h, res)
          /\ Return(h, "OK")
          /\ UNCHANGED next
       \/ /\ ~LastItem(h) /\ ~Breaks(h, res)
          /\ stage' = [stage EXCEPT ![h] = "sending"]
          /\ next' = [next EXCEPT ![h] = @ + 1]
          /\ UNCHANGED code

NotAccepted(id, status) == [id |-> id, status |-> status, part |-> 0, pos |-> 0]

----------------------------------------------------------------------------
(* The handlers.                                                           *)

Arrive(h, r) ==
    /\ stage[h] = "idle"
    /\ req' = [req EXCEPT ![h] = r]
    /\ UNCHANGED <<vars, next, results, lastId>>

\* IngestEvent and ValidateEvent log req.Event.Type before they look whether
\* there is an event: a nil dereference, which the recovery interceptor turns
\* into codes.Internal.
NilDereference(h, r) ==
    /\ Arrive(h, r)
    /\ r.kind # "batch"
    /\ r.items[1] = NilEvent
    /\ Return(h, "Internal")

\* An incomplete event, or a batch without events.
InvalidArgument(h, r) ==
    /\ Arrive(h, r)
    /\ \/ r.kind = "unary" /\ r.items[1] # NilEvent /\ ~Valid(r.items[1])
       \/ r.kind = "batch" /\ r.items = << >>
    /\ Return(h, "InvalidArgument")

\* ValidateEvent reports what validateEvent says, and sends nothing.
Validate(h, r) ==
    /\ Arrive(h, r)
    /\ r.kind = "validate"
    /\ r.items[1] # NilEvent
    /\ Return(h, IF Valid(r.items[1]) THEN "IsValid" ELSE "IsInvalid")

Ingest(h, r) ==
    /\ Arrive(h, r)
    /\ \/ r.kind = "unary" /\ Valid(r.items[1])
       \/ r.kind = "batch" /\ r.items # << >>
    /\ stage' = [stage EXCEPT ![h] = "sending"]
    /\ UNCHANGED code

\* Bug: an invalid event is skipped without a result.
RejectSilently(h) ==
    /\ stage[h] = "sending"
    /\ ~Valid(Item(h)) /\ ~LastItem(h)
    /\ next' = [next EXCEPT ![h] = @ + 1]
    /\ UNCHANGED <<vars, stage, req, results, code, lastId>>

\* An invalid event of a batch.
Reject(h) ==
    /\ stage[h] = "sending"
    /\ ~Valid(Item(h))
    /\ AddResult(h, NotAccepted(Item(h).id, "REJECTED"))
    /\ UNCHANGED <<vars, req, lastId>>

\* ProduceEvent(ctx, event) is called.
SendNext(h) ==
    /\ stage[h] = "sending"
    /\ Valid(Item(h))
    /\ ProduceEvent(h, EventOf(Item(h)))
    /\ TakeId(Item(h))
    /\ stage' = [stage EXCEPT ![h] = "waiting"]
    /\ UNCHANGED <<req, next, results, code>>

\* It returned a partition and an offset.
SendOk(h) ==
    /\ stage[h] = "waiting"
    /\ pc[h] = "ok"
    /\ AddResult(h, [id |-> cur[h].id, status |-> "ACCEPTED",
                     part |-> PartitionOf(cur[h]), pos |-> pos[h]])
    /\ UNCHANGED <<vars, req, lastId>>

\* It returned an error: codes.Internal, or a FAILED result of the batch.
SendFailed(h) ==
    /\ stage[h] = "waiting"
    /\ pc[h] = "failed"
    /\ \/ /\ req[h].kind = "unary"
          /\ Return(h, "Internal")
          /\ UNCHANGED <<next, results>>
       \/ /\ req[h].kind = "batch"
          /\ AddResult(h, NotAccepted(cur[h].id, "FAILED"))
    /\ UNCHANGED <<vars, req, lastId>>

\* It panicked: the recovery interceptor answers codes.Internal, and what a
\* batch had gathered is lost.
SendPanicked(h) ==
    /\ stage[h] = "waiting"
    /\ pc[h] = "panicked"
    /\ results' = [results EXCEPT ![h] = << >>]
    /\ Return(h, "Internal")
    /\ UNCHANGED <<vars, req, next, lastId>>

Receive(h, r) ==
    \/ NilDereference(h, r)
    \/ InvalidArgument(h, r)
    \/ Validate(h, r)
    \/ Ingest(h, r)

HandlerStep(h) ==
    \/ Reject(h)
    \/ SendNext(h)
    \/ SendOk(h)
    \/ SendFailed(h)
    \/ SendPanicked(h)
    \/ SendStep(h) /\ UNCHANGED grpcVars

\* An RPC's context ends no earlier than the RPC starts.
CancelRPC(h) ==
    /\ stage[h] \in {"sending", "waiting"}
    /\ Cancel(h)
    /\ UNCHANGED grpcVars

GrpcNext ==
    \/ \E h \in Callers, r \in Requests : Receive(h, r)
    \/ \E h \in Callers : HandlerStep(h)
    \/ \E h \in Callers : CancelRPC(h)
    \/ (Close \/ CloseReturns \/ Environment) /\ UNCHANGED grpcVars

GrpcSpec == GrpcInit /\ [][GrpcNext]_allVars

----------------------------------------------------------------------------
(* Properties.                                                             *)

\* The variables of the handlers keep their types.
GrpcTypeOK ==
    /\ TypeOK
    /\ stage \in [Callers -> {"idle", "sending", "waiting", "done"}]
    /\ code \in [Callers -> {"none", "OK", "InvalidArgument", "Internal",
                             "IsValid", "IsInvalid"}]
    /\ \A h \in Callers :
          /\ req[h] \in Requests \cup {NoRequest}
          /\ stage[h] \in {"sending", "waiting"} => next[h] \in 1..Len(req[h].items)
          /\ Len(results[h]) <= Len(req[h].items)
    /\ lastId \in 0..MaxIds

\* The i-th result is about the i-th event of the request, whatever was rejected
\* or failed before it; and if it says ACCEPTED, the event it names is committed
\* at the partition and offset it gives.
ResultsAnswerItems ==
    \A h \in Callers : \A i \in 1..Len(results[h]) :
        LET item == req[h].items[i]
            res == results[h][i]
        IN  /\ item.id # 0 => res.id = item.id
            /\ res.status = "REJECTED" <=> ~Valid(item)
            /\ res.status = "ACCEPTED" =>
                  LET e == [id |-> res.id, type |-> item.type, finite |-> TRUE]
                  IN  res.part = PartitionOf(e) /\ CommittedAt(e, res.part, res.pos)

\* The offsets of a batch that went to one partition grow with the position in
\* the batch, although every send may be retried and duplicated.
OffsetsFollowBatch ==
    \A h \in Callers : \A i, j \in 1..Len(results[h]) :
        (/\ i < j
         /\ results[h][i].status = "ACCEPTED"
         /\ results[h][j].status = "ACCEPTED"
         /\ results[h][i].part = results[h][j].part)
        => results[h][i].pos < results[h][j].pos

\* How a batch ends: without fail_fast every event has a result; with it, all
\* before the last were accepted, and the last was too or it is the failure that
\* stopped the batch, behind which nothing was tried.
BatchEnd ==
    \A h \in Callers :
        (stage[h] = "done" /\ code[h] = "OK" /\ req[h].kind = "batch") =>
            \/ /\ ~req[h].failFast
               /\ Len(results[h]) = Len(req[h].items)
            \/ /\ req[h].failFast
               /\ \A i \in 1..(Len(results[h]) - 1) :
                     results[h][i].status = "ACCEPTED"
               /\ \/ Len(results[h]) = Len(req[h].items)
                  \/ results[h][Len(results[h])].status # "ACCEPTED"

\* The events of h's request that are accepted or, their call being past the
\* context check and not refused, may still be.
Kept(h) ==
    {i \in 1..Len(results[h]) : results[h][i].status = "ACCEPTED"}
    \cup {i \in {next[h]} : stage[h] = "waiting" /\ pc[h] \notin {"failed", "panicked"}}

\* Once its context is done, a batch is given up but for one event: the one whose
\* call had already passed the check, which goes to Kafka all the same.  Behind
\* it no event is accepted, although the loop goes on without fail_fast.
CancelStopsBatch == [][\A h \in cancelled : Kept(h)' \subseteq Kept(h)]_allVars

\* Every RPC that starts ends, cancelled or not, even while Kafka is silent: the
\* retries are bounded.  Nothing else bounds it, SendMessage looks at no context.
RPCEnds == \A h \in Callers : stage[h] \in {"sending", "waiting"} ~> stage[h] = "done"
=============================================================================
