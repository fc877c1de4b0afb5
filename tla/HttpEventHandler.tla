-------------------------- MODULE HttpEventHandler --------------------------
(***************************************************************************)
(* internal/api/http/handlers/event_handler.go: the goroutines that serve  *)
(* POST /events, /events/batch and /events/validate, over Producer.        *)
(*                                                                         *)
(* One caller of the producer is one handler goroutine, which serves one   *)
(* request: idle, sending (about to send its next event), waiting (inside  *)
(* SendEvent), done.  SendEvent passes context.Background(), so these      *)
(* callers are never cancelled: neither a client that goes away nor the    *)
(* Timeout middleware's deadline reaches the producer.                     *)
(***************************************************************************)
EXTENDS Producer

CONSTANTS
    Requests,   \* the requests clients may send
    BadItem,    \* an item that lacks a required field (type, source, data)
    MaxBatch,   \* the max=100 tag of BatchEventRequest.Events
    MaxIds      \* bound: events created in all

Kinds == {"single", "batch", "validate"}

\* items: the event types in the body, or BadItem; json: the body parses.
ASSUME RequestsAssumption ==
    \A r \in Requests :
        /\ r.kind \in Kinds
        /\ r.json \in BOOLEAN
        /\ r.items \in Seq(Types \cup {BadItem})
        /\ r.kind # "batch" => Len(r.items) = 1

ASSUME MaxBatchAssumption == MaxBatch \in Nat
ASSUME MaxIdsAssumption == MaxIds \in Nat
ASSUME IdsAssumption == [id : 1..MaxIds, type : Types, finite : {TRUE}] \subseteq Event

VARIABLES
    stage,      \* stage[h]: idle, sending, waiting, done
    req,        \* req[h]: the request being served
    events,     \* events[h]: the events built from it (ToEvent)
    next,       \* next[h]: index of the event being sent
    reply,      \* reply[h]: status and the ids the body names
    lastId      \* ids handed out by uuid.New

httpVars == <<stage, req, events, next, reply, lastId>>
allVars == <<vars, httpVars>>

NoRequest == [kind |-> "validate", json |-> FALSE, items |-> <<BadItem>>]
NoReply == [status |-> 0, named |-> << >>]

HttpInit ==
    /\ Init
    /\ stage = [h \in Callers |-> "idle"]
    /\ req = [h \in Callers |-> NoRequest]
    /\ events = [h \in Callers |-> << >>]
    /\ next = [h \in Callers |-> 1]
    /\ reply = [h \in Callers |-> NoReply]
    /\ lastId = 0

\* The required tags of EventRequest.
ValidItem(item) == item # BadItem

\* Bug: the dive tag is forgotten.
ValidWithoutDive(r) ==
    /\ r.json
    /\ Len(r.items) \in 1..MaxBatch
    /\ r.kind # "batch" => ValidItem(r.items[1])

\* ShouldBindJSON, then validator.Struct with the dive tag: one bad item
\* refuses the whole batch.
ValidRequest(r) ==
    /\ r.json
    /\ Len(r.items) \in 1..MaxBatch
    /\ \A i \in 1..Len(r.items) : ValidItem(r.items[i])

\* The items that pass their own validation, by position.
GoodItems(r) == {i \in 1..Len(r.items) : ValidItem(r.items[i])}

\* The k-th member of a set of positions.
Nth(S, k) == CHOOSE i \in S : Cardinality({j \in S : j <= i}) = k

\* ToEvent on every good item, in their order and with fresh ids.
ToEvents(r) ==
    [k \in 1..Cardinality(GoodItems(r)) |->
        [id |-> lastId + k, type |-> r.items[Nth(GoodItems(r), k)], finite |-> TRUE]]

\* The status of a batch none of whose sends failed.
AcceptedStatus(r) ==
    IF GoodItems(r) = 1..Len(r.items) THEN 202 ELSE 207

Reply(h, status, named) ==
    /\ stage' = [stage EXCEPT ![h] = "done"]
    /\ reply' = [reply EXCEPT ![h] = [status |-> status, named |-> named]]

----------------------------------------------------------------------------
(* The handlers.                                                           *)

\* invalid_json or validation_failed, in all three handlers.
Refuse400(h, r) ==
    /\ stage[h] = "idle"
    /\ ~ValidRequest(r)
    /\ req' = [req EXCEPT ![h] = r]
    /\ Reply(h, 400, << >>)
    /\ UNCHANGED <<vars, events, next, lastId>>

\* ValidateEvent: the event is built, its id reported, nothing is sent.
DryRun(h, r) ==
    /\ stage[h] = "idle"
    /\ ValidRequest(r)
    /\ r.kind = "validate"
    /\ req' = [req EXCEPT ![h] = r]
    /\ events' = [events EXCEPT ![h] = ToEvents(r)]
    /\ lastId' = lastId + Len(ToEvents(r))
    /\ Reply(h, 200, ToEvents(r))
    /\ UNCHANGED <<vars, next>>

\* IngestEvent and IngestBatch: all events are built before one is sent.
Ingest(h, r) ==
    /\ stage[h] = "idle"
    /\ ValidRequest(r)
    /\ r.kind # "validate"
    /\ req' = [req EXCEPT ![h] = r]
    /\ events' = [events EXCEPT ![h] = ToEvents(r)]
    /\ lastId' = lastId + Len(ToEvents(r))
    /\ stage' = [stage EXCEPT ![h] = "sending"]
    /\ UNCHANGED <<vars, next, reply>>

\* SendEvent, and SendBatchEvents' loop, one event at a time.
SendNext(h) ==
    /\ stage[h] = "sending"
    /\ ProduceEvent(h, events[h][next[h]])
    /\ stage' = [stage EXCEPT ![h] = "waiting"]
    /\ UNCHANGED <<req, events, next, reply, lastId>>

\* Bugs: the loop runs once too often; it returns in its first round.
OneMoreToSend(h) == next[h] <= Len(events[h])
NoMoreToSend(h) == FALSE

MoreToSend(h) == next[h] < Len(events[h])

\* SendEvent returned nil: on to the next event, or the answer.
SendOk(h) ==
    /\ stage[h] = "waiting"
    /\ pc[h] = "ok"
    /\ \/ /\ MoreToSend(h)
          /\ next' = [next EXCEPT ![h] = @ + 1]
          /\ stage' = [stage EXCEPT ![h] = "sending"]
          /\ UNCHANGED reply
       \/ /\ ~MoreToSend(h)
          /\ Reply(h, AcceptedStatus(req[h]), events[h])
          /\ UNCHANGED next
    /\ UNCHANGED <<vars, req, events, lastId>>

\* Bug: the loop goes on after an error.
SendFailedGoesOn(h) ==
    /\ stage[h] = "waiting"
    /\ pc[h] = "failed"
    /\ MoreToSend(h)
    /\ next' = [next EXCEPT ![h] = @ + 1]
    /\ stage' = [stage EXCEPT ![h] = "sending"]
    /\ UNCHANGED <<vars, req, events, reply, lastId>>

\* The ids in the body of a 500: a single event's, none for a batch.
NamedOnFailure(h) == IF req[h].kind = "single" THEN events[h] ELSE << >>

\* SendEvent returned an error: 500.  A batch stops there.
SendFailed(h) ==
    /\ stage[h] = "waiting"
    /\ pc[h] = "failed"
    /\ Reply(h, 500, NamedOnFailure(h))
    /\ UNCHANGED <<vars, req, events, next, lastId>>

\* SendMessage panicked: gin's recovery answers 500 with no body.
SendPanicked(h) ==
    /\ stage[h] = "waiting"
    /\ pc[h] = "panicked"
    /\ Reply(h, 500, << >>)
    /\ UNCHANGED <<vars, req, events, next, lastId>>

Receive(h, r) == Refuse400(h, r) \/ DryRun(h, r) \/ Ingest(h, r)

HandlerStep(h) ==
    \/ SendNext(h)
    \/ SendOk(h)
    \/ SendFailed(h)
    \/ SendPanicked(h)
    \/ SendStep(h) /\ UNCHANGED httpVars

\* main.go's deferred producer.Close runs beside the handlers when
\* http.Server.Shutdown gave up waiting for them.
HttpNext ==
    \/ \E h \in Callers, r \in Requests :
          lastId + Len(r.items) <= MaxIds /\ Receive(h, r)
    \/ \E h \in Callers : HandlerStep(h)
    \/ (Close \/ CloseReturns \/ Environment) /\ UNCHANGED httpVars

HttpSpec == HttpInit /\ [][HttpNext]_allVars

----------------------------------------------------------------------------
(* Properties.                                                             *)

\* The variables of the handlers keep their types.
HttpTypeOK ==
    /\ TypeOK
    /\ stage \in [Callers -> {"idle", "sending", "waiting", "done"}]
    /\ \A h \in Callers :
          /\ req[h] \in Requests \cup {NoRequest}
          /\ events[h] \in Seq(Event)
          /\ stage[h] \in {"sending", "waiting"} => next[h] \in 1..Len(events[h])
          /\ reply[h].status \in {0, 200, 202, 207, 400, 500}
    /\ lastId \in 0..MaxIds

\* "Event ingested successfully": every id in a 202 (or 207) body belongs to a
\* committed event, including the first events of a batch whose last was sent
\* long after them.
AcceptedDurable ==
    \A h \in Callers : reply[h].status \in {202, 207} =>
        /\ reply[h].named # << >>
        /\ \A i \in 1..Len(reply[h].named) : Durable(reply[h].named[i])

Precedes(e, f) ==
    PartitionOf(e) = PartitionOf(f) =>
        \A j \in 1..Len(log[PartitionOf(f)]) :
            log[PartitionOf(f)][j] = f =>
                \E i \in 1..(j - 1) : log[PartitionOf(f)][i] = e

\* SendBatchEvents sends in order and stops at the first error: whatever part of
\* a batch is in Kafka, after a 500 too, is a prefix of it, the earlier events
\* are committed, and those of one type are in the order of the request.
BatchPrefix ==
    \A h \in Callers : \A i, j \in 1..Len(events[h]) :
        (i < j /\ Stored(events[h][j])) =>
            /\ Durable(events[h][i])
            /\ Precedes(events[h][i], events[h][j])

\* Not to be ingested: a dry run, a body that does not parse, a batch of the
\* wrong size, or any item without its required fields.
NotForIngestion(r) ==
    \/ r.kind = "validate"
    \/ ~r.json
    \/ Len(r.items) = 0
    \/ Len(r.items) > MaxBatch
    \/ \E i \in 1..Len(r.items) : r.items[i] = BadItem

\* Such a request leaves nothing in Kafka, not even the good items of a batch
\* with one bad item.
RefusedStoresNothing ==
    \A h \in Callers :
        NotForIngestion(req[h]) =>
            \A i \in 1..Len(events[h]) :
                /\ sends[events[h][i]] = 0
                /\ ~Stored(events[h][i])

\* Because dive refuses a batch with a bad item, the per-item failures of
\* IngestBatch and its 207 answer never happen: an ingest is all or an error.
NoPartialAnswer == \A h \in Callers : reply[h].status # 207
=============================================================================
