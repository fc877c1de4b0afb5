# Verification of the event gateway

TLA+ modules, TLC runs and TLAPS proofs for the one program of this repository
that has behaviour of its own: `services/event-gateway`, a Go process that
accepts events over HTTP and gRPC and writes them to one Kafka topic. The other
services of `PROJECT-PLAN.md` exist as documents only.

Paths below are relative to `services/event-gateway/`.

## 1. Inventory

| component | state it keeps | operations | what is hard about it |
|---|---|---|---|
| Kafka producer wrapper, `internal/kafka/producer.go` | one sarama `SyncProducer`, shared by all handlers | `ProduceEvent`, `SendEvent`, `SendBatchEvents`, `Close`, `IsHealthy` | retries without idempotence, failover, the context checked once, `Close` beside callers |
| HTTP event handlers, `internal/api/http/handlers/event_handler.go`, `internal/models/event.go` | per request: the bound body, the events built from it | `IngestEvent`, `IngestBatch`, `ValidateEvent` | failure in the middle of a batch, `SendEvent` without a context |
| gRPC unary and batch handlers, `internal/api/grpc/handlers/event_handler.go` | per RPC: results so far | `IngestEvent`, `IngestEventBatch`, `ValidateEvent`, `HealthCheck` | cancellation, `fail_fast`, result alignment, panics |
| gRPC stream, same file, 197-287 and 362-395 | per stream: nothing between messages | `StreamEvents`, `handleStreamEvent` | replies that name no message, a client that does not read, the end of a stream at any point |
| process lifecycle, `cmd/gateway/main.go`, `internal/api/grpc/server/server.go` | the two servers, `s.server`, `grpcErrChan` | start, select, `Shutdown`, `Stop`, deferred `Close` | five goroutines, an unsynchronised pointer, a deadline for half of the shutdown, three ways to end without it |
| gRPC interceptors, `internal/api/grpc/server/interceptors.go` | none | logging, recovery | a panic becomes `codes.Internal` |
| HTTP middleware, `internal/api/http/middleware` | one token bucket, counters, a gauge | recovery, CORS, deadline, rate limit, metrics, size limit | order of the chain, the bucket at its limit, panics through it |
| HTTP server and routes, `internal/api/http/server` | the router | `setupMiddleware`, `setupRoutes` | what runs before what |
| health checks, `health_handler.go`, `HealthCheck` | start time | `Health`, `DetailedHealth`, `Ready`, `Live`, `HealthCheck` | the answers rest on `IsHealthy`, which looks at a pointer |
| configuration, logger, `internal/config` | read once | `Load`, `InitLogger` | failures end the process, or do not |

**Interactions.** The servers start one goroutine per request. An HTTP request
passes the middleware first. A handler calls the producer and blocks until sarama
answers; HTTP handlers pass `context.Background()`, gRPC handlers the RPC's own
context. `main` owns the order of the end: HTTP, gRPC, producer. Nothing else is
shared except the rate limiter and the metrics.

**What makes each component correct.** The producer: an acknowledged event stays
where the acknowledgement said, refused ones leave no trace, duplicates are
bounded, calls and `Close` return. The handlers: the answer agrees with what is
in Kafka, item by item, whatever failed; every request is answered, every stream
ends when its client has gone. The middleware: the limiter admits no more than it
should, the metrics agree with what happened, nothing too large is ingested. The
lifecycle: nothing is torn down under a handler without cause, a signal ends the
process. The probes: what they vouch for is so (section 5: it is not).

## 2. Modules

```
Kafka ── Producer ─┬─ ProducerRefinement ── (INSTANCE) AtLeastOnce
                   │        ├─ MCProducer
                   │        └─ RefinementProofs (also EXTENDS CallProofs)
                   ├─ ProducerProofs ── CallProofs
                   ├─ HttpEventHandler ─┬─ MCHttpEventHandler ─┐
                   │                    ├─ HttpDeadline ───────┴─ MCHttpDeadline
                   │                    └─ HttpProofs (and RefinementProofs)
                   ├─ GrpcEventHandler ─┬─ MCGrpcEventHandler ─┐
                   │                    └─ GrpcStream ─┬───────┴─ MCGrpcStream
                   │                                   └─ GrpcProofs (and RefinementProofs)
                   └─ Gateway ─┬─ MCGateway
                         │     └─ GatewayProofs (and RefinementProofs,
                         │                       INSTANCE LifecycleProofs)
                         └─ (INSTANCE) Lifecycle ─┬─ MCLifecycle
                                                  └─ LifecycleProofs
HttpMiddleware ─┬─ MCHttpMiddleware
                └─ MiddlewareProofs
```

**Kafka** (external). The repository contains no broker. A partition is the log
of its current leader and a high watermark. `AppendRecord` is a produce request,
`ReplicateRecord` the in-sync replicas' fetch, `FailoverTo` the election of a
replica that holds at least the committed prefix (unclean election off). The key
is the event's type (`producer.go:62`) and the partitioner a hash of it (`:30`),
so the partition is a function `HashPartition` of the type; this holds while the
number of partitions does not change.

**Producer.** A caller is a handler goroutine with at most one call outstanding.
`ProduceEvent` is its beginning (`:44-57`): an error if the context is done or
`json.Marshal` fails, else the call is `checked`. The hand-over to `SendMessage`
(`:82`) is a step of its own, `HandOver`, because the context may end and `Close`
may come in between, and `SendMessage` looks at no context: `Admit` takes the
message, `ShuttingDown` refuses it behind `AsyncClose`, `SendOnClosed` is the panic
of a send on the closed input channel. Between `queued` and the answer the steps
are sarama's (external, from how `NewProducer` configures it): flush, append,
answer once all in-sync replicas have the record (`:23`), a failure with or
without the record having been appended, a timeout whose request is still on the
network (`late`), a retry while `tries < Retry.Max` (`:24`). `Close` stops
admission and returns when nothing is in flight. `sends` and `acked` are history
variables.

**AtLeastOnce** is the promise: an append-only log per partition, fed only with
offered events, and confirmations that name durable records. It admits
duplicates, and events that are durable although the caller was told they
failed; both happen in this code. **ProducerRefinement** maps the producer's
state onto it (`offered` = admitted, `durable` = the committed prefix of each
log, `confirmed` = what `ProduceEvent` returned).

**HttpEventHandler** is Producer with the HTTP handlers on top: receive and
validate (`Refuse400`, `DryRun`, `Ingest`), then one `ProduceEvent` after the
other (`SendNext`, `SendOk`), and the answers 202/207, 500 or the recovered
panic. All events of a batch are built, with their ids, before the first is sent.
**HttpDeadline** puts beside it the one thing the Timeout middleware does, the
end of a context that nobody looks at.

**GrpcEventHandler** is Producer with the unary and batch RPCs on top. Here ids
may come from the client (and repeat), data may be non-finite, the context may
end at any point of the RPC (`CancelRPC`), and a batch keeps one result per
event (`AddResult`), broken off by `fail_fast`.

**GrpcStream** adds `StreamEvents`: the context check at the top of the loop, a
message out of `Recv` (what the client sends is a *script*, half-closed behind
its last message), `handleStreamEvent` with the stream's context, the reply, and
`Send`, which takes a reply while fewer than `Window` are unread. The client may
never read, send or half-close; its stream may be cut at any point
(`CancelStream`: the client, its deadline, or the connection's age). `Recv` may
fail on a stream that was cut (`RecvError`) and on one that was not, by a message
that is too large or cannot be decoded (`RecvFails`).

**HttpMiddleware** is the chain of `setupMiddleware` with a worker per
connection. The bucket is `golang.org/x/time/rate` (external), with the one
detail that matters: `Allow` reads the clock (`ReadClock`) before it takes the
limiter's lock (`Allow`, `Limit`), so two workers may pass in the other order. The
handlers behind it answer anything they can answer (a dry run 200, a path without
a route 404), or panic; the size of a body
is compared with its announced length and with what the binding reads of it.

**Lifecycle** is `main.go` with `Start` and `Stop`: the main goroutine's program
counter from `config.Load` on, the two server goroutines, `s.server`,
`grpcErrChan`, the shutdown deadline and the number of running handlers of each
kind. The process ends as *exited* (the return of main), *fatal* (`logger.Fatal`:
configuration, producer, an HTTP listener that cannot be opened or breaks) or
*killed* (a signal before `signal.Notify`). The error of `ListenAndServe` and the
`logger.Fatal` behind it (`main.go:64-65`) are two steps, `HttpListenFails` (which
sets `serveErr`) and `HttpFatal`: main may leave the select in between and be
anywhere in its shutdown. When gRPC's listener breaks, `Serve` returns but leaves
the connections it had accepted, and RPCs still start on them (`GrpcAccepts`).

**Gateway** composes Lifecycle and Producer: each caller is an HTTP handler, an
RPC or a stream, `busy` says which are running, and Lifecycle's counters are the
cardinalities of its parts. Each step of Gateway is a step of one of the two
modules or of both (`StartHandler`, `ReturnHandler`, `CloseEnds`), with the other's
variables left alone. A handler is reduced to calls of `ProduceEvent` and its end;
the context of an RPC or a stream may end at any point (`CancelCall`). Kafka goes on
when the process has ended (`BrokerStep`: late copies, replication, failovers). What Lifecycle assumes, that
handlers return, and what Producer leaves open, when `Close` comes and who can
still call, both follow from the other module here.

Definitions marked `Bug` are never used by the specifications. Each is a
plausible mistake that replaces the definition after it, to show that the
property named in `PROJECT.json` can fail.

## 3. Runs

| run | instance | shows |
|---|---|---|
| `producer_safety` | 2 callers, 3 events of one type (one cannot be encoded), 1 partition, 1 retry, 1 failover; 243 k states | the safety properties and the refinement |
| `http_ingest` | 2 handlers, singles, batches of 2, dry runs, every refusal, 1 retry, 1 failover; 960 k states | `AcceptedDurable`, `BatchPrefix`, `RefusedStoresNothing`, `NoPartialAnswer` |
| `http_middleware` | 2 workers, 5 requests, a bucket of 2 that takes 2 ticks per token, 3 ticks; 1 179 k states | `RateBounded`, `MetricsAgree`, `OversizeRefused` |
| `grpc_batch` | 2 handlers, a repeated client id, batches of 2 and 3, one with an event JSON cannot encode, `fail_fast`, requests that send nothing, 1 failover; 575 k states | `ResultsAnswerItems`, `BatchEnd`, `CancelStopsBatch` |
| `grpc_replies` | 1 handler with any unary, batch or stream RPC, 2 partitions, 1 retry, 1 failover; 223 k states | `OffsetsFollowBatch`, `RepliesCanBeCounted`, `AcksInOrder`, `RPCEnds`, `StreamEnds` |
| `lifecycle_shutdown` | both values of `grpc.enabled` and of the age limit, 2 handlers of a kind; 8 k states | `CloseIsLast`, `ShutdownEnds` |
| `gateway_shutdown` | an HTTP handler, an RPC and a stream, 1 event sent up to twice, contexts that end, `grpc.enabled` or not; 1 183 k states | `OnlyAbandonedPanic`, `ExitAbandonsNoCall` |
| `gateway_liveness` | an HTTP handler and a stream, 1 event sent up to twice, 1 retry; 317 k states | `CallsEnd`, `CloseCompletes`, `ShutdownEnds` |
| `lifecycle_grpc_disabled`, `lifecycle_timeout`, `lifecycle_early_stop`, `http_timeout` | | expected violations, section 5 |

**Bounds.** `MaxRetries`, `MaxSends`, `MaxFailovers`, `MaxIds`, `MaxBatch`,
`MaxHandlers`, `MaxLate`, `Impatient`, `MaxTime` and `MaxRequests` are constants named in the guards or
parameters they bound. Two callers are enough for every race, because a call
touches only its own entry and the log. One retry gives every combination of a
first and a last attempt; one failover gives a cut before, between and after the
copies of two callers. Two partitions matter only where the type tells events
apart. `MaxBatch` is 2 for the `max=100` tag. `MaxIds` stops the HTTP clients when as many
events have been built (`Receive`); in the gRPC runs there are more ids than events to
send, and the bound in `TakeId` is never reached. Stream scripts are up to four
messages long and hold every kind of message and every fate of an event; a window
of 1 makes `Send` wait behind the first reply already.

The clock of `http_middleware` goes far enough for a bucket to empty, to gain a
token and to be moved back by a stale reading; without the term `regained`
`RateBounded` fails. Five requests are three more than the burst.

In `gateway_shutdown` retries, failovers and late copies are left out (`MaxRetries`,
`MaxFailovers`, `MaxLate` are 0): none of them can hold a call or make one panic, and
whether a call meets a closed producer depends on when it starts and ends only.
One handler of each kind is one of each way to be waited for, or not.
`gateway_liveness` has a retry, so that `Close` may come while a message waits for
one, and leaves out the RPC, which with the age limit is waited for as the stream is,
and the ends of contexts (`Impatient` is empty), after which calls only fail
earlier. The age limit is on, because without it nothing about the end of the
process can be claimed when a stream is open; `lifecycle_shutdown` has both values.
`GracefulStop`'s GOAWAY leaves a short time in which a client may still start an RPC
on an old connection; the model lets none start, as the RPC is then one that was
started before.

The theorems need none of these bounds: what they state holds for any number of
callers, events, partitions, retries, failovers, handlers and workers, and any
burst and rate.

Deadlock checking is off in all runs: with the bounds used up, and in the real
system with no clients, nothing has to happen.

**Fairness.** `WF(SendStep(c))`: sarama's dial, read and write timeouts end every
attempt, so an admitted message always takes some next step. Acknowledgement is
not assumed: the broker may stay silent for ever. `WF(HandlerStep(h))`,
`WF(StreamStep(h))`, `WF(CloseBegins)`, `WF(CloseEnds)`, `WF(MainStep)`: goroutines
are scheduled. `Recv` of a message, half-close and the client's reading are not
fair, nor are requests, signals and cancellation. `WF(DeadlinePasses)` is the 30 s
timer.

In Lifecycle, `WF(GrpcDone)` assumes that unary handlers return, and `WF(AgeOut)`
that gRPC closes a connection `MaxConnectionAge` plus 5 s after it was made, which
the default configuration has (120 s), and that its streams end then. Both are
checked where the handlers are: `RPCEnds` and `CallsEnd` for the first, `StreamEnds`
for the second. Gateway assumes of a handler only that it has finitely many events
to send and that its goroutine runs (`WF(ReturnHandler(c))`, which is disabled
while sarama has its message). HTTP handlers get the same there, and need it:
Lifecycle does without, as the deadline replaces them. Without the age limit a
client may keep its stream open for ever, and `ShutdownEnds` does not claim
anything.

## 4. Proofs

Every invariant that a run checks is also a theorem, and so are the refinements
and the action property. The proof modules:

| module | about | theorems |
|---|---|---|
| `ProducerProofs` | the log and the calls | `TypeCorrect`, `DurabilityInvariant`, `AckedAreDurable` |
| `CallProofs` | calls against each other | `OneRecordEach`, `CopiesAreBounded` |
| `RefinementProofs` | the promise | `OnlyAdmittedAreStored`, `Refinement` |
| `HttpProofs` | the HTTP handlers | `HttpInvariant`, `HttpTypesHold`, `AcceptedAreDurable`, `BatchesArePrefixes`, `RefusedAreNotStored`, `NeverPartial`, `HttpKeepsPromise` |
| `GrpcProofs` | RPCs, batches and streams | `GrpcTypesHold`, `ResultsAreTrue`, `BatchesEnd`, `CancelStops`, `BatchOffsetsGrow`, `StreamAcksGrow`, `RepliesCount`, `StreamsKeepPromise` |
| `MiddlewareProofs` | the chain | `RateIsBounded`, `MetricsAlwaysAgree`, `MwTypesHold`, `OversizeIsRefused` |
| `LifecycleProofs` | the process | `EndInvariant`, `LifecycleTypes`, `CloseComesLast` |
| `GatewayProofs` | the process with its producer | `GatewayImplementsLifecycle`, `OnlyAbandonedCallsPanic`, `ExitsWithoutCalls`, `GatewayKeepsPromise` |

**Assumptions.** Named where the constants are declared, and evaluated by TLC.
Callers and workers are finite sets (`CallersAssumption`, `WorkersAssumption`);
bounds are naturals; the partitioner is a function of the type
(`HashPartitionAssumption`). A request has one item unless it is a batch
(`RequestsAssumption`, `GrpcRequestsAssumption`), only a unary RPC can lack its
event, and a stream's messages have a known kind (`ScriptsAssumption`). What a
handler can build is an event of the instance (`IdsAssumption`, `Sendable`).
`GatewayAssumption` parts the callers into HTTP, RPC and stream handlers.

**The producer.** `AckedDurable` alone is not inductive. `Acknowledge` records
`pos[c]`, so one has to know that the record is still at that position when the
answer arrives (`StoredInPlace`). A failover must not cut below it, so the
committed prefix must lie within every log (`HwWithinLog`), and `Failover` must
take the calls whose record it cuts out of `stored`. With `TypeOK` this is
`DurabilityInv`.

`OneRecordPerCall` needs
`ReturnedCommitted`: what a call returned is committed where it says, so that a
record appended later lies behind it, also after a failover has cut the log.

`CopiesBounded` counts records, so its proof counts attempts: `AttemptsCounted` adds
to the copies and late copies of an event the set `Left` of the attempts its
running calls may still store with. A call that begins adds `Retry.Max + 1` of
them to both sides; an append or a timeout takes one away and adds one copy, a
retry takes at least the attempt that failed. `Left` is a set of pairs, and the
lemmas about it (`LeftShrinks`, `BeginCallLeft`) are about cardinalities of finite
sets.

**The promise.** `OnlyAdmittedStored`'s conjuncts about `late` and about calls in
flight are its strengthening: they are where an event may be before it is
appended; the one about checked calls keeps data that JSON cannot encode away from
the hand-over. In `Refinement`, `Admit` is `Offer`, `Replicate` is `Commit`, `Acknowledge`
is `Confirm`, everything else stutters; `Failover` does because it cuts above the
high watermark only.

**Composition.** All these proofs are about `Step`, which is Producer's `Next`
for any number of calls: `Next` only adds the bound `MaxSends`, and the handlers
above it do without. `ProducerInv` is what holds of it (`ProducerInvStep`) and
`PromiseStep` the refinement of one step. A module above shows that each of its
steps is a `Step` or leaves the producer alone (`HttpIsProducer`, `GrpcIsProducer`,
`StreamIsProducer`, `GatewayIsProducer`) and has all of it: the theorems named
`...KeepPromise` and `...KeepsPromise` are the at-least-once promise of the whole.

**HTTP.** `HttpInv` says that every event of every request has an id of its own
(`OwnIds`, `FreshIds`), that what was not handed over was never sent (`Untouched`),
that the loop has left committed events behind (`EarlierDurable`), and that each
copy of an event of a batch has one of every earlier one before it (`InOrder`). The
last is what makes `BatchPrefix` inductive: a retry or a late copy of an earlier
event may be appended at any time, but never the first copy of a later one.

**gRPC.** Client ids repeat, so nothing is said of an event's identity.
`GrpcInv` ties the index of the loop to the number of results (`AtItem`), a
result to its item (`RightResult`) and the record in hand to the earlier results of
its partition (`StoredBehind`). `StreamInv` adds the same for a stream: where its
handler is (`AtMessage`), how many replies it owes (`Counted`), and that the record
it holds lies behind all that were acknowledged (`SentBehind`), from which
`AcksInOrder` follows as an append goes behind the committed prefix.
`CancelStops` is an action property, proved from `GrpcInv`. A context that ends
between the check (`producer.go:47`) and the hand-over (`:82`) does not stop that
event, so the property is about what the batch keeps (`Kept`): its accepted results
and the event whose call is under way. Every later call begins behind the end of
the context and fails, so the set can only shrink, though the loop goes on.

**Middleware.** `RateBounded` comes from `Budget`, which adds up what was spent,
what is left in the bucket and the time `last` has gone through: `Allow` moves all
three, backwards in time too, and no other step touches them. `MetricsAgree` is
inductive up to types; each step moves one worker into or out of the two sets it
counts. `OversizeRefused` needs that a handler behind the size limit has a body
whose announced length is within it (`SizeInv`).

**The end of the process.** `CloseIsLast` needs to know how main came to
`closing`: that behind a completed Shutdown no connection is left to bring a
request (`HttpDrained`, which rests on `ListenerClosed`), that without a server
there are no RPCs (`NilServesNobody`), that GracefulStop has waited (`StopDrains`),
and that the producer is closed in no other place (`ClosedAtTheEnd`).

`GatewayImplementsLifecycle` maps the numbers of running handlers to
cardinalities of `busy`. It lets `GatewayProofs` instantiate `LifecycleProofs`
(as `P`), so that `P!EndInv` holds in every state of Gateway; what it says of the
counts, `EndInvAbandons` turns into a statement about callers: when main comes to
`Close`, every handler that still runs was abandoned. With `EndOfMain` (who closes
when, and that a `Fatal` without `serveErr` found no handler) and `CallsOfHandlers`
(only running handlers call, a call panics only on a closed producer) this is
`GatewayInv`. For the orderly exit `ExitAbandonsNoCall` adds `CloseDrains` (sarama's
`Close` returns when it is drained), which comes with `ProducerInv`.
`GatewayKeepsPromise` covers every step of the producer and of Kafka, retries, late
copies, failovers and contexts that end included, before and after the process ends.

**Only model-checked**: the liveness properties `RPCEnds`, `StreamEnds`, `CallsEnd`,
`CloseCompletes` and `ShutdownEnds`. Fairness and ENABLED are out of the prover's
reach.

## 5. Disagreements found

Each has a run that TLC must find violated.

* `lifecycle_grpc_disabled`: `main.go:87` waits for "interrupt signal or gRPC
  error", but the receive at `:94` also succeeds when `grpcErrChan` is closed,
  which happens at once when `grpc.enabled` is false. The gateway then exits.
* `lifecycle_timeout`: `main.go:102` "Graceful shutdown with timeout": the
  timeout reaches HTTP only; `GracefulStop` waits without bound.
* `lifecycle_early_stop`: `README.md:13` promises "connection draining"; `Stop`
  finds `s.server` nil when the signal comes before `server.go:72` was executed,
  and the server starts after it was stopped.
* `http_timeout`: `middleware.go:198` "sets a timeout for request processing":
  the deadline is on a context that no handler passes on, and a batch whose time
  is over goes on sending.

Seen, without a run:

* `event_handler_test.go:143` asserts 200 for a dry run that fails validation;
  `event_handler.go:230` answers 400.
* `kafka.required_acks` (default 1) is never read, the producer always waits for
  all replicas. `wait_for_ack`, and the priority of an event, change nothing.
* `IsHealthy` answers true as long as main runs the servers, and every readiness and
  health answer rests on it. `producer.go:117` says that it "checks if the Kafka
  producer is healthy and can send messages", `health_handler.go:95` "Check Kafka
  connectivity", and the gRPC test `event_handler_test.go:337` that "Kafka should be
  unavailable" without a producer. In Gateway a request on a connection that outlived
  Shutdown's 30 s is served while the producer is closing or closed, and the brokers
  may be silent throughout: the probe says ready although every send fails. No
  property vouches for readiness.
* `event_handler.go:42` of the gRPC handlers dereferences the event before
  `validateEvent` (`:398`) can say "event cannot be nil", so a unary request without
  one is answered `Internal` by the recovery (`NilDereference`); the test at `:320`
  knows of it.
* A signal between the start of the servers and `signal.Notify` ends the process
  without draining or `Close` (`Signal`, `killed`).
* The 207 branch of `IngestBatch` cannot be reached (`NoPartialAnswer`).
* `events.proto` gives priorities a range of 0 to 10, which nothing checks;
  a stream's configuration (compression, batch size, flush interval) is logged and
  otherwise ignored; `server.read_timeout`, `write_timeout` and `idle_timeout` are not
  given to `http.Server`.
* `events_ingested_total` is never incremented; preflights, requests refused by the
  limiter and panics are not counted in `http_requests_total` (`MetricsAgree`).
* The limiter is one for all clients and all routes: the probes take tokens, and
  are answered 429 when there are none.
* The binding decodes one JSON value: bytes behind it, also beyond the size limit,
  are never read.

## 6. Not modelled, and the plan

Left out for good: the merge of defaults, file and environment in `config.Load`
(viper's), the protobuf schema, infrastructure files, the example client and the
documents of services that do not exist. The docs and root pages, `Health` and
`Live` answer constant text. Message headers, timestamps, request ids and log
lines are abstracted away: no property is about them.

Next, in this order:

1. An abstract specification of what the handlers promise a client, refined by
   HttpEventHandler and GrpcEventHandler, in place of invariants side by side.
2. A latency model of the flush timer and the sequential batch against the 30 s
   of the shutdown: a batch of 100 takes up to 50 s when it is alone.
3. Validation as pure functions: HTTP's tags against gRPC's `validateEvent`.
