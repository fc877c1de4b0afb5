--------------------------- MODULE HttpMiddleware ---------------------------
(***************************************************************************)
(* internal/api/http/middleware, in the order server.go gives it: recovery *)
(* (Logger), CORS, RateLimit, Metrics, RequestSizeLimit, then the handler. *)
(*                                                                         *)
(* A worker is the goroutine of a connection, which serves one request     *)
(* after the other.  All workers share one token bucket, a gauge and a     *)
(* counter.  The bucket is golang.org/x/time/rate (external): Allow reads  *)
(* the clock, then takes the limiter's lock; between the two other workers *)
(* may have passed with later times.  What handlers do is HttpEvent-       *)
(* Handler's matter: here they answer, or panic.                           *)
(***************************************************************************)
EXTENDS Integers, FiniteSets

CONSTANTS
    Workers,
    Requests,       \* the requests clients may send
    Burst,          \* rate_limit.burst_size
    Cost,           \* ticks of the clock per request: 1 / requests_per_second
    MaxBytes,       \* RequestSizeLimit's 10 MB
    MaxTime,        \* bound of the clock
    MaxRequests     \* bound: requests sent in all

\* length: the Content-Length header, -1 for a chunked body; size: the bytes up
\* to the end of the JSON value in it, which are all that the binding reads.
ASSUME MiddlewareAssumption ==
    /\ {Burst, Cost, MaxBytes, MaxTime, MaxRequests} \subseteq Nat
    /\ \A r \in Requests :
          /\ r.method \in {"OPTIONS", "GET", "POST"}
          /\ r.size \in Nat
          /\ r.length = -1 \/ r.length >= r.size

ASSUME WorkersAssumption == IsFiniteSet(Workers)

VARIABLES
    now,        \* the clock
    stage,      \* stage[w]: idle, entered, limiting, allowed, handling, left
    req,        \* req[w]: its request
    at,         \* at[w]: the time its Allow has read
    status,     \* status[w]: of its answer, 0 before
    last,       \* the limiter: time of the last request it allowed
    tokens,     \* the limiter: the bucket then, in ticks
    active,     \* http_active_connections
    counted,    \* http_requests_total
    regained,   \* history: by how much last has moved back in all
    tally       \* history: requests by how they went

limiterVars == <<last, tokens, regained>>
metricVars == <<active, counted>>
mwVars == <<now, stage, req, at, status, limiterVars, metricVars, tally>>

Ways == {"sent", "preflight", "limited", "passed", "panicked"}

NoRequest == [method |-> "GET", length |-> 0, size |-> 0]

MwInit ==
    /\ now = 0
    /\ stage = [w \in Workers |-> "idle"]
    /\ req = [w \in Workers |-> NoRequest]
    /\ at = [w \in Workers |-> 0]
    /\ status = [w \in Workers |-> 0]
    /\ last = 0 /\ tokens = Burst * Cost /\ regained = 0
    /\ active = 0 /\ counted = 0
    /\ tally = [x \in Ways |-> 0]

Goes(w, from, to) ==
    /\ stage[w] = from
    /\ stage' = [stage EXCEPT ![w] = to]

Tally(x) == tally' = [tally EXCEPT ![x] = @ + 1]

\* A middleware answers and aborts, or the handler answers.
Answer(w, s) == status' = [status EXCEPT ![w] = s]

Tick ==
    /\ now < MaxTime
    /\ now' = now + 1
    /\ UNCHANGED <<stage, req, at, status, limiterVars, metricVars, tally>>

Arrive(w, r) ==
    /\ tally["sent"] < MaxRequests
    /\ Goes(w, "idle", "entered")
    /\ req' = [req EXCEPT ![w] = r]
    /\ status' = [status EXCEPT ![w] = 0]
    /\ Tally("sent")
    /\ UNCHANGED <<now, at, limiterVars, metricVars>>

\* CORS answers 204 to a preflight request, before it is limited or counted.
Preflight(w) ==
    /\ req[w].method = "OPTIONS"
    /\ Goes(w, "entered", "idle")
    /\ Answer(w, 204)
    /\ Tally("preflight")
    /\ UNCHANGED <<now, req, at, limiterVars, metricVars>>

----------------------------------------------------------------------------
(* RateLimit.                                                              *)

\* limiter.Allow: the time is read ...
ReadClock(w) ==
    /\ req[w].method # "OPTIONS"
    /\ Goes(w, "entered", "limiting")
    /\ at' = [at EXCEPT ![w] = now]
    /\ UNCHANGED <<now, req, status, limiterVars, metricVars, tally>>

Least(a, b) == IF a <= b THEN a ELSE b

\* Bugs: the bucket is made per request; it is not capped at the burst.
FreshBucket(t) == Burst * Cost
UncappedBucket(t) == IF t >= last THEN tokens + (t - last) ELSE tokens

\* ... the bucket at time t: a time before last counts as last.
Bucket(t) == IF t >= last THEN Least(Burst * Cost, tokens + (t - last)) ELSE tokens

\* ... and a token is taken: last becomes t, even when that moves it back.
Allow(w) ==
    /\ Bucket(at[w]) >= Cost
    /\ Goes(w, "limiting", "allowed")
    /\ tokens' = Bucket(at[w]) - Cost
    /\ last' = at[w]
    /\ regained' = IF at[w] < last THEN regained + (last - at[w]) ELSE regained
    /\ Tally("passed")
    /\ UNCHANGED <<now, req, at, status, metricVars>>

\* Too little in it: 429, the limiter is unchanged.
Limit(w) ==
    /\ Bucket(at[w]) < Cost
    /\ Goes(w, "limiting", "idle")
    /\ Answer(w, 429)
    /\ Tally("limited")
    /\ UNCHANGED <<now, req, at, limiterVars, metricVars>>

----------------------------------------------------------------------------
(* Metrics around RequestSizeLimit and the handler.                        *)

\* The gauge goes up; a body announced too large is answered 413.
TooLarge(w) ==
    /\ req[w].length > MaxBytes
    /\ Goes(w, "allowed", "left")
    /\ active' = active + 1
    /\ Answer(w, 413)
    /\ UNCHANGED <<now, req, at, limiterVars, counted, tally>>

EnterHandler(w) ==
    /\ req[w].length <= MaxBytes
    /\ Goes(w, "allowed", "handling")
    /\ active' = active + 1
    /\ UNCHANGED <<now, req, at, status, limiterVars, counted, tally>>

\* Bug: nothing limits what is read of a chunked body.
ReadsAll(r) == TRUE

\* MaxBytesReader lets the binding read the whole JSON value.
Readable(r) == r.size <= MaxBytes

\* A POST needs its body, for Kafka (202) or a dry run (200), and may go wrong
\* behind it; a body that is cut off is invalid_json to the handlers.  GET is
\* health, docs and metrics.  A method or path without a route is answered 404.
Handle(w) ==
    /\ Goes(w, "handling", "left")
    /\ \/ req[w].method = "GET" /\ Answer(w, 200)
       \/ req[w].method = "POST" /\ Readable(req[w])
             /\ \E s \in {200, 202, 500} : Answer(w, s)
       \/ req[w].method = "POST" /\ Answer(w, 400)
       \/ Answer(w, 404)
    /\ UNCHANGED <<now, req, at, limiterVars, metricVars, tally>>

\* The handlers are done: count, then the deferred Dec.
Leave(w) ==
    /\ Goes(w, "left", "idle")
    /\ counted' = counted + 1
    /\ active' = active - 1
    /\ UNCHANGED <<now, req, at, status, limiterVars, tally>>

\* Bug: Dec is not deferred.
PanicSkipsDec(w) ==
    /\ Goes(w, "handling", "idle")
    /\ Answer(w, 500)
    /\ Tally("panicked")
    /\ UNCHANGED <<now, req, at, limiterVars, metricVars>>

\* A panic skips the count but not the deferred Dec; Logger's recovery, further
\* out, answers 500.
Panic(w) ==
    /\ Goes(w, "handling", "idle")
    /\ active' = active - 1
    /\ Answer(w, 500)
    /\ Tally("panicked")
    /\ UNCHANGED <<now, req, at, limiterVars, counted>>

MwNext ==
    \/ Tick
    \/ \E w \in Workers, r \in Requests : Arrive(w, r)
    \/ \E w \in Workers :
          \/ Preflight(w)
          \/ ReadClock(w)
          \/ Allow(w)
          \/ Limit(w)
          \/ TooLarge(w)
          \/ EnterHandler(w)
          \/ Handle(w)
          \/ Leave(w)
          \/ Panic(w)

MwSpec == MwInit /\ [][MwNext]_mwVars

----------------------------------------------------------------------------
(* Properties.                                                             *)

\* The variables keep their types; the bucket is never overdrawn or overfull.
MwTypeOK ==
    /\ now \in 0..MaxTime
    /\ stage \in [Workers -> {"idle", "entered", "limiting", "allowed",
                              "handling", "left"}]
    /\ req \in [Workers -> Requests \cup {NoRequest}]
    /\ at \in [Workers -> 0..MaxTime]
    /\ status \in [Workers -> {0, 200, 202, 204, 400, 404, 413, 429, 500}]
    /\ last \in 0..MaxTime
    /\ tokens \in 0..(Burst * Cost)
    /\ {active, counted, regained} \subseteq Nat
    /\ tally \in [Ways -> Nat]

\* What the limiter lets through: never more than the burst and what the rate
\* adds since the start, plus the time that was credited twice because a worker
\* had read the clock before another one and took the lock after it.
RateBounded == tally["passed"] * Cost <= Burst * Cost + now + regained

\* At any moment the gauge is the number of requests behind the limiter, and the
\* counter accounts for every request that is over, except the preflights, the
\* limited and the panics, which no metric sees.
MetricsAgree ==
    /\ active = Cardinality({w \in Workers : stage[w] \in {"handling", "left"}})
    /\ counted = tally["sent"] - tally["preflight"] - tally["limited"]
                 - tally["panicked"] - Cardinality({w \in Workers : stage[w] # "idle"})

\* Nothing is ingested from a body whose JSON is longer than the limit, whatever
\* its Content-Length says or fails to say; and a body is answered 413 only if it
\* was announced too large.
OversizeRefused ==
    \A w \in Workers :
        /\ status[w] = 202 => req[w].size <= MaxBytes /\ req[w].length <= MaxBytes
        /\ status[w] = 413 => req[w].length > MaxBytes
=============================================================================
