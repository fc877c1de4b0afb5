-------------------------- MODULE MiddlewareProofs --------------------------
(***************************************************************************)
(* The bound of the rate limiter, the agreement of the metrics and the     *)
(* size limit, for any workers, requests, burst, rate and length of run.   *)
(***************************************************************************)
EXTENDS HttpMiddleware, FiniteSetTheorems, TLAPS

\* The variables the limiter lives on keep their types; times read are past.
LimiterTypeOK ==
    /\ now \in Nat
    /\ at \in [Workers -> Nat]
    /\ last \in Nat
    /\ tokens \in Nat
    /\ regained \in Nat
    /\ tally \in [Ways -> Nat]
    /\ last <= now
    /\ \A w \in Workers : at[w] <= now

\* What was spent and what is left were in the bucket at the start, or came in
\* with the time that last has gone through, some of it twice.
Budget == tally["passed"] * Cost + tokens <= Burst * Cost + last + regained

RateInv == LimiterTypeOK /\ Budget

\* A bucket gains at most the time since last, and is never negative.
LEMMA BucketGains ==
    ASSUME LimiterTypeOK, NEW t \in Nat
    PROVE  /\ Bucket(t) \in Nat
           /\ t >= last => Bucket(t) <= tokens + (t - last)
           /\ t < last => Bucket(t) = tokens
<1>1. Burst * Cost \in Nat
  BY MiddlewareAssumption, SMT
<1> DEFINE full == Burst * Cost
<1> HIDE DEF full
<1>2. full \in Nat
  BY <1>1 DEF full
<1>3. Bucket(t) = IF t >= last THEN Least(full, tokens + (t - last)) ELSE tokens
  BY DEF Bucket, full
<1> QED
  BY <1>2, <1>3, SMT DEF Least, LimiterTypeOK

\* One more request costs one more token.
LEMMA OneMore ==
    ASSUME NEW n \in Nat, NEW c \in Nat
    PROVE  (n + 1) * c = n * c + c /\ n * c \in Nat
  BY SMT

\* Every step keeps the types of the limiter's variables.
LEMMA LimiterTypeStep == LimiterTypeOK /\ [MwNext]_mwVars => LimiterTypeOK'
<1> SUFFICES ASSUME LimiterTypeOK, [MwNext]_mwVars
             PROVE  LimiterTypeOK'
  OBVIOUS
<1> USE DEF LimiterTypeOK
<1>counts. ASSUME NEW x \in Ways, Tally(x)
           PROVE  tally' \in [Ways -> Nat]
  BY <1>counts DEF Tally
<1>ways. {"sent", "preflight", "limited", "passed", "panicked"} \subseteq Ways
  BY DEF Ways
<1>1. CASE Tick
  BY <1>1, SMT DEF Tick, limiterVars
<1>2. ASSUME NEW w \in Workers, NEW r \in Requests, Arrive(w, r)
      PROVE  LimiterTypeOK'
  BY <1>2, <1>counts, <1>ways DEF Arrive, limiterVars
<1>3. ASSUME NEW w \in Workers, Preflight(w)
      PROVE  LimiterTypeOK'
  BY <1>3, <1>counts, <1>ways DEF Preflight, limiterVars
<1>4. ASSUME NEW w \in Workers, ReadClock(w)
      PROVE  LimiterTypeOK'
  BY <1>4 DEF ReadClock, limiterVars
<1>5. ASSUME NEW w \in Workers, Allow(w)
      PROVE  LimiterTypeOK'
  <2>1. tally' \in [Ways -> Nat]
    BY <1>5, <1>counts, <1>ways DEF Allow
  <2>2. at[w] \in Nat /\ Bucket(at[w]) \in Nat /\ Cost \in Nat
    BY BucketGains, MiddlewareAssumption
  <2>3. tokens' \in Nat
    BY <1>5, <2>2, SMT DEF Allow
  <2>4. regained' \in Nat
    BY <1>5, <2>2, SMT DEF Allow
  <2> QED
    BY <1>5, <2>1, <2>2, <2>3, <2>4 DEF Allow
<1>6. ASSUME NEW w \in Workers, Limit(w)
      PROVE  LimiterTypeOK'
  BY <1>6, <1>counts, <1>ways DEF Limit, limiterVars
<1>7. ASSUME NEW w \in Workers, TooLarge(w) \/ EnterHandler(w) \/ Handle(w) \/ Leave(w)
      PROVE  LimiterTypeOK'
  BY <1>7 DEF TooLarge, EnterHandler, Handle, Leave, limiterVars
<1>8. ASSUME NEW w \in Workers, Panic(w)
      PROVE  LimiterTypeOK'
  BY <1>8, <1>counts, <1>ways DEF Panic, limiterVars
<1>9. CASE UNCHANGED mwVars
  BY <1>9 DEF mwVars, limiterVars
<1> QED
  BY <1>1, <1>2, <1>3, <1>4, <1>5, <1>6, <1>7, <1>8, <1>9 DEF MwNext

\* Only Allow touches the budget: it spends a token, and moves last.
LEMMA BudgetStep == RateInv /\ [MwNext]_mwVars => Budget'
<1> SUFFICES ASSUME RateInv, [MwNext]_mwVars
             PROVE  Budget'
  OBVIOUS
<1>types. LimiterTypeOK /\ Budget
  BY DEF RateInv
<1>same. ASSUME tally'["passed"] = tally["passed"], UNCHANGED limiterVars
         PROVE  Budget'
  BY <1>types, <1>same DEF Budget, limiterVars
<1>other. ASSUME NEW x \in Ways \ {"passed"}, Tally(x)
          PROVE  tally'["passed"] = tally["passed"]
  BY <1>types, <1>other DEF Tally, LimiterTypeOK, Ways
<1>ways. {"sent", "preflight", "limited", "panicked"} \subseteq Ways \ {"passed"}
  BY DEF Ways
<1>1. ASSUME NEW w \in Workers, Allow(w)
      PROVE  Budget'
  <2> DEFINE n == tally["passed"]
             t == at[w]
             full == Burst * Cost
  <2>1. /\ n \in Nat /\ t \in Nat /\ Cost \in Nat /\ full \in Nat
        /\ last \in Nat /\ tokens \in Nat /\ regained \in Nat
    <3>1. full \in Nat
      BY MiddlewareAssumption, SMT
    <3> QED
      BY <1>types, <3>1, MiddlewareAssumption DEF LimiterTypeOK, Ways
  <2>2. tally'["passed"] = n + 1
    BY <1>types, <1>1 DEF Allow, Tally, LimiterTypeOK, Ways
  <2>3. (n + 1) * Cost = n * Cost + Cost /\ n * Cost \in Nat
    BY <2>1, OneMore
  <2>4. n * Cost + tokens <= full + last + regained
    BY <1>types DEF Budget
  <2>5. /\ Bucket(t) \in Nat
        /\ t >= last => Bucket(t) <= tokens + (t - last)
        /\ t < last => Bucket(t) = tokens
    BY <1>types, <2>1, BucketGains
  <2>6. /\ tokens' = Bucket(t) - Cost
        /\ last' = t
        /\ regained' = IF t < last THEN regained + (last - t) ELSE regained
    BY <1>1 DEF Allow
  <2> DEFINE spent == n * Cost
             left == Bucket(t)
  <2>7. Budget' <=> (n + 1) * Cost + tokens' <= full + last' + regained'
    BY <2>2 DEF Budget
  <2> HIDE DEF n, t, full, spent, left
  <2>8. spent + Cost + (left - Cost) <= full + last' + regained'
    <3>1. spent \in Nat /\ left \in Nat /\ spent + tokens <= full + last + regained
      BY <2>3, <2>4, <2>5 DEF spent, left
    <3>2. CASE t >= last
      BY <2>1, <2>5, <2>6, <3>1, <3>2, SMT DEF left
    <3>3. CASE t < last
      BY <2>1, <2>5, <2>6, <3>1, <3>3, SMT DEF left
    <3> QED
      BY <2>1, <3>2, <3>3, SMT
  <2> QED
    BY <2>3, <2>6, <2>7, <2>8 DEF spent, left
<1>2. CASE Tick
  BY <1>2, <1>same DEF Tick
<1>3. ASSUME NEW w \in Workers, NEW r \in Requests, Arrive(w, r)
      PROVE  Budget'
  BY <1>3, <1>same, <1>other, <1>ways DEF Arrive
<1>4. ASSUME NEW w \in Workers, Preflight(w) \/ Limit(w) \/ Panic(w)
      PROVE  Budget'
  BY <1>4, <1>same, <1>other, <1>ways DEF Preflight, Limit, Panic
<1>5. ASSUME NEW w \in Workers,
             ReadClock(w) \/ TooLarge(w) \/ EnterHandler(w) \/ Handle(w) \/ Leave(w)
      PROVE  Budget'
  <2>1. CASE Leave(w)
    BY <2>1, <1>same DEF Leave
  <2>2. CASE ReadClock(w) \/ TooLarge(w) \/ EnterHandler(w) \/ Handle(w)
    BY <2>2, <1>same DEF ReadClock, TooLarge, EnterHandler, Handle
  <2> QED
    BY <1>5, <2>1, <2>2
<1>6. CASE UNCHANGED mwVars
  BY <1>6, <1>same DEF mwVars
<1> QED
  BY <1>1, <1>2, <1>3, <1>4, <1>5, <1>6 DEF MwNext

\* The limiter starts with a full bucket and no time gone by.
LEMMA RateInit == MwInit => RateInv
<1> SUFFICES ASSUME MwInit
             PROVE  RateInv
  OBVIOUS
<1>1. Burst * Cost \in Nat /\ Cost \in Nat
  BY MiddlewareAssumption, SMT
<1>2. LimiterTypeOK
  BY <1>1 DEF MwInit, LimiterTypeOK
<1>3. tally["passed"] = 0 /\ last = 0 /\ regained = 0 /\ tokens = Burst * Cost
  BY DEF MwInit, Ways
<1>4. Budget
  BY <1>1, <1>3, SMT DEF Budget
<1> QED
  BY <1>2, <1>4 DEF RateInv

\* The strengthening of RateBounded holds in every reachable state.
THEOREM RateInvariant == MwSpec => []RateInv
<1>1. RateInv /\ [MwNext]_mwVars => RateInv'
  BY LimiterTypeStep, BudgetStep DEF RateInv
<1> QED
  BY RateInit, <1>1, PTL DEF MwSpec

\* The limiter lets no more requests through than the burst and the rate allow,
\* but for the time it has credited twice to workers whose reading was stale.
THEOREM RateIsBounded == MwSpec => []RateBounded
<1>1. RateInv => RateBounded
  <2> SUFFICES ASSUME RateInv
               PROVE  RateBounded
    OBVIOUS
  <2> DEFINE spent == tally["passed"] * Cost
             full == Burst * Cost
  <2>1. spent \in Nat /\ full \in Nat
    BY MiddlewareAssumption, SMT DEF RateInv, LimiterTypeOK, Ways
  <2>2. spent + tokens <= full + last + regained
    BY DEF RateInv, Budget
  <2> HIDE DEF spent, full
  <2>3. spent <= full + now + regained
    BY <2>1, <2>2, SMT DEF RateInv, LimiterTypeOK
  <2> QED
    BY <2>3 DEF spent, full, RateBounded
<1> QED
  BY RateInvariant, <1>1, PTL

-----------------------------------------------------------------------------
(* The metrics.                                                            *)

Behind == {w \in Workers : stage[w] \in {"handling", "left"}}
Serving == {w \in Workers : stage[w] # "idle"}

\* MetricsAgree needs no more than that the variables have values to count with.
MetricsInv ==
    /\ stage \in [Workers -> {"idle", "entered", "limiting", "allowed",
                              "handling", "left"}]
    /\ tally \in [Ways -> Nat]
    /\ counted \in Nat
    /\ MetricsAgree

\* A goroutine that comes in, or goes, changes a count by one.
LEMMA CountsByOne ==
    ASSUME NEW S \in SUBSET Workers, NEW w \in Workers
    PROVE  /\ Cardinality(S) \in Nat
           /\ w \notin S => Cardinality(S \cup {w}) = Cardinality(S) + 1
           /\ w \in S => /\ Cardinality(S \ {w}) = Cardinality(S) - 1
                         /\ Cardinality(S) \in Nat \ {0}
<1>1. IsFiniteSet(S) /\ Cardinality(S) \in Nat
  BY WorkersAssumption, FS_Subset, FS_CardinalityType
<1>2. w \notin S => Cardinality(S \cup {w}) = Cardinality(S) + 1
  BY <1>1, FS_AddElement
<1>3. w \in S => Cardinality(S \ {w}) = Cardinality(S) - 1
  BY <1>1, FS_RemoveElement
<1>4. w \in S => Cardinality(S) # 0
  BY <1>1, FS_EmptySet
<1>5. QED
  BY <1>1, <1>2, <1>3, <1>4

\* What a change of w's stage does to the two sets.
LEMMA StageChanges ==
    ASSUME MetricsInv, NEW w \in Workers,
           NEW to \in {"idle", "entered", "limiting", "allowed", "handling", "left"},
           stage' = [stage EXCEPT ![w] = to]
    PROVE  /\ stage' \in [Workers -> {"idle", "entered", "limiting", "allowed",
                                      "handling", "left"}]
           /\ Behind' = IF to \in {"handling", "left"} THEN Behind \cup {w}
                        ELSE Behind \ {w}
           /\ Serving' = IF to = "idle" THEN Serving \ {w} ELSE Serving \cup {w}
<1> USE DEF MetricsInv
<1>1. stage'[w] = to /\ \A v \in Workers : v # w => stage'[v] = stage[v]
  OBVIOUS
<1>2. Behind' = IF to \in {"handling", "left"} THEN Behind \cup {w} ELSE Behind \ {w}
  BY <1>1 DEF Behind
<1>3. Serving' = IF to = "idle" THEN Serving \ {w} ELSE Serving \cup {w}
  BY <1>1 DEF Serving
<1>4. QED
  BY <1>2, <1>3

\* Every step keeps gauge and counter in agreement with the requests.
LEMMA MetricsStep == MetricsInv /\ [MwNext]_mwVars => MetricsInv'
<1> SUFFICES ASSUME MetricsInv, [MwNext]_mwVars
             PROVE  MetricsInv'
  OBVIOUS
<1> DEFINE Agrees(g, n, t, b, s) ==
               /\ g = b
               /\ n = t["sent"] - t["preflight"] - t["limited"] - t["panicked"] - s
           b0 == Cardinality(Behind)
           s0 == Cardinality(Serving)
           b1 == Cardinality(Behind')
           s1 == Cardinality(Serving')
<1>1. /\ MetricsAgree <=> Agrees(active, counted, tally, b0, s0)
      /\ MetricsAgree' <=> Agrees(active', counted', tally', b1, s1)
  BY DEF MetricsAgree, Behind, Serving
<1>2. /\ \A x \in Ways : tally[x] \in Nat
      /\ b0 \in Nat /\ s0 \in Nat
      /\ Behind \in SUBSET Workers /\ Serving \in SUBSET Workers
  <2>1. Behind \in SUBSET Workers /\ Serving \in SUBSET Workers
    BY DEF Behind, Serving
  <2>2. IsFiniteSet(Behind) /\ IsFiniteSet(Serving)
    BY <2>1, WorkersAssumption, FS_Subset
  <2>3. QED
    BY <2>1, <2>2, FS_CardinalityType DEF MetricsInv
<1>3. /\ {"sent", "preflight", "limited", "panicked", "passed"} \subseteq Ways
      /\ Agrees(active, counted, tally, b0, s0) /\ counted \in Nat
      /\ tally \in [Ways -> Nat]
  BY <1>1 DEF Ways, MetricsInv
<1> HIDE DEF b0, s0, b1, s1
<1>4. ASSUME NEW w \in Workers, NEW r \in Requests, Arrive(w, r)
      PROVE  MetricsInv'
  <2>1. /\ stage[w] = "idle" /\ stage' = [stage EXCEPT ![w] = "entered"]
        /\ UNCHANGED <<active, counted>>
        /\ tally' = [tally EXCEPT !["sent"] = @ + 1]
    BY <1>4 DEF Arrive, Goes, Tally, metricVars
  <2>2. b1 = b0 /\ s1 = s0 + 1
    <3>1. Behind' = Behind \ {w} /\ Serving' = Serving \cup {w}
      BY <2>1, StageChanges
    <3>2. w \notin Behind /\ w \notin Serving
      BY <2>1 DEF Behind, Serving
    <3>3. Behind' = Behind
      BY <3>1, <3>2
    <3>4. QED
      BY <1>2, <3>1, <3>2, <3>3, CountsByOne DEF b0, b1, s0, s1
  <2>3. Agrees(active', counted', tally', b1, s1) /\ tally' \in [Ways -> Nat]
    BY <1>2, <1>3, <2>1, <2>2
  <2>4. QED
    BY <1>1, <1>3, <2>1, <2>3, StageChanges DEF MetricsInv
<1>5. ASSUME NEW w \in Workers, Preflight(w) \/ Limit(w)
      PROVE  MetricsInv'
  <2>1. /\ stage[w] \in {"entered", "limiting"}
        /\ stage' = [stage EXCEPT ![w] = "idle"]
        /\ UNCHANGED <<active, counted>>
        /\ \/ tally' = [tally EXCEPT !["preflight"] = @ + 1]
           \/ tally' = [tally EXCEPT !["limited"] = @ + 1]
    BY <1>5 DEF Preflight, Limit, Goes, Tally, metricVars
  <2>2. b1 = b0 /\ s1 = s0 - 1
    <3>1. Behind' = Behind \ {w} /\ Serving' = Serving \ {w}
      BY <2>1, StageChanges
    <3>2. w \notin Behind /\ w \in Serving
      BY <2>1 DEF Behind, Serving
    <3>3. Behind' = Behind
      BY <3>1, <3>2
    <3>4. QED
      BY <1>2, <3>1, <3>2, <3>3, CountsByOne DEF b0, b1, s0, s1
  <2>3. Agrees(active', counted', tally', b1, s1) /\ tally' \in [Ways -> Nat]
    BY <1>2, <1>3, <2>1, <2>2
  <2>4. QED
    BY <1>1, <1>3, <2>1, <2>3, StageChanges DEF MetricsInv
<1>6. ASSUME NEW w \in Workers, ReadClock(w) \/ Allow(w)
      PROVE  MetricsInv'
  <2>1. /\ stage[w] \in {"entered", "limiting"}
        /\ \E to \in {"limiting", "allowed"} : stage' = [stage EXCEPT ![w] = to]
        /\ UNCHANGED <<active, counted>>
        /\ \/ tally' = tally
           \/ tally' = [tally EXCEPT !["passed"] = @ + 1]
    BY <1>6 DEF ReadClock, Allow, Goes, Tally, metricVars
  <2>2. b1 = b0 /\ s1 = s0
    <3>1. Behind' = Behind \ {w} /\ Serving' = Serving \cup {w}
      BY <2>1, StageChanges
    <3>2. w \notin Behind /\ w \in Serving
      BY <2>1 DEF Behind, Serving
    <3>3. Behind' = Behind /\ Serving' = Serving
      BY <3>1, <3>2
    <3>4. QED
      BY <3>3 DEF b0, b1, s0, s1
  <2>3. Agrees(active', counted', tally', b1, s1) /\ tally' \in [Ways -> Nat]
    BY <1>2, <1>3, <2>1, <2>2
  <2>4. QED
    BY <1>1, <1>3, <2>1, <2>3, StageChanges DEF MetricsInv
<1>7. ASSUME NEW w \in Workers, TooLarge(w) \/ EnterHandler(w)
      PROVE  MetricsInv'
  <2>1. /\ stage[w] = "allowed"
        /\ \E to \in {"handling", "left"} : stage' = [stage EXCEPT ![w] = to]
        /\ active' = active + 1
        /\ UNCHANGED <<counted, tally>>
    BY <1>7 DEF TooLarge, EnterHandler, Goes
  <2>2. b1 = b0 + 1 /\ s1 = s0
    <3>1. Behind' = Behind \cup {w} /\ Serving' = Serving \cup {w}
      BY <2>1, StageChanges
    <3>2. w \notin Behind /\ w \in Serving
      BY <2>1 DEF Behind, Serving
    <3>3. Serving' = Serving
      BY <3>1, <3>2
    <3>4. QED
      BY <1>2, <3>1, <3>2, <3>3, CountsByOne DEF b0, b1, s0, s1
  <2>3. Agrees(active', counted', tally', b1, s1)
    BY <1>2, <1>3, <2>1, <2>2
  <2>4. QED
    BY <1>1, <1>3, <2>1, <2>3, StageChanges DEF MetricsInv
<1>8. ASSUME NEW w \in Workers, Handle(w)
      PROVE  MetricsInv'
  <2>1. /\ stage[w] = "handling"
        /\ stage' = [stage EXCEPT ![w] = "left"]
        /\ UNCHANGED <<active, counted, tally>>
    BY <1>8 DEF Handle, Goes, metricVars
  <2>2. b1 = b0 /\ s1 = s0
    <3>1. Behind' = Behind \cup {w} /\ Serving' = Serving \cup {w}
      BY <2>1, StageChanges
    <3>2. w \in Behind /\ w \in Serving
      BY <2>1 DEF Behind, Serving
    <3>3. Behind' = Behind /\ Serving' = Serving
      BY <3>1, <3>2
    <3>4. QED
      BY <3>3 DEF b0, b1, s0, s1
  <2>3. QED
    BY <1>1, <1>3, <2>1, <2>2, StageChanges DEF MetricsInv
<1>9. ASSUME NEW w \in Workers, Leave(w) \/ Panic(w)
      PROVE  MetricsInv'
  <2>1. /\ stage[w] \in {"handling", "left"}
        /\ stage' = [stage EXCEPT ![w] = "idle"]
        /\ active' = active - 1
        /\ \/ counted' = counted + 1 /\ tally' = tally
           \/ counted' = counted /\ tally' = [tally EXCEPT !["panicked"] = @ + 1]
    BY <1>9 DEF Leave, Panic, Goes, Tally
  <2>2. b1 = b0 - 1 /\ s1 = s0 - 1
    <3>1. Behind' = Behind \ {w} /\ Serving' = Serving \ {w}
      BY <2>1, StageChanges
    <3>2. w \in Behind /\ w \in Serving
      BY <2>1 DEF Behind, Serving
    <3>3. QED
      BY <1>2, <3>1, <3>2, CountsByOne DEF b0, b1, s0, s1
  <2>3. /\ Agrees(active', counted', tally', b1, s1)
        /\ tally' \in [Ways -> Nat] /\ counted' \in Nat
    BY <1>2, <1>3, <2>1, <2>2
  <2>4. QED
    BY <1>1, <2>1, <2>3, StageChanges DEF MetricsInv
<1>10. CASE Tick \/ UNCHANGED mwVars
  BY <1>10 DEF Tick, mwVars, metricVars, MetricsInv, MetricsAgree
<1>11. QED
  BY <1>4, <1>5, <1>6, <1>7, <1>8, <1>9, <1>10 DEF MwNext

\* No metric and no request before the first.
LEMMA MetricsInit == MwInit => MetricsInv
<1> SUFFICES ASSUME MwInit
             PROVE  MetricsInv
  OBVIOUS
<1>1. /\ {w \in Workers : stage[w] \in {"handling", "left"}} = {}
      /\ {w \in Workers : stage[w] # "idle"} = {}
  BY DEF MwInit
<1>2. Cardinality({}) = 0
  BY FS_EmptySet
<1>3. QED
  BY <1>1, <1>2 DEF MwInit, MetricsInv, MetricsAgree, Ways

\* The inductive invariant of the metrics.
LEMMA MetricsInvariant == MwSpec => []MetricsInv
BY MetricsInit, MetricsStep, PTL DEF MwSpec

\* The gauge is never off, and the counter misses exactly the preflights, the
\* limited and the panics, whatever requests are served side by side.
THEOREM MetricsAlwaysAgree == MwSpec => []MetricsAgree
BY MetricsInvariant, PTL DEF MetricsInv

-----------------------------------------------------------------------------
(* Types, and the size limit.                                              *)

\* Only what was not announced too large reaches a handler.
SizeInv ==
    /\ OversizeRefused
    /\ \A w \in Workers : stage[w] = "handling" => req[w].length <= MaxBytes

MwTypes ==
    /\ now \in 0..MaxTime
    /\ req \in [Workers -> Requests \cup {NoRequest}]
    /\ at \in [Workers -> 0..MaxTime]
    /\ status \in [Workers -> {0, 200, 202, 204, 400, 404, 413, 429, 500}]
    /\ last \in 0..MaxTime
    /\ tokens \in 0..(Burst * Cost)
    /\ regained \in Nat

\* A bucket never holds more than the burst.
LEMMA BucketCapped ==
    ASSUME MwTypes, NEW t \in 0..MaxTime
    PROVE  Bucket(t) \in 0..(Burst * Cost)
<1>1. PICK full \in Nat : full = Burst * Cost
  BY MiddlewareAssumption, SMT
<1>2. t \in Nat /\ last \in Nat /\ tokens \in 0..full
  BY <1>1, MiddlewareAssumption DEF MwTypes
<1>3. Bucket(t) = IF t >= last THEN Least(full, tokens + (t - last)) ELSE tokens
  BY <1>1 DEF Bucket
<1>4. Bucket(t) \in 0..full
  BY <1>2, <1>3 DEF Least
<1>5. QED
  BY <1>1, <1>4

\* Every step keeps them.
LEMMA MwTypesStep == MwTypes /\ [MwNext]_mwVars => MwTypes'
<1> SUFFICES ASSUME MwTypes, [MwNext]_mwVars
             PROVE  MwTypes'
  OBVIOUS
<1> USE DEF MwTypes
<1>1. MaxTime \in Nat /\ Cost \in Nat
  BY MiddlewareAssumption
<1>2. CASE Tick
  BY <1>1, <1>2 DEF Tick, limiterVars
<1>3. ASSUME NEW w \in Workers, NEW r \in Requests, Arrive(w, r)
      PROVE  MwTypes'
  BY <1>3 DEF Arrive, limiterVars
<1>4. ASSUME NEW w \in Workers, Allow(w)
      PROVE  MwTypes'
  <2>1. PICK t \in 0..MaxTime, b \in 0..(Burst * Cost) : t = at[w] /\ b = Bucket(t)
    BY BucketCapped
  <2>2. PICK full \in Nat : full = Burst * Cost
    BY MiddlewareAssumption, SMT
  <2>3. /\ b >= Cost /\ tokens' = b - Cost /\ last' = t
        /\ regained' = IF t < last THEN regained + (last - t) ELSE regained
    BY <1>4, <2>1 DEF Allow
  <2>4. tokens' \in 0..full
    BY <1>1, <2>1, <2>2, <2>3
  <2>5. regained' \in Nat
    BY <1>1, <2>1, <2>3
  <2>6. QED
    BY <1>4, <2>1, <2>2, <2>3, <2>4, <2>5 DEF Allow
<1>5. ASSUME NEW w \in Workers, \E s \in {204, 429, 413, 200, 202, 500, 400, 404} : Answer(w, s),
             UNCHANGED <<now, req, at, limiterVars>>
      PROVE  MwTypes'
  BY <1>5 DEF Answer, limiterVars
<1>6. ASSUME NEW w \in Workers,
             Preflight(w) \/ Limit(w) \/ TooLarge(w) \/ Handle(w) \/ Panic(w)
      PROVE  MwTypes'
  BY <1>5, <1>6 DEF Preflight, Limit, TooLarge, Handle, Panic
<1>7. ASSUME NEW w \in Workers, ReadClock(w)
      PROVE  MwTypes'
  BY <1>7 DEF ReadClock, limiterVars
<1>8. ASSUME NEW w \in Workers, EnterHandler(w) \/ Leave(w)
      PROVE  MwTypes'
  BY <1>8 DEF EnterHandler, Leave, limiterVars
<1>9. CASE UNCHANGED mwVars
  BY <1>9 DEF mwVars, limiterVars
<1>10. QED
  BY <1>2, <1>3, <1>4, <1>6, <1>7, <1>8, <1>9 DEF MwNext

\* The variables keep their types; in particular the bucket is never overdrawn or
\* overfull, and the gauge never negative.
THEOREM MwTypesHold == MwSpec => []MwTypeOK
<1>1. MwInit => MwTypes
  <2> SUFFICES ASSUME MwInit
               PROVE  MwTypes
    OBVIOUS
  <2>1. Burst * Cost \in Nat /\ MaxTime \in Nat
    BY MiddlewareAssumption, SMT
  <2>2. tokens \in 0..(Burst * Cost)
    BY <2>1 DEF MwInit
  <2>3. QED
    BY <2>1, <2>2 DEF MwInit, MwTypes
<1>2. MwTypes /\ MetricsInv => MwTypeOK
  <2> SUFFICES ASSUME MwTypes, MetricsInv
               PROVE  MwTypeOK
    OBVIOUS
  <2>1. active \in Nat
    <3>1. Behind \in SUBSET Workers
      BY DEF Behind
    <3>2. Cardinality(Behind) \in Nat
      BY <3>1, WorkersAssumption, FS_Subset, FS_CardinalityType
    <3>3. QED
      BY <3>2 DEF MetricsInv, MetricsAgree, Behind
  <2>2. {active, counted, regained} \subseteq Nat
    BY <2>1 DEF MwTypes, MetricsInv
  <2>3. QED
    BY <2>2 DEF MwTypes, MetricsInv, MwTypeOK
<1>3. QED
  BY <1>1, <1>2, MwTypesStep, MetricsInvariant, PTL DEF MwSpec

\* Every step keeps the size limit.
LEMMA SizeStep == MwTypes /\ MetricsInv /\ SizeInv /\ [MwNext]_mwVars => SizeInv'
<1> SUFFICES ASSUME MwTypes, MetricsInv, SizeInv, [MwNext]_mwVars
             PROVE  SizeInv'
  OBVIOUS
<1> USE DEF MwTypes, SizeInv, OversizeRefused
<1>1. stage \in [Workers -> {"idle", "entered", "limiting", "allowed",
                             "handling", "left"}]
  BY DEF MetricsInv
<1>2. ASSUME NEW w \in Workers, NEW r \in Requests, Arrive(w, r)
      PROVE  SizeInv'
  BY <1>1, <1>2 DEF Arrive, Goes
<1>3. ASSUME NEW w \in Workers,
             Preflight(w) \/ ReadClock(w) \/ Allow(w) \/ Limit(w) \/ Leave(w) \/ Panic(w)
      PROVE  SizeInv'
  <2>1. /\ req' = req
        /\ \E to \in {"idle", "limiting", "allowed"} : stage' = [stage EXCEPT ![w] = to]
        /\ \/ status' = status
           \/ \E s \in {204, 429, 500} : status' = [status EXCEPT ![w] = s]
    BY <1>3 DEF Preflight, ReadClock, Allow, Limit, Leave, Panic, Goes, Answer
  <2>2. QED
    BY <1>1, <2>1
<1>4. ASSUME NEW w \in Workers, TooLarge(w) \/ EnterHandler(w)
      PROVE  SizeInv'
  BY <1>1, <1>4 DEF TooLarge, EnterHandler, Goes, Answer
<1>5. ASSUME NEW w \in Workers, Handle(w)
      PROVE  SizeInv'
  BY <1>1, <1>5 DEF Handle, Goes, Answer, Readable
<1>6. CASE Tick \/ UNCHANGED mwVars
  BY <1>6 DEF Tick, mwVars
<1>7. QED
  BY <1>2, <1>3, <1>4, <1>5, <1>6 DEF MwNext

\* No body longer than the limit is ingested, and none that was not announced too
\* large is answered 413, chunked bodies included.
THEOREM OversizeIsRefused == MwSpec => []OversizeRefused
<1>1. MwInit => MwTypes /\ SizeInv
  <2> SUFFICES ASSUME MwInit
               PROVE  MwTypes /\ SizeInv
    OBVIOUS
  <2>1. Burst * Cost \in Nat /\ MaxTime \in Nat
    BY MiddlewareAssumption, SMT
  <2>2. tokens \in 0..(Burst * Cost)
    BY <2>1 DEF MwInit
  <2>3. QED
    BY <2>1, <2>2 DEF MwInit, MwTypes, SizeInv, OversizeRefused
<1>2. SizeInv => OversizeRefused
  BY DEF SizeInv
<1>3. QED
  BY <1>1, <1>2, MwTypesStep, SizeStep, MetricsInvariant, PTL DEF MwSpec
=============================================================================
