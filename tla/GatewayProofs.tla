--------------------------- MODULE GatewayProofs ---------------------------
(***************************************************************************)
(* The process with its producer implements Lifecycle, so what             *)
(* LifecycleProofs says of counted handlers holds of the callers; with the *)
(* producer's own invariants it keeps calls and the end of the process     *)
(* apart.                                                                  *)
(***************************************************************************)
EXTENDS Gateway, RefinementProofs, FiniteSetTheorems

USE DEF InFlightStates, ReturnedStates, InFlight, InCall

\* L with its theorems.
P == INSTANCE LifecycleProofs WITH
        MaxHandlers <- Cardinality(Callers),
        httpBusy <- Cardinality(busy \cap HttpCallers),
        grpcBusy <- Cardinality(busy \cap RpcCallers),
        streams <- Cardinality(busy \cap StreamCallers),
        producer <- IF producer = "closed" THEN "closed" ELSE "open"

\* The assumptions of Lifecycle hold of the composition.
LEMMA LifecycleAssumptions ==
    P!EnabledAssumption /\ P!AgeLimitedAssumption /\ P!MaxHandlersAssumption
<1>1. P!EnabledAssumption /\ P!AgeLimitedAssumption
  BY SettingsAssumption DEF P!EnabledAssumption, P!AgeLimitedAssumption
<1>2. Cardinality(Callers) \in Nat
  BY CallersAssumption, FS_CardinalityType
<1>3. P!MaxHandlersAssumption
  BY <1>2 DEF P!MaxHandlersAssumption
<1>4. QED
  BY <1>1, <1>3

-----------------------------------------------------------------------------
(* The composition implements Lifecycle.                                   *)

\* L and P are instances of the same definitions.
LEMMA SameLifecycle ==
    /\ L!Init <=> P!Init
    /\ L!Next <=> P!Next
    /\ UNCHANGED L!vars <=> UNCHANGED P!vars
<1> USE DEF L!serverVars, L!httpVars, L!grpcVars, L!handlerVars, L!rest,
            L!Running, L!Ended,
            P!serverVars, P!httpVars, P!grpcVars, P!handlerVars, P!rest,
            P!Running, P!Ended
<1>1. L!Init <=> P!Init
  BY DEF L!Init, P!Init
<1>2. L!ServerStep <=> P!ServerStep
  BY DEF L!ServerStep, L!HttpListens, L!HttpListenFails, L!HttpFatal,
         L!ServeError, L!GrpcDisabled, L!GrpcListenFails, L!GrpcCreated, L!GrpcServes,
         L!GrpcServesTooLate, L!GrpcServeEnds, L!StartReturns,
         P!ServerStep, P!HttpListens, P!HttpListenFails, P!HttpFatal,
         P!ServeError, P!GrpcDisabled, P!GrpcListenFails, P!GrpcCreated, P!GrpcServes,
         P!GrpcServesTooLate, P!GrpcServeEnds, P!StartReturns
<1>3. L!HandlerStep <=> P!HandlerStep
  BY DEF L!HandlerStep, L!HttpRequest, L!HttpDone, L!GrpcAccepts, L!GrpcCall,
         L!StreamCall, L!GrpcDone, L!StreamDone,
         P!HandlerStep, P!HttpRequest, P!HttpDone, P!GrpcAccepts, P!GrpcCall,
         P!StreamCall, P!GrpcDone, P!StreamDone
<1>4. L!MainStep <=> P!MainStep
  BY DEF L!MainStep, L!MainGoes, L!LoadFails, L!Configure, L!ProducerFails,
         L!StartServers, L!Notify, L!LeaveSelect, L!HttpShutdownReturns,
         L!ShutdownCompletes, L!ShutdownGivesUp, L!StopFindsNil,
         L!StopFindsServer, L!GracefulStopReturns, L!RPCsEnded, L!CloseProducer,
         L!Exit,
         P!MainStep, P!MainGoes, P!LoadFails, P!Configure, P!ProducerFails,
         P!StartServers, P!Notify, P!LeaveSelect, P!HttpShutdownReturns,
         P!ShutdownCompletes, P!ShutdownGivesUp, P!StopFindsNil,
         P!StopFindsServer, P!GracefulStopReturns, P!RPCsEnded, P!CloseProducer,
         P!Exit
<1>5. L!Next <=> P!Next
  <2>1. (L!Signal <=> P!Signal) /\ (L!DeadlinePasses <=> P!DeadlinePasses)
    BY DEF L!Signal, P!Signal, L!DeadlinePasses, P!DeadlinePasses
  <2>2. QED
    BY <1>2, <1>3, <1>4, <2>1 DEF L!Next, P!Next
<1>6. UNCHANGED L!vars <=> UNCHANGED P!vars
  BY DEF L!vars, P!vars
<1>7. QED
  BY <1>1, <1>5, <1>6

\* Calls do not touch what Lifecycle sees; everything else is one of its steps.
LEMMA LifecycleStep == [GatewayNext]_gatewayVars => [L!Next]_(L!vars)
<1> SUFFICES ASSUME [GatewayNext]_gatewayVars
             PROVE  [L!Next]_(L!vars)
  OBVIOUS
<1>1. ASSUME NEW c \in Callers, StartHandler(c) \/ ReturnHandler(c)
      PROVE  L!Next
  BY <1>1 DEF StartHandler, ReturnHandler, L!Next, L!HandlerStep
<1>2. CASE MainStep \/ CloseEnds
  BY <1>2 DEF MainStep, CloseEnds, L!Next, L!MainStep
<1>3. CASE ServerStep \/ Signal \/ DeadlinePasses
  BY <1>3 DEF ServerStep, Signal, DeadlinePasses, L!Next
<1>4. ASSUME UNCHANGED <<lifeVars, busy>>,
             producer' = producer \/ (producer' = "closing" /\ producer = "open")
      PROVE  UNCHANGED L!vars
  BY <1>4 DEF lifeVars, L!vars, L!serverVars, L!httpVars, L!grpcVars, L!handlerVars,
              L!rest
<1>5. ASSUME NEW c \in Callers,
             SaramaStep(c) \/ CancelCall(c) \/ \E e \in Event : CallProducer(c, e)
      PROVE  UNCHANGED L!vars
  <2>1. UNCHANGED <<lifeVars, busy, producer>>
    BY <1>5
    DEF SaramaStep, SendStep, HandOver, Answer, Admit, ShuttingDown, SendOnClosed,
        Transmit, AppendCopy, Acknowledge, AttemptFails, AttemptTimesOut, Rejected,
        CancelCall, Cancel, CallProducer, ProduceEvent
  <2>2. QED
    BY <1>4, <2>1
<1>6. CASE CloseBegins
  <2>1. producer' = "closing" /\ producer = "open" /\ UNCHANGED <<lifeVars, busy>>
    BY <1>6 DEF CloseBegins, Close
  <2>2. QED
    BY <1>4, <2>1
<1>7. CASE BrokerStep \/ UNCHANGED gatewayVars
  <2>1. UNCHANGED <<lifeVars, busy, producer>>
    BY <1>7 DEF BrokerStep, Environment, LateAppend, Replicate, Failover,
                gatewayVars, vars
  <2>2. QED
    BY <1>4, <2>1
<1>8. QED
  BY <1>1, <1>2, <1>3, <1>5, <1>6, <1>7 DEF GatewayNext

\* Lifecycle, which counts handlers and knows nothing of their calls, is a sound
\* abstraction of the process: whatever it says of the order of the shutdown
\* holds of the gateway whose handlers use the producer.
THEOREM GatewayImplementsLifecycle == GatewaySpec => L!Spec
BY LifecycleStep, PTL DEF GatewaySpec, GatewayInit, L!Spec

\* So the invariant of its proofs holds here.
LEMMA EndHolds == GatewaySpec => []P!EndInv
<1>1. GatewayInit => P!Init
  BY SameLifecycle DEF GatewayInit
<1>2. [GatewayNext]_gatewayVars => [P!Next]_(P!vars)
  BY LifecycleStep, SameLifecycle
<1>3. GatewaySpec => P!Spec
  BY <1>1, <1>2, PTL DEF GatewaySpec, P!Spec
<1>4. P!Spec => []P!EndInv
  BY LifecycleAssumptions, P!EndInvariant, PTL
<1>5. QED
  BY <1>3, <1>4, PTL

-----------------------------------------------------------------------------
(* The inductive invariant.                                                *)

\* What main has done by the time it closes the producer, or ends.
EndOfMain ==
    /\ producer # "open" => main \in {"closing", "exited", "fatal"}
    /\ main = "exited" => producer = "closed"
    /\ main \in {"init", "configured"} => busy = {}
    /\ main = "fatal" => serveErr \/ busy = {}

\* Only handlers call the producer, and what can go wrong has a closed producer
\* as its reason.
CallsOfHandlers ==
    /\ busy \subseteq Callers
    /\ \A c \in Callers : InCall(c) => c \in busy
    /\ \A c \in Callers : pc[c] = "panicked" => producer = "closed"

GatewayInv ==
    /\ ProducerInv
    /\ EndOfMain
    /\ CallsOfHandlers
    /\ OnlyAbandonedPanic

\* When main comes to Close, handlers that still run have been abandoned.
ClosingAbandons == main = "closing" => \A c \in busy : Abandoned(c)

\* It is what Lifecycle's invariant says of the counts.
LEMMA EndInvAbandons == P!EndInv /\ CallsOfHandlers => ClosingAbandons
<1> SUFFICES ASSUME P!EndInv, CallsOfHandlers, main = "closing", NEW c \in busy
             PROVE  Abandoned(c)
  BY DEF ClosingAbandons
<1>1. /\ c \in Callers
      /\ c \in HttpCallers \/ c \in RpcCallers \/ c \in StreamCallers
      /\ c \in HttpCallers <=> ~(c \in RpcCallers \/ c \in StreamCallers)
  BY GatewayAssumption DEF CallsOfHandlers
<1>2. ASSUME NEW S, c \in S
      PROVE  Cardinality(busy \cap S) \in Nat \ {0}
  <2>1. IsFiniteSet(busy \cap S)
    BY CallersAssumption, FS_Subset DEF CallsOfHandlers
  <2>2. busy \cap S # {}
    BY <1>2
  <2>3. QED
    BY <2>1, <2>2, FS_EmptySet, FS_CardinalityType
<1>3. CASE c \in HttpCallers
  <2>1. deadline \/ Cardinality(busy \cap HttpCallers) = 0
    BY DEF P!EndInv, P!HttpDrained, P!HttpWaitedFor
  <2>2. QED
    BY <1>2, <1>3, <2>1 DEF Abandoned
<1>4. CASE c \in RpcCallers \/ c \in StreamCallers
  <2>1. /\ server = "nil" => /\ Cardinality(busy \cap RpcCallers) = 0
                             /\ Cardinality(busy \cap StreamCallers) = 0
        /\ server = "stopped" =>
              Cardinality(busy \cap RpcCallers) + Cardinality(busy \cap StreamCallers) = 0
        /\ server \in {"nil", "set", "stopped"}
    BY DEF P!EndInv, P!NilServesNobody, P!StopDrains, P!TypeOK
  <2>2. /\ IsFiniteSet(busy \cap RpcCallers) /\ IsFiniteSet(busy \cap StreamCallers)
    BY CallersAssumption, FS_Subset DEF CallsOfHandlers
  <2>3. /\ Cardinality(busy \cap RpcCallers) \in Nat
        /\ Cardinality(busy \cap StreamCallers) \in Nat
    BY <2>2, FS_CardinalityType
  <2>4. CASE server \in {"nil", "stopped"}
    <3>1. /\ Cardinality(busy \cap RpcCallers) = 0
          /\ Cardinality(busy \cap StreamCallers) = 0
      BY <2>1, <2>3, <2>4
    <3>2. QED
      BY <1>2, <1>4, <3>1
  <2>5. CASE server = "set"
    BY <1>1, <1>4, <2>5 DEF Abandoned
  <2>6. QED
    BY <2>1, <2>4, <2>5
<1>5. QED
  BY <1>1, <1>3, <1>4

-----------------------------------------------------------------------------
(* The steps.                                                              *)

\* What the process does to the producer are steps of the producer.
LEMMA GatewayIsProducer == [GatewayNext]_gatewayVars => [Step]_vars
<1> SUFFICES ASSUME [GatewayNext]_gatewayVars
             PROVE  [Step]_vars
  OBVIOUS
<1>1. ASSUME NEW c \in Callers, SaramaStep(c)
      PROVE  Step
  BY <1>1 DEF SaramaStep, Step
<1>2. ASSUME NEW c \in Callers, NEW e \in Event, CallProducer(c, e)
      PROVE  Step
  BY <1>2 DEF CallProducer, Step
<1>3. ASSUME NEW c \in Callers, CancelCall(c)
      PROVE  Step
  BY <1>3 DEF CancelCall, Step
<1>4. CASE CloseBegins \/ CloseEnds \/ BrokerStep
  BY <1>4 DEF CloseBegins, CloseEnds, BrokerStep, Step
<1>5. CASE \/ \E c \in Callers : StartHandler(c) \/ ReturnHandler(c)
           \/ MainStep \/ ServerStep \/ Signal \/ DeadlinePasses
  BY <1>5 DEF StartHandler, ReturnHandler, MainStep, ServerStep, Signal, DeadlinePasses
<1>6. QED
  BY <1>1, <1>2, <1>3, <1>4, <1>5 DEF GatewayNext, gatewayVars

\* A handler starts only while the process runs; only main closes the producer,
\* at its end; a call is made by a handler, and panics only on a closed producer.
LEMMA CallStep ==
    ASSUME TypeOK, [GatewayNext]_gatewayVars
    PROVE  /\ busy' \subseteq busy \cup Callers
           /\ busy' \subseteq busy \/ (main' = main /\ L!Running)
           /\ producer' # producer => main' = main /\ main = "closing"
                                         /\ producer' \in {"closing", "closed"}
           /\ \A c \in Callers :
                 /\ pc'[c] = "panicked" =>
                       pc[c] = "panicked" \/ (producer = "closed" /\ InCall(c))
                 /\ InCall(c)' => (InCall(c) /\ (c \in busy => c \in busy'))
                                      \/ c \in busy'
<1>1. ASSUME NEW c \in Callers, StartHandler(c)
      PROVE  /\ busy' = busy \cup {c} /\ UNCHANGED vars
             /\ main' = main /\ L!Running
  BY <1>1 DEF StartHandler, L!HttpRequest, L!GrpcCall, L!StreamCall, L!GrpcAccepts
<1>2. ASSUME NEW c \in Callers, ReturnHandler(c)
      PROVE  busy' = busy \ {c} /\ UNCHANGED vars /\ ~InCall(c)
  BY <1>2 DEF ReturnHandler
<1>3. ASSUME NEW c \in Callers, SaramaStep(c)
      PROVE  /\ UNCHANGED <<busy, producer>>
             /\ \A d \in Callers :
                   /\ pc'[d] = "panicked" =>
                         pc[d] = "panicked" \/ (producer = "closed" /\ InCall(d))
                   /\ InCall(d)' => InCall(d)
  BY <1>3
  DEF TypeOK, SaramaStep, SendStep, HandOver, Answer, Admit, ShuttingDown,
      SendOnClosed, Transmit, AppendCopy, Acknowledge, AttemptFails,
      AttemptTimesOut, Rejected, RetryOrFail
<1>4. ASSUME NEW c \in Callers, NEW e \in Event, CallProducer(c, e)
      PROVE  /\ UNCHANGED <<busy, producer>>
             /\ c \in busy
             /\ pc'[c] # "panicked"
             /\ \A d \in Callers : d # c => pc'[d] = pc[d]
  BY <1>4 DEF TypeOK, CallProducer, ProduceEvent, BeginCall
<1>5. ASSUME NEW c \in Callers, CancelCall(c)
      PROVE  UNCHANGED <<pc, producer, busy>>
  BY <1>5 DEF CancelCall, Cancel, callVars
<1>6. CASE CloseBegins \/ CloseEnds
  <2>1. CASE CloseBegins
    BY <2>1 DEF CloseBegins, Close, lifeVars, callVars
  <2>2. CASE CloseEnds
    BY <2>2 DEF CloseEnds, CloseReturns, L!CloseProducer, callVars
  <2>3. QED
    BY <1>6, <2>1, <2>2
<1>7. CASE BrokerStep
  BY <1>7 DEF TypeOK, BrokerStep, Environment, LateAppend, Replicate, Failover,
              Unanswered, callVars
<1>8. CASE MainStep \/ ServerStep \/ Signal \/ DeadlinePasses \/ UNCHANGED gatewayVars
  BY <1>8 DEF MainStep, ServerStep, Signal, DeadlinePasses, gatewayVars, vars, callVars
<1>9. UNCHANGED vars => UNCHANGED <<pc, producer>>
  BY DEF vars, callVars
<1>10. QED
  BY <1>1, <1>2, <1>3, <1>4, <1>5, <1>6, <1>7, <1>8, <1>9 DEF GatewayNext

\* A closed producer stays closed.
LEMMA ClosedStays == [Step]_vars /\ producer = "closed" => producer' = "closed"
BY DEF Step, ProduceEvent, SendStep, HandOver, Answer, Admit, ShuttingDown,
       SendOnClosed, Transmit, AppendCopy, Acknowledge, AttemptFails,
       AttemptTimesOut, Rejected, Cancel, Close, CloseReturns, Environment,
       LateAppend, Replicate, Failover, vars

\* What Lifecycle's steps do at the end of main.
LEMMA MainStepEnd ==
    ASSUME [GatewayNext]_gatewayVars
    PROVE  /\ main \in {"closing", "exited", "fatal"} =>
                 /\ main' \in {"closing", "exited", "fatal"}
                 /\ server = "set" => server' = "set"
           /\ deadline => deadline'
           /\ main' = "exited" /\ main # "exited" => producer = "closed"
           /\ main' \in {"init", "configured"} => main \in {"init", "configured"}
           /\ serveErr => serveErr'
           /\ main' = "fatal" => main \in {"init", "configured", "fatal"} \/ serveErr
<1> USE DEF L!serverVars, L!httpVars, L!grpcVars, L!handlerVars, L!rest, L!Running, L!Ended
<1>1. CASE L!ServerStep
  BY <1>1
  DEF L!ServerStep, L!HttpListens, L!HttpListenFails, L!HttpFatal, L!ServeError,
      L!GrpcDisabled, L!GrpcListenFails, L!GrpcCreated, L!GrpcServes,
      L!GrpcServesTooLate, L!GrpcServeEnds, L!StartReturns
<1>2. CASE L!HandlerStep
  BY <1>2
  DEF L!HandlerStep, L!HttpRequest, L!HttpDone, L!GrpcAccepts, L!GrpcCall,
      L!StreamCall, L!GrpcDone, L!StreamDone
<1>3. CASE L!MainStep
  BY <1>3
  DEF L!MainStep, L!MainGoes, L!LoadFails, L!Configure, L!ProducerFails,
      L!StartServers, L!Notify, L!LeaveSelect, L!HttpShutdownReturns,
      L!ShutdownCompletes, L!ShutdownGivesUp, L!StopFindsNil,
      L!StopFindsServer, L!GracefulStopReturns, L!CloseProducer, L!Exit
<1>4. CASE L!Signal \/ L!DeadlinePasses
  BY <1>4 DEF L!Signal, L!DeadlinePasses
<1>5. CASE UNCHANGED L!vars
  BY <1>5 DEF L!vars
<1>6. QED
  BY <1>1, <1>2, <1>3, <1>4, <1>5, LifecycleStep DEF L!Next

\* An abandoned handler stays abandoned once main is at its end.
LEMMA AbandonedStays ==
    ASSUME EndOfMain, producer # "open", [GatewayNext]_gatewayVars,
           NEW c \in Callers, Abandoned(c)
    PROVE  Abandoned(c)'
BY MainStepEnd DEF EndOfMain, Abandoned

\* ClosingAbandons comes from Lifecycle (EndInvAbandons).
LEMMA GatewayInvStep ==
    ASSUME GatewayInv, CallsOfHandlers' => ClosingAbandons', [GatewayNext]_gatewayVars
    PROVE  GatewayInv'
<1>1. TypeOK /\ EndOfMain /\ CallsOfHandlers /\ OnlyAbandonedPanic
  BY DEF GatewayInv, ProducerInv, OneRecordInv, DurabilityInv
<1>2. ProducerInv'
  BY GatewayIsProducer, ProducerInvStep DEF GatewayInv
<1>3. EndOfMain'
  <2>1. busy' \subseteq busy \/ (main' = main /\ L!Running)
    BY <1>1, CallStep
  <2>2. main' \in {"init", "configured"} => busy' = {}
    BY <1>1, <2>1, MainStepEnd DEF EndOfMain, L!Running
  <2>3. main' = "fatal" => serveErr' \/ busy' = {}
    BY <1>1, <2>1, MainStepEnd DEF EndOfMain, L!Running, L!Ended
  <2>4. /\ producer' # "open" => main' \in {"closing", "exited", "fatal"}
        /\ main' = "exited" => producer' = "closed"
    BY <1>1, MainStepEnd, CallStep DEF EndOfMain
  <2>5. QED
    BY <2>2, <2>3, <2>4 DEF EndOfMain
<1>4. CallsOfHandlers'
  <2>1. busy' \subseteq Callers
    BY <1>1, CallStep DEF CallsOfHandlers
  <2>2. producer = "closed" => producer' = "closed"
    BY <1>1, CallStep, GatewayIsProducer, ClosedStays
  <2>3. \A c \in Callers : InCall(c)' => c \in busy'
    BY <1>1, CallStep DEF CallsOfHandlers
  <2>4. \A c \in Callers : pc'[c] = "panicked" => producer' = "closed"
    BY <1>1, <2>2, CallStep DEF CallsOfHandlers
  <2>5. QED
    BY <2>1, <2>3, <2>4 DEF CallsOfHandlers
<1>5. OnlyAbandonedPanic'
  <2> SUFFICES ASSUME NEW c \in Callers,
                      (c \in busy' /\ producer' # "open") \/ pc'[c] = "panicked"
               PROVE  Abandoned(c)'
    BY DEF OnlyAbandonedPanic
  <2>1. CASE c \in busy' /\ main' = "closing"
    BY <1>4, <2>1 DEF ClosingAbandons
  <2>2. CASE c \in busy' /\ producer' # "open" /\ main' # "closing"
    <3>1. main' \in {"exited", "fatal"}
      BY <1>3, <2>2 DEF EndOfMain
    <3>2. c \in busy
      BY <1>1, <2>2, <3>1, CallStep DEF L!Running, L!Ended
    <3>3. producer # "open"
      BY <1>1, <2>2, CallStep
    <3>4. QED
      BY <1>1, <3>2, <3>3, AbandonedStays DEF OnlyAbandonedPanic
  <2>3. CASE pc'[c] = "panicked"
    <3>1. Abandoned(c) /\ producer # "open"
      BY <1>1, <2>3, CallStep DEF OnlyAbandonedPanic, CallsOfHandlers
    <3>2. QED
      BY <1>1, <3>1, AbandonedStays
  <2>4. QED
    BY <2>1, <2>2, <2>3
<1>6. QED
  BY <1>2, <1>3, <1>4, <1>5 DEF GatewayInv

\* The inductive invariant of the process, with Lifecycle's.
LEMMA GatewayInvariant == GatewaySpec => []GatewayInv
<1>1. GatewayInit => GatewayInv
  <2> SUFFICES ASSUME GatewayInit
               PROVE  GatewayInv
    OBVIOUS
  <2>1. ProducerInv
    BY ProducerInvInit DEF GatewayInit
  <2>2. \A c \in Callers : pc[c] = "idle"
    BY DEF GatewayInit, Init
  <2>3. busy = {} /\ producer = "open" /\ main = "init"
    BY DEF GatewayInit, Init, L!Init
  <2>4. QED
    BY <2>1, <2>2, <2>3
    DEF GatewayInv, EndOfMain, CallsOfHandlers, OnlyAbandonedPanic
<1>2. P!EndInv' /\ CallsOfHandlers' => ClosingAbandons'
  BY EndInvAbandons, PTL
<1>3. GatewayInv /\ (CallsOfHandlers' => ClosingAbandons') /\ [GatewayNext]_gatewayVars
         => GatewayInv'
  BY GatewayInvStep
<1>4. QED
  BY <1>1, <1>2, <1>3, EndHolds, PTL DEF GatewaySpec

-----------------------------------------------------------------------------
(* The theorems.                                                           *)

\* No call is refused or panics because of the shutdown, unless its handler was
\* abandoned: by Shutdown after 30 s, or by a Stop that found no server.
THEOREM OnlyAbandonedCallsPanic == GatewaySpec => []OnlyAbandonedPanic
<1>1. GatewayInv => OnlyAbandonedPanic
  BY DEF GatewayInv
<1>2. QED
  BY <1>1, GatewayInvariant, PTL

\* The process ends with a call in sarama's hands only by a signal before
\* signal.Notify, or by the logger.Fatal behind an error of HTTP's listener: not by
\* an orderly exit, not even under abandoned handlers, and not by any other Fatal.
THEOREM ExitsWithoutCalls == GatewaySpec => []ExitAbandonsNoCall
<1>1. GatewayInv => ExitAbandonsNoCall
  BY DEF GatewayInv, ProducerInv, CloseDrains, Drained, EndOfMain, CallsOfHandlers,
         ExitAbandonsNoCall, L!Ended
<1>2. QED
  BY <1>1, GatewayInvariant, PTL

\* Neither the shutdown nor the end of the process takes an answer back: with
\* retries, late copies, failovers and contexts that end, before and after the end
\* of the process, and a producer that is closed under calls that still come, it
\* implements the at-least-once promise.
THEOREM GatewayKeepsPromise == GatewaySpec => ImplementsAtLeastOnce
<1>1. GatewayInit => ALO!Init
  BY RefinementInit DEF GatewayInit
<1>2. GatewayInv /\ GatewayInv' /\ [GatewayNext]_gatewayVars => [ALO!Next]_(ALO!vars)
  BY GatewayIsProducer, PromiseStep DEF GatewayInv
<1>3. QED
  BY <1>1, <1>2, GatewayInvariant, PTL DEF GatewaySpec, ImplementsAtLeastOnce, ALO!Spec
=============================================================================
