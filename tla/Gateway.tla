------------------------------ MODULE Gateway ------------------------------
(***************************************************************************)
(* The process: Lifecycle composed with Producer.                          *)
(*                                                                         *)
(* Lifecycle counts handlers and assumes that they return; Producer lets   *)
(* Close come at any time.  Here every handler is a caller of the one      *)
(* producer, and only main closes it, at the end of the shutdown.  What a  *)
(* handler does is reduced to: call the producer, return.                  *)
(***************************************************************************)
EXTENDS Producer

CONSTANTS
    HttpCallers, RpcCallers, StreamCallers,     \* Callers by what they serve
    Enabled, AgeLimited,                        \* as in Lifecycle
    Impatient,  \* bound: callers whose context may end before they return
    MaxLate     \* bound: copies of an event on the network after their attempt

ASSUME GatewayAssumption ==
    /\ Callers = HttpCallers \cup RpcCallers \cup StreamCallers
    /\ HttpCallers \cap (RpcCallers \cup StreamCallers) = {}
    /\ RpcCallers \cap StreamCallers = {}
    /\ Impatient \subseteq RpcCallers \cup StreamCallers
ASSUME SettingsAssumption == Enabled \subseteq BOOLEAN /\ AgeLimited \subseteq BOOLEAN

VARIABLES
    main, http, serveErr, grpc, server, errChan,    \* as in Lifecycle
    signalled, deadline, enabled, ageLimited,
    busy        \* callers that are running handlers

lifeVars == <<main, http, serveErr, grpc, server, errChan, signalled, deadline,
              enabled, ageLimited>>
gatewayVars == <<vars, lifeVars, busy>>

L == INSTANCE Lifecycle WITH
        MaxHandlers <- Cardinality(Callers),
        httpBusy <- Cardinality(busy \cap HttpCallers),
        grpcBusy <- Cardinality(busy \cap RpcCallers),
        streams <- Cardinality(busy \cap StreamCallers),
        producer <- IF producer = "closed" THEN "closed" ELSE "open"

GatewayInit ==
    /\ Init
    /\ busy = {}
    /\ L!Init

----------------------------------------------------------------------------
(* The handlers.                                                           *)

\* A request starts a goroutine.
StartHandler(c) ==
    /\ c \notin busy /\ pc[c] = "idle"
    /\ UNCHANGED vars
    /\ busy' = busy \cup {c}
    /\ \/ c \in HttpCallers /\ L!HttpRequest
       \/ c \in RpcCallers /\ L!GrpcCall
       \/ c \in StreamCallers /\ L!StreamCall

\* It calls the producer, a batch more than once; a panic ends it.
CallProducer(c, e) ==
    /\ L!Running
    /\ c \in busy /\ pc[c] # "panicked"
    /\ CallsFor(e) < MaxSends
    /\ ProduceEvent(c, e)
    /\ UNCHANGED <<lifeVars, busy>>

SaramaStep(c) ==
    /\ L!Running
    /\ SendStep(c)
    /\ late' \in [Event -> 0..MaxLate]
    /\ UNCHANGED <<lifeVars, busy>>

\* The context of an RPC or a stream ends; HTTP hands the producer another one.
CancelCall(c) ==
    /\ L!Running
    /\ c \in busy \cap Impatient
    /\ Cancel(c)
    /\ UNCHANGED <<lifeVars, busy>>

\* It answers its client and ends.
ReturnHandler(c) ==
    /\ c \in busy /\ ~InCall(c)
    /\ UNCHANGED vars
    /\ busy' = busy \ {c}
    /\ \/ c \in HttpCallers /\ L!HttpDone
       \/ c \in RpcCallers /\ L!GrpcDone
       \/ c \in StreamCallers /\ L!StreamDone

----------------------------------------------------------------------------
(* The process.                                                            *)

\* Bug: Close is deferred to the moment the gRPC server is told to stop.
CloseWhileDraining ==
    /\ main \in {"draining", "closing"}
    /\ Close
    /\ UNCHANGED <<lifeVars, busy>>

\* main's deferred kafkaProducer.Close starts ...
CloseBegins ==
    /\ main = "closing"
    /\ Close
    /\ UNCHANGED <<lifeVars, busy>>

\* ... and returns.
CloseEnds ==
    /\ CloseReturns
    /\ UNCHANGED busy
    /\ L!CloseProducer

\* Everything else main and the servers do leaves the producer alone.
MainStep ==
    /\ UNCHANGED <<vars, busy>>
    /\ \/ L!LoadFails
       \/ L!Configure
       \/ L!ProducerFails
       \/ L!StartServers
       \/ L!Notify
       \/ L!LeaveSelect
       \/ L!HttpShutdownReturns
       \/ L!StopFindsNil
       \/ L!StopFindsServer
       \/ L!GracefulStopReturns
       \/ L!Exit

ServerStep == UNCHANGED <<vars, busy>> /\ L!ServerStep
Signal == UNCHANGED <<vars, busy>> /\ L!Signal
DeadlinePasses == UNCHANGED <<vars, busy>> /\ L!DeadlinePasses
BrokerStep ==
    /\ Environment
    /\ UNCHANGED <<lifeVars, busy>>

GatewayNext ==
    \/ \E c \in Callers :
          \/ StartHandler(c)
          \/ SaramaStep(c)
          \/ CancelCall(c)
          \/ ReturnHandler(c)
    \/ \E c \in Callers, e \in Event : CallProducer(c, e)
    \/ CloseBegins
    \/ CloseEnds
    \/ MainStep
    \/ ServerStep
    \/ Signal
    \/ DeadlinePasses
    \/ BrokerStep

\* Goroutines run, sarama's timeouts end every attempt, time passes, a handler
\* has finitely many events to send.  A stream ends when its connection ages;
\* clients, brokers and whoever sends signals owe nothing.
GatewaySpec ==
    /\ GatewayInit /\ [][GatewayNext]_gatewayVars
    /\ WF_gatewayVars(MainStep)
    /\ WF_gatewayVars(CloseBegins)
    /\ WF_gatewayVars(CloseEnds)
    /\ WF_gatewayVars(DeadlinePasses)
    /\ \A c \in Callers :
          /\ WF_gatewayVars(SaramaStep(c))
          /\ WF_gatewayVars((c \in StreamCallers => ageLimited) /\ ReturnHandler(c))

----------------------------------------------------------------------------
(* Properties.                                                             *)

\* The excuses for a handler that meets a closed producer: Shutdown waited its
\* 30 s in vain for an HTTP handler; Stop came before Start had made the server.
Abandoned(c) == IF c \in HttpCallers THEN deadline ELSE server = "set"

\* No call is refused or panics because of the shutdown, unless its handler was
\* abandoned: the order HTTP, gRPC, producer keeps the producer open as long as
\* anybody can call it.
OnlyAbandonedPanic ==
    \A c \in Callers :
        (c \in busy /\ producer # "open") \/ pc[c] = "panicked" => Abandoned(c)

\* What ends the process with a call in sarama's hands: a signal before
\* signal.Notify, or logger.Fatal behind an error of HTTP's listener, however far
\* main has come in its shutdown meanwhile.  An orderly exit leaves nobody in
\* SendMessage, abandoned handlers included, and so does every other Fatal.
ExitAbandonsNoCall ==
    \A c \in Callers : (InFlight(c) /\ L!Ended) =>
        main = "killed" \/ (main = "fatal" /\ serveErr)

\* Every request that a server took is answered, however silent the brokers are,
\* unless the process ends first; streams when connections age.
CallsEnd ==
    \A c \in Callers :
        (c \in busy /\ (c \in StreamCallers => ageLimited)) ~> (c \notin busy \/ L!Ended)

\* A started Close returns, even if the brokers never answer: no new message can
\* keep it waiting, and the retries of those in flight are bounded.  Only an error
\* of HTTP's listener that is reported this late can end the process first.
CloseCompletes == producer = "closing" ~> (producer = "closed" \/ main = "fatal")

\* Lifecycle's ShutdownEnds without its assumption that handlers return.
ShutdownEnds == L!ShutdownEnds
=============================================================================
