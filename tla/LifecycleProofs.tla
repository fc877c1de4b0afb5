-------------------------- MODULE LifecycleProofs --------------------------
(***************************************************************************)
(* The order in which the process ends, for any number of handlers and     *)
(* both values of each setting.                                            *)
(***************************************************************************)
EXTENDS Lifecycle, TLAPS

\* Main has gone past the shutdown of HTTP.
HttpWaitedFor == main \in {"grpcStop", "draining", "closing", "exited"}

\* Shutdown has closed the listener, and nobody opens it again.
ListenerClosed == main = "httpShutdown" \/ HttpWaitedFor => http # "listening"

\* Behind a shutdown that completed no connection is left to bring a request.
HttpDrained ==
    HttpWaitedFor => deadline \/ (httpBusy = 0 /\ http \in {"starting", "closed"})

\* Close is the last thing main does; a listener that fails may still come first.
ClosedAtTheEnd == producer = "closed" => main \in {"closing", "exited", "fatal"}

\* Without a server there are no RPCs.
NilServesNobody == server = "nil" => grpcBusy = 0 /\ streams = 0

\* Behind GracefulStop no RPC is left, and none starts any more.
StopDrains ==
    (server = "stopped" /\ main \in {"closing", "exited"}) => grpcBusy + streams = 0

\* CloseIsLast needs the other parts to be inductive.
EndInv ==
    /\ TypeOK
    /\ ListenerClosed
    /\ HttpDrained
    /\ ClosedAtTheEnd
    /\ NilServesNobody
    /\ StopDrains
    /\ CloseIsLast

\* The process starts with nothing running and the producer open.
LEMMA EndInit == Init => EndInv
<1> SUFFICES ASSUME Init
             PROVE  EndInv
  OBVIOUS
<1> USE DEF Init
<1>1. enabled \in BOOLEAN /\ ageLimited \in BOOLEAN
  BY EnabledAssumption, AgeLimitedAssumption
<1>2. TypeOK
  <2>1. {httpBusy, grpcBusy, streams} \subseteq 0..MaxHandlers
    BY MaxHandlersAssumption
  <2>2. {serveErr, signalled, deadline, enabled, ageLimited} \subseteq BOOLEAN
    BY <1>1, Zenon
  <2> QED
    BY <2>1, <2>2 DEF TypeOK
<1>3. ListenerClosed /\ HttpDrained /\ ClosedAtTheEnd
  BY DEF ListenerClosed, HttpWaitedFor, HttpDrained, ClosedAtTheEnd
<1>4. NilServesNobody /\ StopDrains /\ CloseIsLast
  BY DEF NilServesNobody, StopDrains, CloseIsLast
<1> QED
  BY <1>2, <1>3, <1>4 DEF EndInv

\* The steps of the server goroutines keep the invariant.
LEMMA ServerKeepsEnd == EndInv /\ ServerStep => EndInv'
<1> SUFFICES ASSUME EndInv, ServerStep
             PROVE  EndInv'
  OBVIOUS
<1> USE DEF EndInv, TypeOK, ListenerClosed, HttpWaitedFor, HttpDrained,
            ClosedAtTheEnd, NilServesNobody, StopDrains, CloseIsLast,
            Running, Ended, httpVars, grpcVars, handlerVars, serverVars, rest
<1>1. CASE HttpListens
  BY <1>1 DEF HttpListens
<1>2. CASE HttpListenFails \/ HttpFatal
  BY <1>2 DEF HttpListenFails, HttpFatal
<1>3. CASE GrpcDisabled \/ GrpcListenFails \/ GrpcServesTooLate \/ GrpcServeEnds
  <2>1. PICK chan \in {"open", "error", "closed"} : StartReturns(chan)
    BY <1>3 DEF GrpcDisabled, GrpcListenFails, GrpcServesTooLate, GrpcServeEnds
  <2> QED
    BY <2>1 DEF StartReturns
<1>4. CASE GrpcCreated
  BY <1>4 DEF GrpcCreated
<1>5. CASE GrpcServes
  BY <1>5 DEF GrpcServes
<1> QED
  BY <1>1, <1>2, <1>3, <1>4, <1>5 DEF ServerStep

\* A handler that starts or ends keeps the invariant.
LEMMA HandlersKeepEnd == EndInv /\ HandlerStep => EndInv'
<1> SUFFICES ASSUME EndInv, HandlerStep
             PROVE  EndInv'
  OBVIOUS
<1> USE MaxHandlersAssumption
    DEF EndInv, TypeOK, ListenerClosed, HttpWaitedFor, HttpDrained,
        ClosedAtTheEnd, NilServesNobody, StopDrains, CloseIsLast,
        Running, Ended, httpVars, grpcVars, handlerVars, serverVars, rest
<1>1. CASE HttpRequest
  BY <1>1 DEF HttpRequest
<1>2. CASE HttpDone
  BY <1>2 DEF HttpDone
<1>3. CASE GrpcCall
  BY <1>3 DEF GrpcCall, GrpcAccepts
<1>4. CASE StreamCall
  BY <1>4 DEF StreamCall, GrpcAccepts
<1>5. CASE GrpcDone
  BY <1>5 DEF GrpcDone
<1>6. CASE StreamDone
  BY <1>6 DEF StreamDone
<1> QED
  BY <1>1, <1>2, <1>3, <1>4, <1>5, <1>6 DEF HandlerStep

\* The steps of main keep the invariant.
LEMMA MainKeepsEnd == EndInv /\ MainStep => EndInv'
<1> SUFFICES ASSUME EndInv, MainStep
             PROVE  EndInv'
  OBVIOUS
<1> USE DEF EndInv, TypeOK, ListenerClosed, HttpWaitedFor, HttpDrained,
            ClosedAtTheEnd, NilServesNobody, StopDrains, CloseIsLast,
            MainGoes, httpVars, grpcVars, handlerVars, serverVars, rest
<1>1. CASE LoadFails \/ Configure \/ ProducerFails \/ StartServers \/ Notify
  BY <1>1 DEF LoadFails, Configure, ProducerFails, StartServers, Notify
<1>2. CASE LeaveSelect
  BY <1>2 DEF LeaveSelect
<1>3. CASE HttpShutdownReturns
  BY <1>3 DEF HttpShutdownReturns, ShutdownCompletes, ShutdownGivesUp
<1>4. CASE StopFindsNil
  BY <1>4 DEF StopFindsNil
<1>5. CASE StopFindsServer
  BY <1>5 DEF StopFindsServer
<1>6. CASE GracefulStopReturns
  BY <1>6 DEF GracefulStopReturns, RPCsEnded
<1>7. CASE CloseProducer
  BY <1>7 DEF CloseProducer
<1>8. CASE Exit
  BY <1>8 DEF Exit
<1> QED
  BY <1>1, <1>2, <1>3, <1>4, <1>5, <1>6, <1>7, <1>8 DEF MainStep

\* So do a signal and the end of the 30 s.
LEMMA WorldKeepsEnd == EndInv /\ (Signal \/ DeadlinePasses) => EndInv'
<1> SUFFICES ASSUME EndInv, Signal \/ DeadlinePasses
             PROVE  EndInv'
  OBVIOUS
<1> USE DEF EndInv, TypeOK, ListenerClosed, HttpWaitedFor, HttpDrained,
            ClosedAtTheEnd, NilServesNobody, StopDrains, CloseIsLast,
            Ended, httpVars, grpcVars, handlerVars, serverVars
<1>1. CASE Signal
  BY <1>1 DEF Signal
<1>2. CASE DeadlinePasses
  BY <1>2 DEF DeadlinePasses
<1> QED
  BY <1>1, <1>2

\* The inductive invariant of the end of the process.
THEOREM EndInvariant == Spec => []EndInv
<1>1. EndInv /\ UNCHANGED vars => EndInv'
  BY DEF EndInv, TypeOK, ListenerClosed, HttpWaitedFor, HttpDrained,
         ClosedAtTheEnd, NilServesNobody, StopDrains, CloseIsLast,
         vars, serverVars, httpVars, grpcVars, handlerVars, rest
<1>2. EndInv /\ [Next]_vars => EndInv'
  BY <1>1, ServerKeepsEnd, HandlersKeepEnd, MainKeepsEnd, WorldKeepsEnd DEF Next
<1> QED
  BY EndInit, <1>2, PTL DEF Spec

\* The variables keep their types, the counts of handlers their bound.
THEOREM LifecycleTypes == Spec => []TypeOK
<1>1. EndInv => TypeOK
  BY DEF EndInv
<1> QED
  BY EndInvariant, <1>1, PTL

\* Close runs under a handler only if Shutdown gave up waiting for it, or Stop
\* found no server.
THEOREM CloseComesLast == Spec => []CloseIsLast
<1>1. EndInv => CloseIsLast
  BY DEF EndInv
<1> QED
  BY EndInvariant, <1>1, PTL
=============================================================================
