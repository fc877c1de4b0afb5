----------------------------- MODULE Lifecycle -----------------------------
(***************************************************************************)
(* cmd/gateway/main.go with the gRPC server's Start and Stop: the main     *)
(* goroutine from its first line, the goroutine of each server, the        *)
(* handlers they have started and the order in which all of them end.      *)
(*                                                                         *)
(* Handlers are counted, not followed: what they do is HttpEventHandler's  *)
(* and GrpcEventHandler's matter.  The write of s.server in Start and its  *)
(* read in Stop are not synchronised; a pointer is stored in one piece, so *)
(* the read finds nil or the server, whichever side it falls of the write. *)
(***************************************************************************)
EXTENDS Naturals

CONSTANTS
    Enabled,        \* the values cfg.GRPC.Enabled may have
    AgeLimited,     \* the values of "max_connection_age is not 0"
    MaxHandlers     \* bound: handlers of one server at a time

ASSUME EnabledAssumption == Enabled \subseteq BOOLEAN
ASSUME AgeLimitedAssumption == AgeLimited \subseteq BOOLEAN
ASSUME MaxHandlersAssumption == MaxHandlers \in Nat

VARIABLES
    main,       \* init, configured, starting, select, httpShutdown, grpcStop,
                \* draining, closing; ends of the process: exited, fatal, killed
    http,       \* starting, listening, shutdown (its listener is closed), closed
    serveErr,   \* ListenAndServe has returned an error that is not ErrServerClosed
    grpc,       \* Start's goroutine: starting, created, serving, returned
    server,     \* s.server: nil, set, stopped (GracefulStop was called)
    errChan,    \* grpcErrChan: open, error (one is buffered), closed
    signalled,  \* SIGINT or SIGTERM was delivered
    deadline,   \* the 30 s of the shutdown context are over
    httpBusy,   \* HTTP handlers running
    grpcBusy,   \* unary and batch RPC handlers running
    streams,    \* StreamEvents handlers running
    producer,   \* the Kafka producer: closed once its Close has returned
    enabled, ageLimited     \* the configuration, constant

grpcVars == <<grpc, server, errChan>>
httpVars == <<http, serveErr>>
serverVars == <<httpVars, grpcVars>>
handlerVars == <<httpBusy, grpcBusy, streams>>
rest == <<signalled, deadline, producer, enabled, ageLimited>>
vars == <<main, serverVars, handlerVars, rest>>

Init ==
    /\ main = "init"
    /\ http = "starting"
    /\ serveErr = FALSE
    /\ grpc = "starting"
    /\ server = "nil"
    /\ errChan = "open"
    /\ signalled = FALSE
    /\ deadline = FALSE
    /\ httpBusy = 0 /\ grpcBusy = 0 /\ streams = 0
    /\ producer = "open"
    /\ enabled \in Enabled
    /\ ageLimited \in AgeLimited

Ended == main \in {"exited", "fatal", "killed"}

\* The server goroutines have been started and the process is there.
Running == main \notin {"init", "configured"} /\ ~Ended

----------------------------------------------------------------------------
(* The server goroutines.                                                  *)

\* ListenAndServe; it returns ErrServerClosed when Shutdown came first.
HttpListens ==
    /\ Running
    /\ http = "starting"
    /\ http' = IF main \in {"starting", "select"} THEN "listening" ELSE "closed"
    /\ UNCHANGED <<main, serveErr, grpcVars, handlerVars, rest>>

\* ListenAndServe returns an error: the address is in use, also when Shutdown has
\* come meanwhile; or the listener breaks, and the connections it had accepted go
\* on.  Behind Shutdown it is ErrServerClosed.
HttpListenFails ==
    /\ Running
    /\ \/ http = "starting" /\ http' = "closed"
       \/ http = "listening" /\ http' = "shutdown"
    /\ serveErr' = TRUE
    /\ UNCHANGED <<main, grpcVars, handlerVars, rest>>

\* Bug: ErrServerClosed is an error like any other.
AnyServeError == serveErr \/ http \in {"shutdown", "closed"}

ServeError == serveErr

\* logger.Fatal exits the process at once, without the deferred calls; main may
\* have left the select and be anywhere in its shutdown by then.
HttpFatal ==
    /\ Running
    /\ ServeError
    /\ main' = "fatal"
    /\ UNCHANGED <<serverVars, handlerVars, rest>>

\* Start returns, with an error or nil; the goroutine then closes the channel.
StartReturns(chan) ==
    /\ Running
    /\ grpc' = "returned"
    /\ errChan' = chan
    /\ UNCHANGED <<main, httpVars, server, handlerVars, rest>>

GrpcDisabled ==
    /\ grpc = "starting" /\ ~enabled
    /\ StartReturns("closed")

GrpcListenFails ==
    /\ grpc = "starting" /\ enabled
    /\ StartReturns("error")

\* Bug: server := grpc.NewServer(...), a variable of Start's own.
GrpcCreatedLocally ==
    /\ Running
    /\ grpc = "starting" /\ enabled
    /\ grpc' = "created"
    /\ UNCHANGED <<main, httpVars, server, errChan, handlerVars, rest>>

\* s.server = grpc.NewServer(...)
GrpcCreated ==
    /\ Running
    /\ grpc = "starting" /\ enabled
    /\ grpc' = "created"
    /\ server' = "set"
    /\ UNCHANGED <<main, httpVars, errChan, handlerVars, rest>>

GrpcServes ==
    /\ Running
    /\ grpc = "created" /\ server = "set"
    /\ grpc' = "serving"
    /\ UNCHANGED <<main, httpVars, server, errChan, handlerVars, rest>>

\* Serve on a stopped server: ErrServerStopped.
GrpcServesTooLate ==
    /\ grpc = "created" /\ server = "stopped"
    /\ StartReturns("error")

\* A running Serve ends: after GracefulStop, or by an error of the listener.
GrpcServeEnds ==
    /\ grpc = "serving"
    /\ \/ server = "stopped" /\ main # "draining" /\ StartReturns("closed")
       \/ server = "set" /\ StartReturns("error")

ServerStep ==
    \/ HttpListens
    \/ HttpListenFails
    \/ HttpFatal
    \/ GrpcDisabled
    \/ GrpcListenFails
    \/ GrpcCreated
    \/ GrpcServes
    \/ GrpcServesTooLate
    \/ GrpcServeEnds

----------------------------------------------------------------------------
(* Requests and the handlers they start.                                   *)

\* A connection accepted before the listener was closed, or broke, can bring a
\* request later: Shutdown waits for it too, unless it gives up.
HttpRequest ==
    /\ Running
    /\ http \in {"listening", "shutdown"} /\ httpBusy < MaxHandlers
    /\ httpBusy' = httpBusy + 1
    /\ UNCHANGED <<main, serverVars, grpcBusy, streams, rest>>

HttpDone ==
    /\ Running
    /\ httpBusy > 0
    /\ httpBusy' = httpBusy - 1
    /\ UNCHANGED <<main, serverVars, grpcBusy, streams, rest>>

\* Serve runs, or has ended by an error of the listener: that closes none of the
\* connections accepted before.
GrpcAccepts == Running /\ grpc \in {"serving", "returned"} /\ server = "set"

GrpcCall ==
    /\ GrpcAccepts
    /\ grpcBusy < MaxHandlers
    /\ grpcBusy' = grpcBusy + 1
    /\ UNCHANGED <<main, serverVars, httpBusy, streams, rest>>

StreamCall ==
    /\ GrpcAccepts
    /\ streams < MaxHandlers
    /\ streams' = streams + 1
    /\ UNCHANGED <<main, serverVars, httpBusy, grpcBusy, rest>>

GrpcDone ==
    /\ Running
    /\ grpcBusy > 0
    /\ grpcBusy' = grpcBusy - 1
    /\ UNCHANGED <<main, serverVars, httpBusy, streams, rest>>

\* A stream ends when its client closes it ...
StreamDone ==
    /\ Running
    /\ streams > 0
    /\ streams' = streams - 1
    /\ UNCHANGED <<main, serverVars, httpBusy, grpcBusy, rest>>

\* ... or when the server closes its connection, MaxConnectionAge and its grace
\* after the connection was made.
AgeOut == ageLimited /\ StreamDone

HandlerStep ==
    \/ HttpRequest
    \/ HttpDone
    \/ GrpcCall
    \/ StreamCall
    \/ GrpcDone
    \/ StreamDone

----------------------------------------------------------------------------
(* The main goroutine.                                                     *)

MainGoes(from, to) ==
    /\ main = from
    /\ main' = to

\* config.Load finds a file it cannot read or decode: logger.Fatal.
LoadFails ==
    /\ MainGoes("init", "fatal")
    /\ UNCHANGED <<serverVars, handlerVars, rest>>

\* The configuration is there.  An environment InitLogger does not know is no
\* failure: main falls back to the production logger.
Configure ==
    /\ MainGoes("init", "configured")
    /\ UNCHANGED <<serverVars, handlerVars, rest>>

\* NewProducer reaches no broker: logger.Fatal.
ProducerFails ==
    /\ MainGoes("configured", "fatal")
    /\ UNCHANGED <<serverVars, handlerVars, rest>>

\* The producer is there, and the goroutine of each server is started.
StartServers ==
    /\ MainGoes("configured", "starting")
    /\ UNCHANGED <<serverVars, handlerVars, rest>>

\* signal.Notify, only now: the servers may already be serving.
Notify ==
    /\ MainGoes("starting", "select")
    /\ UNCHANGED <<serverVars, handlerVars, rest>>

\* SIGINT or SIGTERM: its default before Notify is to end the process.
Signal ==
    /\ ~Ended
    /\ ~signalled
    /\ signalled' = TRUE
    /\ main' = IF main \in {"init", "configured", "starting"} THEN "killed" ELSE main
    /\ UNCHANGED <<serverVars, handlerVars, deadline, producer, enabled, ageLimited>>

\* The select: a signal, or anything out of grpcErrChan, its close included.
\* Shutdown closes the HTTP listener before it waits.
LeaveSelect ==
    /\ signalled \/ errChan # "open"
    /\ MainGoes("select", "httpShutdown")
    /\ http' = IF http = "listening" THEN "shutdown" ELSE http
    /\ UNCHANGED <<serveErr, grpcVars, handlerVars, rest>>

DeadlinePasses ==
    /\ main \in {"httpShutdown", "grpcStop", "draining", "closing"}
    /\ ~deadline
    /\ deadline' = TRUE
    /\ UNCHANGED <<main, serverVars, handlerVars, signalled, producer, enabled, ageLimited>>

\* Bugs: Shutdown waits for nobody; it has no deadline.
ShutdownIsClose == TRUE
ShutdownInBackground == FALSE

ShutdownCompletes == httpBusy = 0
ShutdownGivesUp == deadline

\* Shutdown(ctx) returns when every handler is done, or the time is over.
HttpShutdownReturns ==
    /\ MainGoes("httpShutdown", "grpcStop")
    /\ \/ ShutdownCompletes /\ http' = IF http = "shutdown" THEN "closed" ELSE http
       \/ ShutdownGivesUp /\ UNCHANGED http
    /\ UNCHANGED <<serveErr, grpcVars, handlerVars, rest>>

\* grpcSrv.Stop finds no server and does nothing ...
StopFindsNil ==
    /\ server = "nil"
    /\ MainGoes("grpcStop", "closing")
    /\ UNCHANGED <<serverVars, handlerVars, rest>>

\* ... or calls GracefulStop, which stops accepting ...
StopFindsServer ==
    /\ server = "set"
    /\ server' = "stopped"
    /\ MainGoes("grpcStop", "draining")
    /\ UNCHANGED <<httpVars, grpc, errChan, handlerVars, rest>>

RPCsEnded == grpcBusy = 0 /\ streams = 0

\* ... and waits for every RPC, with no bound of its own.
GracefulStopReturns ==
    /\ RPCsEnded
    /\ MainGoes("draining", "closing")
    /\ UNCHANGED <<serverVars, handlerVars, rest>>

\* The deferred kafkaProducer.Close returns.
CloseProducer ==
    /\ main = "closing"
    /\ producer = "open"
    /\ producer' = "closed"
    /\ UNCHANGED <<main, serverVars, handlerVars, signalled, deadline, enabled, ageLimited>>

\* Bug: the deferred Close is forgotten.
ExitWithoutClose ==
    /\ MainGoes("closing", "exited")
    /\ UNCHANGED <<serverVars, handlerVars, rest>>

Exit ==
    /\ producer = "closed"
    /\ MainGoes("closing", "exited")
    /\ UNCHANGED <<serverVars, handlerVars, rest>>

MainStep ==
    \/ LoadFails
    \/ Configure
    \/ ProducerFails
    \/ StartServers
    \/ Notify
    \/ LeaveSelect
    \/ HttpShutdownReturns
    \/ StopFindsNil
    \/ StopFindsServer
    \/ GracefulStopReturns
    \/ CloseProducer
    \/ Exit

Next ==
    \/ ServerStep
    \/ HandlerStep
    \/ Signal
    \/ DeadlinePasses
    \/ MainStep

Spec == Init /\ [][Next]_vars

\* Goroutines run, time passes, unary handlers return because SendMessage does
\* (RPCEnds of GrpcEventHandler, CallsEnd of Gateway), the streams of aged
\* connections end (StreamEnds of GrpcStream).  A client need not close its
\* stream, nobody has to send a request or a signal.
FairSpec ==
    /\ Spec
    /\ WF_vars(MainStep)
    /\ WF_vars(DeadlinePasses)
    /\ WF_vars(GrpcDone)
    /\ WF_vars(AgeOut)

----------------------------------------------------------------------------
(* Properties.                                                             *)

\* The variables keep their types, and Stop finds the server Start is serving.
TypeOK ==
    /\ main \in {"init", "configured", "starting", "select", "httpShutdown",
                 "grpcStop", "draining", "closing", "exited", "fatal", "killed"}
    /\ http \in {"starting", "listening", "shutdown", "closed"}
    /\ grpc \in {"starting", "created", "serving", "returned"}
    /\ server \in {"nil", "set", "stopped"}
    /\ errChan \in {"open", "error", "closed"}
    /\ {httpBusy, grpcBusy, streams} \subseteq 0..MaxHandlers
    /\ producer \in {"open", "closed"}
    /\ {serveErr, signalled, deadline, enabled, ageLimited} \subseteq BOOLEAN
    /\ grpc \in {"created", "serving"} => server # "nil"

\* The producer is closed under a running HTTP handler only if Shutdown waited
\* its 30 s for that handler in vain; and under an RPC only if Stop ran before
\* Start had made the server, so that there was nothing to wait for.
CloseIsLast ==
    producer = "closed" =>
        /\ httpBusy = 0 \/ deadline
        /\ grpcBusy + streams = 0 \/ server = "set"

\* When connections age, a signal ends the process, and so does the end of the
\* gRPC server, which takes HTTP with it: whatever the handlers do, and however
\* early in the start of the servers it comes.
ShutdownEnds ==
    ((signalled \/ errChan # "open") /\ ageLimited) ~> Ended

\* main.go:87, "Wait for interrupt signal or gRPC error".
ServesUntilToldToStop ==
    main \in {"httpShutdown", "grpcStop", "draining", "closing", "exited"} =>
        signalled \/ errChan = "error"

\* main.go:102, "Graceful shutdown with timeout": when the 30 s are over, main
\* waits for no handler any more.
ShutdownTimesOut == ~(deadline /\ main = "draining" /\ grpcBusy + streams > 0)

\* README.md:13, "Graceful shutdown: Proper cleanup and connection draining":
\* no RPC is running when the producer is closed under it.
RPCsDrained == producer = "closed" => grpcBusy + streams = 0
=============================================================================
