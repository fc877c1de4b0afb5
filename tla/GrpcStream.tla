----------------------------- MODULE GrpcStream -----------------------------
(***************************************************************************)
(* internal/api/grpc/handlers/event_handler.go: StreamEvents, beside the   *)
(* unary and batch RPCs of GrpcEventHandler.                               *)
(*                                                                         *)
(* One handler goroutine serves one stream: it takes a message, handles    *)
(* it, and sends its reply before it takes the next.  Replies name no      *)
(* message; an error names no event either, the client has to count.       *)
(***************************************************************************)
EXTENDS GrpcEventHandler

CONSTANTS
    Scripts,    \* what clients may send before they half-close
    Window      \* replies the transport takes before the client reads one

\* A message is an event, a ping, a configuration, or has none of them set.
StreamMessage ==
    [kind : {"event"}, event : ClientEvent] \cup [kind : {"ping", "config", "unset"}]

ASSUME ScriptsAssumption ==
    \A s \in Scripts :
        /\ s \in Seq(StreamMessage)
        /\ \A i \in 1..Len(s) : s[i].kind = "event" => Sendable(s[i].event)
ASSUME WindowAssumption == Window \in Nat \ {0}

VARIABLES
    script,     \* script[h]: what h's client sends
    got,        \* got[h]: how many messages Recv has returned
    replies,    \* replies[h]: what Send has taken
    unread      \* unread[h]: replies the client has not read yet

streamVars == <<script, got, replies, unread>>
allStreamVars == <<allVars, streamVars>>

StreamInit ==
    /\ GrpcInit
    /\ script = [h \in Callers |-> << >>]
    /\ got = [h \in Callers |-> 0]
    /\ replies = [h \in Callers |-> << >>]
    /\ unread = [h \in Callers |-> 0]

StreamStages == {"checking", "receiving", "handling", "producing", "replying"}

Message(h) == script[h][got[h]]

Goes(h, from, to) ==
    /\ stage[h] = from
    /\ stage' = [stage EXCEPT ![h] = to]
    /\ UNCHANGED <<vars, req, next, results, code, lastId>>

Ends(h, from, c) ==
    /\ stage[h] = from
    /\ Return(h, c)
    /\ UNCHANGED <<vars, req, next, results, lastId, streamVars>>

----------------------------------------------------------------------------
(* The handler.                                                            *)

OpenStream(h, s) ==
    /\ Goes(h, "idle", "checking")
    /\ script' = [script EXCEPT ![h] = s]
    /\ UNCHANGED <<got, replies, unread>>

\* The select at the top of the loop.
CheckContext(h) ==
    \/ /\ h \in cancelled
       /\ Ends(h, "checking", "Canceled")
    \/ /\ h \notin cancelled
       /\ Goes(h, "checking", "receiving")
       /\ UNCHANGED streamVars

\* Recv returns a message, also one that came before the context was done.
RecvMessage(h) ==
    /\ got[h] < Len(script[h])
    /\ got' = [got EXCEPT ![h] = @ + 1]
    /\ Goes(h, "receiving",
            CASE script[h][got'[h]].kind = "event" -> "handling"
              [] script[h][got'[h]].kind = "ping" -> "replying"
              [] OTHER -> "checking")
    /\ UNCHANGED <<script, replies, unread>>

\* Recv returns io.EOF: the client has half-closed.
RecvEOF(h) ==
    /\ got[h] = Len(script[h])
    /\ Ends(h, "receiving", "OK")

\* Recv fails: an oversized or undecodable message, a broken connection ...
RecvFails(h) == Ends(h, "receiving", "Internal")

\* ... or a context that is done, which it does not wait behind.
RecvError(h) == h \in cancelled /\ RecvFails(h)

\* validateEvent refuses the event.
RejectEvent(h) ==
    /\ stage[h] = "handling" /\ ~Valid(Message(h).event)
    /\ Goes(h, "handling", "replying")
    /\ UNCHANGED streamVars

\* handleStreamEvent calls ProduceEvent with the stream's context.
HandleEvent(h) ==
    /\ stage[h] = "handling" /\ Valid(Message(h).event)
    /\ ProduceEvent(h, EventOf(Message(h).event))
    /\ TakeId(Message(h).event)
    /\ stage' = [stage EXCEPT ![h] = "producing"]
    /\ UNCHANGED <<req, next, results, code, streamVars>>

\* Bug: an event that fails is logged, and the loop continues without a reply.
ProducedOrLogged(h) ==
    /\ pc[h] \in {"ok", "failed"}
    /\ Goes(h, "producing", IF pc[h] = "ok" THEN "replying" ELSE "checking")
    /\ UNCHANGED streamVars

\* It returned, with an offset or an error; both are answered.
EventProduced(h) ==
    /\ pc[h] \in {"ok", "failed"}
    /\ Goes(h, "producing", "replying")
    /\ UNCHANGED streamVars

\* It panicked: the stream's recovery interceptor ends the RPC.
StreamPanicked(h) ==
    /\ pc[h] = "panicked"
    /\ Ends(h, "producing", "Internal")

\* The reply to the message h has just handled.
ReplyOf(h) ==
    IF Message(h).kind = "ping" THEN [kind |-> "pong"]
    ELSE IF Valid(Message(h).event) /\ pc[h] = "ok"
    THEN [kind |-> "ack", id |-> cur[h].id,
          part |-> PartitionOf(cur[h]), pos |-> pos[h]]
    ELSE [kind |-> "error"]

\* Send returns once the transport has taken the reply ...
SendReply(h) ==
    /\ unread[h] < Window
    /\ Goes(h, "replying", "checking")
    /\ replies' = [replies EXCEPT ![h] = Append(@, ReplyOf(h))]
    /\ unread' = [unread EXCEPT ![h] = @ + 1]
    /\ UNCHANGED <<script, got>>

\* Bug: a Send that waits for the client does not look at the context.
SendWaits(h) == FALSE

\* ... or fails, as the client or the connection has gone.
SendReplyFails(h) ==
    /\ h \in cancelled
    /\ Ends(h, "replying", "Canceled")

StreamStep(h) ==
    \/ CheckContext(h)
    \/ RecvError(h)
    \/ RejectEvent(h)
    \/ HandleEvent(h)
    \/ EventProduced(h)
    \/ StreamPanicked(h)
    \/ SendReply(h)
    \/ SendReplyFails(h)

----------------------------------------------------------------------------
(* The client and the connection.                                          *)

ClientReads(h) ==
    /\ unread[h] > 0
    /\ unread' = [unread EXCEPT ![h] = @ - 1]
    /\ UNCHANGED <<allVars, script, got, replies>>

\* The client cancels, its deadline passes, or the server closes the connection,
\* MaxConnectionAge and its grace after it was made.
CancelStream(h) ==
    /\ stage[h] \in StreamStages
    /\ Cancel(h)
    /\ UNCHANGED <<grpcVars, streamVars>>

StreamNext ==
    \/ GrpcNext /\ UNCHANGED streamVars
    \/ \E h \in Callers, s \in Scripts : OpenStream(h, s)
    \/ \E h \in Callers : StreamStep(h)
    \/ \E h \in Callers :
          \/ RecvMessage(h)
          \/ RecvEOF(h)
          \/ RecvFails(h)
          \/ ClientReads(h)
          \/ CancelStream(h)

\* Goroutines run and sarama's timeouts fire; a client need not send, read,
\* half-close or go away.
StreamSpec ==
    /\ StreamInit /\ [][StreamNext]_allStreamVars
    /\ \A h \in Callers :
          WF_allStreamVars(\/ HandlerStep(h) /\ UNCHANGED streamVars
                           \/ StreamStep(h))

----------------------------------------------------------------------------
(* Properties.                                                             *)

Answerable(m) == m.kind \in {"event", "ping"}

\* How many of the first k messages of h's stream have to be answered.
Asked(h, k) == Cardinality({j \in 1..k : Answerable(script[h][j])})

\* reply is an answer to message m; an acknowledgement is true.
Answers(reply, m) ==
    /\ reply.kind = "pong" <=> m.kind = "ping"
    /\ reply.kind = "ack" =>
          /\ m.event.id \in {0, reply.id}
          /\ CommittedAt([id |-> reply.id, type |-> m.event.type, finite |-> TRUE],
                         HashPartition[m.event.type], reply.pos)
          /\ reply.part = HashPartition[m.event.type]

\* A client can tell by counting what a reply, an error above all, is about: the
\* i-th reply answers the i-th event or ping; when a stream breaks at most the
\* last message is in doubt, and when it ends well nothing is.
RepliesCanBeCounted ==
    \A h \in Callers :
        /\ Asked(h, got[h]) - Len(replies[h]) \in
              IF stage[h] = "done" /\ code[h] = "OK" THEN {0} ELSE {0, 1}
        /\ \A k \in 1..got[h] :
              (Answerable(script[h][k]) /\ Asked(h, k) <= Len(replies[h])) =>
                  Answers(replies[h][Asked(h, k)], script[h][k])

\* The offsets acknowledged on a stream grow within each partition: a consumer
\* that reads in order sees the acknowledged events as the client sent them.
AcksInOrder ==
    \A h \in Callers : \A i, j \in 1..Len(replies[h]) :
        LET a == replies[h][i]
            b == replies[h][j]
        IN  (i < j /\ a.kind = "ack" /\ b.kind = "ack" /\ a.part = b.part)
            => a.pos < b.pos

\* A stream whose client or connection has gone ends, wherever its handler is:
\* in Recv, in SendMessage with silent brokers, in a Send nobody reads.
StreamEnds ==
    \A h \in Callers :
        (h \in cancelled /\ stage[h] \in StreamStages) ~> stage[h] = "done"
=============================================================================
