---------------------------- MODULE MCGrpcStream ----------------------------
(***************************************************************************)
(* The instance of GrpcStream for TLC.                                     *)
(***************************************************************************)
EXTENDS MCGrpcEventHandler, GrpcStream

Sends(item) == [kind |-> "event", event |-> item]
Says(k) == [kind |-> k]

\* Streams: every kind of message, every way an event can go, and a half-close
\* behind the first, a middle and the last message.
StreamScripts ==
    {<<Sends(Good(0, t1)), Sends(Good(9, t1)), Says("ping")>>,
     <<Says("config"), Sends(Incomplete(t1)), Sends(Good(0, t2)), Sends(Good(0, t1))>>,
     <<Sends(NotANumber(t1)), Says("unset"), Says("ping"), Sends(Good(9, t1))>>,
     <<Sends(Good(9, t1))>>,
     << >>}
=============================================================================
