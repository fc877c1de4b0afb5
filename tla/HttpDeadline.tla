---------------------------- MODULE HttpDeadline ----------------------------
(***************************************************************************)
(* The deadline the Timeout middleware puts on a request's context, beside *)
(* HttpEventHandler.  The context is in c.Request, which no handler passes *)
(* on: SendEvent makes its own, so expired changes nothing else.           *)
(***************************************************************************)
EXTENDS HttpEventHandler

VARIABLE expired    \* handlers whose request's deadline has passed

deadlineVars == <<allVars, expired>>

DeadlineInit == HttpInit /\ expired = {}

\* server.write_timeout seconds, or 30, after the middleware was entered.
DeadlinePasses(h) ==
    /\ stage[h] \in {"sending", "waiting"}
    /\ expired' = expired \cup {h}
    /\ UNCHANGED allVars

DeadlineNext ==
    \/ HttpNext /\ UNCHANGED expired
    \/ \E h \in Callers : DeadlinePasses(h)

DeadlineSpec ==
    /\ DeadlineInit /\ [][DeadlineNext]_deadlineVars
    /\ \A h \in Callers : WF_deadlineVars(HandlerStep(h) /\ UNCHANGED expired)

----------------------------------------------------------------------------
\* middleware.go:198, "Timeout middleware sets a timeout for request processing":
\* a request whose time is over sends no further event to Kafka.  (The gRPC
\* handlers look at their context once per event, see CancelStopsBatch.)
DeadlineStopsBatch ==
    [][\A h \in expired : ~InFlight(h) => ~InFlight(h)']_deadlineVars
=============================================================================
