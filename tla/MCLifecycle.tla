---------------------------- MODULE MCLifecycle ----------------------------
(***************************************************************************)
(* Lifecycle for TLC.  Its constants are given by the .cfg files.          *)
(***************************************************************************)
EXTENDS Lifecycle

\* Both values of a configuration flag.
EitherWay == {TRUE, FALSE}

=============================================================================
