--------------------------- MODULE MCHttpDeadline ---------------------------
(***************************************************************************)
(* HttpDeadline for TLC, with the instance of MCHttpEventHandler.          *)
(***************************************************************************)
EXTENDS MCHttpEventHandler, HttpDeadline
=============================================================================
