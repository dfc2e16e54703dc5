------------------------- MODULE MCServerLifecycle -------------------------
(***************************************************************************)
(* ServerLifecycle on small sets of workers and connections.  Nothing is   *)
(* declared symmetric: its runs check liveness.                            *)
(***************************************************************************)
EXTENDS ServerLifecycle, TLC

=============================================================================
