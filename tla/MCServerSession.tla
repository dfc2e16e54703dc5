-------------------------- MODULE MCServerSession --------------------------
(***************************************************************************)
(* ServerSession for a few requests of every kind.                         *)
(***************************************************************************)
EXTENDS ServerSession, TLC

=============================================================================
