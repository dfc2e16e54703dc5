--------------------------- MODULE MCTlsConnect ---------------------------
(***************************************************************************)
(* TlsConnect on small sets of workers and calling threads.                *)
(***************************************************************************)
EXTENDS TlsConnect, TLC

=============================================================================
