---------------------------- MODULE MCClientPool ----------------------------
(***************************************************************************)
(* ClientPool on small sets of calls and sessions.                         *)
(***************************************************************************)
EXTENDS ClientPool, TLC

\* Addresses are interchangeable, and so are calls with responses of a size.
Symmetry ==
  Permutations(Sessions) \cup Permutations(Calls \ Oversized)

=============================================================================
