---------------------------- MODULE MCWriteChain -----------------------------
(***************************************************************************)
(* WriteChain for TLC: the service thread s and two other senders.  Three  *)
(* records are enough for one to be left behind while a second is written  *)
(* and a third is being published.  No symmetry: the run checks liveness.  *)
(***************************************************************************)
EXTENDS WriteChain

CONSTANTS s, p1, p2

=============================================================================
