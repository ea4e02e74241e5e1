------------------------------- MODULE MCHttp --------------------------------
(***************************************************************************)
(* Http for TLC: programs of callback-based requests with shutdowns, and   *)
(* of synchronous ones.                                                    *)
(***************************************************************************)
EXTENDS Http

CONSTANTS s1, s2

=============================================================================
