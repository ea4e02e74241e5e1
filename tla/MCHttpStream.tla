---------------------------- MODULE MCHttpStream -----------------------------
(***************************************************************************)
(* HttpStream and its executor for TLC: two threads, and three generations,*)
(* so that one can be closed before its session begins while another is    *)
(* still ending.  A second loop is there to be seen should it ever start.  *)
(***************************************************************************)
EXTENDS HttpStreamService

CONSTANTS c1, c2
=============================================================================
