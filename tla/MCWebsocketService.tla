------------------------- MODULE MCWebsocketService --------------------------
(***************************************************************************)
(* WebsocketService for TLC: two users and the callbacks of the service    *)
(* thread call open(), shutdown() and set_busy_poll() in every order.  Two *)
(* identifiers are enough to see a second service thread beside the first. *)
(***************************************************************************)
EXTENDS WebsocketService

CONSTANTS u1, u2, t1, t2
=============================================================================
