------------------------- MODULE MCWebsocketSession --------------------------
(***************************************************************************)
(* WebsocketSession for TLC.  Two sessions make one handoff of the buffer, *)
(* with the second closed or destroyed while it waits; the safety of any   *)
(* longer chain of them is proved in WebsocketSessionProofs.               *)
(***************************************************************************)
EXTENDS WebsocketSession
=============================================================================
