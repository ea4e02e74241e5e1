---------------------------- MODULE HttpExchange ----------------------------
(***************************************************************************)
(* One request and its response: the steps of do_session_awaitable(), the  *)
(* same for callback-based and synchronous requests.                       *)
(***************************************************************************)
EXTENDS Naturals, Sequences

\* What is awaited in turn, after a start that may throw for a malformed URL or a
\* bad host name; a https URL takes a TLS stream.
Steps(tls) ==
    IF tls
    THEN <<"start", "resolve", "connect", "handshake", "request", "response", "shutdown">>
    ELSE <<"start", "resolve", "connect", "request", "response">>

\* Step k goes well or throws; the exchange is over at step 0.  An error of the
\* shutdown is only logged.
Outcomes(tls, k, response) ==
    {[step |-> IF k = Len(Steps(tls)) THEN 0 ELSE k + 1,
      response |-> IF Steps(tls)[k] = "response" THEN "answer" ELSE response]}
    \cup {[step |-> 0, response |-> "error"] : s \in {Steps(tls)[k]} \ {"shutdown"}}
=============================================================================
