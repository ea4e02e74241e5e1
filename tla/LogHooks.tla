------------------------------- MODULE LogHooks ------------------------------
(***************************************************************************)
(* The log handler and its level getter, which any thread installs or      *)
(* clears while others log.  A pair is one immutable node that is swapped  *)
(* atomically; a replaced node is kept in a lock-free list.                *)
(***************************************************************************)
EXTENDS Naturals, FiniteSets

CONSTANTS
    Threads,    \* calls of set_log_handler(), clear_log_handler() and a log macro
    Levels,     \* the numbers of the levels a macro has or a getter returns
    null        \* no node

\* A node is what one installation published, named by the call that did.
VARIABLES
    g_hooks,        \* the node installed
    g_retired,      \* the top of the list of replaced nodes
    retired_next,   \* the links of that list
    get_level,      \* what the getter of each node returns
    thread          \* each call: where it is, its node, level, and the node it read

vars == <<g_hooks, g_retired, retired_next, get_level, thread>>

NewCall == [at |-> "new", node |-> null, level |-> 0, passed |-> null, handled |-> null]

Init ==
    /\ g_hooks = null /\ g_retired = null
    /\ retired_next = [t \in Threads |-> null]
    /\ get_level = [t \in Threads |-> 0]
    /\ thread = [t \in Threads |-> NewCall]

At(t, place) == thread[t].at = place

-----------------------------------------------------------------------------
(* set_log_handler() and clear_log_handler().                              *)

SetLogHandler(t) ==
    /\ At(t, "new")
    /\ \E l \in Levels : get_level' = [get_level EXCEPT ![t] = l]
    /\ thread' = [thread EXCEPT ![t].at = "publish", ![t].node = t]
    /\ UNCHANGED <<g_hooks, g_retired, retired_next>>

ClearLogHandler(t) ==
    /\ At(t, "new")
    /\ thread' = [thread EXCEPT ![t].at = "publish"]
    /\ UNCHANGED <<g_hooks, g_retired, retired_next, get_level>>

\* The exchange; what it returns is to be retired.
Publish(t) ==
    /\ At(t, "publish")
    /\ g_hooks' = thread[t].node
    /\ thread' = [thread EXCEPT ![t].at = IF g_hooks = null THEN "done" ELSE "retire", ![t].node = g_hooks]
    /\ UNCHANGED <<g_retired, retired_next, get_level>>

Retire(t) ==
    /\ At(t, "retire")
    /\ retired_next' = [retired_next EXCEPT ![thread[t].node] = g_retired]
    /\ thread' = [thread EXCEPT ![t].at = "push"]
    /\ UNCHANGED <<g_hooks, g_retired, get_level>>

\* The compare-and-swap loads the top again when it fails, for no reason if it likes.
Push(t) ==
    /\ At(t, "push")
    /\ \/ /\ retired_next[thread[t].node] = g_retired
          /\ g_retired' = thread[t].node
          /\ thread' = [thread EXCEPT ![t].at = "done"]
          /\ UNCHANGED retired_next
       \/ /\ retired_next' = [retired_next EXCEPT ![thread[t].node] = g_retired]
          /\ UNCHANGED <<g_retired, thread>>
    /\ UNCHANGED <<g_hooks, get_level>>

-----------------------------------------------------------------------------
(* A log macro.                                                            *)

Log(t) ==
    /\ At(t, "new")
    /\ \E l \in Levels : thread' = [thread EXCEPT ![t].at = "should_log", ![t].level = l]
    /\ UNCHANGED <<g_hooks, g_retired, retired_next, get_level>>

\* should_log() loads the node, and calls its getter, which may throw.
ShouldLog(t) ==
    /\ At(t, "should_log")
    /\ \/ /\ g_hooks # null
          /\ thread[t].level >= get_level[g_hooks]
          /\ thread' = [thread EXCEPT ![t].at = "log_message", ![t].passed = g_hooks]
       \/ thread' = [thread EXCEPT ![t].at = "done"]
    /\ UNCHANGED <<g_hooks, g_retired, retired_next, get_level>>

\* log_message_internal() loads the node again, and calls its handler.
LogMessage(t) ==
    /\ At(t, "log_message")
    /\ thread' = [thread EXCEPT ![t].at = "done", ![t].handled = g_hooks]
    /\ UNCHANGED <<g_hooks, g_retired, retired_next, get_level>>

Next == \E t \in Threads :
    \/ SetLogHandler(t) \/ ClearLogHandler(t) \/ Publish(t) \/ Retire(t) \/ Push(t)
    \/ Log(t) \/ ShouldLog(t) \/ LogMessage(t)

Spec == Init /\ [][Next]_vars

-----------------------------------------------------------------------------
(* Properties.                                                             *)

\* "a reader never observes a half-installed handler, nor a new handler paired with
\* the previous getter." (logging.hpp:27-28): the handler that a macro calls was
\* installed with the getter that let the message through.
PairObserved == \A t \in Threads : thread[t].handled \in {null, thread[t].passed}
=============================================================================
