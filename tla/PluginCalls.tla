---------------------------- MODULE PluginCalls ----------------------------
(***************************************************************************)
(* What the plugin executor promises its callers, whatever plugins do:     *)
(* each submitted call gets one result; the calls it accepts are completed *)
(* in the order it accepted them; only so many wait; and once it stops it  *)
(* accepts no more.  Between, a call is either waiting or it is not.       *)
(***************************************************************************)
EXTENDS Naturals, Sequences, SequencesExt

CONSTANTS
  Calls,       \* the calls ever submitted
  MaxQueued    \* kMaximumQueuedPluginCalls

VARIABLES
  results,     \* the result of each call, "none" while it has none
  waiting,     \* accepted calls without a result
  stopping     \* the executor is being destroyed

vars == <<results, waiting, stopping>>

\* What submit may answer at once.
Rejections == {"invalid_request", "rejected_source", "cancelled", "stopped", "queue_full"}

\* What an accepted call may end with.
Completions ==
  {"success", "cancelled", "timeout", "launch_failed", "invocation_failed", "stopped"}

Init == results = [c \in Calls |-> "none"] /\ waiting = <<>> /\ stopping = FALSE

New(c) == results[c] = "none" /\ c \notin ToSet(waiting)

\* Beside the queued calls one call is in the worker's hands.
Accept(c) ==
  /\ New(c) /\ ~stopping /\ Len(waiting) <= MaxQueued
  /\ waiting' = Append(waiting, c)
  /\ UNCHANGED <<results, stopping>>

Reject(c, status) ==
  /\ New(c)
  /\ status = "stopped" => stopping
  /\ status = "queue_full" => Len(waiting) >= MaxQueued
  /\ results' = [results EXCEPT ![c] = status]
  /\ UNCHANGED <<waiting, stopping>>

Complete(status) ==
  /\ waiting # <<>>
  /\ status = "stopped" => stopping
  /\ results' = [results EXCEPT ![Head(waiting)] = status]
  /\ waiting' = Tail(waiting)
  /\ UNCHANGED stopping

Stop ==
  /\ ~stopping
  /\ stopping' = TRUE
  /\ UNCHANGED <<results, waiting>>

Next ==
  \/ \E c \in Calls : Accept(c) \/ \E status \in Rejections : Reject(c, status)
  \/ \E status \in Completions : Complete(status)
  \/ Stop

Spec == Init /\ [][Next]_vars
=============================================================================
