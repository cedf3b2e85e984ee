--------------------------- MODULE PluginExecutor ---------------------------
(***************************************************************************)
(* The Core Service's plugin executor: callers on any thread submit calls  *)
(* into a bounded queue, one worker thread runs them one after another in  *)
(* the session of a plugin process, and the destructor stops the worker    *)
(* and completes what is left.                                             *)
(*                                                                         *)
(* submit is two actions, its checks and its critical section, because     *)
(* cancellation and the stop request may come between them; the worker is  *)
(* split wherever it waits for another process.  The session's own         *)
(* protocol is in PluginInvoke; here a launch, an invocation or a shutdown *)
(* ends in any of its outcomes.                                            *)
(***************************************************************************)
EXTENDS Naturals, Sequences, SequencesExt

CONSTANTS
  Calls,       \* the calls ever submitted
  Plugins,     \* the plugins installed
  Permissions, \* the sensitive permissions
  Requests,    \* what callers may ask for
  MaxQueued,   \* kMaximumQueuedPluginCalls
  NoPlugin     \* the session is not valid

Sources == {"tsf_input", "core_background", "trusted_user_action", "plugin_service"}

\* A request: bounded says that it passes the checks of names, sizes, timeout
\* and depth, required is what the caller listed, serviceRequires what the
\* table of known services adds.
RequestType ==
  [plugin: Plugins, source: Sources, bounded: BOOLEAN,
   required: SUBSET Permissions, serviceRequires: SUBSET Permissions]

ASSUME MaxQueuedAssumption == MaxQueued \in Nat \ {0}
ASSUME RequestsAssumption == Requests \subseteq RequestType
ASSUME NoPluginAssumption == NoPlugin \notin Plugins

VARIABLES
  stage,       \* where each call's submit is
  request,     \* the request of each call, as submit completes it
  results,     \* the value of each call's promise, "none" while it is not set
  queue,       \* calls pushed and not taken
  job,         \* the call in the worker's hands
  abandoned,   \* calls swapped out of the queue at the end
  wpc,         \* where the worker is in run
  session,     \* the plugin whose session is valid
  stale,       \* the plugin's active version changed since its session began
  stopping,    \* the destructor has requested the stop
  cancelled,   \* calls whose caller asked to cancel them
  expired      \* calls whose deadline has passed

callVars   == <<stage, request, results>>
workerVars == <<queue, job, abandoned, wpc>>
envVars    == <<stopping, cancelled, expired>>
vars == <<callVars, workerVars, session, stale, envVars>>

\* What a call is before submit is called.
NoRequest == [plugin |-> NoPlugin]

Stages == {"new", "checked", "submitted"}

Statuses ==
  {"none", "success", "invalid_request", "rejected_source", "queue_full", "cancelled",
   "timeout", "launch_failed", "invocation_failed", "stopped"}

WorkerPc ==
  {"wait", "check", "switch", "launch", "dispatch", "invoke", "close", "drain", "ended"}

TypeOK ==
  /\ stage \in [Calls -> Stages]
  /\ request \in [Calls -> RequestType \cup {NoRequest}]
  /\ results \in [Calls -> Statuses]
  /\ queue \in Seq(Calls) /\ Len(queue) <= MaxQueued
  /\ job \in Seq(Calls) /\ Len(job) <= 1 /\ abandoned \in Seq(Calls)
  /\ wpc \in WorkerPc
  /\ session \in Plugins \cup {NoPlugin} /\ stale \in BOOLEAN
  /\ stopping \in BOOLEAN /\ cancelled \subseteq Calls /\ expired \subseteq Calls

Init ==
  /\ stage = [c \in Calls |-> "new"]
  /\ request = [c \in Calls |-> NoRequest]
  /\ results = [c \in Calls |-> "none"]
  /\ queue = <<>> /\ job = <<>> /\ abandoned = <<>> /\ wpc = "wait"
  /\ session = NoPlugin /\ stale = FALSE
  /\ stopping = FALSE /\ cancelled = {} /\ expired = {}

----------------------------------------------------------------------------
(* submit *)

\* The promise of c is set; the job goes, and with it what it asked for, its
\* deadline and its hold on the cancellation token.
SetResult(c, status) ==
  /\ results' = [results EXCEPT ![c] = status]
  /\ request' = [request EXCEPT ![c] = NoRequest]
  /\ cancelled' = cancelled \ {c} /\ expired' = expired \ {c}

\* reject, on the caller's thread.
Reject(c, status) ==
  /\ stage' = [stage EXCEPT ![c] = "submitted"]
  /\ SetResult(c, status)

\* The permission of a known service is added to those the caller listed.
Completed(r) == [r EXCEPT !.required = r.required \cup r.serviceRequires]

Acceptable(r) ==
  /\ r.source # "tsf_input"
  /\ r.required # {} => r.source = "trusted_user_action"

\* The checks of submit, on the caller's thread and without the lock.
SubmitCheck(c) ==
  /\ stage[c] = "new"
  /\ \E r \in Requests :
       \/ /\ ~r.bounded
          /\ Reject(c, "invalid_request")
       \/ /\ r.bounded /\ ~Acceptable(Completed(r))
          /\ Reject(c, "rejected_source")
       \/ /\ r.bounded /\ Acceptable(Completed(r)) /\ c \in cancelled
          /\ Reject(c, "cancelled")
       \/ /\ r.bounded /\ Acceptable(Completed(r)) /\ c \notin cancelled
          /\ stage' = [stage EXCEPT ![c] = "checked"]
          /\ request' = [request EXCEPT ![c] = Completed(r)]
          /\ UNCHANGED <<results, cancelled, expired>>
  /\ UNCHANGED <<workerVars, session, stale, stopping>>

\* Sensitivity variant: one call too many.
HasRoomOffByOne == Len(queue) <= MaxQueued

HasRoom == Len(queue) < MaxQueued

\* Sensitivity variant: a push into a queue that nobody will empty.
SubmitQueueUnchecked(c) ==
  /\ stage[c] = "checked" /\ HasRoom
  /\ stage' = [stage EXCEPT ![c] = "submitted"]
  /\ queue' = Append(queue, c)
  /\ UNCHANGED <<request, results, cancelled, expired>>
  /\ UNCHANGED <<job, abandoned, wpc, session, stale, stopping>>

\* The critical section of submit.
SubmitQueue(c) ==
  /\ stage[c] = "checked"
  /\ \/ /\ stopping
        /\ Reject(c, "stopped")
        /\ UNCHANGED queue
     \/ /\ ~stopping /\ ~HasRoom
        /\ Reject(c, "queue_full")
        /\ UNCHANGED queue
     \/ /\ ~stopping /\ HasRoom
        /\ stage' = [stage EXCEPT ![c] = "submitted"]
        /\ queue' = Append(queue, c)
        /\ UNCHANGED <<request, results, cancelled, expired>>
  /\ UNCHANGED <<job, abandoned, wpc, session, stale, stopping>>

----------------------------------------------------------------------------
(* The worker: run *)

JobRequest == request[Head(job)]

\* finish: the promise of the call in hand is set, and the worker waits again.
Finish(status) ==
  /\ SetResult(Head(job), status)
  /\ job' = <<>> /\ wpc' = "wait"
  /\ UNCHANGED <<stage, queue, abandoned, stopping>>

GoOn(pc) ==
  /\ wpc' = pc
  /\ UNCHANGED <<callVars, queue, job, abandoned, envVars>>

EndSession == session' = NoPlugin /\ stale' = FALSE

\* Sensitivity variant: the stop is noticed only once the queue is empty.
TakeAll ==
  /\ wpc = "wait"
  /\ \/ /\ queue # <<>>
        /\ job' = <<Head(queue)>> /\ queue' = Tail(queue) /\ wpc' = "check"
     \/ /\ queue = <<>> /\ stopping
        /\ wpc' = "close" /\ UNCHANGED <<job, queue>>
  /\ UNCHANGED <<callVars, abandoned, session, stale, envVars>>

\* Sensitivity variant: a stop does not end the wait for a call.
TakeWaits ==
  /\ wpc = "wait" /\ queue # <<>>
  /\ \/ /\ stopping
        /\ wpc' = "close" /\ UNCHANGED <<job, queue>>
     \/ /\ ~stopping
        /\ job' = <<Head(queue)>> /\ queue' = Tail(queue) /\ wpc' = "check"
  /\ UNCHANGED <<callVars, abandoned, session, stale, envVars>>

\* The wait ends with a stop request or a call; the stop comes first.
Take ==
  /\ wpc = "wait"
  /\ \/ /\ stopping
        /\ wpc' = "close" /\ UNCHANGED <<job, queue>>
     \/ /\ ~stopping /\ queue # <<>>
        /\ job' = <<Head(queue)>> /\ queue' = Tail(queue) /\ wpc' = "check"
  /\ UNCHANGED <<callVars, abandoned, session, stale, envVars>>

\* Sensitivity variant: any valid session will do.
NeedsSessionAny(c) == session = NoPlugin

NeedsSession(c) == session # request[c].plugin

\* Before the session: a cancelled or expired call is not worth one.
Check ==
  /\ wpc = "check"
  /\ LET c == Head(job)
     IN \/ c \in cancelled /\ Finish("cancelled")
        \/ c \notin cancelled /\ c \in expired /\ Finish("timeout")
        \/ c \notin cancelled /\ c \notin expired /\ NeedsSession(c) /\ GoOn("switch")
        \/ c \notin cancelled /\ c \notin expired /\ ~NeedsSession(c) /\ GoOn("dispatch")
  /\ UNCHANGED <<session, stale>>

\* The session of another plugin is shut down, or terminated if it does not
\* answer within a second.
Switch ==
  /\ wpc = "switch"
  /\ GoOn("launch") /\ EndSession

Launch ==
  /\ wpc = "launch"
  /\ \/ /\ Finish("launch_failed")
        /\ UNCHANGED <<session, stale>>
     \/ /\ GoOn("dispatch")
        /\ session' = JobRequest.plugin /\ stale' = FALSE

\* The deadline again, then the checks with which the session's invoke starts:
\* the permissions the caller listed (they may be unknown or repeated), the
\* cancellation of the call or of the worker, the active version (it may have
\* changed or be unreadable), the permissions granted.
Dispatch ==
  /\ wpc = "dispatch"
  /\ LET c == Head(job)
     IN \/ /\ c \in expired
           /\ Finish("timeout") /\ UNCHANGED <<session, stale>>
        \/ /\ c \notin expired /\ (c \in cancelled \/ stopping)
           /\ Finish("cancelled") /\ UNCHANGED <<session, stale>>
        \/ /\ c \notin expired /\ c \notin cancelled /\ ~stopping
           /\ Finish("invocation_failed") /\ EndSession
        \/ /\ c \notin expired /\ JobRequest.required # {}
           /\ Finish("invocation_failed") /\ UNCHANGED <<session, stale>>
        \/ /\ c \notin expired /\ c \notin cancelled /\ ~stopping /\ ~stale
           /\ GoOn("invoke") /\ UNCHANGED <<session, stale>>

\* The invocation ends in one of PluginInvoke's results.  A plugin may answer
\* with any status; a session that was terminated by force is gone.
Invoke ==
  /\ wpc = "invoke"
  /\ \/ /\ \E status \in {"success", "cancelled", "timeout", "invocation_failed"} :
             Finish(status)
        /\ UNCHANGED <<session, stale>>
     \/ /\ \E status \in {"cancelled", "timeout", "invocation_failed"} : Finish(status)
        /\ EndSession

\* After the loop the session is shut down or terminated, and the queue taken.
Close ==
  /\ wpc = "close"
  /\ wpc' = "drain" /\ abandoned' = queue /\ queue' = <<>>
  /\ EndSession
  /\ UNCHANGED <<callVars, job, envVars>>

\* Sensitivity variant: what is left in the queue is forgotten.
DrainForgets ==
  /\ wpc = "drain"
  /\ wpc' = "ended" /\ abandoned' = <<>>
  /\ UNCHANGED <<callVars, queue, job, session, stale, envVars>>

Drain ==
  /\ wpc = "drain"
  /\ \/ /\ abandoned # <<>>
        /\ SetResult(Head(abandoned), "stopped")
        /\ abandoned' = Tail(abandoned)
        /\ UNCHANGED wpc
     \/ /\ abandoned = <<>>
        /\ wpc' = "ended"
        /\ UNCHANGED <<request, results, abandoned, cancelled, expired>>
  /\ UNCHANGED <<stage, queue, job, session, stale, stopping>>

----------------------------------------------------------------------------
(* Callers, clocks and the plugin store *)

\* ~Impl: the stop is requested.  It takes no lock, so submits may be under way.
Stop ==
  /\ ~stopping
  /\ stopping' = TRUE
  /\ UNCHANGED <<callVars, workerVars, session, stale, cancelled, expired>>

Cancel(c) ==
  /\ c \notin cancelled /\ results[c] = "none"
  /\ cancelled' = cancelled \cup {c}
  /\ UNCHANGED <<callVars, workerVars, session, stale, stopping, expired>>

\* The deadline of a call is set when it is submitted.
Expire(c) ==
  /\ c \notin expired /\ stage[c] # "new" /\ results[c] = "none"
  /\ expired' = expired \cup {c}
  /\ UNCHANGED <<callVars, workerVars, session, stale, stopping, cancelled>>

\* The user deactivates the plugin, or activates another version of it.
ChangeActive ==
  /\ session # NoPlugin /\ ~stale
  /\ stale' = TRUE
  /\ UNCHANGED <<callVars, workerVars, session, envVars>>

Worker ==
  Take \/ Check \/ Switch \/ Launch \/ Dispatch \/ Invoke \/ Close \/ Drain

Next ==
  \/ \E c \in Calls : SubmitCheck(c) \/ SubmitQueue(c) \/ Cancel(c) \/ Expire(c)
  \/ Worker \/ Stop \/ ChangeActive

Spec == Init /\ [][Next]_vars

\* Launch, invocation and shutdown all have deadlines, so the worker never
\* stays in one of them; a caller inside submit runs on.
Fairness == WF_vars(Worker) /\ \A c \in Calls : WF_vars(SubmitQueue(c))

FairSpec == Spec /\ Fairness

----------------------------------------------------------------------------
(* Properties *)

Contract == INSTANCE PluginCalls WITH waiting <- job \o abandoned \o queue

\* The executor keeps its contract: one result for each call, in the order of
\* acceptance, never more than MaxQueued calls queued behind the one that runs,
\* and nothing accepted once it stops, although stop and cancellation may fall
\* between the checks of submit and its critical section.
ImplementsPluginCalls == Contract!Spec

\* Every submitted call gets its result, the calls that the stop finds queued
\* and the one it finds running included.
EveryCallAnswered ==
  \A c \in Calls : (stage[c] # "new") ~> (results[c] # "none")

\* The destructor returns.
StopEnds == stopping ~> wpc = "ended"

\* A plugin only ever receives calls made to it, and a service that needs a
\* permission is only called for a trusted user action, whether the caller
\* listed the permission or not.
InvokesAsAsked ==
  wpc = "invoke" =>
    /\ session = JobRequest.plugin
    /\ JobRequest.required \cup JobRequest.serviceRequires # {} =>
         JobRequest.source = "trusted_user_action"

\* Once the stop is requested no further call is taken: the destructor waits
\* for at most one plugin.
NothingTakenAfterStop == [][stopping => job' \in {job, <<>>}]_vars

\* ADR 0017: after a deactivation or a version switch the old process does not
\* stay as an idle session.
StaleSessionEnds == stale ~> ~stale
=============================================================================
