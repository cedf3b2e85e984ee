---------------------------- MODULE PluginInvoke ----------------------------
(***************************************************************************)
(* PluginHostSession::invoke: a call to a plugin process over a pair of    *)
(* pipes, with a deadline and a cancellation.  Four parties take part: the *)
(* calling thread, which sends the request and receives until the answer;  *)
(* the watchdog thread, which forwards the cancellation and kills the      *)
(* process; whoever requests the cancellation, on a thread of its own; and *)
(* the plugin, which may be slow, silent, wrong or dead.                   *)
(*                                                                         *)
(* watchdog_mutex is held where the watchdog tests its condition and until *)
(* it blocks; setting completed takes it, notifying a cancellation does    *)
(* not.  The calls of a session are numbered by their request ids; their   *)
(* payload, service and permissions are left out.  Time is where the clock *)
(* stands relative to the deadline of the call: "near" it, remaining time  *)
(* may already be rounded down to nothing.                                 *)
(***************************************************************************)
EXTENDS Naturals, Sequences

CONSTANTS
  MaxCalls,    \* bound: calls made in one session
  MayStray     \* whether the plugin may send messages out of turn

ASSUME BoundsAssumption == MaxCalls \in Nat \ {0} /\ MayStray \in BOOLEAN

VARIABLES
  mpc,         \* where the calling thread is in invoke
  wpc,         \* where the watchdog is
  calls,       \* calls begun
  requestId,   \* request_id of the call
  nextId,      \* next_request_id
  cancelId,    \* cancel_request_id
  acked,       \* cancel_acknowledged
  completed,   \* completed
  reason,      \* forced_reason: 0 none, 1 timeout, 2 cancellation, 3 cancel send failure
  requested,   \* the cancellation of the call has been requested
  notifying,   \* its stop callback has yet to notify the watchdog
  clock,       \* the time, relative to the deadline
  outcome,     \* how the call ends: its status and whether by force
  valid,       \* the session holds its process, job and pipe
  alive,       \* the plugin's process runs
  doing,       \* the request the plugin works on, {} when idle
  toPlugin,    \* messages on their way to the plugin
  toHost,      \* messages on their way to the host
  strayed      \* history: the plugin has sent a message out of turn

callVars   == <<calls, requestId, acked, outcome>>
watchVars  == <<completed, reason, cancelId>>
envVars    == <<requested, notifying, clock>>
pluginVars == <<alive, doing, toPlugin, toHost, strayed>>
vars == <<mpc, wpc, nextId, valid, callVars, watchVars, envVars, pluginVars>>

Id == 1 .. 2 * MaxCalls + 1

ToPlugin == [kind: {"invoke", "cancel"}, id: Id]
ToHost   == [kind: {"response", "acknowledgement", "stray"}, id: Id]

Outcome == [status: {"answered", "timeout", "cancelled", "plugin_error"}, forced: BOOLEAN]

CallerPc   == {"idle", "receive", "complete", "join", "return"}
WatchdogPc == {"none", "test", "block", "blocked", "cancel", "send", "grace", "kill", "done"}

TypeOK ==
  /\ mpc \in CallerPc /\ wpc \in WatchdogPc
  /\ calls \in 0 .. MaxCalls /\ nextId \in 2 .. 2 * MaxCalls + 2
  /\ requestId \in Id \cup {0} /\ cancelId \in Id \cup {0}
  /\ acked \in BOOLEAN /\ completed \in BOOLEAN /\ reason \in 0 .. 3
  /\ requested \in BOOLEAN /\ notifying \in BOOLEAN /\ clock \in {"early", "near", "late"}
  /\ outcome \in Outcome /\ valid \in BOOLEAN
  /\ alive \in BOOLEAN /\ doing \subseteq Id /\ strayed \in BOOLEAN
  /\ toPlugin \in Seq(ToPlugin) /\ toHost \in Seq(ToHost)

\* A session just launched: the hello handshake has used request id 1.
Init ==
  /\ mpc = "idle" /\ wpc = "none" /\ calls = 0 /\ requestId = 0 /\ nextId = 2
  /\ cancelId = 0 /\ acked = FALSE /\ completed = FALSE /\ reason = 0
  /\ requested = FALSE /\ notifying = FALSE /\ clock = "early"
  /\ outcome = [status |-> "answered", forced |-> FALSE]
  /\ valid = TRUE /\ alive = TRUE /\ doing = {} /\ toPlugin = <<>> /\ toHost = <<>>
  /\ strayed = FALSE

----------------------------------------------------------------------------
(* The calling thread *)

\* terminate_unlocked: the job is killed and the handles and the pipe closed.
Terminate ==
  /\ valid' = FALSE /\ alive' = FALSE /\ doing' = {}
  /\ toPlugin' = <<>> /\ toHost' = <<>>
  /\ UNCHANGED strayed

KeepSession == UNCHANGED <<valid, pluginVars>>

\* invoke, from its checks to the start of the watchdog.  The request cannot be
\* sent to a dead process, or to one that does not read it before the deadline.
Begin ==
  /\ mpc = "idle" /\ valid /\ calls < MaxCalls
  /\ calls' = calls + 1
  /\ requestId' = nextId /\ nextId' = nextId + 1
  /\ cancelId' = 0 /\ acked' = FALSE /\ completed' = FALSE /\ reason' = 0
  /\ requested' = FALSE /\ notifying' = FALSE
  /\ \/ /\ alive /\ clock' = "early"
        /\ toPlugin' = Append(toPlugin, [kind |-> "invoke", id |-> nextId])
        /\ mpc' = "receive" /\ wpc' = "test"
        /\ UNCHANGED <<outcome, valid, alive, doing, toHost, strayed>>
     \/ /\ clock' = IF alive THEN "late" ELSE "early"
        /\ outcome' = [status |-> "plugin_error", forced |-> TRUE]
        /\ Terminate
        /\ UNCHANGED <<mpc, wpc>>

\* The call is decided; the watchdog must be finished with before it returns.
Decide(status, forced) ==
  /\ mpc' = "complete"
  /\ outcome' = [status |-> status, forced |-> forced]

\* Sensitivity variant: whatever the watchdog did was for the deadline.
TimedOutAnyReason == reason # 0 \/ clock # "early"

TimedOut == reason = 1 \/ (reason = 0 /\ clock # "early")

\* A receive fails once the deadline is reached, or when the pipe is broken and
\* nothing is left in it.
ReceiveFails ==
  /\ mpc = "receive"
  /\ clock # "early" \/ (~alive /\ toHost = <<>>)
  /\ Decide(IF TimedOut THEN "timeout"
            ELSE IF reason \in {2, 3} \/ requested THEN "cancelled" ELSE "plugin_error", TRUE)
  /\ UNCHANGED <<wpc, nextId, valid, calls, requestId, acked, watchVars, envVars, pluginVars>>

\* A message arrives: the acknowledgement of the cancellation, the answer, or
\* something that has no place here.
Receive ==
  /\ mpc = "receive" /\ clock # "late" /\ toHost # <<>>
  /\ toHost' = Tail(toHost)
  /\ LET message == Head(toHost)
     IN \/ /\ message.kind = "acknowledgement" /\ cancelId # 0 /\ message.id = cancelId
           /\ acked' = TRUE
           /\ UNCHANGED <<mpc, outcome>>
        \/ /\ message.kind = "response" /\ message.id = requestId
           /\ Decide("answered", FALSE)
           /\ UNCHANGED acked
        \/ /\ ~(message.kind = "acknowledgement" /\ cancelId # 0 /\ message.id = cancelId)
           /\ ~(message.kind = "response" /\ message.id = requestId)
           /\ Decide("plugin_error", TRUE)
           /\ UNCHANGED acked
  /\ UNCHANGED <<wpc, nextId, valid, calls, requestId, watchVars, envVars,
                 alive, doing, toPlugin, strayed>>

\* Sensitivity variant: the watchdog is not woken.
CompleteSilently ==
  /\ mpc = "complete" /\ wpc # "block"
  /\ completed' = TRUE /\ mpc' = "join"
  /\ UNCHANGED <<wpc, nextId, valid, callVars, reason, cancelId, envVars, pluginVars>>

\* finish_watchdog: completed is set under watchdog_mutex, then all are woken.
Complete ==
  /\ mpc = "complete" /\ wpc # "block"
  /\ completed' = TRUE /\ mpc' = "join"
  /\ wpc' = IF wpc = "blocked" THEN "test" ELSE wpc
  /\ UNCHANGED <<nextId, valid, callVars, reason, cancelId, envVars, pluginVars>>

\* The end of finish_watchdog.
Join ==
  /\ mpc = "join" /\ wpc = "done"
  /\ mpc' = "return"
  /\ UNCHANGED <<wpc, nextId, valid, callVars, watchVars, envVars, pluginVars>>

\* Sensitivity variant: a cancellation under way is not looked at.
UncancelledAlways == TRUE

\* No cancellation was sent, or the plugin acknowledged it before its answer.
Uncancelled == cancelId = 0 \/ acked

\* The call returns: a session that answered in order is kept for the next call.
\* The destructor of the stop callback waits for a notification under way.
Return ==
  /\ mpc = "return" /\ ~notifying
  /\ mpc' = "idle" /\ wpc' = "none"
  /\ \/ /\ ~outcome.forced /\ Uncancelled
        /\ KeepSession /\ UNCHANGED outcome
     \/ /\ outcome.forced
        /\ Terminate /\ UNCHANGED outcome
     \/ /\ ~outcome.forced /\ ~Uncancelled
        /\ outcome' = [status |-> "plugin_error", forced |-> TRUE]
        /\ Terminate
  /\ UNCHANGED <<nextId, calls, requestId, acked, watchVars, envVars>>

----------------------------------------------------------------------------
(* The watchdog *)

NotWatch == <<mpc, valid, callVars, completed, envVars>>

\* The condition is tested under the mutex, on entry and after every wake-up.
WatchTest ==
  /\ wpc = "test"
  /\ wpc' = IF completed THEN "done" ELSE IF requested THEN "cancel" ELSE "block"
  /\ UNCHANGED <<NotWatch, nextId, reason, cancelId, pluginVars>>

WatchBlock ==
  /\ wpc = "block"
  /\ wpc' = "blocked"
  /\ UNCHANGED <<NotWatch, nextId, reason, cancelId, pluginVars>>

\* Sensitivity variant: any wake-up counts as the deadline.
WatchDeadlineSpurious ==
  /\ wpc = "blocked"
  /\ \/ /\ completed
        /\ wpc' = "done" /\ UNCHANGED reason
     \/ /\ ~completed /\ requested
        /\ wpc' = "cancel" /\ UNCHANGED reason
     \/ /\ ~completed /\ ~requested
        /\ wpc' = "kill" /\ reason' = 1
  /\ UNCHANGED <<NotWatch, nextId, cancelId, pluginVars>>

\* The wait ends at the deadline and the condition is tested once more.
WatchDeadline ==
  /\ wpc = "blocked" /\ clock = "late"
  /\ \/ /\ completed
        /\ wpc' = "done" /\ UNCHANGED reason
     \/ /\ ~completed /\ requested
        /\ wpc' = "cancel" /\ UNCHANGED reason
     \/ /\ ~completed /\ ~requested
        /\ wpc' = "kill" /\ reason' = 1
  /\ UNCHANGED <<NotWatch, nextId, cancelId, pluginVars>>

\* The id of the cancellation is published before the cancellation is sent.
WatchCancel ==
  /\ wpc = "cancel"
  /\ cancelId' = nextId /\ nextId' = nextId + 1
  /\ wpc' = "send"
  /\ UNCHANGED <<NotWatch, reason, pluginVars>>

\* Sending fails at a dead process, when no time remains, or when a request the
\* plugin has not read fills the pipe for the whole grace time.
WatchSend ==
  /\ wpc = "send"
  /\ \/ /\ alive /\ clock # "late"
        /\ toPlugin' = Append(toPlugin, [kind |-> "cancel", id |-> cancelId])
        /\ wpc' = "grace" /\ UNCHANGED reason
     \/ /\ ~alive \/ clock # "early" \/ toPlugin # <<>>
        /\ reason' = 3 /\ wpc' = "kill" /\ UNCHANGED toPlugin
  /\ UNCHANGED <<NotWatch, nextId, cancelId, alive, doing, toHost, strayed>>

\* Sensitivity variant: a plugin that does not cooperate is asked again.
WatchGraceAsksAgain ==
  /\ wpc = "grace"
  /\ wpc' = IF completed THEN "done" ELSE "cancel"
  /\ UNCHANGED <<NotWatch, nextId, reason, cancelId, pluginVars>>

\* kPluginCancellationGrace: the call completes in time or the process goes.
WatchGrace ==
  /\ wpc = "grace"
  /\ \/ /\ completed
        /\ wpc' = "done" /\ UNCHANGED reason
     \/ /\ ~completed
        /\ reason' = 2 /\ wpc' = "kill"
  /\ UNCHANGED <<NotWatch, nextId, cancelId, pluginVars>>

\* TerminateJobObject, after the mutex has been released.
WatchKill ==
  /\ wpc = "kill"
  /\ wpc' = "done"
  /\ alive' = FALSE /\ doing' = {} /\ toPlugin' = <<>>
  /\ UNCHANGED <<NotWatch, nextId, reason, cancelId, toHost, strayed>>

----------------------------------------------------------------------------
(* Cancellation and time *)

\* The stop token flips before the stop callback runs.
RequestCancel ==
  /\ mpc \in {"receive", "complete", "join"} /\ ~requested
  /\ requested' = TRUE /\ notifying' = TRUE
  /\ UNCHANGED <<mpc, wpc, nextId, valid, callVars, watchVars, clock, pluginVars>>

\* The stop callback: it wakes a watchdog that waits at this moment.
NotifyCancel ==
  /\ notifying
  /\ notifying' = FALSE
  /\ wpc' = IF wpc = "blocked" THEN "test" ELSE wpc
  /\ UNCHANGED <<mpc, nextId, valid, callVars, watchVars, requested, clock, pluginVars>>

Tick ==
  /\ mpc # "idle" /\ clock # "late"
  /\ clock' = IF clock = "early" THEN "near" ELSE "late"
  /\ UNCHANGED <<mpc, wpc, nextId, valid, callVars, watchVars, requested, notifying,
                 pluginVars>>

----------------------------------------------------------------------------
(* The plugin's process *)

NotPlugin == <<mpc, wpc, nextId, valid, callVars, watchVars, envVars>>

\* It reads a request and begins to work, or reads a cancellation, which it
\* acknowledges or ignores.
PluginReads ==
  /\ alive /\ toPlugin # <<>>
  /\ toPlugin' = Tail(toPlugin)
  /\ LET message == Head(toPlugin)
     IN \/ /\ message.kind = "invoke"
           /\ doing' = {message.id} /\ UNCHANGED toHost
        \/ /\ message.kind = "cancel"
           /\ toHost' = Append(toHost, [kind |-> "acknowledgement", id |-> message.id])
           /\ UNCHANGED doing
        \/ /\ message.kind = "cancel"
           /\ UNCHANGED <<toHost, doing>>
  /\ UNCHANGED <<NotPlugin, alive, strayed>>

PluginAnswers ==
  /\ alive
  /\ \E id \in doing : toHost' = Append(toHost, [kind |-> "response", id |-> id])
  /\ doing' = {}
  /\ UNCHANGED <<NotPlugin, alive, toPlugin, strayed>>

PluginCrashes ==
  /\ alive
  /\ alive' = FALSE /\ doing' = {} /\ toPlugin' = <<>>
  /\ UNCHANGED <<NotPlugin, toHost, strayed>>

\* A message that nothing asked for.
PluginStrays ==
  /\ MayStray /\ alive /\ ~strayed /\ requestId # 0
  /\ toHost' = Append(toHost, [kind |-> "stray", id |-> requestId])
  /\ strayed' = TRUE
  /\ UNCHANGED <<NotPlugin, alive, doing, toPlugin>>

----------------------------------------------------------------------------

Caller   == ReceiveFails \/ Receive \/ Complete \/ Join \/ Return
Watchdog == WatchTest \/ WatchBlock \/ WatchDeadline \/ WatchCancel \/ WatchSend
            \/ WatchGrace \/ WatchKill
Plugin   == PluginReads \/ PluginAnswers

Next ==
  \/ Begin \/ Caller \/ Watchdog \/ RequestCancel \/ NotifyCancel \/ Tick
  \/ Plugin \/ PluginCrashes \/ PluginStrays

Spec == Init /\ [][Next]_vars

\* Threads run, and so does the timer of the cancellation grace.  Time need not
\* pass, and the plugin owes nothing.
ThreadFairness == WF_vars(Caller) /\ WF_vars(Watchdog) /\ WF_vars(NotifyCancel)

ThreadSpec == Spec /\ ThreadFairness

\* The plugin, too, reads what it is sent and answers.
FairSpec == ThreadSpec /\ WF_vars(Plugin)

----------------------------------------------------------------------------
(* Properties *)

\* A session kept for the next call carries nothing of this one: no answer,
\* acknowledgement or cancellation is left in its pipes, however cancellation
\* and answer crossed, unless the plugin talks out of turn.
NothingLeftOver ==
  mpc = "idle" /\ valid /\ ~strayed => toPlugin = <<>> /\ toHost = <<>>

\* The session ends exactly with the calls reported as ended by force, and the
\* host blames the deadline or the cancellation only if there was one.
HonestOutcome ==
  /\ mpc = "idle" => (outcome.forced <=> ~valid)
  /\ outcome.forced /\ outcome.status = "timeout" => clock # "early"
  /\ outcome.forced /\ outcome.status = "cancelled" => requested

\* The host ends the process only for the deadline, a cancellation or a message
\* out of turn: never because of what an earlier call left behind, a wake-up of
\* the watchdog or the order in which answer and acknowledgement came.
KilledForCause ==
  [][alive /\ ~alive' /\ <<mpc, wpc>>' # <<mpc, wpc>> =>
       clock' # "early" \/ requested \/ strayed]_vars

\* A call that the plugin answers, or dies of, returns without waiting for its
\* deadline.
AnswerEndsCall == (mpc # "idle") ~> (mpc = "idle")

\* ADR 0015: a call whose process the watchdog killed is reported as ended by
\* force, and its session is over.
KillIsReported == mpc = "idle" /\ reason # 0 => outcome.forced

\* ADR 0015: once cancellation is requested the host tells the plugin and the
\* call ends within the grace time; it does not wait for the deadline.
CancelEndsCall == requested ~> (mpc = "idle")
=============================================================================
