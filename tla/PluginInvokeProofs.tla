-------------------------- MODULE PluginInvokeProofs --------------------------
(***************************************************************************)
(* Theorems about a session of plugin calls, for any number of calls.      *)
(*                                                                         *)
(* Everything rests on one inductive invariant, InvokeInv.  Its heart is   *)
(* Exchange: unless the plugin talks out of turn, the two pipes of a call  *)
(* hold at most its request, its answer, its cancellation and the          *)
(* acknowledgement of that, each in one place only.  So an answer without  *)
(* a cancellation, or after the acknowledgement of one, leaves both pipes  *)
(* empty.                                                                  *)
(***************************************************************************)
EXTENDS PluginInvoke, SequenceTheorems, TLAPS

TheRequest      == [kind |-> "invoke", id |-> requestId]
TheCancellation == [kind |-> "cancel", id |-> cancelId]
TheAnswer       == [kind |-> "response", id |-> requestId]
TheAcknowledgement == [kind |-> "acknowledgement", id |-> cancelId]

\* A call uses an id for its request and at most one for its cancellation.
Ids ==
  /\ nextId <= 2 * calls + 2
  /\ wpc \in {"test", "block", "blocked", "cancel"} => nextId <= 2 * calls + 1 /\ cancelId = 0
  /\ wpc \in {"send", "grace"} => cancelId # 0
  /\ mpc # "idle" => requestId # 0

\* The watchdog lives as long as the call, and the session at least as long.
Phases ==
  /\ mpc = "idle" <=> wpc = "none"
  /\ mpc = "return" => wpc = "done"
  /\ mpc # "idle" => valid
  /\ alive => valid
  /\ ~alive => doing = {} /\ toPlugin = <<>>

\* What the watchdog did has its reason.
Causes ==
  /\ wpc \in {"cancel", "send", "grace"} \/ cancelId # 0 \/ reason \in {2, 3} => requested
  /\ reason = 1 => clock # "early"
  /\ wpc = "kill" => reason # 0
  /\ mpc \in {"complete", "join", "return"} /\ outcome.forced /\ alive =>
       clock # "early" \/ requested \/ strayed

\* Where the messages of a call can be.
Exchange ==
  mpc # "idle" /\ ~strayed =>
    /\ toPlugin \in {<<>>, <<TheRequest>>, <<TheCancellation>>, <<TheRequest, TheCancellation>>}
    /\ toHost \in {<<>>, <<TheAnswer>>, <<TheAcknowledgement>>,
                   <<TheAnswer, TheAcknowledgement>>, <<TheAcknowledgement, TheAnswer>>}
    /\ doing \in {{}, {requestId}}
    /\ toPlugin \in {<<TheRequest>>, <<TheRequest, TheCancellation>>} =>
         doing = {} /\ toHost = <<>>
    /\ doing # {} => toHost \in {<<>>, <<TheAcknowledgement>>}
    /\ mpc # "receive" /\ ~outcome.forced =>
         /\ toPlugin \in {<<>>, <<TheCancellation>>} /\ doing = {}
         /\ toHost \in {<<>>, <<TheAcknowledgement>>}
    /\ cancelId = 0 \/ wpc = "send" =>
         /\ toPlugin \in {<<>>, <<TheRequest>>}
         /\ toHost \in {<<>>, <<TheAnswer>>}
         /\ ~acked
    /\ toPlugin \in {<<TheCancellation>>, <<TheRequest, TheCancellation>>} \/ acked =>
         toHost \in {<<>>, <<TheAnswer>>}
    /\ toPlugin \in {<<TheCancellation>>, <<TheRequest, TheCancellation>>} => ~acked

\* Between two calls nothing is under way.
AtRest ==
  mpc = "idle" /\ valid /\ ~strayed => toPlugin = <<>> /\ toHost = <<>> /\ doing = {}

InvokeInv ==
  TypeOK /\ Ids /\ Phases /\ Causes /\ Exchange /\ AtRest /\ HonestOutcome

----------------------------------------------------------------------------
(* Sequences of at most two messages *)

\* What the operators on sequences make of them.
LEMMA ShortSequences ==
  ASSUME NEW S, NEW a \in S, NEW b \in S
  PROVE  /\ <<a>> \in Seq(S) /\ <<a, b>> \in Seq(S)
         /\ Append(<<>>, a) = <<a>> /\ Append(<<a>>, b) = <<a, b>>
         /\ Head(<<a>>) = a /\ Tail(<<a>>) = <<>>
         /\ Head(<<a, b>>) = a /\ Tail(<<a, b>>) = <<b>>
<1>1. /\ <<>> \in Seq(S) /\ Len(<<>>) = 0
      /\ <<a>> \in Seq(S) /\ Len(<<a>>) = 1 /\ <<a>>[1] = a
      /\ <<a, b>> \in Seq(S) /\ Len(<<a, b>>) = 2 /\ <<a, b>>[1] = a /\ <<a, b>>[2] = b
  BY EmptySeq
<1>2. Append(<<>>, a) = <<a>>
  <2>1. /\ Append(<<>>, a) \in Seq(S) /\ Len(Append(<<>>, a)) = 1
        /\ Append(<<>>, a)[1] = a
    BY <1>1, AppendProperties
  <2> QED
    BY <1>1, <2>1, SeqEqual
<1>3. Append(<<a>>, b) = <<a, b>>
  <2>1. /\ Append(<<a>>, b) \in Seq(S) /\ Len(Append(<<a>>, b)) = 2
        /\ Append(<<a>>, b)[1] = a /\ Append(<<a>>, b)[2] = b
    BY <1>1, AppendProperties
  <2>2. \A i \in 1 .. 2 : i = 1 \/ i = 2
    OBVIOUS
  <2>3. \A i \in 1 .. Len(Append(<<a>>, b)) : Append(<<a>>, b)[i] = <<a, b>>[i]
    BY <1>1, <2>1, <2>2
  <2> QED
    BY <1>1, <2>1, <2>3, SeqEqual
<1>4. Head(<<a>>) = a /\ Tail(<<a>>) = <<>>
  BY <1>1, <1>2, HeadTailAppend
<1>5. <<a>> # <<>>
  BY <1>1
<1>6. Head(<<a, b>>) = a /\ Tail(<<a, b>>) = <<b>>
  BY <1>1, <1>2, <1>3, <1>4, <1>5, HeadTailAppend
<1> QED
  BY <1>1, <1>2, <1>3, <1>4, <1>6

\* When two of them are the same.
LEMMA ShortSequencesDiffer ==
  ASSUME NEW a, NEW b, NEW c, NEW d
  PROVE  /\ <<a>> # <<>> /\ <<a, b>> # <<>> /\ <<a, b>> # <<c>>
         /\ <<a>> = <<c>> <=> a = c
         /\ <<a, b>> = <<c, d>> <=> a = c /\ b = d
OBVIOUS

\* Sending and reading keep the contents of the pipes messages.
LEMMA PipeTypes ==
  ASSUME TypeOK
  PROVE  /\ <<>> \in Seq(ToPlugin) /\ <<>> \in Seq(ToHost)
         /\ \A m \in ToPlugin : Append(toPlugin, m) \in Seq(ToPlugin)
         /\ \A m \in ToHost : Append(toHost, m) \in Seq(ToHost)
         /\ toPlugin # <<>> => Head(toPlugin) \in ToPlugin /\ Tail(toPlugin) \in Seq(ToPlugin)
         /\ toHost # <<>> => Head(toHost) \in ToHost /\ Tail(toHost) \in Seq(ToHost)
<1>1. toPlugin \in Seq(ToPlugin) /\ toHost \in Seq(ToHost)
  BY DEF TypeOK
<1> QED
  BY <1>1, EmptySeq, AppendProperties, HeadTailProperties

\* The flags of the call, the session and the plugin.
FlagsOK ==
  /\ acked \in BOOLEAN /\ completed \in BOOLEAN /\ requested \in BOOLEAN
  /\ notifying \in BOOLEAN /\ valid \in BOOLEAN /\ alive \in BOOLEAN /\ strayed \in BOOLEAN

\* The other variables that hold no message.
PlacesOK ==
  /\ mpc \in CallerPc /\ wpc \in WatchdogPc
  /\ calls \in 0 .. MaxCalls /\ nextId \in 2 .. 2 * MaxCalls + 2
  /\ requestId \in Id \cup {0} /\ cancelId \in Id \cup {0}
  /\ reason \in 0 .. 3 /\ clock \in {"early", "near", "late"} /\ doing \subseteq Id

PipesOK == toPlugin \in Seq(ToPlugin) /\ toHost \in Seq(ToHost)

\* The type invariant in four parts, each disturbed by steps of its own.
LEMMA TypeParts == TypeOK <=> FlagsOK /\ PlacesOK /\ PipesOK /\ outcome \in Outcome
BY DEF TypeOK, FlagsOK, PlacesOK, PipesOK

\* A session starts with the types.
LEMMA TypeInit == Init => TypeOK
<1> SUFFICES ASSUME Init PROVE TypeOK
  OBVIOUS
<1>1. FlagsOK
  BY Zenon DEF Init, FlagsOK
<1>2. PlacesOK
  BY BoundsAssumption DEF Init, PlacesOK, CallerPc, WatchdogPc, Id
<1>3. PipesOK
  BY EmptySeq DEF Init, PipesOK
<1>4. outcome \in Outcome
  BY DEF Init, Outcome
<1> QED
  BY <1>1, <1>2, <1>3, <1>4, TypeParts

\* Every step keeps the types of the flags.
LEMMA FlagsStep ==
  ASSUME FlagsOK, [Next]_vars
  PROVE  FlagsOK'
<1> USE DEF FlagsOK, callVars, watchVars, envVars, pluginVars
<1>1. ASSUME Begin PROVE FlagsOK'
  BY <1>1, Zenon DEF Begin, Terminate
<1>2. ASSUME ReceiveFails PROVE FlagsOK'
  BY <1>2, Zenon DEF ReceiveFails, Decide
<1>3. ASSUME Receive PROVE FlagsOK'
  BY <1>3, Zenon DEF Receive, Decide
<1>4. ASSUME Complete PROVE FlagsOK'
  BY <1>4, Zenon DEF Complete
<1>5. ASSUME Join PROVE FlagsOK'
  BY <1>5, Zenon DEF Join
<1>6. ASSUME Return PROVE FlagsOK'
  BY <1>6, Zenon DEF Return, Terminate, KeepSession
<1>7. ASSUME WatchTest PROVE FlagsOK'
  BY <1>7, Zenon DEF WatchTest, NotWatch
<1>8. ASSUME WatchBlock PROVE FlagsOK'
  BY <1>8, Zenon DEF WatchBlock, NotWatch
<1>9. ASSUME WatchDeadline PROVE FlagsOK'
  BY <1>9, Zenon DEF WatchDeadline, NotWatch
<1>10. ASSUME WatchCancel PROVE FlagsOK'
  BY <1>10, Zenon DEF WatchCancel, NotWatch
<1>11. ASSUME WatchSend PROVE FlagsOK'
  BY <1>11, Zenon DEF WatchSend, NotWatch
<1>12. ASSUME WatchGrace PROVE FlagsOK'
  BY <1>12, Zenon DEF WatchGrace, NotWatch
<1>13. ASSUME WatchKill PROVE FlagsOK'
  BY <1>13, Zenon DEF WatchKill, NotWatch
<1>14. ASSUME RequestCancel PROVE FlagsOK'
  BY <1>14, Zenon DEF RequestCancel
<1>15. ASSUME NotifyCancel PROVE FlagsOK'
  BY <1>15, Zenon DEF NotifyCancel
<1>16. ASSUME Tick PROVE FlagsOK'
  BY <1>16, Zenon DEF Tick
<1>17. ASSUME PluginReads PROVE FlagsOK'
  BY <1>17, Zenon DEF PluginReads, NotPlugin
<1>18. ASSUME PluginAnswers PROVE FlagsOK'
  BY <1>18, Zenon DEF PluginAnswers, NotPlugin
<1>19. ASSUME PluginCrashes PROVE FlagsOK'
  BY <1>19, Zenon DEF PluginCrashes, NotPlugin
<1>20. ASSUME PluginStrays PROVE FlagsOK'
  BY <1>20, Zenon DEF PluginStrays, NotPlugin
<1>21. ASSUME UNCHANGED vars PROVE FlagsOK'
  BY <1>21, Zenon DEF vars
<1> QED
  BY <1>1, <1>2, <1>3, <1>4, <1>5, <1>6, <1>7, <1>8, <1>9, <1>10, <1>11, <1>12, <1>13, <1>14, <1>15, <1>16, <1>17,
     <1>18, <1>19, <1>20, <1>21 DEF Next, Caller, Watchdog, Plugin

\* Every step keeps the two threads at steps of theirs.
LEMMA PlacesStep ==
  ASSUME TypeOK, Ids, Phases, [Next]_vars
  PROVE  PlacesOK'
<1>a. /\ calls \in 0 .. MaxCalls /\ MaxCalls \in Nat
      /\ nextId \in 2 .. 2 * MaxCalls + 2 /\ nextId <= 2 * calls + 2
  BY BoundsAssumption DEF TypeOK, Ids
<1>b. PlacesOK
  BY TypeParts
<1> USE <1>a, <1>b DEF PlacesOK, CallerPc, WatchdogPc, callVars, watchVars, envVars, pluginVars
<1>1. ASSUME Begin PROVE PlacesOK'
  <2>1. /\ calls < MaxCalls /\ calls' = calls + 1 /\ nextId' = nextId + 1 /\ requestId' = nextId
        /\ cancelId' = 0 /\ reason' = 0
    BY <1>1 DEF Begin
  <2>2. doing' = {} \/ doing' = doing
    BY <1>1 DEF Begin, Terminate
  <2>3. /\ clock' \in {"early", "late"}
        /\ (mpc' = "receive" /\ wpc' = "test") \/ (mpc' = mpc /\ wpc' = wpc)
    BY <1>1 DEF Begin
  <2> QED
    <3>1. calls + 1 \in 0 .. MaxCalls /\ nextId \in Id /\ nextId + 1 \in 2 .. 2 * MaxCalls + 2
      BY <2>1 DEF Id
    <3>2. mpc' \in CallerPc /\ wpc' \in WatchdogPc
      BY <2>3
    <3>3. doing' \subseteq Id
      BY <2>2
    <3> QED
      BY <2>1, <2>3, <3>1, <3>2, <3>3
<1>2. ASSUME ReceiveFails PROVE PlacesOK'
  BY <1>2 DEF ReceiveFails, Decide
<1>3. ASSUME Receive PROVE PlacesOK'
  BY <1>3 DEF Receive, Decide
<1>4. ASSUME Complete PROVE PlacesOK'
  BY <1>4 DEF Complete
<1>5. ASSUME Join PROVE PlacesOK'
  BY <1>5 DEF Join
<1>6. ASSUME Return PROVE PlacesOK'
  BY <1>6 DEF Return, Terminate, KeepSession
<1>7. ASSUME WatchTest PROVE PlacesOK'
  BY <1>7 DEF WatchTest, NotWatch
<1>8. ASSUME WatchBlock PROVE PlacesOK'
  BY <1>8 DEF WatchBlock, NotWatch
<1>9. ASSUME WatchDeadline PROVE PlacesOK'
  BY <1>9 DEF WatchDeadline, NotWatch
<1>10. ASSUME WatchCancel PROVE PlacesOK'
  BY <1>10 DEF WatchCancel, NotWatch, Id, Ids
<1>11. ASSUME WatchSend PROVE PlacesOK'
  BY <1>11 DEF WatchSend, NotWatch
<1>12. ASSUME WatchGrace PROVE PlacesOK'
  BY <1>12 DEF WatchGrace, NotWatch
<1>13. ASSUME WatchKill PROVE PlacesOK'
  BY <1>13 DEF WatchKill, NotWatch
<1>14. ASSUME RequestCancel PROVE PlacesOK'
  BY <1>14 DEF RequestCancel
<1>15. ASSUME NotifyCancel PROVE PlacesOK'
  BY <1>15 DEF NotifyCancel
<1>16. ASSUME Tick PROVE PlacesOK'
  BY <1>16 DEF Tick
<1>17. ASSUME PluginReads PROVE PlacesOK'
  <2>1. Head(toPlugin) \in ToPlugin
    BY <1>17, PipeTypes DEF PluginReads
  <2>2. Head(toPlugin).id \in Id
    BY <2>1 DEF ToPlugin
  <2>3. UNCHANGED NotPlugin /\ (doing' = doing \/ doing' = {Head(toPlugin).id})
    BY <1>17 DEF PluginReads
  <2> QED
    BY <2>2, <2>3 DEF NotPlugin
<1>18. ASSUME PluginAnswers PROVE PlacesOK'
  BY <1>18 DEF PluginAnswers, NotPlugin
<1>19. ASSUME PluginCrashes PROVE PlacesOK'
  BY <1>19 DEF PluginCrashes, NotPlugin
<1>20. ASSUME PluginStrays PROVE PlacesOK'
  BY <1>20 DEF PluginStrays, NotPlugin
<1>21. ASSUME UNCHANGED vars PROVE PlacesOK'
  BY <1>21 DEF vars
<1> QED
  BY <1>1, <1>2, <1>3, <1>4, <1>5, <1>6, <1>7, <1>8, <1>9, <1>10, <1>11, <1>12, <1>13, <1>14, <1>15, <1>16, <1>17,
     <1>18, <1>19, <1>20, <1>21 DEF Next, Caller, Watchdog, Plugin

\* Who sends or reads a message.
LEMMA PipeSteps ==
  ASSUME [Next]_vars
  PROVE  \/ Begin \/ Receive \/ Return \/ WatchSend \/ WatchKill
         \/ PluginReads \/ PluginAnswers \/ PluginCrashes \/ PluginStrays
         \/ UNCHANGED <<toPlugin, toHost>>
<1> USE DEF vars, callVars, watchVars, envVars, pluginVars
<1>1. CASE ReceiveFails \/ Complete \/ Join
  BY <1>1 DEF ReceiveFails, Complete, Join
<1>2. CASE WatchTest \/ WatchBlock \/ WatchDeadline \/ WatchCancel \/ WatchGrace
  BY <1>2 DEF WatchTest, WatchBlock, WatchDeadline, WatchCancel, WatchGrace
<1>3. CASE RequestCancel \/ NotifyCancel \/ Tick \/ UNCHANGED vars
  BY <1>3 DEF RequestCancel, NotifyCancel, Tick
<1> QED
  BY <1>1, <1>2, <1>3 DEF Next, Caller, Watchdog, Plugin

\* Every step keeps the pipes filled with messages of ids that were given out.
LEMMA PipesStep ==
  ASSUME TypeOK, Ids, Phases, [Next]_vars
  PROVE  PipesOK'
<1>a. calls \in 0 .. MaxCalls /\ MaxCalls \in Nat /\ PipesOK
  BY TypeParts, BoundsAssumption DEF PlacesOK
<1>b. /\ \A id \in Id, kind \in {"invoke", "cancel"} : [kind |-> kind, id |-> id] \in ToPlugin
      /\ \A id \in Id, kind \in {"response", "acknowledgement", "stray"} :
           [kind |-> kind, id |-> id] \in ToHost
      /\ \A m \in ToPlugin : m.id \in Id
  BY DEF ToPlugin, ToHost
<1> USE PipeTypes, <1>a, <1>b DEF PipesOK, pluginVars
<1>1. ASSUME Begin PROVE PipesOK'
  <2>1. calls < MaxCalls /\ nextId \in Id
    BY <1>1 DEF Begin, Id, Ids, TypeOK
  <2> QED
    BY <1>1, <2>1 DEF Begin, Terminate
<1>2. ASSUME Receive \/ PluginReads PROVE PipesOK'
  BY <1>2 DEF Receive, PluginReads
<1>3. ASSUME Return PROVE PipesOK'
  BY <1>3 DEF Return, Terminate, KeepSession
<1>4. ASSUME WatchSend PROVE PipesOK'
  <2>1. cancelId \in Id
    BY <1>4, TypeParts DEF WatchSend, Ids, PlacesOK
  <2> QED
    BY <1>4, <2>1 DEF WatchSend
<1>5. ASSUME WatchKill \/ PluginCrashes PROVE PipesOK'
  BY <1>5 DEF WatchKill, PluginCrashes
<1>6. ASSUME PluginAnswers PROVE PipesOK'
  <2>1. \A id \in doing : id \in Id
    BY TypeParts DEF PlacesOK
  <2> QED
    BY <1>6, <2>1 DEF PluginAnswers
<1>7. ASSUME PluginStrays PROVE PipesOK'
  <2>1. requestId \in Id
    BY <1>7, TypeParts DEF PluginStrays, PlacesOK
  <2> QED
    BY <1>7, <2>1 DEF PluginStrays
<1>8. ASSUME UNCHANGED <<toPlugin, toHost>> PROVE PipesOK'
  BY <1>8
<1> QED
  BY <1>1, <1>2, <1>3, <1>4, <1>5, <1>6, <1>7, <1>8, PipeSteps

\* Every step keeps the outcome an outcome.
LEMMA OutcomeStep ==
  ASSUME outcome \in Outcome, [Next]_vars
  PROVE  outcome' \in Outcome
<1>1. \A status \in {"answered", "timeout", "cancelled", "plugin_error"} :
        /\ [status |-> status, forced |-> TRUE] \in Outcome
        /\ [status |-> status, forced |-> FALSE] \in Outcome
  BY DEF Outcome
<1> USE <1>1 DEF vars, callVars, watchVars, envVars, pluginVars
<1>2. CASE Begin
  BY <1>2 DEF Begin
<1>3. CASE Receive
  BY <1>3 DEF Receive, Decide
<1>4. CASE ReceiveFails
  BY <1>4 DEF ReceiveFails, Decide
<1>5. CASE Return
  BY <1>5 DEF Return
<1>6. CASE Complete \/ Join \/ RequestCancel \/ NotifyCancel \/ Tick \/ UNCHANGED vars
  BY <1>6 DEF Complete, Join, RequestCancel, NotifyCancel, Tick
<1>7. CASE Watchdog
  BY <1>7 DEF Watchdog, WatchTest, WatchBlock, WatchDeadline, WatchCancel, WatchSend,
             WatchGrace, WatchKill, NotWatch
<1>8. CASE Plugin \/ PluginCrashes \/ PluginStrays
  BY <1>8 DEF Plugin, PluginReads, PluginAnswers, PluginCrashes, PluginStrays, NotPlugin
<1> QED
  BY <1>2, <1>3, <1>4, <1>5, <1>6, <1>7, <1>8 DEF Next, Caller

\* Every step keeps the types.
LEMMA TypeStep ==
  ASSUME TypeOK, Ids, Phases, [Next]_vars
  PROVE  TypeOK'
<1>1. FlagsOK' /\ PlacesOK' /\ PipesOK' /\ outcome' \in Outcome
  BY FlagsStep, PlacesStep, PipesStep, OutcomeStep, TypeParts
<1> QED
  BY <1>1 DEF TypeOK, FlagsOK, PlacesOK, PipesOK

----------------------------------------------------------------------------
(* The control of a call *)

\* terminate_unlocked leaves no session and no process.
LEMMA Terminated ==
  Terminate => /\ ~valid' /\ ~alive' /\ doing' = {} /\ toPlugin' = <<>> /\ toHost' = <<>>
               /\ UNCHANGED strayed
BY Zenon DEF Terminate

\* A call that is ended because something failed.
LEMMA ErrorOutcome ==
  ASSUME outcome' = [status |-> "plugin_error", forced |-> TRUE]
  PROVE  outcome'.forced /\ outcome'.status = "plugin_error"
<1>1. outcome'.forced = TRUE /\ outcome'.status = "plugin_error"
  OBVIOUS
<1> QED
  BY <1>1, Zenon

\* How a call begins, and how it returns.
LEMMA BeginCases ==
  ASSUME Begin
  PROVE  /\ mpc = "idle" /\ valid /\ ~requested' /\ ~acked' /\ cancelId' = 0 /\ reason' = 0
         /\ \/ /\ alive' /\ valid' /\ mpc' = "receive" /\ wpc' = "test"
               /\ UNCHANGED <<outcome, doing, toHost, strayed>>
            \/ /\ ~valid' /\ ~alive' /\ doing' = {} /\ toPlugin' = <<>> /\ toHost' = <<>>
               /\ UNCHANGED <<strayed, mpc, wpc>>
               /\ outcome'.forced /\ outcome'.status = "plugin_error"
<1>1. CASE Terminate /\ outcome' = [status |-> "plugin_error", forced |-> TRUE]
  BY <1>1, Terminated, ErrorOutcome, Zenon DEF Begin
<1>2. CASE /\ alive /\ mpc' = "receive" /\ wpc' = "test"
           /\ UNCHANGED <<outcome, valid, alive, doing, toHost, strayed>>
  BY <1>2, Zenon DEF Begin
<1> QED
  BY <1>1, <1>2, Zenon DEF Begin

\* What returning from a call may leave: a session as it was, or a closed one with nothing in its pipes.
LEMMA ReturnCases ==
  ASSUME Return
  PROVE  /\ mpc = "return" /\ mpc' = "idle" /\ wpc' = "none" /\ UNCHANGED <<watchVars, envVars>>
         /\ \/ /\ ~outcome.forced /\ Uncancelled /\ UNCHANGED <<outcome, valid, pluginVars>>
               /\ ~outcome'.forced /\ (valid <=> valid')
            \/ /\ ~valid' /\ ~alive' /\ doing' = {} /\ toPlugin' = <<>> /\ toHost' = <<>>
               /\ UNCHANGED strayed
               /\ outcome'.forced
               /\ \/ outcome.forced /\ UNCHANGED outcome
                  \/ ~outcome.forced /\ ~Uncancelled /\ outcome'.status = "plugin_error"
<1>1. CASE outcome.forced /\ Terminate /\ UNCHANGED outcome
  BY <1>1, Terminated, Zenon DEF Return
<1>2. CASE ~outcome.forced /\ ~Uncancelled /\ Terminate
           /\ outcome' = [status |-> "plugin_error", forced |-> TRUE]
  BY <1>2, Terminated, ErrorOutcome, Zenon DEF Return
<1>3. CASE ~outcome.forced /\ Uncancelled /\ KeepSession /\ UNCHANGED outcome
  BY <1>3, Zenon DEF Return, KeepSession
<1> QED
  BY <1>1, <1>2, <1>3, Zenon DEF Return

\* Every step keeps the ids of a call and of its cancellation below the next one, and apart.
LEMMA IdsStep ==
  ASSUME TypeOK, Ids, Phases, [Next]_vars
  PROVE  Ids'
<1>a. calls \in Nat /\ nextId \in Nat \ {0} /\ TypeOK
  BY BoundsAssumption DEF TypeOK
<1> USE <1>a DEF Ids, callVars, watchVars, envVars, pluginVars
<1>1. ASSUME Begin PROVE Ids'
  <2>1. /\ calls' = calls + 1 /\ nextId' = nextId + 1 /\ requestId' = nextId /\ cancelId' = 0
        /\ mpc = "idle" /\ (wpc' = "test" \/ (wpc' = wpc /\ mpc' = mpc))
    BY <1>1 DEF Begin
  <2> QED
    BY <2>1 DEF Phases
<1>2. ASSUME ReceiveFails PROVE Ids'
  BY <1>2 DEF ReceiveFails, Decide
<1>3. ASSUME Receive PROVE Ids'
  BY <1>3 DEF Receive, Decide
<1>4. ASSUME Complete PROVE Ids'
  BY <1>4 DEF Complete
<1>5. ASSUME Join PROVE Ids'
  BY <1>5 DEF Join
<1>6. ASSUME Return PROVE Ids'
  BY <1>6 DEF Return, Terminate, KeepSession, Phases, CallerPc
<1>7. ASSUME WatchTest PROVE Ids'
  BY <1>7 DEF WatchTest, NotWatch
<1>8. ASSUME WatchBlock PROVE Ids'
  BY <1>8 DEF WatchBlock, NotWatch
<1>9. ASSUME WatchDeadline PROVE Ids'
  BY <1>9 DEF WatchDeadline, NotWatch
<1>10. ASSUME WatchCancel PROVE Ids'
  BY <1>10 DEF WatchCancel, NotWatch
<1>11. ASSUME WatchSend PROVE Ids'
  BY <1>11 DEF WatchSend, NotWatch
<1>12. ASSUME WatchGrace PROVE Ids'
  BY <1>12 DEF WatchGrace, NotWatch
<1>13. ASSUME WatchKill PROVE Ids'
  BY <1>13 DEF WatchKill, NotWatch
<1>14. ASSUME RequestCancel PROVE Ids'
  BY <1>14 DEF RequestCancel
<1>15. ASSUME NotifyCancel PROVE Ids'
  BY <1>15 DEF NotifyCancel
<1>16. ASSUME Tick PROVE Ids'
  BY <1>16 DEF Tick
<1>17. ASSUME PluginReads PROVE Ids'
  BY <1>17 DEF PluginReads, NotPlugin
<1>18. ASSUME PluginAnswers PROVE Ids'
  BY <1>18 DEF PluginAnswers, NotPlugin
<1>19. ASSUME PluginCrashes PROVE Ids'
  BY <1>19 DEF PluginCrashes, NotPlugin
<1>20. ASSUME PluginStrays PROVE Ids'
  BY <1>20 DEF PluginStrays, NotPlugin
<1>21. ASSUME UNCHANGED vars PROVE Ids'
  BY <1>21 DEF vars
<1> QED
  BY <1>1, <1>2, <1>3, <1>4, <1>5, <1>6, <1>7, <1>8, <1>9, <1>10, <1>11, <1>12, <1>13, <1>14, <1>15, <1>16, <1>17,
     <1>18, <1>19, <1>20, <1>21 DEF Next, Caller, Watchdog, Plugin

\* Every step keeps the watchdog running exactly while the caller has a call.
LEMMA PhasesStep ==
  ASSUME TypeOK, Phases, [Next]_vars
  PROVE  Phases'
<1> USE DEF Phases, callVars, watchVars, envVars, pluginVars
<1>1. ASSUME Begin PROVE Phases'
  BY <1>1, BeginCases
<1>2. ASSUME ReceiveFails PROVE Phases'
  BY <1>2 DEF ReceiveFails, Decide
<1>3. ASSUME Receive PROVE Phases'
  BY <1>3 DEF Receive, Decide
<1>4. ASSUME Complete PROVE Phases'
  BY <1>4 DEF Complete
<1>5. ASSUME Join PROVE Phases'
  BY <1>5 DEF Join
<1>6. ASSUME Return PROVE Phases'
  BY <1>6, ReturnCases
<1>7. ASSUME WatchTest PROVE Phases'
  BY <1>7 DEF WatchTest, NotWatch
<1>8. ASSUME WatchBlock PROVE Phases'
  BY <1>8 DEF WatchBlock, NotWatch
<1>9. ASSUME WatchDeadline PROVE Phases'
  BY <1>9 DEF WatchDeadline, NotWatch
<1>10. ASSUME WatchCancel PROVE Phases'
  BY <1>10 DEF WatchCancel, NotWatch
<1>11. ASSUME WatchSend PROVE Phases'
  BY <1>11 DEF WatchSend, NotWatch
<1>12. ASSUME WatchGrace PROVE Phases'
  BY <1>12 DEF WatchGrace, NotWatch
<1>13. ASSUME WatchKill PROVE Phases'
  BY <1>13 DEF WatchKill, NotWatch
<1>14. ASSUME RequestCancel PROVE Phases'
  BY <1>14 DEF RequestCancel
<1>15. ASSUME NotifyCancel PROVE Phases'
  BY <1>15 DEF NotifyCancel
<1>16. ASSUME Tick PROVE Phases'
  BY <1>16 DEF Tick
<1>17. ASSUME PluginReads PROVE Phases'
  BY <1>17 DEF PluginReads, NotPlugin
<1>18. ASSUME PluginAnswers PROVE Phases'
  BY <1>18 DEF PluginAnswers, NotPlugin
<1>19. ASSUME PluginCrashes PROVE Phases'
  BY <1>19 DEF PluginCrashes, NotPlugin
<1>20. ASSUME PluginStrays PROVE Phases'
  BY <1>20 DEF PluginStrays, NotPlugin
<1>21. ASSUME UNCHANGED vars PROVE Phases'
  BY <1>21 DEF vars
<1> QED
  BY <1>1, <1>2, <1>3, <1>4, <1>5, <1>6, <1>7, <1>8, <1>9, <1>10, <1>11, <1>12, <1>13, <1>14, <1>15, <1>16, <1>17,
     <1>18, <1>19, <1>20, <1>21 DEF Next, Caller, Watchdog, Plugin

\* Every step keeps a reported timeout one of a late clock or of a forced end.
LEMMA HonestStep ==
  ASSUME TypeOK, Phases, Causes, HonestOutcome, [Next]_vars
  PROVE  HonestOutcome'
<1> USE DEF HonestOutcome, Phases, Causes, callVars, watchVars, envVars, pluginVars
<1>1. ASSUME Begin PROVE HonestOutcome'
  BY <1>1, BeginCases
<1>2. ASSUME ReceiveFails PROVE HonestOutcome'
  <2>1. /\ mpc' = "complete" /\ UNCHANGED <<clock, requested>>
        /\ outcome'.status = "timeout" => TimedOut
        /\ outcome'.status = "cancelled" => reason \in {2, 3} \/ requested
    BY <1>2 DEF ReceiveFails, Decide
  <2>2. TimedOut => clock # "early"
    BY DEF TimedOut
  <2> QED
    BY <2>1, <2>2
<1>3. ASSUME Receive PROVE HonestOutcome'
  BY <1>3 DEF Receive, Decide
<1>4. ASSUME Complete PROVE HonestOutcome'
  BY <1>4 DEF Complete
<1>5. ASSUME Join PROVE HonestOutcome'
  BY <1>5 DEF Join
<1>6. ASSUME Return PROVE HonestOutcome'
  BY <1>6, ReturnCases
<1>7. ASSUME WatchTest PROVE HonestOutcome'
  BY <1>7 DEF WatchTest, NotWatch
<1>8. ASSUME WatchBlock PROVE HonestOutcome'
  BY <1>8 DEF WatchBlock, NotWatch
<1>9. ASSUME WatchDeadline PROVE HonestOutcome'
  BY <1>9 DEF WatchDeadline, NotWatch
<1>10. ASSUME WatchCancel PROVE HonestOutcome'
  BY <1>10 DEF WatchCancel, NotWatch
<1>11. ASSUME WatchSend PROVE HonestOutcome'
  BY <1>11 DEF WatchSend, NotWatch
<1>12. ASSUME WatchGrace PROVE HonestOutcome'
  BY <1>12 DEF WatchGrace, NotWatch
<1>13. ASSUME WatchKill PROVE HonestOutcome'
  BY <1>13 DEF WatchKill, NotWatch
<1>14. ASSUME RequestCancel PROVE HonestOutcome'
  BY <1>14 DEF RequestCancel
<1>15. ASSUME NotifyCancel PROVE HonestOutcome'
  BY <1>15 DEF NotifyCancel
<1>16. ASSUME Tick PROVE HonestOutcome'
  BY <1>16 DEF Tick
<1>17. ASSUME PluginReads PROVE HonestOutcome'
  BY <1>17 DEF PluginReads, NotPlugin
<1>18. ASSUME PluginAnswers PROVE HonestOutcome'
  BY <1>18 DEF PluginAnswers, NotPlugin
<1>19. ASSUME PluginCrashes PROVE HonestOutcome'
  BY <1>19 DEF PluginCrashes, NotPlugin
<1>20. ASSUME PluginStrays PROVE HonestOutcome'
  BY <1>20 DEF PluginStrays, NotPlugin
<1>21. ASSUME UNCHANGED vars PROVE HonestOutcome'
  BY <1>21 DEF vars
<1> QED
  BY <1>1, <1>2, <1>3, <1>4, <1>5, <1>6, <1>7, <1>8, <1>9, <1>10, <1>11, <1>12, <1>13, <1>14, <1>15, <1>16, <1>17,
     <1>18, <1>19, <1>20, <1>21 DEF Next, Caller, Watchdog, Plugin

----------------------------------------------------------------------------
(* The messages of a call *)

\* The messages of a call differ, and so do the contents a pipe can have.
LEMMA Messages ==
  /\ TheRequest # TheCancellation /\ TheAnswer # TheAcknowledgement
  /\ TheRequest.kind = "invoke" /\ TheRequest.id = requestId
  /\ TheCancellation.kind = "cancel" /\ TheCancellation.id = cancelId
  /\ TheAnswer.kind = "response" /\ TheAnswer.id = requestId
  /\ TheAcknowledgement.kind = "acknowledgement" /\ TheAcknowledgement.id = cancelId
BY DEF TheRequest, TheCancellation, TheAnswer, TheAcknowledgement

\* Pipes of different contents are different.
LEMMA Contents ==
  ASSUME NEW a, NEW b, a # b
  PROVE  /\ <<a>> # <<>> /\ <<b>> # <<>> /\ <<a, b>> # <<>> /\ <<b, a>> # <<>>
         /\ <<a>> # <<b>> /\ <<a, b>> # <<a>> /\ <<a, b>> # <<b>>
         /\ <<b, a>> # <<a>> /\ <<b, a>> # <<b>> /\ <<a, b>> # <<b, a>>
BY ShortSequencesDiffer

\* What is first in a pipe, and what is behind it.
LEMMA Pipe ==
  ASSUME NEW a, NEW b
  PROVE  /\ Append(<<>>, a) = <<a>> /\ Append(<<a>>, b) = <<a, b>>
         /\ Append(<<>>, b) = <<b>> /\ Append(<<b>>, a) = <<b, a>>
         /\ Head(<<a>>) = a /\ Tail(<<a>>) = <<>> /\ Head(<<b>>) = b /\ Tail(<<b>>) = <<>>
         /\ Head(<<a, b>>) = a /\ Tail(<<a, b>>) = <<b>>
         /\ Head(<<b, a>>) = b /\ Tail(<<b, a>>) = <<a>>
<1>1. a \in {a, b} /\ b \in {a, b}
  OBVIOUS
<1> QED
  BY <1>1, ShortSequences

\* The host only receives the answer of its call, or the acknowledgement of a cancellation that was sent.
LEMMA HeadToHost ==
  ASSUME Exchange, mpc # "idle", toHost # <<>>, ~strayed
  PROVE  Head(toHost) = TheAnswer \/ (Head(toHost) = TheAcknowledgement /\ cancelId # 0)
BY Pipe DEF Exchange

\* Every step keeps the cause of a forced end.
LEMMA CausesStep ==
  ASSUME TypeOK, Ids, Phases, Causes, Exchange, [Next]_vars
  PROVE  Causes'
<1> USE DEF Causes, Phases, callVars, watchVars, envVars, pluginVars
<1>1. ASSUME Begin PROVE Causes'
  BY <1>1, BeginCases
<1>2. ASSUME ReceiveFails PROVE Causes'
  BY <1>2 DEF ReceiveFails, Decide
<1>3. ASSUME Receive PROVE Causes'
  <2>1. CASE /\ ~(Head(toHost).kind = "acknowledgement" /\ cancelId # 0 /\ Head(toHost).id = cancelId)
             /\ ~(Head(toHost).kind = "response" /\ Head(toHost).id = requestId)
    <3>1. strayed
      BY <1>3, <2>1, HeadToHost, Messages DEF Receive
    <3> QED
      BY <1>3, <3>1 DEF Receive
  <2>2. CASE mpc' = mpc \/ Decide("answered", FALSE)
    <3>1. mpc' = "receive" \/ ~outcome'.forced
      BY <1>3, <2>2 DEF Receive, Decide
    <3> QED
      BY <1>3, <3>1 DEF Receive
  <2> QED
    BY <1>3, <2>1, <2>2 DEF Receive
<1>4. ASSUME Complete PROVE Causes'
  BY <1>4 DEF Complete
<1>5. ASSUME Join PROVE Causes'
  BY <1>5 DEF Join
<1>6. ASSUME Return PROVE Causes'
  BY <1>6, ReturnCases
<1>7. ASSUME WatchTest PROVE Causes'
  BY <1>7 DEF WatchTest, NotWatch
<1>8. ASSUME WatchBlock PROVE Causes'
  BY <1>8 DEF WatchBlock, NotWatch
<1>9. ASSUME WatchDeadline PROVE Causes'
  BY <1>9 DEF WatchDeadline, NotWatch
<1>10. ASSUME WatchCancel PROVE Causes'
  BY <1>10 DEF WatchCancel, NotWatch, TypeOK
<1>11. ASSUME WatchSend PROVE Causes'
  BY <1>11 DEF WatchSend, NotWatch
<1>12. ASSUME WatchGrace PROVE Causes'
  BY <1>12 DEF WatchGrace, NotWatch
<1>13. ASSUME WatchKill PROVE Causes'
  BY <1>13 DEF WatchKill, NotWatch
<1>14. ASSUME RequestCancel PROVE Causes'
  BY <1>14 DEF RequestCancel
<1>15. ASSUME NotifyCancel PROVE Causes'
  BY <1>15 DEF NotifyCancel
<1>16. ASSUME Tick PROVE Causes'
  BY <1>16 DEF Tick
<1>17. ASSUME PluginReads PROVE Causes'
  BY <1>17 DEF PluginReads, NotPlugin
<1>18. ASSUME PluginAnswers PROVE Causes'
  BY <1>18 DEF PluginAnswers, NotPlugin
<1>19. ASSUME PluginCrashes PROVE Causes'
  BY <1>19 DEF PluginCrashes, NotPlugin
<1>20. ASSUME PluginStrays PROVE Causes'
  BY <1>20 DEF PluginStrays, NotPlugin
<1>21. ASSUME UNCHANGED vars PROVE Causes'
  BY <1>21 DEF vars
<1> QED
  BY <1>1, <1>2, <1>3, <1>4, <1>5, <1>6, <1>7, <1>8, <1>9, <1>10, <1>11, <1>12, <1>13, <1>14, <1>15, <1>16, <1>17,
     <1>18, <1>19, <1>20, <1>21 DEF Next, Caller, Watchdog, Plugin

\* A step that moves no message.
LEMMA KeepExchange ==
  ASSUME Exchange, mpc # "idle",
         UNCHANGED <<toPlugin, toHost, doing, requestId, cancelId, acked, strayed>>,
         mpc' # "receive" /\ ~outcome'.forced => mpc # "receive" /\ ~outcome.forced,
         wpc' = "send" => wpc = "send"
  PROVE  Exchange'
<1>1. /\ TheRequest' = TheRequest /\ TheCancellation' = TheCancellation
      /\ TheAnswer' = TheAnswer /\ TheAcknowledgement' = TheAcknowledgement
  BY DEF TheRequest, TheCancellation, TheAnswer, TheAcknowledgement
<1> QED
  BY <1>1 DEF Exchange

\* A process that is gone reads and sends no more.
LEMMA DeadExchange ==
  ASSUME Exchange, mpc # "idle", toPlugin' = <<>>, doing' = {},
         UNCHANGED <<mpc, outcome, toHost, requestId, cancelId, acked, strayed>>,
         wpc' = "send" => wpc = "send"
  PROVE  Exchange'
<1>1. /\ TheRequest' = TheRequest /\ TheCancellation' = TheCancellation
      /\ TheAnswer' = TheAnswer /\ TheAcknowledgement' = TheAcknowledgement
  BY DEF TheRequest, TheCancellation, TheAnswer, TheAcknowledgement
<1>2. /\ <<TheRequest>> # <<>> /\ <<TheCancellation>> # <<>>
      /\ <<TheRequest, TheCancellation>> # <<>>
  BY Contents, Messages
<1> QED
  BY <1>1, <1>2 DEF Exchange

\* Every step keeps what a call in progress may find in the two pipes.
LEMMA ExchangeStep ==
  ASSUME TypeOK, Ids, Phases, Exchange, AtRest, [Next]_vars
  PROVE  Exchange'
<1> SUFFICES ASSUME mpc' # "idle", ~strayed'
             PROVE  Exchange'
  BY DEF Exchange
<1> USE DEF callVars, watchVars, envVars, pluginVars
<1>a. /\ UNCHANGED requestId => TheRequest' = TheRequest /\ TheAnswer' = TheAnswer
      /\ UNCHANGED cancelId => /\ TheCancellation' = TheCancellation
                               /\ TheAcknowledgement' = TheAcknowledgement
  BY DEF TheRequest, TheCancellation, TheAnswer, TheAcknowledgement
<1>b. /\ TheRequest # TheCancellation /\ TheAnswer # TheAcknowledgement
      /\ TheRequest' # TheCancellation' /\ TheAnswer' # TheAcknowledgement'
  BY DEF TheRequest, TheCancellation, TheAnswer, TheAcknowledgement
<1>1. CASE Begin
  <2>1. mpc = "idle" /\ mpc' = "receive" /\ wpc' = "test" /\ ~acked' /\ cancelId' = 0
        /\ UNCHANGED <<doing, toHost, strayed>>
    BY <1>1, BeginCases
  <2>2. toPlugin' = Append(toPlugin, TheRequest')
    BY <1>1, <2>1, mpc # mpc' DEF Begin, TheRequest
  <2>3. toPlugin = <<>> /\ toHost = <<>> /\ doing = {}
    BY <1>1, <2>1, BeginCases DEF AtRest
  <2>4. toPlugin' = <<TheRequest'>> /\ toHost' = <<>> /\ doing' = {}
    BY <2>1, <2>2, <2>3, Pipe
  <2> QED
    BY <1>b, <2>1, <2>4, Contents DEF Exchange
<1>2. CASE ReceiveFails
  BY <1>2, KeepExchange DEF ReceiveFails, Decide
<1>3. CASE Receive
  <2>1. /\ mpc = "receive" /\ toHost # <<>> /\ toHost' = Tail(toHost) /\ ~strayed
        /\ UNCHANGED <<toPlugin, doing, requestId, cancelId, wpc, strayed>>
    BY <1>3 DEF Receive
  <2>4. toHost \in {<<TheAnswer>>, <<TheAcknowledgement>>,
                     <<TheAnswer, TheAcknowledgement>>, <<TheAcknowledgement, TheAnswer>>}
    BY <2>1 DEF Exchange
  <2>2. CASE Head(toHost) = TheAnswer
    <3>a. acked' = acked
      BY <1>3, <2>2, Messages DEF Receive
    <3>b. toHost # <<TheAcknowledgement>> /\ toHost # <<TheAcknowledgement, TheAnswer>>
      BY <1>b, <2>2, Pipe
    <3>1. acked' = acked /\ toHost \in {<<TheAnswer>>, <<TheAnswer, TheAcknowledgement>>}
      BY <2>1, <2>4, <3>a, <3>b
    <3>2. \/ toHost = <<TheAnswer>> /\ toHost' = <<>>
          \/ toHost = <<TheAnswer, TheAcknowledgement>> /\ toHost' = <<TheAcknowledgement>>
      BY <2>1, <3>1, Pipe
    <3>3. toPlugin \in {<<>>, <<TheCancellation>>} /\ doing = {}
      BY <1>b, <2>1, <3>1, Contents DEF Exchange
    <3> QED
      BY <1>a, <1>b, <2>1, <3>1, <3>2, <3>3, Contents DEF Exchange
  <2>3. CASE Head(toHost) = TheAcknowledgement /\ cancelId # 0
    <3>1. acked' /\ mpc' = mpc
      BY <1>3, <2>3, Messages DEF Receive
    <3>a. toHost # <<TheAnswer>> /\ toHost # <<TheAnswer, TheAcknowledgement>>
      BY <1>b, <2>3, Pipe
    <3>b. toHost \in {<<TheAcknowledgement>>, <<TheAcknowledgement, TheAnswer>>}
      BY <2>4, <3>a
    <3>2. \/ toHost = <<TheAcknowledgement>> /\ toHost' = <<>>
          \/ toHost = <<TheAcknowledgement, TheAnswer>> /\ toHost' = <<TheAnswer>>
      BY <2>1, <3>b, Pipe
    <3>3. toPlugin \in {<<>>} /\ ~acked /\ wpc # "send"
      BY <1>b, <2>1, <3>2, Contents DEF Exchange
    <3> QED
      BY <1>a, <1>b, <2>1, <2>3, <3>1, <3>2, <3>3, Contents DEF Exchange
  <2> QED
    BY <2>1, <2>2, <2>3, HeadToHost
<1>4. CASE Complete \/ Join
  BY <1>4, KeepExchange DEF Complete, Join
<1>5. CASE Return
  BY <1>5 DEF Return
<1>6. CASE WatchTest \/ WatchBlock \/ WatchDeadline \/ WatchGrace
  <2>1. mpc # "idle"
    BY <1>6 DEF WatchTest, WatchBlock, WatchDeadline, WatchGrace, Phases
  <2> QED
    BY <1>6, <2>1, KeepExchange
       DEF WatchTest, WatchBlock, WatchDeadline, WatchGrace, NotWatch
<1>7. CASE WatchCancel
  <2>1. /\ mpc # "idle" /\ cancelId = 0 /\ wpc' = "send" /\ ~strayed
        /\ UNCHANGED <<toPlugin, toHost, doing, requestId, acked, mpc, outcome>>
    BY <1>7 DEF WatchCancel, NotWatch, Phases, Ids
  <2>2. toPlugin \in {<<>>, <<TheRequest>>} /\ toHost \in {<<>>, <<TheAnswer>>} /\ ~acked
    BY <2>1 DEF Exchange
  <2> QED
    BY <1>a, <1>b, <2>1, <2>2, Contents DEF Exchange
<1>8. CASE WatchSend
  <2>1. /\ mpc # "idle" /\ wpc = "send" /\ wpc' # "send" /\ cancelId # 0 /\ ~strayed
        /\ UNCHANGED <<toHost, doing, requestId, cancelId, acked, mpc, outcome, strayed>>
    BY <1>8 DEF WatchSend, NotWatch, Phases, Ids
  <2>2. toPlugin \in {<<>>, <<TheRequest>>} /\ toHost \in {<<>>, <<TheAnswer>>} /\ ~acked
    BY <2>1 DEF Exchange
  <2>3. CASE toPlugin' = Append(toPlugin, TheCancellation)
    <3>1. \/ toPlugin = <<>> /\ toPlugin' = <<TheCancellation>>
          \/ toPlugin = <<TheRequest>> /\ toPlugin' = <<TheRequest, TheCancellation>>
      BY <2>2, <2>3, Pipe
    <3> QED
      BY <1>a, <1>b, <2>1, <2>2, <3>1, Contents DEF Exchange
  <2>4. CASE UNCHANGED toPlugin
    BY <2>1, <2>4, KeepExchange
  <2> QED
    BY <1>8, <2>3, <2>4 DEF WatchSend, TheCancellation
<1>9. CASE WatchKill
  BY <1>9, DeadExchange DEF WatchKill, NotWatch, Phases
<1>10. CASE RequestCancel \/ NotifyCancel \/ Tick \/ UNCHANGED vars
  <2>1. mpc # "idle"
    BY <1>10 DEF RequestCancel, NotifyCancel, Tick, vars
  <2> QED
    BY <1>10, <2>1, KeepExchange DEF RequestCancel, NotifyCancel, Tick, vars
<1>11. CASE PluginReads
  <2>1. /\ mpc # "idle" /\ ~strayed /\ toPlugin # <<>> /\ toPlugin' = Tail(toPlugin)
        /\ UNCHANGED <<mpc, wpc, requestId, cancelId, acked, outcome, strayed>>
    BY <1>11 DEF PluginReads, NotPlugin
  <2>2. CASE toPlugin \in {<<TheRequest>>, <<TheRequest, TheCancellation>>}
    <3>1. Head(toPlugin) = TheRequest
      BY <2>2, Pipe
    <3>2. doing' = {requestId} /\ UNCHANGED toHost
      BY <1>11, <3>1, Messages DEF PluginReads
    <3>3. \/ toPlugin = <<TheRequest>> /\ toPlugin' = <<>>
          \/ toPlugin = <<TheRequest, TheCancellation>> /\ toPlugin' = <<TheCancellation>>
      BY <2>1, <2>2, Pipe
    <3>4. toHost = <<>> /\ ~(mpc # "receive" /\ ~outcome.forced)
      BY <1>b, <2>1, <2>2, Contents DEF Exchange
    <3> QED
      BY <1>a, <1>b, <2>1, <3>2, <3>3, <3>4, Contents DEF Exchange
  <2>3. CASE toPlugin = <<TheCancellation>>
    <3>1. Head(toPlugin) = TheCancellation /\ toPlugin' = <<>>
      BY <2>1, <2>3, Pipe
    <3>2. /\ doing' = doing
          /\ toHost' = toHost \/ toHost' = Append(toHost, TheAcknowledgement)
      BY <1>11, <3>1, Messages DEF PluginReads, TheAcknowledgement
    <3>3. /\ toHost \in {<<>>, <<TheAnswer>>} /\ ~acked /\ cancelId # 0 /\ wpc # "send"
          /\ mpc # "receive" /\ ~outcome.forced => toHost = <<>>
      BY <1>b, <2>1, <2>3, Contents DEF Exchange
    <3>4. \/ toHost' = toHost
          \/ toHost = <<>> /\ toHost' = <<TheAcknowledgement>>
          \/ toHost = <<TheAnswer>> /\ toHost' = <<TheAnswer, TheAcknowledgement>>
      BY <3>2, <3>3, Pipe
    <3>5. doing \in {{}, {requestId}} /\ (doing # {} => toHost = <<>>)
          /\ (mpc # "receive" /\ ~outcome.forced => doing = {})
      BY <1>b, <2>1, <3>3, Contents DEF Exchange
    <3> QED
      BY <1>a, <1>b, <2>1, <3>1, <3>2, <3>3, <3>4, <3>5, Contents DEF Exchange
  <2> QED
    BY <2>1, <2>2, <2>3 DEF Exchange
<1>12. CASE PluginAnswers
  <2>1. /\ mpc # "idle" /\ ~strayed
        /\ UNCHANGED <<mpc, wpc, requestId, cancelId, acked, outcome, toPlugin, strayed>>
    BY <1>12 DEF PluginAnswers, NotPlugin
  <2>2. doing = {requestId} /\ doing' = {} /\ toHost' = Append(toHost, TheAnswer)
    BY <1>12, <2>1 DEF PluginAnswers, Exchange, TheAnswer
  <2>3. /\ toHost \in {<<>>, <<TheAcknowledgement>>}
        /\ toPlugin \in {<<>>, <<TheCancellation>>}
        /\ ~(mpc # "receive" /\ ~outcome.forced)
    BY <2>1, <2>2 DEF Exchange
  <2>4. \/ toHost = <<>> /\ toHost' = <<TheAnswer>>
        \/ toHost = <<TheAcknowledgement>> /\ toHost' = <<TheAcknowledgement, TheAnswer>>
    BY <2>2, <2>3, Pipe
  <2> QED
    BY <1>a, <1>b, <2>1, <2>2, <2>3, <2>4, Contents DEF Exchange
<1>13. CASE PluginCrashes
  BY <1>13, DeadExchange DEF PluginCrashes, NotPlugin
<1>14. CASE PluginStrays
  BY <1>14, Zenon DEF PluginStrays
<1> QED
  BY <1>1, <1>2, <1>3, <1>4, <1>5, <1>6, <1>7, <1>8, <1>9, <1>10, <1>11, <1>12, <1>13, <1>14
     DEF Next, Caller, Watchdog, Plugin
\* Every step leaves nothing in the pipes of an open session between calls.
LEMMA AtRestStep ==
  ASSUME TypeOK, Ids, Phases, Exchange, AtRest, [Next]_vars
  PROVE  AtRest'
<1> SUFFICES ASSUME mpc' = "idle", valid', ~strayed'
             PROVE  toPlugin' = <<>> /\ toHost' = <<>> /\ doing' = {}
  BY DEF AtRest
<1> USE DEF callVars, watchVars, envVars, pluginVars
<1>1. CASE Return
  <2>1. /\ mpc = "return" /\ ~outcome.forced /\ Uncancelled
        /\ UNCHANGED <<toPlugin, toHost, doing, strayed>>
    BY <1>1, ReturnCases
  <2>2. /\ toPlugin \in {<<>>, <<TheCancellation>>} /\ doing = {}
        /\ toHost \in {<<>>, <<TheAcknowledgement>>}
    BY <2>1 DEF Exchange
  <2>3. /\ cancelId = 0 => toPlugin \in {<<>>, <<TheRequest>>} /\ toHost \in {<<>>, <<TheAnswer>>}
        /\ acked => toHost \in {<<>>, <<TheAnswer>>} /\ toPlugin # <<TheCancellation>>
    BY <2>1 DEF Exchange
  <2> QED
    BY <2>1, <2>2, <2>3, Messages, Contents DEF Uncancelled
<1>2. CASE Begin
  BY <1>2, BeginCases
<1>3. CASE Caller /\ ~Return
  BY <1>3 DEF Caller, ReceiveFails, Receive, Decide, Complete, Join
<1>4. CASE Watchdog
  BY <1>4 DEF Watchdog, WatchTest, WatchBlock, WatchDeadline, WatchCancel, WatchSend, WatchGrace,
             WatchKill, NotWatch, Phases
<1>5. CASE RequestCancel \/ NotifyCancel \/ Tick \/ UNCHANGED vars
  BY <1>5 DEF RequestCancel, NotifyCancel, Tick, AtRest, vars
<1>6. CASE Plugin
  BY <1>6 DEF Plugin, PluginReads, PluginAnswers, NotPlugin, AtRest
<1>7. CASE PluginCrashes
  BY <1>7 DEF PluginCrashes, NotPlugin, AtRest
<1>8. CASE PluginStrays
  BY <1>8, Zenon DEF PluginStrays
<1> QED
  BY <1>1, <1>2, <1>3, <1>4, <1>5, <1>6, <1>7, <1>8 DEF Next

----------------------------------------------------------------------------
(* Theorems *)

\* What the caller, the watchdog and the plugin keep true at every step of a call.
THEOREM InvokeInvariant == Spec => []InvokeInv
<1>1. Init => InvokeInv
  <2> SUFFICES ASSUME Init PROVE InvokeInv
    OBVIOUS
  <2>1. TypeOK
    BY TypeInit
  <2>2. Ids /\ AtRest /\ Exchange
    BY DEF Init, Ids, AtRest, Exchange
  <2>3. Phases /\ Causes /\ HonestOutcome
    <3>1. ~outcome.forced /\ outcome.status = "answered"
      BY DEF Init
    <3>2. valid /\ alive
      BY Zenon DEF Init
    <3> QED
      BY <3>1, <3>2 DEF Init, Phases, Causes, HonestOutcome
  <2> QED
    BY <2>1, <2>2, <2>3 DEF InvokeInv
<1>2. InvokeInv /\ [Next]_vars => InvokeInv'
  BY TypeStep, IdsStep, PhasesStep, CausesStep, ExchangeStep, AtRestStep, HonestStep
     DEF InvokeInv
<1> QED
  BY <1>1, <1>2, PTL DEF Spec

\* Every variable keeps its type: request ids do not run out, and the pipes
\* hold messages only.
THEOREM InvokeTypes == Spec => []TypeOK
<1>1. InvokeInv => TypeOK
  BY DEF InvokeInv
<1> QED
  BY <1>1, InvokeInvariant, PTL

\* A session kept for the next call carries nothing of this one, however
\* cancellation and answer crossed.
THEOREM SessionsAreClean == Spec => []NothingLeftOver
<1>1. InvokeInv => NothingLeftOver
  BY DEF InvokeInv, AtRest, NothingLeftOver
<1> QED
  BY <1>1, InvokeInvariant, PTL

\* The session ends exactly with the calls reported as ended by force, and the
\* deadline or the cancellation is blamed only if there was one.
THEOREM OutcomesAreHonest == Spec => []HonestOutcome
<1>1. InvokeInv => HonestOutcome
  BY DEF InvokeInv
<1> QED
  BY <1>1, InvokeInvariant, PTL

\* The host ends a process for the deadline, a cancellation or a message out of
\* turn, and for nothing else.
THEOREM KillsHaveCause == Spec => KilledForCause
<1>1. InvokeInv /\ [Next]_vars =>
        (alive /\ ~alive' /\ <<mpc, wpc>>' # <<mpc, wpc>> =>
           clock' # "early" \/ requested \/ strayed)
  <2> SUFFICES ASSUME InvokeInv, [Next]_vars, alive, ~alive', <<mpc, wpc>>' # <<mpc, wpc>>
               PROVE  clock' # "early" \/ requested \/ strayed
    OBVIOUS
  <2> USE DEF InvokeInv, callVars, watchVars, envVars, pluginVars
  <2>1. CASE Begin
    BY <2>1, BeginCases
  <2>2. CASE Return
    <3>1. mpc = "return" /\ UNCHANGED clock
      BY <2>2, ReturnCases
    <3>2. outcome.forced \/ ~Uncancelled
      BY <2>2, ReturnCases
    <3> QED
      BY <3>1, <3>2 DEF Causes, Uncancelled
  <2>3. CASE WatchKill
    <3>1. reason # 0 /\ reason \in 0 .. 3 /\ UNCHANGED clock
      BY <2>3 DEF WatchKill, NotWatch, Causes, TypeOK
    <3>2. reason = 1 \/ reason \in {2, 3}
      BY <3>1
    <3> QED
      BY <3>1, <3>2 DEF Causes
  <2>4. CASE PluginCrashes
    BY <2>4 DEF PluginCrashes, NotPlugin
  <2>5. CASE UNCHANGED alive
    BY <2>5, Zenon
  <2>6. Begin \/ Return \/ WatchKill \/ PluginCrashes \/ UNCHANGED alive
    BY DEF Next, vars, Caller, ReceiveFails, Receive, Complete, Join, Watchdog, WatchTest,
           WatchBlock, WatchDeadline, WatchCancel, WatchSend, WatchGrace, NotWatch,
           RequestCancel, NotifyCancel, Tick, Plugin, PluginReads, PluginAnswers, PluginStrays
  <2> QED
    BY <2>1, <2>2, <2>3, <2>4, <2>5, <2>6
<1> QED
  BY <1>1, InvokeInvariant, PTL DEF Spec, KilledForCause
=============================================================================
