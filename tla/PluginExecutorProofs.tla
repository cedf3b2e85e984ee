------------------------ MODULE PluginExecutorProofs ------------------------
(***************************************************************************)
(* Theorems about the plugin executor, for any calls, plugins, permissions,*)
(* requests and size of the queue.                                         *)
(*                                                                         *)
(* Everything rests on one inductive invariant, ExecutorInv.  The calls    *)
(* without a result that were accepted form one sequence, Waiting: the job *)
(* in hand, then what was swapped out of the queue, then the queue.  The   *)
(* control state says which of its three parts can be non-empty, and so    *)
(* each step leaves the sequence alone, appends a call or removes the      *)
(* first: the step of the contract it implements.                          *)
(***************************************************************************)
EXTENDS PluginExecutor, SequenceTheorems, TLAPS

\* Accepted calls without a result, in the order of acceptance.
Waiting == job \o abandoned \o queue

\* What the worker's place says of the three sequences.
Shape ==
  /\ wpc \in {"check", "switch", "launch", "dispatch", "invoke"} <=> job # <<>>
  /\ wpc \in {"close", "drain", "ended"} => stopping
  /\ abandoned # <<>> => wpc = "drain"
  /\ wpc \in {"drain", "ended"} => queue = <<>>

\* A call still inside submit has no result and waits nowhere.
NewCalls ==
  \A c \in Calls :
    stage[c] # "submitted" => results[c] = "none" /\ c \notin ToSet(Waiting)

\* No call waits twice.
WaitsOnce == IsInjective(Waiting)

Granted(r) ==
  /\ r \in RequestType
  /\ r.serviceRequires \subseteq r.required
  /\ r.required # {} => r.source = "trusted_user_action"

\* What got through the checks of submit stays as it was until its result.
AcceptedRequests ==
  \A c \in Calls : stage[c] = "checked" \/ c \in ToSet(Waiting) => Granted(request[c])

\* The session used for the call in hand is one of the plugin it names.
RightSession == wpc \in {"dispatch", "invoke"} => session = JobRequest.plugin

ExecutorInv ==
  TypeOK /\ Shape /\ NewCalls /\ WaitsOnce /\ AcceptedRequests /\ RightSession

----------------------------------------------------------------------------
(* Sequences *)

\* Appending adds one element.
LEMMA AppendToSet ==
  ASSUME NEW S, NEW s \in Seq(S), NEW e \in S
  PROVE  ToSet(Append(s, e)) = ToSet(s) \cup {e}
BY AppendProperties, LenProperties DEF ToSet

\* The first element and the rest are all there is.
LEMMA TailToSet ==
  ASSUME NEW S, NEW s \in Seq(S), s # <<>>
  PROVE  /\ Head(s) \in ToSet(s) /\ Head(s) \in S
         /\ ToSet(s) = {Head(s)} \cup ToSet(Tail(s))
<1>1. Len(s) \in Nat \ {0} /\ DOMAIN s = 1 .. Len(s) /\ Head(s) = s[1] /\ Head(s) \in S
  BY EmptySeq, LenProperties, HeadTailProperties
<1>2. /\ DOMAIN Tail(s) = 1 .. Len(s) - 1
      /\ \A i \in 1 .. Len(s) - 1 : Tail(s)[i] = s[i + 1]
  BY <1>1, HeadTailProperties, LenProperties
<1>3. ToSet(s) \subseteq {Head(s)} \cup ToSet(Tail(s))
  <2> SUFFICES ASSUME NEW i \in 1 .. Len(s), i # 1
               PROVE  s[i] \in ToSet(Tail(s))
    BY <1>1 DEF ToSet
  <2>1. i - 1 \in 1 .. Len(s) - 1 /\ Tail(s)[i - 1] = s[i]
    BY <1>1, <1>2
  <2> QED
    BY <1>2, <2>1 DEF ToSet
<1>4. {Head(s)} \cup ToSet(Tail(s)) \subseteq ToSet(s)
  BY <1>1, <1>2 DEF ToSet
<1> QED
  BY <1>1, <1>3, <1>4

\* A new element keeps a sequence without repetitions one.
LEMMA AppendOnce ==
  ASSUME NEW S, NEW s \in Seq(S), NEW e \in S, IsInjective(s), e \notin ToSet(s)
  PROVE  IsInjective(Append(s, e))
<1>1. Len(s) \in Nat /\ DOMAIN s = 1 .. Len(s)
  BY LenProperties
<1>2. /\ Append(s, e) \in Seq(S) /\ Len(Append(s, e)) = Len(s) + 1
      /\ \A i \in 1 .. Len(s) : Append(s, e)[i] = s[i]
      /\ Append(s, e)[Len(s) + 1] = e
  BY <1>1, AppendProperties
<1>3. DOMAIN Append(s, e) = 1 .. Len(s) + 1
  BY <1>2, LenProperties
<1>4. \A i \in 1 .. Len(s) : s[i] # e
  BY <1>1 DEF ToSet
<1>5. \A i \in 1 .. Len(s), j \in 1 .. Len(s) : s[i] = s[j] => i = j
  BY <1>1 DEF IsInjective
<1>6. ASSUME NEW i \in 1 .. Len(s) + 1, NEW j \in 1 .. Len(s) + 1,
             Append(s, e)[i] = Append(s, e)[j]
      PROVE  i = j
  <2>1. CASE i \in 1 .. Len(s) /\ j \in 1 .. Len(s)
    BY <1>2, <1>5, <1>6, <2>1
  <2>2. CASE i = Len(s) + 1 \/ j = Len(s) + 1
    BY <1>1, <1>2, <1>4, <1>6, <2>2
  <2> QED
    BY <1>1, <2>1, <2>2
<1>7. \A i \in DOMAIN Append(s, e), j \in DOMAIN Append(s, e) :
        Append(s, e)[i] = Append(s, e)[j] => i = j
  BY <1>3, <1>6, Zenon
<1> QED
  BY <1>7 DEF IsInjective

\* Without its first element it still is one, and that element is gone from it.
LEMMA TailOnce ==
  ASSUME NEW S, NEW s \in Seq(S), s # <<>>, IsInjective(s)
  PROVE  IsInjective(Tail(s)) /\ Head(s) \notin ToSet(Tail(s))
<1>1. Len(s) \in Nat \ {0} /\ DOMAIN s = 1 .. Len(s) /\ Head(s) = s[1]
  BY EmptySeq, LenProperties, HeadTailProperties
<1>2. /\ DOMAIN Tail(s) = 1 .. Len(s) - 1
      /\ \A i \in 1 .. Len(s) - 1 : Tail(s)[i] = s[i + 1]
  BY <1>1, HeadTailProperties, LenProperties
<1>3. ASSUME NEW i \in 1 .. Len(s) - 1, NEW j \in 1 .. Len(s) - 1, Tail(s)[i] = Tail(s)[j]
      PROVE  i = j
  BY <1>1, <1>2, <1>3 DEF IsInjective
<1>4. ASSUME NEW i \in 1 .. Len(s) - 1, Tail(s)[i] = s[1]
      PROVE  FALSE
  BY <1>1, <1>2, <1>4 DEF IsInjective
<1> QED
  BY <1>1, <1>2, <1>3, <1>4 DEF IsInjective, ToSet

----------------------------------------------------------------------------
(* The waiting calls *)

\* Waiting is a sequence of calls.
LEMMA WaitingType ==
  ASSUME TypeOK
  PROVE  Waiting \in Seq(Calls) /\ Len(Waiting) = Len(job) + Len(abandoned) + Len(queue)
<1> DEFINE taken == job \o abandoned
<1>1. taken \in Seq(Calls) /\ Len(taken) = Len(job) + Len(abandoned)
  BY ConcatProperties DEF TypeOK
<1> HIDE DEF taken
<1>2. taken \o queue \in Seq(Calls) /\ Len(taken \o queue) = Len(taken) + Len(queue)
  BY <1>1, ConcatProperties DEF TypeOK
<1> QED
  BY <1>1, <1>2 DEF Waiting, taken

\* The job in hand is the first of the waiting calls, and the queue the rest.
LEMMA JobIsFirst ==
  ASSUME TypeOK, Shape, job # <<>>
  PROVE  /\ Head(job) \in Calls /\ Waiting # <<>> /\ Head(Waiting) = Head(job)
         /\ abandoned = <<>> /\ Tail(Waiting) = queue
         /\ <<>> \o abandoned \o queue = queue
<1>1. abandoned = <<>>
  BY DEF Shape
<1>2. Len(job) = 1 /\ Head(job) \in Calls /\ Head(job) = job[1]
  <2>1. job \in Seq(Calls) /\ Len(job) <= 1
    BY DEF TypeOK
  <2>2. Len(job) \in Nat \ {0}
    BY <2>1, EmptySeq, Zenon
  <2>3. Len(job) = 1
    <3> DEFINE n == Len(job)
    <3>1. n \in Nat \ {0} /\ n <= 1
      BY <2>1, <2>2
    <3> HIDE DEF n
    <3>2. n = 1
      BY <3>1
    <3> QED
      BY <3>2 DEF n
  <2> QED
    BY <2>1, <2>3, HeadTailProperties
<1>3. Waiting = job \o queue /\ <<>> \o abandoned \o queue = queue
  BY <1>1, ConcatEmptySeq, EmptySeq DEF Waiting, TypeOK
<1>4. /\ job \o queue \in Seq(Calls) /\ Len(job \o queue) = 1 + Len(queue)
      /\ \A i \in 1 .. 1 + Len(queue) :
           (job \o queue)[i] = IF i <= 1 THEN job[i] ELSE queue[i - 1]
  <2>1. job \in Seq(Calls) /\ queue \in Seq(Calls)
    BY DEF TypeOK
  <2>2. /\ job \o queue \in Seq(Calls) /\ Len(job \o queue) = Len(job) + Len(queue)
        /\ \A i \in 1 .. Len(job) + Len(queue) :
             (job \o queue)[i] = IF i <= Len(job) THEN job[i] ELSE queue[i - Len(job)]
    BY <2>1, ConcatProperties, Zenon
  <2> QED
    BY <1>2, <2>2
<1>5. Len(queue) \in Nat
  BY LenProperties DEF TypeOK
<1>6. job \o queue # <<>>
  BY <1>4, <1>5, EmptySeq
<1>7. Head(job \o queue) = job[1]
  BY <1>4, <1>5, <1>6
<1>8. /\ Tail(job \o queue) \in Seq(Calls) /\ Len(Tail(job \o queue)) = Len(queue)
      /\ \A i \in 1 .. Len(queue) : Tail(job \o queue)[i] = queue[i]
  BY <1>4, <1>5, <1>6, HeadTailProperties
<1>9. Tail(job \o queue) = queue
  BY <1>8, SeqEqual DEF TypeOK
<1> QED
  BY <1>1, <1>2, <1>3, <1>6, <1>7, <1>9

\* Nothing in hand and nothing swapped out: the queue is what waits.
LEMMA OnlyQueue ==
  ASSUME TypeOK, job = <<>>, abandoned = <<>>
  PROVE  Waiting = queue
BY ConcatEmptySeq, EmptySeq DEF Waiting, TypeOK

----------------------------------------------------------------------------
(* What happens to a call keeps the calls in order *)

CallsInv == NewCalls /\ WaitsOnce /\ AcceptedRequests

\* A step that touches neither the calls nor who waits.
LEMMA KeepCalls ==
  ASSUME CallsInv, UNCHANGED callVars, Waiting' = Waiting
  PROVE  CallsInv'
BY DEF CallsInv, NewCalls, WaitsOnce, AcceptedRequests, callVars

\* A rejection.
LEMMA RejectCalls ==
  ASSUME TypeOK, CallsInv, NEW c \in Calls, NEW status, stage[c] # "submitted",
         Reject(c, status), Waiting' = Waiting
  PROVE  CallsInv'
BY DEF TypeOK, CallsInv, NewCalls, WaitsOnce, AcceptedRequests, Reject, SetResult

\* The result of the first waiting call.
LEMMA FinishCalls ==
  ASSUME TypeOK, CallsInv, NEW status, Waiting # <<>>,
         SetResult(Head(Waiting), status), UNCHANGED stage, Waiting' = Tail(Waiting)
  PROVE  CallsInv'
<1> DEFINE c == Head(Waiting)
<1>1. Waiting \in Seq(Calls)
  BY WaitingType
<1>2. c \in Calls /\ c \in ToSet(Waiting) /\ ToSet(Waiting) = {c} \cup ToSet(Tail(Waiting))
  BY <1>1, TailToSet
<1>3. IsInjective(Tail(Waiting)) /\ c \notin ToSet(Tail(Waiting))
  BY <1>1, TailOnce DEF CallsInv, WaitsOnce
<1> HIDE DEF c
<1>4. SetResult(c, status)
  BY DEF c
<1>5. stage[c] = "submitted"
  BY <1>2 DEF CallsInv, NewCalls
<1>6. NewCalls'
  <2> SUFFICES ASSUME NEW d \in Calls, stage[d] # "submitted"
               PROVE  results'[d] = "none" /\ d \notin ToSet(Tail(Waiting))
    BY DEF NewCalls
  <2>1. d # c /\ results[d] = "none" /\ d \notin ToSet(Waiting)
    BY <1>5 DEF CallsInv, NewCalls
  <2> QED
    BY <1>2, <1>4, <2>1 DEF SetResult, TypeOK
<1>7. AcceptedRequests'
  <2> SUFFICES ASSUME NEW d \in Calls, stage[d] = "checked" \/ d \in ToSet(Tail(Waiting))
               PROVE  Granted(request'[d])
    BY DEF AcceptedRequests
  <2>1. d # c /\ Granted(request[d])
    BY <1>2, <1>3, <1>5 DEF CallsInv, AcceptedRequests
  <2> QED
    BY <1>4, <2>1 DEF SetResult, TypeOK
<1> QED
  BY <1>3, <1>6, <1>7 DEF CallsInv, WaitsOnce

----------------------------------------------------------------------------
(* The actions of submit: each keeps the invariant and is a step of the contract *)

\* What a step must do.
KeepsInvAndContract == ExecutorInv' /\ (Contract!Next \/ UNCHANGED Contract!vars)

\* The conjuncts of the invariant, as the lemmas want them.
LEMMA InvParts ==
  ASSUME ExecutorInv
  PROVE  TypeOK /\ Shape /\ CallsInv /\ RightSession
BY DEF ExecutorInv, CallsInv

\* A call that still is in submit is new to the contract.
LEMMA InSubmit ==
  ASSUME ExecutorInv, NEW c \in Calls, stage[c] # "submitted"
  PROVE  Contract!New(c)
BY DEF ExecutorInv, NewCalls, Waiting, ToSet, Contract!New, Contract!ToSet

\* A rejection by submit.
LEMMA RejectStep ==
  ASSUME ExecutorInv, NEW c \in Calls, stage[c] # "submitted",
         NEW status \in Contract!Rejections, Reject(c, status),
         status = "stopped" => stopping,
         status = "queue_full" => Len(queue) >= MaxQueued,
         UNCHANGED <<workerVars, session, stale, stopping>>
  PROVE  KeepsInvAndContract
<1>1. Waiting' = Waiting
  BY DEF Waiting, workerVars
<1>2. TypeOK /\ Shape /\ CallsInv /\ RightSession
  BY InvParts
<1>3. TypeOK'
  BY <1>2 DEF TypeOK, Reject, SetResult, workerVars, Stages, Statuses, Contract!Rejections
<1>4. Shape'
  BY <1>2 DEF Shape, workerVars
<1>5. CallsInv'
  BY <1>1, <1>2, RejectCalls
<1>6. RightSession'
  <2> SUFFICES ASSUME wpc \in {"dispatch", "invoke"}
               PROVE  session = request'[Head(job)].plugin
    BY DEF RightSession, JobRequest, workerVars
  <2>1. job # <<>>
    BY <1>2 DEF Shape
  <2>2. Head(job) \in Calls /\ Head(job) \in ToSet(Waiting)
    BY <1>2, <2>1, JobIsFirst, WaitingType, TailToSet
  <2>3. Head(job) # c
    BY <2>2 DEF ExecutorInv, NewCalls
  <2> QED
    BY <1>2, <2>2, <2>3 DEF RightSession, JobRequest, TypeOK, Reject, SetResult
<1>7. Contract!Reject(c, status)
  <2>1. Contract!New(c)
    BY InSubmit
  <2>2. Len(queue) >= MaxQueued => Len(Waiting) >= MaxQueued
    BY <1>2, WaitingType, LenProperties, MaxQueuedAssumption DEF TypeOK
  <2> QED
    BY <1>1, <2>1, <2>2 DEF Contract!Reject, Reject, SetResult, Waiting
<1>8. Contract!Next
  BY <1>7 DEF Contract!Next
<1> QED
  BY <1>3, <1>4, <1>5, <1>6, <1>8 DEF KeepsInvAndContract, ExecutorInv, CallsInv

\* The checks of submit.
LEMMA SubmitCheckStep ==
  ASSUME ExecutorInv, NEW c \in Calls, SubmitCheck(c)
  PROVE  KeepsInvAndContract
<1>1. stage[c] = "new" /\ UNCHANGED <<workerVars, session, stale, stopping>>
  BY DEF SubmitCheck
<1>2. ASSUME NEW status \in {"invalid_request", "rejected_source", "cancelled"},
             Reject(c, status)
      PROVE  KeepsInvAndContract
  BY <1>1, <1>2, RejectStep DEF Contract!Rejections
<1>3. ASSUME NEW r \in Requests, Acceptable(Completed(r)),
             stage' = [stage EXCEPT ![c] = "checked"],
             request' = [request EXCEPT ![c] = Completed(r)],
             UNCHANGED <<results, cancelled, expired>>
      PROVE  KeepsInvAndContract
  <2>1. Waiting' = Waiting
    BY <1>1 DEF Waiting, workerVars
  <2>2. TypeOK /\ Shape /\ CallsInv /\ RightSession
    BY InvParts
  <2>3. Granted(Completed(r))
    BY <1>3, RequestsAssumption DEF Granted, Completed, Acceptable, RequestType
  <2>4. TypeOK'
    BY <1>1, <1>3, <2>2, <2>3 DEF TypeOK, workerVars, Stages, Granted
  <2>5. Shape'
    BY <1>1, <2>2 DEF Shape, workerVars
  <2>6. CallsInv'
    BY <1>1, <1>3, <2>1, <2>2, <2>3
       DEF CallsInv, NewCalls, WaitsOnce, AcceptedRequests, TypeOK
  <2>7. RightSession'
    <3> SUFFICES ASSUME wpc \in {"dispatch", "invoke"}
                 PROVE  session = request'[Head(job)].plugin
      BY <1>1 DEF RightSession, JobRequest, workerVars
    <3>1. job # <<>>
      BY <2>2 DEF Shape
    <3>2. Head(job) \in Calls /\ Head(job) \in ToSet(Waiting)
      BY <2>2, <3>1, JobIsFirst, WaitingType, TailToSet
    <3>3. Head(job) # c
      BY <1>1, <3>2 DEF ExecutorInv, NewCalls
    <3> QED
      BY <1>3, <2>2, <3>2, <3>3 DEF RightSession, JobRequest, TypeOK
  <2>8. UNCHANGED Contract!vars
    BY <1>1, <1>3 DEF Contract!vars, workerVars
  <2> QED
    BY <2>4, <2>5, <2>6, <2>7, <2>8 DEF KeepsInvAndContract, ExecutorInv, CallsInv
<1> QED
  BY <1>2, <1>3 DEF SubmitCheck

\* The critical section of submit.
LEMMA SubmitQueueStep ==
  ASSUME ExecutorInv, NEW c \in Calls, SubmitQueue(c)
  PROVE  KeepsInvAndContract
<1>1. TypeOK /\ Shape /\ CallsInv /\ RightSession
  BY InvParts
<1>2. stage[c] = "checked" /\ UNCHANGED <<job, abandoned, wpc, session, stale, stopping>>
  BY DEF SubmitQueue
<1>3. CASE stopping /\ Reject(c, "stopped") /\ UNCHANGED queue
  BY <1>2, <1>3, RejectStep DEF Contract!Rejections, workerVars
<1>4. CASE ~stopping /\ ~HasRoom /\ Reject(c, "queue_full") /\ UNCHANGED queue
  <2>1. Len(queue) >= MaxQueued
    BY <1>1, <1>4, LenProperties, MaxQueuedAssumption DEF HasRoom, TypeOK
  <2> QED
    BY <1>2, <1>4, <2>1, RejectStep DEF Contract!Rejections, workerVars
<1>5. CASE /\ ~stopping /\ HasRoom
           /\ stage' = [stage EXCEPT ![c] = "submitted"]
           /\ queue' = Append(queue, c)
           /\ UNCHANGED <<request, results, cancelled, expired>>
  <2>1. abandoned = <<>> /\ wpc \notin {"close", "drain", "ended"}
    BY <1>1, <1>5 DEF Shape
  <2>2. Waiting' = Append(Waiting, c)
    <3> DEFINE taken == job \o abandoned
    <3>1. taken \in Seq(Calls) /\ queue \in Seq(Calls)
      BY <1>1, ConcatProperties DEF TypeOK
    <3> HIDE DEF taken
    <3>2. taken \o Append(queue, c) = Append(taken \o queue, c)
      BY <3>1, AppendIsConcat, ConcatAssociative, ConcatProperties
    <3> QED
      BY <1>2, <1>5, <3>2 DEF Waiting, taken
  <2>3. Waiting \in Seq(Calls)
    BY <1>1, WaitingType
  <2>4. TypeOK'
    <3>1. queue' \in Seq(Calls) /\ Len(queue') <= MaxQueued
      BY <1>1, <1>5, AppendProperties, LenProperties, MaxQueuedAssumption DEF TypeOK, HasRoom
    <3> QED
      BY <1>1, <1>2, <1>5, <3>1 DEF TypeOK, Stages
  <2>5. Shape'
    BY <1>1, <1>2, <2>1 DEF Shape
  <2>6. ToSet(Waiting') = ToSet(Waiting) \cup {c} /\ IsInjective(Waiting')
    <3>1. c \notin ToSet(Waiting) /\ IsInjective(Waiting)
      BY <1>1, <1>2 DEF CallsInv, NewCalls, WaitsOnce
    <3>2. ToSet(Append(Waiting, c)) = ToSet(Waiting) \cup {c}
      BY <2>3, AppendToSet
    <3>3. IsInjective(Append(Waiting, c))
      BY <2>3, <3>1, AppendOnce
    <3> QED
      BY <2>2, <3>2, <3>3
  <2>7. CallsInv'
    BY <1>1, <1>2, <1>5, <2>6 DEF CallsInv, NewCalls, WaitsOnce, AcceptedRequests, TypeOK
  <2>8. RightSession'
    BY <1>1, <1>2, <1>5 DEF RightSession, JobRequest
  <2>9. Contract!Accept(c)
    <3>1. Contract!New(c)
      BY <1>2, InSubmit
    <3>2. Len(Waiting) <= MaxQueued
      BY <1>1, <1>5, <2>1, WaitingType, LenProperties, EmptySeq, MaxQueuedAssumption
         DEF TypeOK, HasRoom
    <3> QED
      BY <1>2, <1>5, <2>2, <3>1, <3>2 DEF Contract!Accept, Waiting
  <2>10. Contract!Next
    BY <2>9 DEF Contract!Next
  <2> QED
    BY <2>4, <2>5, <2>7, <2>8, <2>10 DEF KeepsInvAndContract, ExecutorInv, CallsInv
<1> QED
  BY <1>3, <1>4, <1>5 DEF SubmitQueue

----------------------------------------------------------------------------
(* The actions of the worker *)

\* The worker goes on with the job in hand: nobody's result changes.
LEMMA GoOnStep ==
  ASSUME ExecutorInv, NEW pc \in {"switch", "launch", "dispatch", "invoke"}, job # <<>>,
         GoOn(pc), session' \in Plugins \cup {NoPlugin}, stale' \in BOOLEAN,
         pc \in {"dispatch", "invoke"} => session' = JobRequest.plugin
  PROVE  KeepsInvAndContract
<1>1. TypeOK /\ Shape /\ CallsInv /\ RightSession
  BY InvParts
<1>2. Waiting' = Waiting
  BY DEF Waiting, GoOn
<1>3. TypeOK'
  BY <1>1 DEF TypeOK, GoOn, callVars, envVars, WorkerPc
<1>4. abandoned = <<>>
  BY <1>1 DEF Shape
<1>5. Shape'
  BY <1>1, <1>4 DEF Shape, GoOn
<1>6. CallsInv'
  BY <1>1, <1>2, KeepCalls DEF GoOn
<1>7. RightSession'
  BY DEF RightSession, JobRequest, GoOn, callVars
<1>8. UNCHANGED Contract!vars
  BY DEF Contract!vars, GoOn, callVars, envVars
<1> QED
  BY <1>3, <1>5, <1>6, <1>7, <1>8 DEF KeepsInvAndContract, ExecutorInv, CallsInv

\* The worker finishes the job in hand.
LEMMA FinishStep ==
  ASSUME ExecutorInv, job # <<>>,
         NEW status \in {"success", "cancelled", "timeout", "launch_failed", "invocation_failed"},
         Finish(status), session' \in Plugins \cup {NoPlugin}, stale' \in BOOLEAN
  PROVE  KeepsInvAndContract
<1>1. TypeOK /\ Shape /\ CallsInv /\ RightSession
  BY InvParts
<1>2. /\ Head(job) \in Calls /\ Waiting # <<>> /\ Head(Waiting) = Head(job)
      /\ abandoned = <<>> /\ Tail(Waiting) = queue
      /\ <<>> \o abandoned \o queue = queue
  BY <1>1, JobIsFirst
<1>3. Waiting' = Tail(Waiting)
  BY <1>2 DEF Finish, Waiting
<1>4. SetResult(Head(Waiting), status)
  BY <1>2 DEF Finish
<1>5. TypeOK'
  <2>1. job' \in Seq(Calls) /\ Len(job') <= 1
    BY EmptySeq DEF Finish
  <2> QED
    BY <1>1, <1>2, <2>1 DEF TypeOK, Finish, SetResult, WorkerPc, Statuses
<1>6. Shape'
  BY <1>1, <1>2 DEF Shape, Finish
<1>7. CallsInv'
  BY <1>1, <1>2, <1>3, <1>4, FinishCalls DEF Finish
<1>8. RightSession'
  BY DEF RightSession, Finish
<1>9. Contract!Complete(status)
  BY <1>2, <1>3, <1>4 DEF Contract!Complete, Waiting, SetResult, Finish
<1>10. Contract!Next
  BY <1>9 DEF Contract!Next, Contract!Completions
<1> QED
  BY <1>5, <1>6, <1>7, <1>8, <1>10 DEF KeepsInvAndContract, ExecutorInv, CallsInv

\* The wait for a call.
LEMMA TakeStep ==
  ASSUME ExecutorInv, Take
  PROVE  KeepsInvAndContract
<1>1. TypeOK /\ Shape /\ CallsInv /\ RightSession
  BY InvParts
<1>2. wpc = "wait" /\ job = <<>> /\ abandoned = <<>> /\ Waiting = queue
  BY <1>1, OnlyQueue DEF Take, Shape
<1>3. UNCHANGED <<callVars, abandoned, session, stale, envVars>>
  BY DEF Take
<1>4. CASE stopping /\ wpc' = "close" /\ UNCHANGED <<job, queue>>
  <2>1. Waiting' = Waiting
    BY <1>3, <1>4 DEF Waiting
  <2>2. TypeOK'
    BY <1>1, <1>3, <1>4 DEF TypeOK, callVars, envVars, WorkerPc
  <2>3. Shape'
    BY <1>2, <1>3, <1>4 DEF Shape, envVars
  <2>4. CallsInv'
    BY <1>1, <1>3, <2>1, KeepCalls
  <2>5. RightSession'
    BY <1>4 DEF RightSession
  <2>6. UNCHANGED Contract!vars
    BY <1>3, <1>4 DEF Contract!vars, callVars, envVars
  <2> QED
    BY <2>2, <2>3, <2>4, <2>5, <2>6 DEF KeepsInvAndContract, ExecutorInv, CallsInv
<1>5. CASE /\ ~stopping /\ queue # <<>>
           /\ job' = <<Head(queue)>> /\ queue' = Tail(queue) /\ wpc' = "check"
  <2>1. /\ queue \in Seq(Calls) /\ Head(queue) \in Calls /\ Tail(queue) \in Seq(Calls)
        /\ Len(Tail(queue)) <= MaxQueued
    BY <1>1, <1>5, HeadTailProperties, LenProperties, MaxQueuedAssumption DEF TypeOK
  <2>2. <<Head(queue)>> \in Seq(Calls) /\ Len(<<Head(queue)>>) = 1
    BY <2>1
  <2>3. <<Head(queue)>> \o Tail(queue) = queue
    <3>1. /\ <<Head(queue)>> \o Tail(queue) \in Seq(Calls)
          /\ Len(<<Head(queue)>> \o Tail(queue)) = 1 + Len(Tail(queue))
          /\ \A i \in 1 .. 1 + Len(Tail(queue)) :
               (<<Head(queue)>> \o Tail(queue))[i] =
                 IF i <= 1 THEN <<Head(queue)>>[i] ELSE Tail(queue)[i - 1]
      BY <2>1, <2>2, ConcatProperties
    <3>2. /\ Len(queue) \in Nat \ {0} /\ Len(Tail(queue)) = Len(queue) - 1
          /\ \A i \in 1 .. Len(Tail(queue)) : Tail(queue)[i] = queue[i + 1]
          /\ Head(queue) = queue[1]
      BY <1>5, <2>1, HeadTailProperties, EmptySeq
    <3>3. Len(<<Head(queue)>> \o Tail(queue)) = Len(queue)
      BY <3>1, <3>2
    <3>4. ASSUME NEW i \in 1 .. Len(queue)
          PROVE  (<<Head(queue)>> \o Tail(queue))[i] = queue[i]
      <4>1. CASE i = 1
        BY <3>1, <3>2, <4>1
      <4>2. CASE i # 1
        <5>1. i - 1 \in 1 .. Len(Tail(queue)) /\ i \in 1 .. 1 + Len(Tail(queue)) /\ ~(i <= 1)
          BY <3>2, <4>2
        <5>2. (<<Head(queue)>> \o Tail(queue))[i] = Tail(queue)[i - 1]
          BY <3>1, <5>1
        <5>3. Tail(queue)[i - 1] = queue[(i - 1) + 1] /\ (i - 1) + 1 = i
          BY <3>2, <5>1
        <5> QED
          BY <5>2, <5>3
      <4> QED
        BY <4>1, <4>2
    <3> QED
      BY <2>1, <3>1, <3>3, <3>4, SeqEqual
  <2>4. Waiting' = Waiting
    <3>1. job' \o abandoned' = job'
      BY <1>2, <1>3, <1>5, <2>2, ConcatEmptySeq
    <3> QED
      BY <1>2, <1>5, <2>3, <3>1 DEF Waiting
  <2>5. TypeOK'
    BY <1>1, <1>3, <1>5, <2>1, <2>2 DEF TypeOK, callVars, envVars, WorkerPc
  <2>6. Shape'
    BY <1>2, <1>3, <1>5 DEF Shape, envVars
  <2>7. CallsInv'
    BY <1>1, <1>3, <2>4, KeepCalls
  <2>8. RightSession'
    BY <1>5 DEF RightSession
  <2>9. UNCHANGED Contract!vars
    BY <1>3, <2>4 DEF Contract!vars, callVars, envVars, Waiting
  <2> QED
    BY <2>5, <2>6, <2>7, <2>8, <2>9 DEF KeepsInvAndContract, ExecutorInv, CallsInv
<1> QED
  BY <1>4, <1>5 DEF Take

\* The worker's steps between taking a call and finishing it.
LEMMA JobStep ==
  ASSUME ExecutorInv, Check \/ Switch \/ Launch \/ Dispatch \/ Invoke
  PROVE  KeepsInvAndContract
<1>1. TypeOK /\ Shape /\ RightSession
  BY InvParts
<1>2. wpc \in {"check", "switch", "launch", "dispatch", "invoke"} /\ job # <<>>
  BY <1>1 DEF Check, Switch, Launch, Dispatch, Invoke, Shape
<1>3. Head(job) \in Calls
  BY <1>1, <1>2, JobIsFirst
<1>4. JobRequest.plugin \in Plugins \cup {NoPlugin}
  BY <1>1, <1>3 DEF JobRequest, TypeOK, RequestType, NoRequest
<1>5. session \in Plugins \cup {NoPlugin} /\ stale \in BOOLEAN
  BY <1>1 DEF TypeOK
<1>6. CASE Check
  BY <1>2, <1>5, <1>6, GoOnStep, FinishStep DEF Check, NeedsSession, JobRequest
<1>7. CASE Switch
  BY <1>2, <1>7, GoOnStep DEF Switch, EndSession
<1>8. CASE Launch
  BY <1>2, <1>4, <1>5, <1>8, GoOnStep, FinishStep DEF Launch
<1>9. CASE Dispatch
  BY <1>1, <1>2, <1>5, <1>9, GoOnStep, FinishStep DEF Dispatch, EndSession, RightSession
<1>10. CASE Invoke
  BY <1>2, <1>5, <1>10, FinishStep DEF Invoke, EndSession
<1> QED
  BY <1>6, <1>7, <1>8, <1>9, <1>10

\* The end of the loop: the queue is swapped out.
LEMMA CloseStep ==
  ASSUME ExecutorInv, Close
  PROVE  KeepsInvAndContract
<1>1. TypeOK /\ Shape /\ CallsInv
  BY InvParts
<1>2. job = <<>> /\ abandoned = <<>> /\ stopping /\ Waiting = queue
  BY <1>1, OnlyQueue DEF Close, Shape
<1>3. queue \in Seq(Calls) /\ <<>> \in Seq(Calls) /\ Len(<<>>) = 0
  BY <1>1, EmptySeq DEF TypeOK
<1>4. Waiting' = Waiting
  <2>1. job' \o abandoned' = queue
    BY <1>2, <1>3, ConcatEmptySeq DEF Close
  <2>2. queue \o <<>> = queue
    BY <1>3, ConcatEmptySeq
  <2> QED
    BY <1>2, <2>1, <2>2 DEF Close, Waiting
<1>5. TypeOK'
  <2>1. /\ queue' \in Seq(Calls) /\ Len(queue') <= MaxQueued
        /\ job' \in Seq(Calls) /\ Len(job') <= 1 /\ abandoned' \in Seq(Calls)
    BY <1>1, <1>2, <1>3, MaxQueuedAssumption DEF TypeOK, Close
  <2>2. wpc' \in WorkerPc /\ session' \in Plugins \cup {NoPlugin} /\ stale' \in BOOLEAN
    BY DEF Close, EndSession, WorkerPc
  <2> QED
    BY <1>1, <2>1, <2>2 DEF TypeOK, Close, callVars, envVars
<1>6. Shape'
  BY <1>2 DEF Shape, Close, envVars
<1>7. CallsInv'
  BY <1>1, <1>4, KeepCalls DEF Close
<1>8. RightSession'
  BY DEF RightSession, Close
<1>9. UNCHANGED Contract!vars
  BY <1>4 DEF Contract!vars, Close, callVars, envVars, Waiting
<1> QED
  BY <1>5, <1>6, <1>7, <1>8, <1>9 DEF KeepsInvAndContract, ExecutorInv, CallsInv

\* What was swapped out is completed one by one, then the worker ends.
LEMMA DrainStep ==
  ASSUME ExecutorInv, Drain
  PROVE  KeepsInvAndContract
<1>1. TypeOK /\ Shape /\ CallsInv
  BY InvParts
<1>2. wpc = "drain" /\ job = <<>> /\ queue = <<>> /\ stopping
  BY <1>1 DEF Drain, Shape
<1>3. UNCHANGED <<stage, queue, job, session, stale, stopping>>
  BY DEF Drain
<1>4. abandoned \in Seq(Calls)
  BY <1>1 DEF TypeOK
<1>5. CASE /\ abandoned # <<>> /\ SetResult(Head(abandoned), "stopped")
           /\ abandoned' = Tail(abandoned) /\ UNCHANGED wpc
  <2>1. Tail(abandoned) \in Seq(Calls)
    BY <1>4, <1>5, HeadTailProperties
  <2>2. Waiting = abandoned /\ Waiting' = Tail(abandoned)
    <3>1. \A s \in Seq(Calls) : <<>> \o s \o <<>> = s
      BY ConcatEmptySeq
    <3> QED
      BY <1>2, <1>3, <1>4, <1>5, <2>1, <3>1 DEF Waiting
  <2>3. TypeOK'
    BY <1>1, <1>3, <1>5, <2>1 DEF TypeOK, SetResult, Statuses
  <2>4. Shape'
    BY <1>1, <1>2, <1>3, <1>5 DEF Shape
  <2>5. CallsInv'
    BY <1>1, <1>3, <1>5, <2>2, FinishCalls
  <2>6. RightSession'
    BY <1>2, <1>5 DEF RightSession
  <2>7. Contract!Complete("stopped")
    BY <1>2, <1>3, <1>5, <2>2 DEF Contract!Complete, SetResult, Waiting
  <2>8. Contract!Next
    BY <2>7 DEF Contract!Next, Contract!Completions
  <2> QED
    BY <2>3, <2>4, <2>5, <2>6, <2>8 DEF KeepsInvAndContract, ExecutorInv, CallsInv
<1>6. CASE /\ abandoned = <<>> /\ wpc' = "ended"
           /\ UNCHANGED <<request, results, abandoned, cancelled, expired>>
  <2>1. Waiting' = Waiting
    BY <1>3, <1>6 DEF Waiting
  <2>2. TypeOK'
    BY <1>1, <1>3, <1>6 DEF TypeOK, WorkerPc
  <2>3. Shape'
    BY <1>2, <1>3, <1>6 DEF Shape
  <2>4. CallsInv'
    BY <1>1, <1>3, <1>6, <2>1, KeepCalls DEF callVars
  <2>5. RightSession'
    BY <1>6 DEF RightSession
  <2>6. UNCHANGED Contract!vars
    BY <1>3, <1>6 DEF Contract!vars
  <2> QED
    BY <2>2, <2>3, <2>4, <2>5, <2>6 DEF KeepsInvAndContract, ExecutorInv, CallsInv
<1> QED
  BY <1>5, <1>6 DEF Drain

----------------------------------------------------------------------------
(* The environment *)

\* The stop, cancellations, deadlines, activations and stuttering.
LEMMA EnvironmentStep ==
  ASSUME ExecutorInv,
         \/ Stop \/ ChangeActive \/ UNCHANGED vars
         \/ \E c \in Calls : Cancel(c) \/ Expire(c)
  PROVE  KeepsInvAndContract
<1>1. TypeOK /\ Shape /\ CallsInv /\ RightSession
  BY InvParts
<1>2. UNCHANGED <<callVars, workerVars, session>>
  BY DEF Stop, ChangeActive, vars, Cancel, Expire
<1>3. Waiting' = Waiting
  BY <1>2 DEF Waiting, workerVars
<1>4. TypeOK'
  <2>1. stopping' \in BOOLEAN /\ stale' \in BOOLEAN
    BY <1>1 DEF TypeOK, Stop, ChangeActive, vars, envVars, Cancel, Expire
  <2>2. cancelled' \subseteq Calls /\ expired' \subseteq Calls
    BY <1>1 DEF TypeOK, Stop, ChangeActive, vars, envVars, Cancel, Expire
  <2> QED
    BY <1>1, <1>2, <2>1, <2>2 DEF TypeOK, callVars, workerVars
<1>5. stopping => stopping'
  BY <1>1 DEF Stop, ChangeActive, vars, envVars, Cancel, Expire
<1>6. Shape'
  BY <1>1, <1>2, <1>5 DEF Shape, workerVars
<1>7. CallsInv'
  BY <1>1, <1>2, <1>3, KeepCalls
<1>8. RightSession'
  BY <1>1, <1>2 DEF RightSession, JobRequest, callVars, workerVars
<1>9. Contract!Stop \/ UNCHANGED Contract!vars
  BY <1>2 DEF Contract!Stop, Contract!vars, Stop, ChangeActive, vars, Cancel, Expire,
              callVars, workerVars, envVars
<1>10. Contract!Next \/ UNCHANGED Contract!vars
  BY <1>9 DEF Contract!Next
<1> QED
  BY <1>4, <1>6, <1>7, <1>8, <1>10 DEF KeepsInvAndContract, ExecutorInv, CallsInv

----------------------------------------------------------------------------
(* The theorems *)

\* Every step keeps the invariant and the contract.
LEMMA NextStep ==
  ASSUME ExecutorInv, [Next]_vars
  PROVE  KeepsInvAndContract
<1>1. CASE \E c \in Calls : SubmitCheck(c) \/ SubmitQueue(c)
  BY <1>1, SubmitCheckStep, SubmitQueueStep
<1>2. CASE Worker
  BY <1>2, TakeStep, JobStep, CloseStep, DrainStep DEF Worker
<1>3. CASE \/ Stop \/ ChangeActive \/ UNCHANGED vars
           \/ \E c \in Calls : Cancel(c) \/ Expire(c)
  BY <1>3, EnvironmentStep
<1> QED
  BY <1>1, <1>2, <1>3 DEF Next

\* An executor just built satisfies the invariant and is one of the contract's.
LEMMA InitInv ==
  ASSUME Init
  PROVE  ExecutorInv /\ Contract!Init
<1>1. <<>> \in Seq(Calls) /\ Len(<<>>) = 0
  BY EmptySeq
<1>2. Waiting = <<>>
  BY <1>1, ConcatEmptySeq DEF Init, Waiting
<1>3. ToSet(Waiting) = {} /\ IsInjective(Waiting)
  BY <1>2 DEF ToSet, IsInjective
<1>4. TypeOK
  <2>1. /\ queue \in Seq(Calls) /\ Len(queue) <= MaxQueued
        /\ job \in Seq(Calls) /\ Len(job) <= 1 /\ abandoned \in Seq(Calls)
    BY <1>1, MaxQueuedAssumption DEF Init
  <2>2. /\ stage \in [Calls -> Stages] /\ results \in [Calls -> Statuses]
        /\ request \in [Calls -> RequestType \cup {NoRequest}]
        /\ wpc \in WorkerPc /\ session \in Plugins \cup {NoPlugin}
        /\ cancelled \subseteq Calls /\ expired \subseteq Calls
    BY DEF Init, Stages, Statuses, WorkerPc
  <2>3. stale \in BOOLEAN /\ stopping \in BOOLEAN
    BY DEF Init
  <2> QED
    BY <2>1, <2>2, <2>3 DEF TypeOK
<1>5. Shape
  BY DEF Init, Shape
<1>6. NewCalls /\ AcceptedRequests /\ RightSession
  BY <1>3 DEF Init, NewCalls, AcceptedRequests, RightSession
<1>7. Contract!Init
  BY <1>2 DEF Init, Contract!Init, Waiting
<1> QED
  BY <1>3, <1>4, <1>5, <1>6, <1>7 DEF ExecutorInv, WaitsOnce

\* The invariant holds in every reachable state.
LEMMA Invariant == Spec => []ExecutorInv
<1>1. Init => ExecutorInv
  BY InitInv
<1>2. ExecutorInv /\ [Next]_vars => ExecutorInv'
  BY NextStep DEF KeepsInvAndContract
<1> QED
  BY <1>1, <1>2, PTL DEF Spec

\* Every variable keeps its type, and the queue and the worker their bounds.
THEOREM ExecutorTypeCorrect == Spec => []TypeOK
<1>1. ExecutorInv => TypeOK
  BY DEF ExecutorInv
<1> QED
  BY <1>1, Invariant, PTL

\* The executor implements the contract PluginCalls: whatever callers, clocks,
\* plugins and the stop do, each call has at most one result, in the order of
\* acceptance, and what is not accepted is rejected for a reason that holds.
THEOREM ExecutorImplementsPluginCalls == Spec => ImplementsPluginCalls
<1>1. Init => Contract!Init
  BY InitInv
<1>2. ExecutorInv /\ [Next]_vars => [Contract!Next]_(Contract!vars)
  BY NextStep DEF KeepsInvAndContract
<1> QED
  BY <1>1, <1>2, Invariant, PTL DEF Spec, ImplementsPluginCalls, Contract!Spec

\* A plugin is only invoked with calls made to it, and for a service that needs
\* a permission only when a trusted user action asked.
THEOREM ExecutorInvokesAsAsked == Spec => []InvokesAsAsked
<1>1. ExecutorInv => InvokesAsAsked
  <2> SUFFICES ASSUME ExecutorInv, wpc = "invoke"
               PROVE  /\ session = JobRequest.plugin
                      /\ JobRequest.required \cup JobRequest.serviceRequires # {} =>
                           JobRequest.source = "trusted_user_action"
    BY DEF InvokesAsAsked
  <2>1. TypeOK /\ Shape /\ CallsInv /\ RightSession
    BY InvParts
  <2>2. job # <<>>
    BY <2>1 DEF Shape
  <2>3. Head(job) \in Calls /\ Head(job) \in ToSet(Waiting)
    BY <2>1, <2>2, JobIsFirst, WaitingType, TailToSet
  <2>4. Granted(JobRequest)
    BY <2>1, <2>3 DEF CallsInv, AcceptedRequests, JobRequest
  <2> QED
    BY <2>1, <2>4 DEF Granted, RightSession
<1> QED
  BY <1>1, Invariant, PTL

\* After the stop request the worker takes no further call.
THEOREM ExecutorTakesNothingAfterStop == Spec => NothingTakenAfterStop
<1>1. ExecutorInv /\ [Next]_vars => [stopping => job' \in {job, <<>>}]_vars
  BY DEF Next, vars, workerVars, SubmitCheck, SubmitQueue, Cancel, Expire, Worker, Stop,
         ChangeActive, Take, Check, Switch, Launch, Dispatch, Invoke, Close, Drain, Finish, GoOn
<1> QED
  BY <1>1, Invariant, PTL DEF Spec, NothingTakenAfterStop
=============================================================================
