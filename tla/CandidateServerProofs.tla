------------------------ MODULE CandidateServerProofs ------------------------
(***************************************************************************)
(* Theorems about Core, its clients and the files it serves with, for any  *)
(* applications, requests, documents and bounds.                           *)
(*                                                                         *)
(* Core composes a configuration with the counts that were learned: every  *)
(* step of it is a step of ConfigSpec or leaves the configuration alone,   *)
(* and a step of LearningSpec or leaves the counts alone.  What was proved *)
(* of each therefore holds in Core, whatever its clients and its pipe do.  *)
(***************************************************************************)
EXTENDS CandidateServer, CoreFilesProofs, SequenceLemmas

---------------------------------------------------------------------------
(* What Core is told to learn is something that can be learned *)

Worker(w) ==
  w = [pc |-> w.pc, id |-> w.id, ask |-> w.ask, tries |-> w.tries, base |-> w.base, reply |-> w.reply]
Known(ask) ==
  /\ ask.type = "commit" => ask.text \in Texts
  /\ ask.type = "rows" => ask.text \in DOMAIN Dictionary /\ ask.page \in Nat

AppsKnown ==
  /\ app = [a \in Apps |-> app[a]]
  /\ \A a \in Apps : Worker(app[a]) /\ (app[a].pc = "ask" => Known(app[a].ask))
ServerKnown == server # None => Known(server.ask)

\* A worker that rests asks nothing.
LEMMA RestingWorker ==
  ASSUME NEW id
  PROVE  Worker(Resting(id)) /\ Resting(id).pc = "idle"
BY DEF Worker, Resting

\* A worker that is changed is one.
LEMMA ChangedWorker ==
  ASSUME NEW w, Worker(w), NEW v
  PROVE  /\ Worker([w EXCEPT !.tries = v]) /\ [w EXCEPT !.tries = v].pc = w.pc /\ [w EXCEPT !.tries = v].ask = w.ask
         /\ Worker([w EXCEPT !.pc = v]) /\ [w EXCEPT !.pc = v].pc = v
         /\ Worker([w EXCEPT !.reply = v]) /\ [w EXCEPT !.reply = v].pc = w.pc
         /\ Worker([w EXCEPT !.base = v]) /\ [w EXCEPT !.base = v].pc = w.pc
         /\ Worker([w EXCEPT !.ask = v]) /\ [w EXCEPT !.ask = v].pc = w.pc /\ [w EXCEPT !.ask = v].ask = v
BY SMTT(30) DEF Worker
\* A step of one worker leaves the others.
LEMMA OneWorkerSteps ==
  ASSUME AppsKnown, NEW a, NEW w, Worker(w), w.pc = "ask" => Known(w.ask), app' = [app EXCEPT ![a] = w]
  PROVE  AppsKnown'
<1>1. app' = [b \in Apps |-> IF b = a THEN w ELSE app[b]]
  BY DEF AppsKnown
<1>2. app' = [b \in Apps |-> app'[b]] /\ \A b \in Apps : app'[b] = IF b = a THEN w ELSE app[b]
  BY <1>1
<1> QED BY <1>2 DEF AppsKnown

\* Every step of a worker, of Core or of a failure keeps the commits known.
LEMMA AsksStep ==
  ASSUME AppsKnown, ServerKnown, [Next]_vars
  PROVE  AppsKnown' /\ ServerKnown'
<1>1. ASSUME UNCHANGED app PROVE AppsKnown'
  BY <1>1 DEF AppsKnown
<1>2. ASSUME UNCHANGED server \/ server' = None PROVE ServerKnown'
  BY <1>2 DEF ServerKnown
<1>3. ASSUME NEW a \in Apps, AskCandidates(a) \/ Commit(a) PROVE AppsKnown' /\ ServerKnown'
  <2>1. PICK ask : Known(ask) /\ Ask(a, ask)
    <3>1. CASE AskCandidates(a)
      <4>1. PICK ask \in Asks :
              Ask(a, [type |-> "rows", text |-> ask.text, page |-> ask.page, expanded |-> ask.expanded,
                      context |-> ask.context])
        BY <3>1 DEF AskCandidates
      <4>2. Known([type |-> "rows", text |-> ask.text, page |-> ask.page, expanded |-> ask.expanded,
                   context |-> ask.context])
        BY ServerConstants DEF Known
      <4> QED BY <4>1, <4>2
    <3>2. CASE Commit(a)
      <4>1. PICK text \in Texts : Ask(a, [type |-> "commit", text |-> text])
        BY <3>2 DEF Commit
      <4>2. Known([type |-> "commit", text |-> text])
        BY DEF Known
      <4> QED BY <4>1, <4>2
    <3> QED BY <1>3, <3>1, <3>2
  <2> DEFINE w == [Resting(app[a].id + 1) EXCEPT !.pc = "ask", !.ask = ask]
  <2>2. Worker(w) /\ w.ask = ask
    <3> DEFINE v == [Resting(app[a].id + 1) EXCEPT !.pc = "ask"]
    <3>1. Worker(v)
      BY RestingWorker, ChangedWorker
    <3> HIDE DEF v
    <3>2. Worker([v EXCEPT !.ask = ask]) /\ [v EXCEPT !.ask = ask].ask = ask
      BY <3>1, ChangedWorker
    <3> QED BY <3>2 DEF v
  <2>3. app' = [app EXCEPT ![a] = w] /\ UNCHANGED server
    BY <2>1 DEF Ask
  <2> HIDE DEF w
  <2> QED BY <1>2, <2>1, <2>2, <2>3, OneWorkerSteps
<1>4. ASSUME NEW a \in Apps, Connect(a) PROVE AppsKnown' /\ ServerKnown'
  BY <1>1, <1>2, <1>4 DEF Connect
<1>5. ASSUME NEW a \in Apps, Expire(a) PROVE AppsKnown' /\ ServerKnown'
  <2>1. app' = [app EXCEPT ![a] = Resting(app[a].id)] /\ UNCHANGED server
    BY <1>5 DEF Expire
  <2> QED BY <1>2, <2>1, RestingWorker, OneWorkerSteps
<1>6. ASSUME NEW a \in Apps, Heard(a) PROVE AppsKnown' /\ ServerKnown'
  <2>1. CASE app' = [app EXCEPT ![a] = Resting(app[a].id)]
    BY <1>2, <1>6, <2>1, RestingWorker, OneWorkerSteps DEF Heard
  <2>2. ASSUME NEW n,
               app' = [app EXCEPT ![a].pc = "shown", ![a].base = app[a].reply, ![a].reply = None, ![a].tries = n]
        PROVE  AppsKnown'
    <3> DEFINE w == [app[a] EXCEPT !.pc = "shown", !.base = app[a].reply, !.reply = None, !.tries = n]
    <3>1. Worker(app[a])
      BY DEF AppsKnown
    <3>2. Worker(w) /\ w.pc = "shown"
      <4> DEFINE u == [app[a] EXCEPT !.pc = "shown"]
                 v == [u EXCEPT !.base = app[a].reply]
                 x == [v EXCEPT !.reply = None]
      <4>1. Worker(u) /\ u.pc = "shown"
        BY <3>1, ChangedWorker
      <4> HIDE DEF u
      <4>2. Worker(v) /\ v.pc = "shown"
        BY <4>1, ChangedWorker
      <4> HIDE DEF v
      <4>3. Worker(x) /\ x.pc = "shown"
        BY <4>2, ChangedWorker
      <4> HIDE DEF x
      <4>4. Worker([x EXCEPT !.tries = n]) /\ [x EXCEPT !.tries = n].pc = "shown"
        BY <4>3, ChangedWorker
      <4> QED BY <4>4 DEF u, v, x
    <3>3. app' = [app EXCEPT ![a] = w]
      BY <2>2
    <3> HIDE DEF w
    <3> QED BY <3>2, <3>3, OneWorkerSteps
  <2> QED BY <1>2, <1>6, <2>1, <2>2 DEF Heard
<1>7. ASSUME NEW a \in Apps, Poll(a) PROVE AppsKnown' /\ ServerKnown'
  <2> DEFINE w == [app[a] EXCEPT !.pc = "poll"]
  <2>1. Worker(w) /\ w.pc = "poll"
    BY ChangedWorker DEF AppsKnown
  <2>2. app' = [app EXCEPT ![a] = w] /\ UNCHANGED server
    BY <1>7 DEF Poll
  <2> HIDE DEF w
  <2> QED BY <1>2, <2>1, <2>2, OneWorkerSteps
<1>8. ASSUME NEW a \in Apps, Receive(a) PROVE AppsKnown' /\ ServerKnown'
  <2>1. CASE app[a].pc = "ask"
    <3>1. server'.ask = app[a].ask /\ UNCHANGED app
      BY <1>8, <2>1 DEF Receive
    <3> QED BY <1>1, <2>1, <3>1 DEF AppsKnown, ServerKnown
  <2>2. CASE app[a].pc # "ask"
    <3>1. server'.ask = [type |-> "update"] /\ UNCHANGED app
      BY <1>8, <2>2 DEF Receive
    <3>2. Known([type |-> "update"])
      BY DEF Known
    <3> QED BY <1>1, <3>1, <3>2 DEF ServerKnown
  <2> QED BY <2>1, <2>2
<1>9. ASSUME NEW reply, Deliver(reply) PROVE AppsKnown' /\ ServerKnown'
  <2>1. CASE conn = "closed"
    BY <1>1, <1>2, <1>9, <2>1 DEF Deliver
  <2>2. CASE conn # "closed" /\ conn \in Apps
    <3> DEFINE w == [app[conn] EXCEPT !.pc = "told", !.reply = reply]
    <3>1. Worker(app[conn])
      BY <2>2 DEF AppsKnown
    <3>2. Worker(w) /\ w.pc = "told"
      <4> DEFINE v == [app[conn] EXCEPT !.pc = "told"]
      <4>1. Worker(v) /\ v.pc = "told"
        BY <3>1, ChangedWorker
      <4> HIDE DEF v
      <4>2. Worker([v EXCEPT !.reply = reply]) /\ [v EXCEPT !.reply = reply].pc = "told"
        BY <4>1, ChangedWorker
      <4> QED BY <4>2 DEF v
    <3>3. app' = [app EXCEPT ![conn] = w]
      BY <1>9, <2>2 DEF Deliver
    <3> HIDE DEF w
    <3> QED BY <1>2, <1>9, <3>2, <3>3, OneWorkerSteps DEF Deliver
  <2>3. CASE conn # "closed" /\ conn \notin Apps
    <3>1. app' = [app EXCEPT ![conn].pc = "told", ![conn].reply = reply]
      BY <1>9, <2>3 DEF Deliver
    <3>2. app' = app
      BY <2>3, <3>1 DEF AppsKnown
    <3> QED BY <1>1, <1>2, <1>9, <3>2 DEF Deliver
  <2> QED BY <2>1, <2>2, <2>3
<1>10. ASSUME BrokenPipe, Ended PROVE AppsKnown' /\ ServerKnown'
  <2>1. app' = [a \in Apps |-> app'[a]]
    BY <1>10 DEF BrokenPipe
  <2>2. ASSUME NEW a \in Apps PROVE Worker(app'[a]) /\ (app'[a].pc = "ask" => Known(app'[a].ask))
    <3>1. Worker(app[a]) /\ (app[a].pc = "ask" => Known(app[a].ask))
      BY DEF AppsKnown
    <3>2. app'[a] = app[a] \/ app'[a] = [app[a] EXCEPT !.tries = 2] \/ app'[a] = Resting(app[a].id)
      BY <1>10 DEF BrokenPipe
    <3>3. CASE app'[a] = app[a]
      BY <3>1, <3>3
    <3>4. CASE app'[a] = [app[a] EXCEPT !.tries = 2]
      <4> DEFINE w == [app[a] EXCEPT !.tries = 2]
      <4>1. Worker(w) /\ w.pc = app[a].pc /\ w.ask = app[a].ask
        BY <3>1, ChangedWorker
      <4>2. app'[a] = w
        BY <3>4
      <4> HIDE DEF w
      <4> QED BY <3>1, <4>1, <4>2
    <3>5. CASE app'[a] = Resting(app[a].id)
      BY <3>5, RestingWorker
    <3> QED BY <3>2, <3>3, <3>4, <3>5
  <2> QED BY <1>2, <1>10, <2>1, <2>2 DEF AppsKnown, Ended
<1>11. CASE PowerFails
  <2>1. app' = [a \in Apps |-> Resting(app[a].id)] /\ server' = None
    BY <1>11 DEF PowerFails, Ended
  <2> QED BY <1>2, <2>1, RestingWorker DEF AppsKnown
<1>12. CASE TakeTask \/ FinishTask \/ Disconnect \/ CoreStarts \/ SavesBegin
            \/ ((Saves \/ Monitors) /\ UNCHANGED <<learningVars, serverVars>>) \/ UNCHANGED vars
  <2>1. UNCHANGED <<app, server>>
    BY <1>12 DEF TakeTask, FinishTask, Disconnect, CoreStarts, SavesBegin, serverVars, vars
  <2> QED BY <1>1, <1>2, <2>1
<1>13. CASE AnswerRows \/ AnswerUpdate \/ AnswerCommit
  <2>1. \E reply : Deliver(reply)
    BY <1>13 DEF AnswerRows, AnswerUpdate, AnswerCommit
  <2> QED BY <1>9, <2>1
<1>14. CASE CoreStops \/ CoreCrashes
  BY <1>10, <1>14 DEF CoreStops, CoreCrashes
<1> QED
  BY <1>3, <1>4, <1>5, <1>6, <1>7, <1>8, <1>11, <1>12, <1>13, <1>14 DEF Next
---------------------------------------------------------------------------
(* Core implements its parts *)

\* A step of Core does to the configuration what ConfigSpec allows.
LEMMA ConfigStep == [Next]_vars => [ConfigNext]_configVars
<1> SUFFICES ASSUME [Next]_vars PROVE [ConfigNext]_configVars
  OBVIOUS
<1>1. CASE \E a \in Apps : AskCandidates(a) \/ Commit(a) \/ Connect(a) \/ Expire(a) \/ Heard(a) \/ Poll(a) \/ Receive(a)
  BY <1>1 DEF AskCandidates, Commit, Ask, Connect, Expire, Heard, Poll, Receive
<1>2. CASE TakeTask \/ FinishTask \/ Disconnect \/ AnswerRows \/ AnswerUpdate \/ AnswerCommit \/ UNCHANGED vars
  BY <1>2 DEF TakeTask, FinishTask, Disconnect, AnswerRows, AnswerUpdate, AnswerCommit, vars
<1>3. CASE CoreStops \/ CoreCrashes
  <2>1. MonitorEnds
    BY <1>3 DEF CoreStops, CoreCrashes, Ended, MonitorEnds
  <2> QED BY <2>1 DEF ConfigNext
<1>4. CASE PowerFails
  <2>1. EverythingEnds
    BY <1>4 DEF PowerFails, Ended, EverythingEnds
  <2> QED BY <2>1 DEF ConfigNext
<1>5. CASE CoreStarts
  BY <1>5 DEF CoreStarts, ConfigNext, Monitor
<1>6. CASE SavesBegin
  BY <1>6 DEF SavesBegin, ConfigNext, Steps
<1>7. CASE Saves
  BY <1>7 DEF Saves, ConfigNext, Steps
<1>8. CASE Monitors
  BY <1>8 DEF Monitors, ConfigNext, Monitor
<1> QED BY <1>1, <1>2, <1>3, <1>4, <1>5, <1>6, <1>7, <1>8 DEF Next

\* A step of Core does to the counts what LearningSpec allows.
LEMMA LearningStep == ServerKnown /\ [Next]_vars => [LearningNext]_learningVars
<1> SUFFICES ASSUME ServerKnown, [Next]_vars PROVE [LearningNext]_learningVars
  OBVIOUS
<1>1. CASE \E a \in Apps : AskCandidates(a) \/ Commit(a) \/ Connect(a) \/ Expire(a) \/ Heard(a) \/ Poll(a) \/ Receive(a)
  BY <1>1 DEF AskCandidates, Commit, Ask, Connect, Expire, Heard, Poll, Receive
<1>2. CASE TakeTask \/ FinishTask \/ Disconnect \/ AnswerRows \/ AnswerUpdate \/ UNCHANGED vars
  BY <1>2 DEF TakeTask, FinishTask, Disconnect, AnswerRows, AnswerUpdate, vars
<1>3. CASE AnswerCommit
  <2>1. server.ask.text \in Texts
    BY <1>3 DEF AnswerCommit, Handles, ServerKnown, Known
  <2>2. Learn(server.ask.text) \/ LearnNothing
    BY <1>3 DEF AnswerCommit
  <2> QED BY <2>1, <2>2 DEF LearningNext
<1>4. CASE CoreStops
  BY <1>4 DEF CoreStops, LearningNext
<1>5. CASE CoreCrashes
  <2>1. Handles("commit") => server.ask.text \in Texts
    BY DEF Handles, ServerKnown, Known
  <2> QED BY <1>5, <2>1 DEF CoreCrashes, LearningNext
<1>6. CASE PowerFails
  BY <1>6 DEF PowerFails, LearningNext
<1>7. CASE CoreStarts
  BY <1>7 DEF CoreStarts, LearningNext
<1>8. CASE SavesBegin \/ UNCHANGED learningVars
  BY <1>8 DEF SavesBegin
<1> QED BY <1>1, <1>2, <1>3, <1>4, <1>5, <1>6, <1>7, <1>8 DEF Next

\* Core's configuration behaves as it does by itself.
THEOREM CoreImplementsConfig == Spec => ConfigSpec
<1>1. Init => InitConfig
  BY DEF Init
<1> QED BY <1>1, ConfigStep, PTL DEF Spec, ConfigSpec

\* What Core learns behaves as it does by itself: nothing but what was selected
\* is learned, one selection at a time.
THEOREM CoreImplementsLearning == Spec => LearningSpec
<1>1. Init => InitLearning
  BY DEF Init
<1>2. Init => AppsKnown /\ ServerKnown
  <2> SUFFICES ASSUME Init PROVE AppsKnown /\ ServerKnown
    OBVIOUS
  <2>1. app = [a \in Apps |-> Resting(0)] /\ server = None
    BY DEF Init
  <2> QED BY <2>1, RestingWorker DEF AppsKnown, ServerKnown
<1>3. Spec => [](AppsKnown /\ ServerKnown)
  BY <1>2, AsksStep, PTL DEF Spec
<1> QED BY <1>1, <1>3, LearningStep, PTL DEF Spec, LearningSpec

---------------------------------------------------------------------------
(* What holds in Core *)

\* In Core, too, the document or its backup can be read until two settings
\* processes have died while they wrote (config_store.cpp:436-460).
THEOREM CoreStaysLoadable == Spec => []ConfigLoadable
BY CoreImplementsConfig, ConfigStaysLoadable, PTL

\* While Core runs, what a restart would load and the selections that count as
\* unflushed make up all it has learned.
THEOREM CoreAccountsForSelections == Spec => []NothingUnaccounted
<1>1. LearningInv => NothingUnaccounted
  BY DEF LearningInv
<1> QED BY <1>1, CoreImplementsLearning, LearningInvariant, PTL

\* In Core, too, what can be read is what the last flush wrote until a power loss
\* damages the file; after one that damages only the file it is what one of the
\* last two flushes wrote, once there is a backup; and it is what some flush
\* wrote, or nothing (user_frequency.cpp:241-260).
THEOREM CoreLearningSurvives == Spec => []LearningSurvives
BY InvariantSurvives, CoreImplementsLearning, LearningInvariant, PTL

\* Before anything fails, Core loses fewer selections than it flushes together.
THEOREM CoreLosesFew == Spec => []FewUnflushed
BY CoreImplementsLearning, FewAreLost, PTL

\* The configuration and the counts keep their types in Core.
THEOREM CoreTypes == Spec => [](ConfigTypeOK /\ LearningTypeOK)
<1>1. ConfigInv => ConfigTypeOK
  BY DEF ConfigInv
<1>2. LearningInv => LearningTypeOK
  BY DEF LearningInv
<1> QED BY <1>1, <1>2, CoreImplementsConfig, ConfigInvariant, CoreImplementsLearning, LearningInvariant, PTL
---------------------------------------------------------------------------
(* The cache of rows *)

\* A cached entry is not from the future of what Core learned; and one that is
\* tagged with what it knows now has the rows the engine makes now, under a
\* configuration that ranks as the tag says.
Fresh(c) ==
  /\ c.key.learning \in Nat /\ c.key.learning <= learningGeneration
  /\ c.key.learning = learningGeneration =>
       \E config \in Config :
         /\ config.ranking = c.key.ranking
         /\ c.rows = GeneratedWith(counts, c.key.limit, c.key.text, config)

CacheFresh ==
  /\ learningGeneration \in Nat
  /\ cache \in Seq(ToSet(cache)) /\ \A c \in ToSet(cache) : Fresh(c)

\* When Core is down nobody is connected and nothing is cached; and the request
\* that it handles is the one its client waits with.
Serving ==
  /\ ~up => conn = "nobody" /\ server = None /\ cache = <<>>
  /\ conn = "nobody" => server = None
  /\ server # None => server.config \in Config
  /\ \A a \in Apps : conn = a /\ server # None =>
       /\ app[a].pc \in {"ask", "poll"}
       /\ server.ask.type = "rows" => server.ask = app[a].ask

\* Rows that were found again or made now go to the front of the cache, and the
\* last entry goes when it is full.
LEMMA CachePut ==
  ASSUME NEW S, NEW c \in S, NEW others \in Seq(S), NEW n \in Nat
  PROVE  LET latest == <<c>> \o others IN SubSeq(latest, 1, Min({n, Len(latest)})) \in Seq(S)
<1> DEFINE latest == <<c>> \o others
           l == Len(latest)
           k == Min({n, l})
<1>1. <<c>> \in Seq(S)
  OBVIOUS
<1>2. latest \in Seq(S) /\ l \in Nat
  BY <1>1, ConcatProperties, LenProperties
<1>3. n \in Int /\ l \in Int
  BY <1>2
<1> HIDE DEF l
<1>4. k \in {n, l} /\ k <= l
  BY <1>3, MinOfTwo
<1>5. k \in Int
  BY <1>3, <1>4
<1> HIDE DEF k
<1>6. \A i \in 1 .. k : latest[i] \in S
  BY <1>2, <1>4, <1>5, ElementOfSeq DEF l
<1> HIDE DEF latest
<1>7. SubSeq(latest, 1, k) \in Seq(S)
  BY <1>5, <1>6, SubSeqProperties
<1> QED BY <1>7 DEF k, l, latest

\* An entry that was found leaves its place.
LEMMA CacheTaken ==
  ASSUME NEW S, NEW s \in Seq(S), NEW i \in DOMAIN s
  PROVE  RemoveAt(s, i) \in Seq(S) /\ s[i] \in S
<1>1. Len(s) \in Nat /\ i \in 1 .. Len(s) /\ \A j \in 1 .. Len(s) : s[j] \in S
  BY LenProperties, ElementOfSeq
<1>2. SubSeq(s, 1, i - 1) \in Seq(S)
  BY <1>1, SubSeqProperties
<1>3. SubSeq(s, i + 1, Len(s)) \in Seq(S)
  BY <1>1, SubSeqProperties
<1> QED BY <1>1, <1>2, <1>3, ConcatProperties DEF RemoveAt

\* A step that leaves the counts, their generation and the cache alone.
LEMMA CacheLeft ==
  ASSUME CacheFresh, UNCHANGED <<cache, learningGeneration, counts>>
  PROVE  CacheFresh'
BY DEF CacheFresh, Fresh

\* What a cached entry's rows are for a request with the same key.
LEMMA RowsOfKey ==
  ASSUME NEW ask, NEW config \in Config, NEW c, Fresh(c), c.key = CacheKey(ask, config)
  PROVE  \E made \in Config : made.ranking = config.ranking /\ c.rows = Generated(ask, made)
<1>1. /\ c.key.learning = learningGeneration /\ c.key.ranking = config.ranking
      /\ c.key.limit = Limit(ask, config) /\ c.key.text = ask.text
  BY DEF CacheKey
<1>2. PICK made \in Config : /\ made.ranking = config.ranking
                             /\ c.rows = GeneratedWith(counts, Limit(ask, config), ask.text, made)
  BY <1>1 DEF Fresh
<1>3. Limit(ask, made) = Limit(ask, config)
  BY <1>2 DEF Limit, Contextual
<1> QED BY <1>2, <1>3 DEF Generated

\* Rows made now are fresh under the key of their request.
LEMMA MadeNow ==
  ASSUME learningGeneration \in Nat, NEW ask, NEW config \in Config, NEW c,
         c = [key |-> CacheKey(ask, config), rows |-> Generated(ask, config)]
  PROVE  Fresh(c)
<1>1. /\ c.key.learning = learningGeneration /\ c.key.ranking = config.ranking
      /\ c.key.limit = Limit(ask, config) /\ c.key.text = ask.text
  BY DEF CacheKey
<1> QED BY <1>1 DEF Fresh, Generated

\* A step of a worker that Core does not serve, or that leaves its connection.
LEMMA WorkerLeaves ==
  ASSUME AppsKnown, Serving, NEW a \in Apps, NEW w, app' = [app EXCEPT ![a] = w],
         UNCHANGED <<up, server, cache>>,
         \/ conn = a /\ conn' = "closed"
         \/ UNCHANGED conn /\ (conn = a => server = None)
  PROVE  Serving'
<1>1. \A b \in Apps : b # a => app'[b] = app[b]
  BY DEF AppsKnown
<1>2. "closed" \notin Apps /\ "nobody" \notin Apps
  BY ServerConstants
<1> QED BY <1>1, <1>2 DEF Serving

\* A step that touches neither the workers nor what Core serves.
LEMMA ServingLeft ==
  ASSUME Serving, UNCHANGED <<app, conn, server, cache, up>>
  PROVE  Serving'
BY DEF Serving

\* The request that Core handles is its client's, and Core without a process
\* has neither clients nor a cache.
LEMMA ServingStep ==
  ASSUME AppsKnown, Serving, snapshot \in Config, [Next]_vars
  PROVE  Serving'
<1>0. "closed" \notin Apps /\ "nobody" \notin Apps
  BY ServerConstants
<1>1. ASSUME NEW a \in Apps, AskCandidates(a) \/ Commit(a) PROVE Serving'
  <2>1. PICK ask : Ask(a, ask)
    BY <1>1 DEF AskCandidates, Commit
  <2>2. PICK w : app' = [app EXCEPT ![a] = w]
    BY <2>1 DEF Ask
  <2>3. UNCHANGED <<up, server, cache>> /\ conn' = Released(a) /\ app[a].pc \in {"idle", "shown"}
    BY <2>1 DEF Ask, learningVars
  <2>4. conn = a => conn' = "closed"
    BY <2>3 DEF Released
  <2>5. conn # a => UNCHANGED conn
    BY <2>3 DEF Released
  <2> QED BY <2>2, <2>3, <2>4, <2>5, WorkerLeaves
<1>2. ASSUME NEW a \in Apps, Connect(a) PROVE Serving'
  <2>1. up /\ conn = "nobody" /\ conn' = a /\ UNCHANGED <<app, server, cache, up>>
    BY <1>2 DEF Connect, learningVars
  <2> QED BY <1>0, <2>1 DEF Serving
<1>3. ASSUME NEW a \in Apps, Expire(a) PROVE Serving'
  <2>1. PICK w : app' = [app EXCEPT ![a] = w]
    BY <1>3 DEF Expire
  <2>2. UNCHANGED <<up, server, cache>> /\ conn' = Released(a)
    BY <1>3 DEF Expire, learningVars
  <2>3. (conn = a => conn' = "closed") /\ (conn # a => UNCHANGED conn)
    BY <2>2 DEF Released
  <2> QED BY <2>1, <2>2, <2>3, WorkerLeaves
<1>4. ASSUME NEW a \in Apps, Heard(a) \/ Poll(a) PROVE Serving'
  <2>1. PICK w : app' = [app EXCEPT ![a] = w]
    BY <1>4 DEF Heard, Poll
  <2>2. UNCHANGED <<up, server, cache>> /\ app[a].pc \in {"told", "shown"}
        /\ (conn' = Released(a) \/ UNCHANGED conn)
    BY <1>4 DEF Heard, Poll, learningVars
  <2>3. conn = a => server = None
    BY <2>2 DEF Serving
  <2>4. (conn = a /\ conn' = "closed") \/ UNCHANGED conn
    BY <2>2 DEF Released
  <2> QED BY <2>1, <2>2, <2>3, <2>4, WorkerLeaves
<1>5. ASSUME NEW a \in Apps, Receive(a) PROVE Serving'
  <2>1. /\ conn = a /\ app[a].pc \in {"ask", "poll"}
        /\ server'.config = snapshot /\ UNCHANGED <<up, app, conn, cache>>
    BY <1>5 DEF Receive, learningVars
  <2>2. app[a].pc = "ask" => server'.ask = app[a].ask
    BY <1>5 DEF Receive
  <2>3. app[a].pc = "poll" => server'.ask.type = "update"
    BY <1>5 DEF Receive
  <2> QED BY <1>0, <2>1, <2>2, <2>3 DEF Serving
<1>6. ASSUME server # None, server' = None, UNCHANGED <<up, conn>> PROVE Serving'
  BY <1>6 DEF Serving
<1>7. CASE AnswerRows \/ AnswerUpdate \/ AnswerCommit
  <2>1. server # None /\ server' = None /\ UNCHANGED <<up, conn>>
    BY <1>7 DEF AnswerRows, AnswerUpdate, AnswerCommit, Handles, Deliver, Learn, LearnNothing, learningVars
  <2> QED BY <1>6, <2>1
<1>8. CASE Disconnect
  BY <1>8 DEF Disconnect, Serving, learningVars
<1>9. CASE CoreStops \/ CoreCrashes \/ PowerFails
  <2>1. Ended
    BY <1>9 DEF CoreStops, CoreCrashes, PowerFails
  <2> QED BY <2>1 DEF Ended, Serving
<1>10. CASE CoreStarts
  BY <1>10 DEF CoreStarts, LoadCounts, serverVars, Serving
<1>11. CASE TakeTask \/ FinishTask \/ SavesBegin
            \/ ((Saves \/ Monitors) /\ UNCHANGED <<learningVars, serverVars>>) \/ UNCHANGED vars
  <2>1. UNCHANGED <<app, conn, server, cache, up>>
    BY <1>11 DEF TakeTask, FinishTask, SavesBegin, serverVars, learningVars, vars
  <2> QED BY <2>1, ServingLeft
<1> QED
  BY <1>1, <1>2, <1>3, <1>4, <1>5, <1>7, <1>8, <1>9, <1>10, <1>11 DEF Next

\* What AnswerRows sends and what it leaves in the cache.
LEMMA RowsAnswered ==
  ASSUME Serving, CacheFresh, AnswerRows
  PROVE  /\ CacheFresh'
         /\ \E reply : /\ Deliver(reply)
                       /\ reply.whole =>
                            \E made \in Config :
                              reply.rows = Page(server.ask,
                                             InContext(server.ask, made, Generated(server.ask, made)))
<1> DEFINE ask == server.ask
           config == server.config
           key == CacheKey(ask, config)
           found == {i \in DOMAIN cache : cache[i].key = key}
           place == CHOOSE i \in found : TRUE
           Kept(rows, others) ==
             LET latest == <<[key |-> key, rows |-> rows]>> \o others
             IN SubSeq(latest, 1, Min({CacheSize, Len(latest)}))
           Sent(rows) == Page(ask, InContext(ask, config, rows))
           Rows(cut) == IF found # {} THEN cache[place].rows
                        ELSE IF cut = "early" THEN <<>> ELSE Generated(ask, config)
           Cached(cut) == cache' = IF found = {} /\ cut # "no" THEN cache
                                   ELSE Kept(Rows(cut), IF found # {} THEN RemoveAt(cache, place) ELSE cache)
           Ranked(page) == config.ranking /\ page # <<>>
           Reply(cut) == [type |-> "rows", rows |-> Sent(Rows(cut)), pending |-> Ranked(Sent(Rows(cut))),
                          whole |-> found # {} \/ cut # "early",
                          learned |-> IF config.learning THEN LearnedIn(Sent(Rows(cut))) ELSE <<>>]
           Answered(cut) == \E reply : /\ Deliver(reply) /\ reply.rows = Sent(Rows(cut))
                                       /\ reply.whole = (found # {} \/ cut # "early")
<1>0. PICK cut \in {"no", "early", "late"} : Cached(cut) /\ Answered(cut)
  <2>1. PICK cut \in {"no", "early", "late"} : Cached(cut) /\ Deliver(Reply(cut))
    BY Zenon DEF AnswerRows
  <2>2. Reply(cut).rows = Sent(Rows(cut)) /\ Reply(cut).whole = (found # {} \/ cut # "early")
    OBVIOUS
  <2> HIDE DEF Reply, Sent, Rows, Cached, found
  <2>3. Answered(cut)
    BY <2>1, <2>2
  <2> QED BY <2>1, <2>3
<1>1. server # None /\ config \in Config /\ UNCHANGED <<counts, learningGeneration>>
  BY DEF AnswerRows, Handles, Serving, learningVars
<1>2. /\ learningGeneration \in Nat /\ cache \in Seq(ToSet(cache))
      /\ \A c \in ToSet(cache) : Fresh(c)
  BY DEF CacheFresh
<1>3. ASSUME NEW rows, NEW others \in Seq(ToSet(cache)), Fresh([key |-> key, rows |-> rows]),
             cache' = Kept(rows, others)
      PROVE  CacheFresh'
  <2> DEFINE c == [key |-> key, rows |-> rows]
             S == ToSet(cache) \cup {c}
  <2>1. others \in Seq(S)
    BY SeqMonotonic
  <2>2. CacheSize \in Nat
    BY ServerConstants
  <2>3. cache' \in Seq(S)
    <3> HIDE DEF c, key
    <3> QED BY <1>3, <2>1, <2>2, CachePut DEF c
  <2>4. \A x \in S : Fresh(x)
    BY <1>2, <1>3
  <2> HIDE DEF S
  <2>5. cache' \in Seq(ToSet(cache')) /\ ToSet(cache') \subseteq S
    BY <2>3, OwnElements
  <2>6. \A x \in ToSet(cache') : Fresh(x)'
    BY <1>1, <2>4, <2>5 DEF Fresh
  <2> QED BY <1>1, <1>2, <2>5, <2>6 DEF CacheFresh
<1>4. ASSUME NEW made \in Config, made.ranking = config.ranking, NEW rows, rows = Generated(ask, made)
      PROVE  Sent(rows) = Page(ask, InContext(ask, made, Generated(ask, made)))
  BY <1>4 DEF InContext, Contextual
<1>5. CASE found # {}
  <2>1. place \in DOMAIN cache /\ cache[place].key = key
    BY <1>5
  <2> HIDE DEF place, key, found
  <2>2. RemoveAt(cache, place) \in Seq(ToSet(cache)) /\ Fresh(cache[place])
    BY <1>2, <2>1, CacheTaken
  <2>3. PICK made \in Config : /\ made.ranking = config.ranking
                               /\ cache[place].rows = Generated(ask, made)
    BY <1>1, <2>1, <2>2, RowsOfKey DEF key
  <2>4. Fresh([key |-> key, rows |-> cache[place].rows])
    <3> DEFINE c == [key |-> key, rows |-> cache[place].rows]
    <3>1. c.key = cache[place].key /\ c.rows = cache[place].rows
      BY <2>1
    <3> HIDE DEF c
    <3>2. Fresh(c)
      BY <2>2, <3>1 DEF Fresh
    <3> QED BY <3>2 DEF c
  <2>5. cache' = Kept(cache[place].rows, RemoveAt(cache, place))
    BY <1>0, <1>5
  <2>6. \E reply : Deliver(reply) /\ reply.rows = Sent(cache[place].rows)
    BY <1>0, <1>5
  <2>7. CacheFresh'
    BY <1>3, <2>2, <2>4, <2>5
  <2> QED BY <1>4, <2>3, <2>6, <2>7
<1>6. CASE found = {}
  <2>1. /\ cache' = IF cut # "no" THEN cache
                    ELSE Kept(IF cut = "early" THEN <<>> ELSE Generated(ask, config), cache)
        /\ \E reply : /\ Deliver(reply)
                      /\ reply.rows = Sent(IF cut = "early" THEN <<>> ELSE Generated(ask, config))
                      /\ reply.whole = (cut # "early")
    BY <1>0, <1>6
  <2> HIDE DEF key, found
  <2>2. CacheFresh'
    <3>1. CASE cut # "no"
      BY <1>1, <2>1, <3>1, CacheLeft
    <3>2. CASE cut = "no"
      <4>1. cache' = Kept(Generated(ask, config), cache)
        BY <2>1, <3>2
      <4>2. Fresh([key |-> key, rows |-> Generated(ask, config)])
        BY <1>1, <1>2, MadeNow DEF key
      <4> QED BY <1>2, <1>3, <4>1, <4>2
    <3> QED BY <3>1, <3>2
  <2>3. PICK reply : /\ Deliver(reply)
                     /\ reply.rows = Sent(IF cut = "early" THEN <<>> ELSE Generated(ask, config))
                     /\ reply.whole = (cut # "early")
    BY <2>1
  <2>4. reply.whole => reply.rows = Page(ask, InContext(ask, config, Generated(ask, config)))
    BY <2>3
  <2> QED BY <1>1, <2>2, <2>3, <2>4
<1> QED BY <1>5, <1>6

\* What is learned makes every tag old; a Core that starts has no cache.
LEMMA CacheStep ==
  ASSUME Serving, CacheFresh, [Next]_vars
  PROVE  CacheFresh'
<1>1. CASE AnswerRows
  BY <1>1, RowsAnswered
<1>2. CASE AnswerCommit
  <2>1. UNCHANGED cache
    BY <1>2 DEF AnswerCommit
  <2>2. CASE learningGeneration' = learningGeneration + 1
    <3>1. \A c : Fresh(c) => Fresh(c)'
      BY <2>2 DEF CacheFresh, Fresh
    <3> QED BY <2>1, <2>2, <3>1 DEF CacheFresh
  <2>3. CASE LearnNothing /\ UNCHANGED learningGeneration
    BY <2>1, <2>3, CacheLeft DEF LearnNothing
  <2> QED BY <1>2, <2>2, <2>3 DEF AnswerCommit
<1>3. CASE CoreStops \/ CoreCrashes \/ PowerFails
  <2>1. cache' = <<>> /\ learningGeneration' = 0
    BY <1>3 DEF CoreStops, CoreCrashes, PowerFails, Ended
  <2>2. ToSet(<<>>) = {} /\ <<>> \in Seq({})
    BY EmptySeq DEF ToSet
  <2> QED BY <2>1, <2>2 DEF CacheFresh
<1>4. CASE CoreStarts
  <2>1. cache = <<>> /\ UNCHANGED <<cache, learningGeneration>>
    BY <1>4 DEF CoreStarts, LoadCounts, serverVars, Serving
  <2>2. ToSet(<<>>) = {}
    BY DEF ToSet
  <2> QED BY <2>1, <2>2 DEF CacheFresh
<1>5. CASE \E a \in Apps : AskCandidates(a) \/ Commit(a) \/ Connect(a) \/ Expire(a) \/ Heard(a) \/ Poll(a)
                           \/ Receive(a)
  <2>1. UNCHANGED <<cache, learningGeneration, counts>>
    BY <1>5 DEF AskCandidates, Commit, Ask, Connect, Expire, Heard, Poll, Receive, learningVars
  <2> QED BY <2>1, CacheLeft
<1>6. CASE TakeTask \/ FinishTask \/ Disconnect \/ AnswerUpdate \/ SavesBegin
           \/ ((Saves \/ Monitors) /\ UNCHANGED <<learningVars, serverVars>>) \/ UNCHANGED vars
  <2>1. UNCHANGED <<cache, learningGeneration, counts>>
    BY <1>6 DEF TakeTask, FinishTask, Disconnect, AnswerUpdate, SavesBegin, serverVars, learningVars, vars
  <2> QED BY <2>1, CacheLeft
<1> QED BY <1>1, <1>2, <1>3, <1>4, <1>5, <1>6 DEF Next

\* An answer goes to the client that is connected.
LEMMA DeliveredTo ==
  ASSUME AppsKnown, NEW reply, Deliver(reply), NEW a \in Apps
  PROVE  \/ app'[a] = app[a]
         \/ a = conn /\ conn # "closed" /\ app'[a].pc = "told" /\ app'[a].reply = reply
<1>1. CASE conn = "closed" \/ a # conn
  BY <1>1 DEF Deliver, AppsKnown
<1>2. CASE conn # "closed" /\ a = conn
  <2> DEFINE v == [app[a] EXCEPT !.pc = "told"]
             w == [v EXCEPT !.reply = reply]
  <2>1. Worker(v) /\ v.pc = "told"
    BY ChangedWorker DEF AppsKnown
  <2>2. app'[a] = w
    BY <1>2 DEF Deliver, AppsKnown
  <2> HIDE DEF v
  <2>3. w.pc = "told" /\ w.reply = reply
    BY <2>1, ChangedWorker DEF Worker
  <2> QED BY <1>2, <2>2, <2>3
<1> QED BY <1>1, <1>2

\* Only an answer to a request for rows gives a worker rows.
LEMMA OnlyRowsTold ==
  ASSUME AppsKnown, [Next]_vars, ~AnswerRows, NEW a \in Apps, Told(a, "rows")'
  PROVE  Told(a, "rows")
<1>1. app'[a].pc = "told" /\ app'[a].reply.type = "rows"
  BY DEF Told
<1>2. ASSUME NEW b, NEW w, app' = [app EXCEPT ![b] = w], w.pc # "told" PROVE Told(a, "rows")
  <2>1. app'[a] = IF a = b THEN w ELSE app[a]
    BY <1>2 DEF AppsKnown
  <2> QED BY <1>1, <1>2, <2>1 DEF Told
<1>3. ASSUME UNCHANGED app PROVE Told(a, "rows")
  BY <1>1, <1>3 DEF Told
<1>4. ASSUME NEW b \in Apps, AskCandidates(b) \/ Commit(b) PROVE Told(a, "rows")
  <2>1. PICK ask : Ask(b, ask)
    BY <1>4 DEF AskCandidates, Commit
  <2> DEFINE v == [Resting(app[b].id + 1) EXCEPT !.pc = "ask"]
             w == [v EXCEPT !.ask = ask]
  <2>2. Worker(v) /\ v.pc = "ask"
    BY RestingWorker, ChangedWorker
  <2>3. app' = [app EXCEPT ![b] = w]
    BY <2>1 DEF Ask
  <2> HIDE DEF v
  <2>4. w.pc = "ask"
    BY <2>2, ChangedWorker
  <2> HIDE DEF w
  <2> QED BY <1>2, <2>3, <2>4
<1>5. ASSUME NEW b \in Apps, Expire(b) PROVE Told(a, "rows")
  <2>1. app' = [app EXCEPT ![b] = Resting(app[b].id)]
    BY <1>5 DEF Expire
  <2> QED BY <1>2, <2>1, RestingWorker
<1>6. ASSUME NEW b \in Apps, Heard(b) PROVE Told(a, "rows")
  <2>1. CASE app' = [app EXCEPT ![b] = Resting(app[b].id)]
    BY <1>2, <2>1, RestingWorker
  <2>2. ASSUME NEW n,
               app' = [app EXCEPT ![b].pc = "shown", ![b].base = app[b].reply, ![b].reply = None, ![b].tries = n]
        PROVE  Told(a, "rows")
    <3> DEFINE u == [app[b] EXCEPT !.pc = "shown"]
               v == [u EXCEPT !.base = app[b].reply]
               x == [v EXCEPT !.reply = None]
               w == [x EXCEPT !.tries = n]
    <3>a. Worker(app[b])
      BY DEF AppsKnown
    <3>1. Worker(u) /\ u.pc = "shown"
      BY <3>a, ChangedWorker
    <3>2. app' = [app EXCEPT ![b] = w]
      BY <2>2
    <3> HIDE DEF u
    <3>3. Worker(v) /\ v.pc = "shown"
      BY <3>1, ChangedWorker
    <3> HIDE DEF v
    <3>4. Worker(x) /\ x.pc = "shown"
      BY <3>3, ChangedWorker
    <3> HIDE DEF x
    <3>5. w.pc = "shown"
      BY <3>4, ChangedWorker
    <3> HIDE DEF w
    <3> QED BY <1>2, <3>2, <3>5
  <2> QED BY <1>6, <2>1, <2>2 DEF Heard
<1>7. ASSUME NEW b \in Apps, Poll(b) PROVE Told(a, "rows")
  <2> DEFINE w == [app[b] EXCEPT !.pc = "poll"]
  <2>1. w.pc = "poll"
    BY ChangedWorker DEF AppsKnown
  <2>2. app' = [app EXCEPT ![b] = w]
    BY <1>7 DEF Poll
  <2> HIDE DEF w
  <2> QED BY <1>2, <2>1, <2>2
<1>8. ASSUME NEW reply, Deliver(reply), reply.type # "rows" PROVE Told(a, "rows")
  <2>1. app'[a] = app[a]
    BY <1>1, <1>8, DeliveredTo
  <2> QED BY <1>1, <2>1 DEF Told
<1>9. CASE AnswerUpdate
  <2>1. PICK rows : Deliver([type |-> "update", rows |-> rows])
    BY <1>9 DEF AnswerUpdate
  <2>2. [type |-> "update", rows |-> rows].type # "rows"
    OBVIOUS
  <2> QED BY <1>8, <2>1, <2>2
<1>10. CASE AnswerCommit
  <2>1. Deliver([type |-> "acknowledgement"])
    BY <1>10 DEF AnswerCommit
  <2>2. [type |-> "acknowledgement"].type # "rows"
    OBVIOUS
  <2> QED BY <1>8, <2>1, <2>2
<1>11. CASE CoreStops \/ CoreCrashes
  <2>1. BrokenPipe
    BY <1>11 DEF CoreStops, CoreCrashes
  <2>2. \/ app'[a] = app[a]
        \/ app[a].pc # "told" /\ app'[a] = [app[a] EXCEPT !.tries = 2]
        \/ app'[a] = Resting(app[a].id)
    BY <2>1 DEF BrokenPipe
  <2>3. [app[a] EXCEPT !.tries = 2].pc = app[a].pc
    BY ChangedWorker DEF AppsKnown
  <2>4. Resting(app[a].id).pc = "idle"
    BY RestingWorker
  <2>5. app'[a] = app[a]
    BY <1>1, <2>2, <2>3, <2>4
  <2> QED BY <1>1, <2>5 DEF Told
<1>12. CASE PowerFails
  <2>1. app'[a] = Resting(app[a].id)
    BY <1>12 DEF PowerFails
  <2> QED BY <1>1, <2>1, RestingWorker
<1>13. CASE (\E b \in Apps : Connect(b) \/ Receive(b)) \/ TakeTask \/ FinishTask \/ Disconnect \/ CoreStarts
            \/ SavesBegin \/ ((Saves \/ Monitors) /\ UNCHANGED <<learningVars, serverVars>>) \/ UNCHANGED vars
  <2>1. UNCHANGED app
    BY <1>13 DEF Connect, Receive, TakeTask, FinishTask, Disconnect, CoreStarts, SavesBegin, serverVars, vars
  <2> QED BY <1>3, <2>1
<1> QED
  BY <1>4, <1>5, <1>6, <1>7, <1>9, <1>10, <1>11, <1>12, <1>13 DEF Next

\* Core's cache is fresh, and it handles the request that its client waits with.
THEOREM CoreServesFresh == Spec => [](Serving /\ CacheFresh)
<1>1. Init => AppsKnown /\ ServerKnown /\ Serving /\ CacheFresh
  <2> SUFFICES ASSUME Init PROVE AppsKnown /\ ServerKnown /\ Serving /\ CacheFresh
    OBVIOUS
  <2>1. /\ app = [a \in Apps |-> Resting(0)] /\ server = None /\ conn = "nobody" /\ cache = <<>>
        /\ learningGeneration = 0
    BY DEF Init
  <2>2. ToSet(<<>>) = {} /\ <<>> \in Seq({})
    BY EmptySeq DEF ToSet
  <2>3. AppsKnown /\ ServerKnown
    BY <2>1, RestingWorker DEF AppsKnown, ServerKnown
  <2>4. Serving
    BY <2>1 DEF Serving
  <2>5. CacheFresh
    BY <2>1, <2>2 DEF CacheFresh
  <2> QED BY <2>3, <2>4, <2>5
<1>2. ConfigTypeOK => snapshot \in Config
  BY DEF ConfigTypeOK
<1>3. AppsKnown /\ ServerKnown /\ [Next]_vars => AppsKnown' /\ ServerKnown'
  BY AsksStep
<1>4. AppsKnown /\ Serving /\ CacheFresh /\ snapshot \in Config /\ [Next]_vars => Serving' /\ CacheFresh'
  BY ServingStep, CacheStep
<1> QED BY <1>1, <1>2, <1>3, <1>4, CoreTypes, PTL DEF Spec

\* Whatever is cached, selected and saved meanwhile, the rows that an
\* application is told are what the engine makes of its input with all that
\* Core has learned by then: no answer is from before the latest selection.
THEOREM CoreAnswersUseLearning == Spec => AnswersUseLearning
<1> DEFINE Current ==
      \A a \in Apps : Told(a, "rows")' /\ ~Told(a, "rows") /\ app'[a].reply.whole =>
        \E config \in Config :
          app'[a].reply.rows =
            Page(app[a].ask, InContext(app[a].ask, config, Generated(app[a].ask, config)))
<1>1. AppsKnown /\ Serving /\ CacheFresh /\ [Next]_vars => Current
  <2> SUFFICES ASSUME AppsKnown, Serving, CacheFresh, [Next]_vars, NEW a \in Apps,
                      Told(a, "rows")', ~Told(a, "rows"), app'[a].reply.whole
               PROVE  \E config \in Config :
                        app'[a].reply.rows =
                          Page(app[a].ask, InContext(app[a].ask, config, Generated(app[a].ask, config)))
    OBVIOUS
  <2>1. AnswerRows
    BY OnlyRowsTold
  <2>2. PICK reply : /\ Deliver(reply)
                     /\ reply.whole =>
                          \E made \in Config :
                            reply.rows = Page(server.ask,
                                           InContext(server.ask, made, Generated(server.ask, made)))
    BY <2>1, RowsAnswered
  <2>3. app'[a] # app[a]
    BY DEF Told
  <2>4. a = conn /\ app'[a].reply = reply
    BY <2>2, <2>3, DeliveredTo
  <2>5. server.ask = app[a].ask
    BY <2>1, <2>4 DEF AnswerRows, Handles, Serving
  <2> QED BY <2>2, <2>4, <2>5
<1>2. AppsKnown /\ Serving /\ CacheFresh /\ [Next]_vars => [Current]_vars
  BY <1>1
<1> HIDE DEF Current
<1>3. Init => AppsKnown /\ ServerKnown
  <2> SUFFICES ASSUME Init PROVE AppsKnown /\ ServerKnown
    OBVIOUS
  <2>1. app = [a \in Apps |-> Resting(0)] /\ server = None
    BY DEF Init
  <2> QED BY <2>1, RestingWorker DEF AppsKnown, ServerKnown
<1>4. Spec => [](AppsKnown /\ ServerKnown)
  BY <1>3, AsksStep, PTL DEF Spec
<1>5. Spec => [][Current]_vars
  BY <1>2, <1>4, CoreServesFresh, PTL DEF Spec
<1> QED BY <1>5 DEF AnswersUseLearning, Current
---------------------------------------------------------------------------
(* What a model's order, the context and what was learned make of rows *)

\* A text has a place, or the place after the last.
LEMMA IndexIn ==
  ASSUME NEW texts, Len(texts) \in Nat, DOMAIN texts = 1..Len(texts), NEW text
  PROVE  IndexOf(texts, text) \in 1..Len(texts) + 1
<1> DEFINE T == {i \in DOMAIN texts : texts[i] = text} \cup {Len(texts) + 1}
<1>1. T \subseteq 1..Len(texts) + 1 /\ T \subseteq Nat /\ T # {}
  OBVIOUS
<1> HIDE DEF T
<1>2. Min(T) \in T
  BY <1>1, LeastOf
<1>3. Min(T) \in 1..Len(texts) + 1
  BY <1>1, <1>2
<1> QED BY <1>3 DEF IndexOf, T

\* By a tier, in one of the tiers by how much is used, then by a rank.
Tiered(D, t, u, x, L) ==
  \A i, j \in D : <<i, j>> \in L <=>
    \/ t[i] < t[j]
    \/ /\ t[i] = t[j]
       /\ (t[i] = 1 /\ u[i] > u[j]) \/ ((t[i] = 1 => u[i] = u[j]) /\ x[i] < x[j])
\* The model's order is one.
LEMMA TiersAreWeak ==
  ASSUME NEW D, NEW t \in [D -> Int], NEW u \in [D -> Int], NEW x \in [D -> Int], NEW L, Tiered(D, t, u, x, L)
  PROVE  Weak(D, L)
<1> USE DEF Tiered
<1> DEFINE less(i, j) ==
             \/ t[i] < t[j]
             \/ /\ t[i] = t[j]
                /\ (t[i] = 1 /\ u[i] > u[j]) \/ ((t[i] = 1 => u[i] = u[j]) /\ x[i] < x[j])
<1>1. ASSUME NEW i \in D PROVE <<i, i>> \notin L
  <2>1. t[i] \in Int /\ u[i] \in Int /\ x[i] \in Int
    OBVIOUS
  <2>2. ~ less(i, i)
    BY <2>1
  <2> QED BY <2>2
<1>2. ASSUME NEW i \in D, NEW j \in D, <<i, j>> \in L PROVE <<j, i>> \notin L
  <2>1. t[i] \in Int /\ u[i] \in Int /\ x[i] \in Int /\ t[j] \in Int /\ u[j] \in Int /\ x[j] \in Int
    OBVIOUS
  <2>2. less(i, j)
    BY <1>2
  <2>3. ~ less(j, i)
    BY <2>1, <2>2
  <2> QED BY <2>3
<1>3. ASSUME NEW i \in D, NEW j \in D, NEW k \in D, <<i, k>> \in L PROVE <<i, j>> \in L \/ <<j, k>> \in L
  <2>1. /\ t[i] \in Int /\ u[i] \in Int /\ x[i] \in Int /\ t[j] \in Int /\ u[j] \in Int /\ x[j] \in Int
        /\ t[k] \in Int /\ u[k] \in Int /\ x[k] \in Int
    OBVIOUS
  <2>2. less(i, k)
    BY <1>3
  <2>3. less(i, j) \/ less(j, k)
    BY <2>1, <2>2
  <2> QED BY <2>3
<1> HIDE DEF less
<1> QED BY <1>1, <1>2, <1>3 DEF Weak

\* By how much is used, then by a weight.
Weighed(D, u, w, L) == \A i, j \in D : <<i, j>> \in L <=> u[i] > u[j] \/ (u[i] = u[j] /\ w[i] > w[j])
\* The engine's order is one.
LEMMA WeightsAreWeak ==
  ASSUME NEW D, NEW u \in [D -> Int], NEW w \in [D -> Int], NEW L, Weighed(D, u, w, L)
  PROVE  Weak(D, L)
<1> USE DEF Weighed
<1>1. ASSUME NEW i \in D, NEW j \in D
      PROVE  u[i] \in Int /\ w[i] \in Int /\ u[j] \in Int /\ w[j] \in Int
  OBVIOUS
<1>2. ASSUME NEW i \in D PROVE <<i, i>> \notin L
  BY <1>1
<1>3. ASSUME NEW i \in D, NEW j \in D, <<i, j>> \in L PROVE <<j, i>> \notin L
  <2>1. u[i] > u[j] \/ (u[i] = u[j] /\ w[i] > w[j])
    BY <1>3
  <2>2. ~ (u[j] > u[i] \/ (u[j] = u[i] /\ w[j] > w[i]))
    BY <1>1, <2>1
  <2> QED BY <2>2
<1>4. ASSUME NEW i \in D, NEW j \in D, NEW k \in D, <<i, k>> \in L PROVE <<i, j>> \in L \/ <<j, k>> \in L
  <2>1. u[i] > u[k] \/ (u[i] = u[k] /\ w[i] > w[k])
    BY <1>4
  <2>2. (u[i] > u[j] \/ (u[i] = u[j] /\ w[i] > w[j])) \/ (u[j] > u[k] \/ (u[j] = u[k] /\ w[j] > w[k]))
    BY <1>1, <2>1
  <2> QED BY <2>2
<1> QED BY <1>2, <1>3, <1>4 DEF Weak

\* A sequence in the order of its places; the lower tier comes first.
SortedInto(s, L, t) ==
  \E c \in [DOMAIN s -> DOMAIN s] :
    /\ t = [k \in DOMAIN s |-> s[c[k]]]
    /\ \A k \in DOMAIN s : PlaceOf(DOMAIN s, L, c[k]) = k - 1
ByTiers(s, full, L) == \A i, j \in DOMAIN s : Tier(s[i], full) < Tier(s[j], full) => <<i, j>> \in L

\* The model orders by tiers.
LEMMA ModelSorts ==
  ASSUME NEW S, \A r \in S : r.used \in Int, NEW s \in Seq(S), NEW full,
         NEW model, Len(model) \in Nat, DOMAIN model = 1..Len(model)
  PROVE  \E L : /\ Weak(DOMAIN s, L) /\ ByTiers(s, full, L)
                /\ SortedInto(s, L, ModelOrder(model, full, s))
<1> DEFINE D == DOMAIN s
           t == [i \in D |-> Tier(s[i], full)]
           u == [i \in D |-> s[i].used]
           x == [i \in D |-> IndexOf(model, s[i].text)]
           less(r, q) ==
             LET a == Tier(r, full) IN
             \/ a < Tier(q, full)
             \/ /\ a = Tier(q, full)
                /\ \/ a = 1 /\ r.used > q.used
                   \/ (a = 1 => r.used = q.used) /\ IndexOf(model, r.text) < IndexOf(model, q.text)
           L == {p \in D \X D : less(s[p[1]], s[p[2]])}
           before(i) == {j \in D : less(s[j], s[i]) \/ (j < i /\ ~less(s[i], s[j]))}
           P(i, k) == Cardinality(before(i)) = k - 1
           c == [k \in D |-> CHOOSE i \in D : P(i, k)]
<1>1. \A i \in D : s[i] \in S
  BY ElementOfSeq, LenProperties
<1>2. t \in [D -> Int] /\ u \in [D -> Int] /\ x \in [D -> Int]
  <2>1. ASSUME NEW i \in D PROVE Tier(s[i], full) \in Int /\ s[i].used \in Int /\ IndexOf(model, s[i].text) \in Int
    <3>1. IndexOf(model, s[i].text) \in Int
      BY IndexIn
    <3>2. Tier(s[i], full) \in {0, 1, 2}
      BY DEF Tier
    <3> QED BY <1>1, <3>1, <3>2
  <2> HIDE DEF D
  <2> QED BY <2>1
<1>3. \A i, j \in D : <<i, j>> \in L <=> less(s[i], s[j])
  <2> HIDE DEF less
  <2> QED OBVIOUS
<1>4. Tiered(D, t, u, x, L)
  <2> SUFFICES ASSUME NEW i \in D, NEW j \in D
               PROVE  <<i, j>> \in L <=>
                        \/ t[i] < t[j]
                        \/ /\ t[i] = t[j]
                           /\ (t[i] = 1 /\ u[i] > u[j]) \/ ((t[i] = 1 => u[i] = u[j]) /\ x[i] < x[j])
    BY DEF Tiered
  <2>1. /\ t[i] = Tier(s[i], full) /\ u[i] = s[i].used /\ x[i] = IndexOf(model, s[i].text)
        /\ t[j] = Tier(s[j], full) /\ u[j] = s[j].used /\ x[j] = IndexOf(model, s[j].text)
    OBVIOUS
  <2>2. <<i, j>> \in L <=> less(s[i], s[j])
    BY <1>3
  <2> HIDE DEF L, t, u, x
  <2> QED BY <2>1, <2>2
<1>5. ByTiers(s, full, L)
  <2>1. \A i, j \in D : Tier(s[i], full) < Tier(s[j], full) => less(s[i], s[j])
    OBVIOUS
  <2> HIDE DEF less, L
  <2> QED BY <1>3, <2>1 DEF ByTiers
<1> HIDE DEF L
<1>6. Weak(D, L)
  <2> HIDE DEF D, t, u, x
  <2> QED BY <1>2, <1>4, TiersAreWeak
<1>7. \A i \in D : before(i) = {j \in D : <<j, i>> \in L \/ (j < i /\ <<i, j>> \notin L)}
  <2> HIDE DEF less
  <2> QED BY <1>3
<1> HIDE DEF before
<1>8. \A k \in D : \E i \in D : P(i, k)
  <2>1. EachPlace(D, L)
    BY <1>6, PlacesFilled
  <2> HIDE DEF D
  <2> QED BY <1>7, <2>1 DEF EachPlace, PlaceOf
<1>9. \A i \in D : Cardinality(before(i)) = PlaceOf(D, L, i)
  BY <1>7 DEF PlaceOf
<1>10. \A i, k \in D : P(i, k) => PlaceOf(D, L, i) = k - 1
  BY <1>9
<1> HIDE DEF P
<1>11. \A k \in D : (CHOOSE i \in D : P(i, k)) \in D /\ P(CHOOSE i \in D : P(i, k), k)
  BY <1>8
<1>12. c \in [D -> D] /\ \A k \in D : c[k] = CHOOSE i \in D : P(i, k)
  BY <1>11
<1>13. ModelOrder(model, full, s) = [k \in D |-> s[CHOOSE i \in D : P(i, k)]]
  BY DEF ModelOrder, StableSort, P, before
<1> HIDE DEF c
<1>14. ModelOrder(model, full, s) = [k \in D |-> s[c[k]]]
  BY <1>12, <1>13
<1>15. \A k \in D : PlaceOf(D, L, c[k]) = k - 1
  BY <1>11, <1>12, <1>10
<1>16. SortedInto(s, L, ModelOrder(model, full, s))
  BY <1>12, <1>14, <1>15 DEF SortedInto
<1> QED BY <1>6, <1>5, <1>16

\* The model's order has as many rows, and all of them.
LEMMA OrderedByModel ==
  ASSUME NEW S, \A r \in S : r.used \in Int, NEW s \in Seq(S), NEW full,
         NEW model, Len(model) \in Nat, DOMAIN model = 1..Len(model)
  PROVE  ModelOrder(model, full, s) \in Seq(S) /\ Len(ModelOrder(model, full, s)) = Len(s)
<1>1. PICK L : SortedInto(s, L, ModelOrder(model, full, s))
  BY ModelSorts
<1>2. PICK c \in [DOMAIN s -> DOMAIN s] : ModelOrder(model, full, s) = [k \in DOMAIN s |-> s[c[k]]]
  BY <1>1 DEF SortedInto
<1> QED BY <1>2, Picked

\* The row at a place goes to another; those between move up by one.
LEMMA MovedIs ==
  ASSUME NEW S, NEW s \in Seq(S), NEW i \in 1..Len(s), NEW j \in 1..Len(s)
  PROVE  /\ Moved(s, i, j) \in Seq(S) /\ Len(Moved(s, i, j)) = Len(s)
         /\ \A k \in 1..Len(s) :
              Moved(s, i, j)[k] = IF k = j THEN s[i]
                                  ELSE IF k < j THEN (IF k < i THEN s[k] ELSE s[k + 1])
                                  ELSE (IF k <= i THEN s[k - 1] ELSE s[k])
<1> DEFINE n == Len(s)
           t == RemoveAt(s, i)
           x == s[i]
           m == InsertAt(t, j, x)
<1>1. n \in Nat /\ i \in Int /\ j \in Int /\ 1 <= j /\ j <= n /\ 1 <= i /\ i <= n /\ x \in S
  BY LenProperties, ElementOfSeq
<1>2. t \in Seq(S) /\ Len(t) = n - 1 /\ \A k \in 1..n - 1 : t[k] = IF k < i THEN s[k] ELSE s[k + 1]
  BY RemovedIs
<1> HIDE DEF t, n, x
<1>3. j \in 1..Len(t) + 1 /\ Len(t) + 1 = n
  BY <1>1, <1>2
<1>4. /\ m \in Seq(S) /\ Len(m) = n
      /\ \A k \in 1..n : m[k] = IF k < j THEN t[k] ELSE IF k = j THEN x ELSE t[k - 1]
  <2>1. /\ m \in Seq(S) /\ Len(m) = Len(t) + 1
        /\ \A k \in 1..Len(t) + 1 : m[k] = IF k < j THEN t[k] ELSE IF k = j THEN x ELSE t[k - 1]
    BY <1>1, <1>2, <1>3, InsertedIs, SMTT(30)
  <2> HIDE DEF m
  <2> QED BY <1>3, <2>1
<1>5. Moved(s, i, j) = m
  BY DEF Moved, t, x
<1> HIDE DEF m
<1>6. ASSUME NEW k \in 1..n
      PROVE  m[k] = IF k = j THEN x
                    ELSE IF k < j THEN (IF k < i THEN s[k] ELSE s[k + 1])
                    ELSE (IF k <= i THEN s[k - 1] ELSE s[k])
  <2>1. CASE k = j
    BY <1>1, <1>4, <2>1
  <2>2. CASE k < j
    <3>1. k \in 1..n - 1 /\ k # j
      BY <1>1, <2>2
    <3> QED BY <1>2, <1>4, <2>2, <3>1
  <2>3. CASE ~ (k < j) /\ k # j
    <3>1. k - 1 \in 1..n - 1 /\ k - 1 + 1 = k /\ (k - 1 < i <=> k <= i)
      BY <1>1, <2>3
    <3> QED BY <1>2, <1>4, <2>3, <3>1
  <2> QED BY <2>1, <2>2, <2>3
<1> QED BY <1>4, <1>5, <1>6 DEF n, x

\* A text has a place among those of rows, or the place after the last.
LEMMA TextsHavePlaces ==
  ASSUME NEW S, NEW rows \in Seq(S), NEW text
  PROVE  IndexOf(TextsIn(rows), text) \in 1..Len(rows) + 1
<1>1. DOMAIN rows = 1..Len(rows) /\ Len(rows) \in Nat
  BY LenProperties
<1>2. TextsIn(rows) = [i \in 1..Len(rows) |-> rows[i].text]
  BY <1>1 DEF TextsIn
<1>3. Len(TextsIn(rows)) = Len(rows) /\ DOMAIN TextsIn(rows) = 1..Len(rows)
  BY <1>1, <1>2
<1> QED BY <1>1, <1>3, IndexIn

\* A preference that is promoted leaves rows.
LEMMA PromoteIn ==
  ASSUME NEW S, NEW rows \in Seq(S), NEW text
  PROVE  Promote(rows, text) \in Seq(S)
<1> DEFINE i == IndexOf(TextsIn(rows), text)
           same == SameUse(rows, i)
<1>1. DOMAIN rows = 1..Len(rows) /\ Len(rows) \in Nat
  BY LenProperties
<1>2. i \in 1..Len(rows) + 1
  BY TextsHavePlaces
<1> HIDE DEF i
<1>3. ASSUME i <= Len(rows) PROVE Moved(rows, i, Place(same, 1)) \in Seq(S)
  <2>1. i \in 1..Len(rows)
    BY <1>1, <1>2, <1>3
  <2>2. i \in same /\ same \in SUBSET DOMAIN rows
    BY <1>1, <2>1 DEF SameUse
  <2> HIDE DEF same
  <2>3. IsFiniteSet(same) /\ Cardinality(same) \in Nat /\ same \subseteq 1..Len(rows)
    BY <2>2, SomePlaces
  <2>4. Cardinality(same) # 0
    BY <2>2, <2>3, FS_EmptySet
  <2>5. 1 \in 1..Cardinality(same)
    BY <2>3, <2>4
  <2>6. Place(same, 1) \in same
    BY <2>2, <2>5, SomePlaces
  <2>7. Place(same, 1) \in 1..Len(rows)
    BY <2>3, <2>6
  <2> QED BY <2>1, <2>7, MovedIs
<1>4. Promote(rows, text) = IF i > Len(rows) THEN rows ELSE Moved(rows, i, Place(same, 1))
  BY DEF Promote, i
<1> HIDE DEF same
<1> QED BY <1>1, <1>2, <1>3, <1>4

\* A preference that is put back leaves rows.
LEMMA RestoreIn ==
  ASSUME NEW S, NEW rows \in Seq(S), NEW base \in Seq(S), NEW text
  PROVE  Restore(base, rows, text) \in Seq(S)
<1> DEFINE b == IndexOf(TextsIn(base), text)
           i == IndexOf(TextsIn(rows), text)
           same == SameUse(rows, i)
           earlier == {k \in SameUse(base, b) : k < b}
           rank == Cardinality(earlier) + 1
           apart == b > Len(base) \/ i > Len(rows) \/ base[b].used # rows[i].used \/ rank > Cardinality(same)
<1>1. DOMAIN rows = 1..Len(rows) /\ Len(rows) \in Nat
  BY LenProperties
<1>2. i \in 1..Len(rows) + 1
  BY TextsHavePlaces
<1>3. rank \in Nat /\ rank >= 1
  <2>1. earlier \in SUBSET DOMAIN base
    BY DEF SameUse
  <2> HIDE DEF earlier
  <2>2. Cardinality(earlier) \in Nat
    BY <2>1, SomePlaces
  <2> QED BY <2>2
<1>4. Restore(base, rows, text) = IF apart THEN rows ELSE Moved(rows, i, Place(same, rank))
  BY DEF Restore
<1> HIDE DEF i, b, rank
<1>5. ASSUME ~apart PROVE Moved(rows, i, Place(same, rank)) \in Seq(S)
  <2>1. i \in 1..Len(rows)
    BY <1>1, <1>2, <1>5
  <2>2. same \in SUBSET DOMAIN rows
    BY DEF SameUse
  <2>3. ~ (rank > Cardinality(same))
    BY <1>5
  <2> HIDE DEF same, apart
  <2>4. Cardinality(same) \in Nat /\ same \subseteq 1..Len(rows)
    BY <2>2, SomePlaces
  <2>5. rank \in 1..Cardinality(same)
    BY <1>3, <2>3, <2>4
  <2>6. Place(same, rank) \in same
    BY <2>2, <2>5, SomePlaces
  <2>7. Place(same, rank) \in 1..Len(rows)
    BY <2>4, <2>6
  <2> QED BY <2>1, <2>7, MovedIs
<1> HIDE DEF same, apart
<1> QED BY <1>4, <1>5

\* Promoting, and putting back, goes from preference to preference.
PromotedBy(iter, preferences, rows) ==
  /\ Promoted(preferences, rows) = iter[1..Len(preferences)]
  /\ iter[{}] = rows
  /\ \A s \in SUBSET (1..Len(preferences)) :
       s # {} => iter[s] = Promote(iter[Before(s)], Reverse(preferences)[Max(s)])
RestoredBy(iter, texts, base, rows) ==
  /\ Restored(texts, base, rows) = iter[1..Len(texts)]
  /\ iter[{}] = rows
  /\ \A s \in SUBSET (1..Len(texts)) : s # {} => iter[s] = Restore(base, iter[Before(s)], texts[Max(s)])

\* Promoting can be gone through.
LEMMA PromotedUnfolds ==
  ASSUME NEW S, NEW rows \in Seq(S), NEW preferences, Len(preferences) \in Nat
  PROVE  \E iter : PromotedBy(iter, preferences, rows)
<1> DEFINE texts == Reverse(preferences)
           l == Len(preferences)
           T == Seq(S)
           step == [p \in T \X (1..l) |-> Promote(p[1], texts[p[2]])]
           Unfolds(g, s) == IF s = {} THEN rows ELSE Promote(g[Before(s)], texts[Max(s)])
           iter == CHOOSE f : f = [s \in SUBSET (1..l) |-> Unfolds(f, s)]
<1>1. DOMAIN texts = 1..l
  BY DEF Reverse
<1>2. \A r \in T, k \in 1..l : Promote(r, texts[k]) \in T /\ step[<<r, k>>] = Promote(r, texts[k])
  BY PromoteIn
<1> HIDE DEF texts, T, l
<1>3. step \in [T \X (1..l) -> T]
  BY <1>2
<1>4. \A s \in SUBSET (1..l) : s # {} => Max(s) \in 1..l /\ Before(s) \in SUBSET (1..l)
  BY LastOf DEF Before, l
<1> HIDE DEF step
<1>5. rows \in T /\ l \in Nat
  BY DEF l, T
<1>6. PICK g \in [SUBSET (1..l) -> T] : Folded(g, l, rows, step)
  BY <1>3, <1>5, FoldTyped
<1>7. \A s \in SUBSET (1..l) : g[s] = IF s = {} THEN rows ELSE step[<<g[Before(s)], Max(s)>>]
  BY <1>6 DEF Folded
<1>8. g = [s \in SUBSET (1..l) |-> Unfolds(g, s)]
  <2>1. ASSUME NEW s \in SUBSET (1..l) PROVE g[s] = Unfolds(g, s)
    <3>1. s # {} => g[Before(s)] \in T
      BY <1>4, <1>6
    <3> QED BY <1>2, <1>4, <1>7, <3>1
  <2> HIDE DEF Unfolds
  <2> QED BY <1>6, <2>1
<1>9. iter = [s \in SUBSET (1..l) |-> Unfolds(iter, s)]
  <2> HIDE DEF Unfolds
  <2> QED BY <1>8, Zenon
<1>10. Promoted(preferences, rows) = iter[1..l]
  BY <1>1, Zenon DEF Promoted, FoldLeft, MapThenFoldSet, Before, texts
<1> HIDE DEF iter
<1>11. \A s \in SUBSET (1..l) : iter[s] = Unfolds(iter, s)
  <2> HIDE DEF Unfolds
  <2> QED BY <1>9
<1>12. iter[{}] = rows /\ \A s \in SUBSET (1..l) : s # {} => iter[s] = Promote(iter[Before(s)], texts[Max(s)])
  BY <1>11
<1> QED BY <1>10, <1>12 DEF l, texts, PromotedBy

\* Preferences that are promoted leave rows.
LEMMA PromotedIn ==
  ASSUME NEW S, NEW rows \in Seq(S), NEW preferences, Len(preferences) \in Nat
  PROVE  Promoted(preferences, rows) \in Seq(S)
<1> DEFINE l == Len(preferences)
<1>0. PICK iter : PromotedBy(iter, preferences, rows)
  BY PromotedUnfolds
<1>1. /\ Promoted(preferences, rows) = iter[1..l]
      /\ iter[{}] = rows
      /\ \A s \in SUBSET (1..l) : s # {} => iter[s] = Promote(iter[Before(s)], Reverse(preferences)[Max(s)])
  BY <1>0 DEF PromotedBy
<1>2. \A s \in SUBSET (1..l) : s # {} /\ iter[Before(s)] \in Seq(S) => iter[s] \in Seq(S)
  BY <1>1, PromoteIn
<1>3. \A s \in SUBSET (1..l) : iter[s] \in Seq(S)
  BY <1>1, <1>2, FoldStays
<1> QED BY <1>1, <1>3

\* Putting back can be gone through.
LEMMA RestoredUnfolds ==
  ASSUME NEW S, NEW rows \in Seq(S), NEW base \in Seq(S),
         NEW texts, Len(texts) \in Nat, DOMAIN texts = 1..Len(texts)
  PROVE  \E iter : RestoredBy(iter, texts, base, rows)
<1> DEFINE l == Len(texts)
           T == Seq(S)
           step == [p \in T \X (1..l) |-> Restore(base, p[1], texts[p[2]])]
           Unfolds(g, s) == IF s = {} THEN rows ELSE Restore(base, g[Before(s)], texts[Max(s)])
           iter == CHOOSE f : f = [s \in SUBSET (1..l) |-> Unfolds(f, s)]
<1>1. DOMAIN texts = 1..l
  OBVIOUS
<1>2. \A r \in T, k \in 1..l : Restore(base, r, texts[k]) \in T /\ step[<<r, k>>] = Restore(base, r, texts[k])
  BY RestoreIn
<1> HIDE DEF T, l
<1>3. step \in [T \X (1..l) -> T]
  BY <1>2
<1>4. \A s \in SUBSET (1..l) : s # {} => Max(s) \in 1..l /\ Before(s) \in SUBSET (1..l)
  BY LastOf DEF Before, l
<1> HIDE DEF step
<1>5. rows \in T /\ l \in Nat
  BY DEF l, T
<1>6. PICK g \in [SUBSET (1..l) -> T] : Folded(g, l, rows, step)
  BY <1>3, <1>5, FoldTyped
<1>7. \A s \in SUBSET (1..l) : g[s] = IF s = {} THEN rows ELSE step[<<g[Before(s)], Max(s)>>]
  BY <1>6 DEF Folded
<1>8. g = [s \in SUBSET (1..l) |-> Unfolds(g, s)]
  <2>1. ASSUME NEW s \in SUBSET (1..l) PROVE g[s] = Unfolds(g, s)
    <3>1. s # {} => g[Before(s)] \in T
      BY <1>4, <1>6
    <3> QED BY <1>2, <1>4, <1>7, <3>1
  <2> HIDE DEF Unfolds
  <2> QED BY <1>6, <2>1
<1>9. iter = [s \in SUBSET (1..l) |-> Unfolds(iter, s)]
  <2> HIDE DEF Unfolds
  <2> QED BY <1>8, Zenon
<1>10. Restored(texts, base, rows) = iter[1..l]
  BY <1>1, Zenon DEF Restored, FoldLeft, MapThenFoldSet, Before
<1> HIDE DEF iter
<1>11. \A s \in SUBSET (1..l) : iter[s] = Unfolds(iter, s)
  <2> HIDE DEF Unfolds
  <2> QED BY <1>9
<1>12. iter[{}] = rows /\ \A s \in SUBSET (1..l) : s # {} => iter[s] = Restore(base, iter[Before(s)], texts[Max(s)])
  BY <1>11
<1> QED BY <1>10, <1>12 DEF l, RestoredBy

\* Preferences that are put back leave rows.
LEMMA RestoredIn ==
  ASSUME NEW S, NEW rows \in Seq(S), NEW base \in Seq(S),
         NEW texts, Len(texts) \in Nat, DOMAIN texts = 1..Len(texts)
  PROVE  Restored(texts, base, rows) \in Seq(S)
<1> DEFINE l == Len(texts)
<1>0. PICK iter : RestoredBy(iter, texts, base, rows)
  BY RestoredUnfolds
<1>1. /\ Restored(texts, base, rows) = iter[1..l]
      /\ iter[{}] = rows
      /\ \A s \in SUBSET (1..l) : s # {} => iter[s] = Restore(base, iter[Before(s)], texts[Max(s)])
  BY <1>0 DEF RestoredBy
<1>2. \A s \in SUBSET (1..l) : s # {} /\ iter[Before(s)] \in Seq(S) => iter[s] \in Seq(S)
  BY <1>1, RestoreIn
<1>3. \A s \in SUBSET (1..l) : iter[s] \in Seq(S)
  BY <1>1, <1>2, FoldStays
<1> QED BY <1>1, <1>3

\* The update has rows of the request's, and not more of them than its page.
LEMMA UpdatedIn ==
  ASSUME NEW S, \A r \in S : r.used \in Int, NEW e, e.rows \in Seq(S), e.visible \in Nat,
         Len(e.contextual) \in Nat, Len(e.learned) \in Nat, DOMAIN e.learned = 1..Len(e.learned),
         NEW model, Len(model) \in Nat, DOMAIN model = 1..Len(model)
  PROVE  Updated(model, e) \in Seq(S) /\ Len(Updated(model, e)) <= e.visible
<1> DEFINE ordered == ModelOrder(model, e.full, e.rows)
           restored == Restored(e.learned, e.rows, Promoted(e.contextual, ordered))
           wholes == Those(restored, Wholes(restored, e.full))
           preferred == Those(ordered, Wholes(ordered, e.full))
           conflict == preferred # <<>> /\ wholes[1].text # preferred[1].text
           shown == Cardinality({i \in Wholes(e.rows, e.full) : i <= e.visible})
           m == Max({1, shown} \cup (IF conflict THEN {2} ELSE {}))
           kept == WithWholes(restored, e.full, m)
           n == Min({e.visible, Len(kept)})
<1>1. ordered \in Seq(S)
  BY OrderedByModel
<1> HIDE DEF ordered
<1>2. Promoted(e.contextual, ordered) \in Seq(S)
  BY <1>1, PromotedIn
<1>3. restored \in Seq(S)
  BY <1>2, RestoredIn
<1>4. Updated(model, e) = SubSeq(kept, 1, n)
  BY DEF Updated, ordered
<1> HIDE DEF restored, m
<1>5. kept \in Seq(S) /\ Len(kept) \in Nat
  <2> DEFINE places == {i \in DOMAIN restored :
                          i \in Wholes(restored, e.full) =>
                            Cardinality({j \in Wholes(restored, e.full) : j <= i}) <= m}
  <2>1. places \in SUBSET DOMAIN restored /\ kept = Those(restored, places)
    BY DEF WithWholes
  <2> HIDE DEF places, kept
  <2>2. kept \in Seq(S)
    BY <1>3, <2>1, ThoseAre
  <2> QED BY <2>2, LenProperties
<1> HIDE DEF kept
<1>6. \A i \in 1..Len(kept) : kept[i] \in S
  BY <1>5, ElementOfSeq
<1>7. n \in {e.visible, Len(kept)} /\ n <= e.visible /\ n <= Len(kept)
  <2> DEFINE a == e.visible
             b == Len(kept)
  <2>1. a \in Int /\ b \in Int
    BY <1>5
  <2> HIDE DEF a, b
  <2>2. Min({a, b}) \in {a, b} /\ Min({a, b}) <= a /\ Min({a, b}) <= b
    BY <2>1, MinOfTwo
  <2> QED BY <2>2 DEF a, b
<1> HIDE DEF n
<1>8. n \in Nat /\ \A i \in 1..n : kept[i] \in S
  BY <1>5, <1>6, <1>7
<1>9. SubSeq(kept, 1, n) \in Seq(S) /\ Len(SubSeq(kept, 1, n)) = IF 1 <= n THEN n - 1 + 1 ELSE 0
  BY <1>8, SubSeqProperties
<1> QED BY <1>4, <1>7, <1>8, <1>9
---------------------------------------------------------------------------
(* A learned sentence that comes first stays there *)

\* Rows for the whole input come first; a row is there.
WholesFirst(rows, full) ==
  \A k, l \in DOMAIN rows : k < l /\ rows[l].used = full => rows[k].used = full
Has(rows, x) == \E k \in DOMAIN rows : rows[k] = x

\* What is sorted keeps what it has, and the order.
LEMMA SortedKeeps ==
  ASSUME NEW S, NEW s \in Seq(S), NEW L, Weak(DOMAIN s, L), NEW t, SortedInto(s, L, t)
  PROVE  /\ DOMAIN t = DOMAIN s
         /\ \A x : Has(s, x) => Has(t, x)
         /\ \A k, l \in DOMAIN s : k < l => \E i, j \in DOMAIN s : t[k] = s[i] /\ t[l] = s[j] /\ <<j, i>> \notin L
<1> DEFINE D == DOMAIN s
<1>0. D \subseteq Int
  BY LenProperties
<1>1. PICK c \in [D -> D] : /\ t = [k \in D |-> s[c[k]]]
                            /\ \A k \in D : PlaceOf(D, L, c[k]) = k - 1
  BY DEF SortedInto
<1>2. PlacesKept(D, L)
  BY PlacesFilled
<1> HIDE DEF D
<1>3. DOMAIN t = D /\ \A k \in D : t[k] = s[c[k]] /\ c[k] \in D
  BY <1>1
<1>4. ASSUME NEW i \in D PROVE \E k \in D : t[k] = s[i]
  <2> DEFINE k == PlaceOf(D, L, i) + 1
  <2>1. k \in D
    BY <1>2 DEF PlacesKept
  <2>2. PlaceOf(D, L, c[k]) = k - 1
    BY <1>1, <2>1
  <2>4. PlaceOf(D, L, c[k]) = PlaceOf(D, L, i)
    <3>1. PlaceOf(D, L, i) \in Nat
      BY <1>2 DEF PlacesKept
    <3> QED BY <2>2, <3>1
  <2>5. c[k] = i
    BY <1>2, <1>3, <2>1, <2>4 DEF PlacesKept
  <2> HIDE DEF k
  <2> QED BY <1>3, <2>1, <2>5
<1>5. ASSUME NEW k \in D, NEW l \in D, k < l PROVE <<c[l], c[k]>> \notin L
  <2>1. SUFFICES ASSUME <<c[l], c[k]>> \in L PROVE FALSE
    OBVIOUS
  <2>2. PlaceOf(D, L, c[l]) < PlaceOf(D, L, c[k])
    BY <1>2, <1>3, <2>1 DEF PlacesKept
  <2>3. PlaceOf(D, L, c[l]) = l - 1 /\ PlaceOf(D, L, c[k]) = k - 1
    BY <1>1
  <2>4. l \in Int /\ k \in Int
    BY <1>0
  <2> QED BY <1>5, <2>2, <2>3, <2>4
<1>6. \A k, l \in D : k < l => \E i, j \in D : t[k] = s[i] /\ t[l] = s[j] /\ <<j, i>> \notin L
  BY <1>3, <1>5
<1> QED BY <1>3, <1>4, <1>6 DEF D, Has

\* The model's order has every row, those for the whole input first.
LEMMA ModelKeepsWholes ==
  ASSUME NEW S, \A r \in S : r.used \in Int, NEW s \in Seq(S), NEW full,
         NEW model, Len(model) \in Nat, DOMAIN model = 1..Len(model)
  PROVE  /\ WholesFirst(ModelOrder(model, full, s), full)
         /\ \A x : Has(s, x) => Has(ModelOrder(model, full, s), x)
<1> DEFINE t == ModelOrder(model, full, s)
<1>1. PICK L : Weak(DOMAIN s, L) /\ ByTiers(s, full, L) /\ SortedInto(s, L, t)
  BY ModelSorts
<1> HIDE DEF t
<1>2. /\ DOMAIN t = DOMAIN s
      /\ \A x : Has(s, x) => Has(t, x)
      /\ \A k, l \in DOMAIN s : k < l => \E i, j \in DOMAIN s : t[k] = s[i] /\ t[l] = s[j] /\ <<j, i>> \notin L
  BY <1>1, SortedKeeps
<1>3. ASSUME NEW k \in DOMAIN t, NEW l \in DOMAIN t, k < l, t[l].used = full PROVE t[k].used = full
  <2>1. PICK i \in DOMAIN s, j \in DOMAIN s : t[k] = s[i] /\ t[l] = s[j] /\ <<j, i>> \notin L
    BY <1>2, <1>3
  <2>2. ~ (Tier(s[j], full) < Tier(s[i], full))
    BY <1>1, <2>1 DEF ByTiers
  <2>3. Tier(s[j], full) = 0 /\ Tier(s[i], full) \in {0, 1, 2}
    BY <1>3, <2>1 DEF Tier
  <2>4. Tier(s[i], full) = 0
    BY <2>2, <2>3
  <2>5. s[i].used = full
    BY <2>4 DEF Tier
  <2> QED BY <2>1, <2>5
<1>4. WholesFirst(t, full)
  BY <1>3 DEF WholesFirst
<1> QED BY <1>2, <1>4 DEF t

\* Moving a row among those that use as much keeps all that.
LEMMA MovedKeeps ==
  ASSUME NEW S, NEW s \in Seq(S), NEW i \in 1..Len(s), NEW j \in 1..Len(s), s[i].used = s[j].used,
         NEW full, WholesFirst(s, full)
  PROVE  /\ WholesFirst(Moved(s, i, j), full)
         /\ \A x : Has(s, x) => Has(Moved(s, i, j), x)
         /\ Moved(s, i, j)[j] = s[i]
         /\ i # 1 /\ j # 1 => Moved(s, i, j)[1] = s[1]
<1> DEFINE n == Len(s)
           m == Moved(s, i, j)
           Whole(r) == r.used = full
<1>1. n \in Nat /\ DOMAIN s = 1..n
  BY LenProperties
<1>2. i \in Int /\ j \in Int /\ 1 <= j /\ j <= n /\ 1 <= i /\ i <= n
  BY <1>1
<1>3. /\ m \in Seq(S) /\ Len(m) = n
      /\ \A k \in 1..n : m[k] = IF k = j THEN s[i]
                                ELSE IF k < j THEN (IF k < i THEN s[k] ELSE s[k + 1])
                                ELSE (IF k <= i THEN s[k - 1] ELSE s[k])
  BY MovedIs
<1> HIDE DEF m
<1>4. DOMAIN m = 1..n
  BY <1>3, LenProperties
<1>5. \A k, l \in 1..n : k < l /\ Whole(s[l]) => Whole(s[k])
  BY <1>1 DEF WholesFirst
<1>6. Whole(s[i]) <=> Whole(s[j])
  OBVIOUS
<1> HIDE DEF n, Whole
<1>7. ASSUME NEW k \in 1..n PROVE Whole(m[k]) <=> Whole(s[k])
  <2>1. CASE k = j
    BY <1>3, <1>6, <2>1
  <2>2. CASE k < j /\ k < i
    BY <1>2, <1>3, <2>2
  <2>3. CASE k < j /\ ~ (k < i)
    <3>1. m[k] = s[k + 1] /\ k + 1 \in 1..n /\ k + 1 <= j /\ i <= k
      BY <1>1, <1>2, <1>3, <2>3
    <3>2. Whole(s[j]) => Whole(s[k + 1]) /\ Whole(s[k])
      BY <1>2, <1>5, <2>3, <3>1
    <3>3. Whole(s[k]) \/ Whole(s[k + 1]) => Whole(s[i])
      BY <1>2, <1>5, <3>1
    <3> QED BY <1>6, <3>1, <3>2, <3>3
  <2>4. CASE ~ (k < j) /\ k # j /\ k <= i
    <3>1. m[k] = s[k - 1] /\ k - 1 \in 1..n /\ j <= k - 1 /\ k - 1 < k
      BY <1>1, <1>2, <1>3, <2>4
    <3>2. Whole(s[i]) => Whole(s[k - 1]) /\ Whole(s[k])
      BY <1>2, <1>5, <2>4, <3>1
    <3>3. Whole(s[k]) \/ Whole(s[k - 1]) => Whole(s[j])
      BY <1>2, <1>5, <2>4, <3>1
    <3> QED BY <1>6, <3>1, <3>2, <3>3
  <2>5. CASE ~ (k < j) /\ k # j /\ ~ (k <= i)
    BY <1>2, <1>3, <2>5
  <2> QED BY <2>1, <2>2, <2>3, <2>4, <2>5
<1>8. WholesFirst(m, full)
  <2>1. \A k, l \in 1..n : k < l /\ Whole(m[l]) => Whole(m[k])
    BY <1>5, <1>7
  <2> QED BY <1>4, <2>1 DEF WholesFirst, Whole
<1>9. ASSUME NEW l \in 1..n PROVE \E k \in 1..n : m[k] = s[l]
  <2>1. CASE l = i
    BY <1>2, <1>3, <2>1
  <2>2. CASE l < i /\ l < j
    BY <1>2, <1>3, <2>2
  <2>3. CASE l < i /\ ~ (l < j)
    <3>1. l + 1 \in 1..n /\ ~ (l + 1 < j) /\ l + 1 # j /\ l + 1 <= i /\ l + 1 - 1 = l
      BY <1>1, <1>2, <2>3
    <3> QED BY <1>3, <3>1
  <2>4. CASE ~ (l < i) /\ l # i /\ l > j
    BY <1>2, <1>3, <2>4
  <2>5. CASE ~ (l < i) /\ l # i /\ ~ (l > j)
    <3>1. l - 1 \in 1..n /\ l - 1 < j /\ l - 1 # j /\ ~ (l - 1 < i) /\ l - 1 + 1 = l
      BY <1>1, <1>2, <2>5
    <3> QED BY <1>3, <3>1
  <2> QED BY <2>1, <2>2, <2>3, <2>4, <2>5
<1>10. \A x : Has(s, x) => Has(m, x)
  BY <1>1, <1>4, <1>9 DEF Has, n
<1>11. m[j] = s[i] /\ (i # 1 /\ j # 1 => m[1] = s[1])
  <2>1. m[j] = s[i]
    BY <1>2, <1>3
  <2>2. ASSUME i # 1, j # 1 PROVE m[1] = s[1]
    <3>1. 1 \in 1..n /\ 1 # j /\ 1 < j /\ 1 < i
      BY <1>1, <1>2, <2>2
    <3> QED BY <1>3, <3>1
  <2> QED BY <2>1, <2>2
<1> QED BY <1>8, <1>10, <1>11 DEF m

\* The place of a text is the first that has it.
LEMMA IndexIs ==
  ASSUME NEW S, NEW rows \in Seq(S), NEW text
  PROVE  /\ IndexOf(TextsIn(rows), text) \in 1..Len(rows) + 1
         /\ IndexOf(TextsIn(rows), text) <= Len(rows) => rows[IndexOf(TextsIn(rows), text)].text = text
         /\ \A k \in DOMAIN rows : rows[k].text = text => IndexOf(TextsIn(rows), text) <= k
<1> DEFINE texts == TextsIn(rows)
           n == Len(rows)
           T == {k \in DOMAIN texts : texts[k] = text} \cup {Len(texts) + 1}
<1>1. DOMAIN rows = 1..n /\ n \in Nat
  BY LenProperties
<1> HIDE DEF n
<1>2. texts = [i \in 1..n |-> rows[i].text]
  BY <1>1 DEF TextsIn
<1> HIDE DEF texts
<1>3. Len(texts) = n /\ DOMAIN texts = 1..n /\ \A k \in 1..n : texts[k] = rows[k].text
  BY <1>1, <1>2
<1>4. T \subseteq Nat /\ T # {} /\ IndexOf(texts, text) = Min(T)
  BY <1>1, <1>3 DEF IndexOf
<1>5. \A k \in T : k \in 1..n + 1 /\ (k <= n => rows[k].text = text)
  BY <1>1, <1>3
<1>6. \A k \in 1..n : rows[k].text = text => k \in T
  BY <1>3
<1> HIDE DEF T
<1>7. Min(T) \in T /\ \A k \in T : Min(T) <= k
  BY <1>4, LeastOf
<1> QED BY <1>1, <1>4, <1>5, <1>6, <1>7 DEF texts, n

\* A preference that is promoted keeps the rows and the order of the wholes.
LEMMA PromoteKeeps ==
  ASSUME NEW S, NEW rows \in Seq(S), NEW text, NEW full, WholesFirst(rows, full), NEW x, Has(rows, x)
  PROVE  WholesFirst(Promote(rows, text), full) /\ Has(Promote(rows, text), x)
<1> DEFINE i == IndexOf(TextsIn(rows), text)
           same == SameUse(rows, i)
           j == Place(same, 1)
<1>1. DOMAIN rows = 1..Len(rows) /\ Len(rows) \in Nat
  BY LenProperties
<1>2. i \in 1..Len(rows) + 1
  BY IndexIs
<1>3. Promote(rows, text) = IF i > Len(rows) THEN rows ELSE Moved(rows, i, j)
  BY DEF Promote
<1> HIDE DEF i
<1>4. ASSUME ~ (i > Len(rows)) PROVE WholesFirst(Moved(rows, i, j), full) /\ Has(Moved(rows, i, j), x)
  <2>1. i \in 1..Len(rows)
    BY <1>1, <1>2, <1>4
  <2>2. i \in same /\ same \in SUBSET DOMAIN rows /\ \A k \in same : rows[k].used = rows[i].used
    BY <1>1, <2>1 DEF SameUse
  <2> HIDE DEF same
  <2>3. j \in same
    BY <2>2, FirstPlace
  <2> HIDE DEF j
  <2>4. j \in 1..Len(rows) /\ rows[i].used = rows[j].used
    BY <1>1, <2>2, <2>3
  <2> QED BY <2>1, <2>4, MovedKeeps
<1> HIDE DEF j, same
<1> QED BY <1>3, <1>4

\* The first place of a row for the whole input.
FirstWhole(base, full, p) ==
  p \in DOMAIN base /\ base[p].used = full /\ \A q \in DOMAIN base : base[q].used = full => p <= q

\* No two rows have the same text.
TextsTell(S) == \A r, q \in S : r.text = q.text => r = q

\* A preference that is put back keeps the rows and the order of the wholes;
\* the first whole of the base comes first when it is put back and stays there.
LEMMA RestoreKeeps ==
  ASSUME NEW S, TextsTell(S),
         NEW rows \in Seq(S), NEW base \in Seq(S), NEW text, NEW full, WholesFirst(rows, full),
         NEW p, FirstWhole(base, full, p), Has(rows, base[p])
  PROVE  /\ WholesFirst(Restore(base, rows, text), full) /\ Has(Restore(base, rows, text), base[p])
         /\ text = base[p].text \/ rows[1] = base[p] => Restore(base, rows, text)[1] = base[p]
<1> DEFINE b == IndexOf(TextsIn(base), text)
           i == IndexOf(TextsIn(rows), text)
           same == SameUse(rows, i)
           earlier == {k \in SameUse(base, b) : k < b}
           rank == Cardinality(earlier) + 1
           apart == b > Len(base) \/ i > Len(rows) \/ base[b].used # rows[i].used \/ rank > Cardinality(same)
           j == Place(same, rank)
           x == base[p]
           result == Restore(base, rows, text)
<1>1. DOMAIN rows = 1..Len(rows) /\ Len(rows) \in Nat /\ DOMAIN base = 1..Len(base) /\ Len(base) \in Nat
      /\ (\A k \in 1..Len(rows) : rows[k] \in S) /\ (\A k \in 1..Len(base) : base[k] \in S)
  BY LenProperties, ElementOfSeq
<1>2. /\ i \in 1..Len(rows) + 1 /\ (i <= Len(rows) => rows[i].text = text)
      /\ \A k \in 1..Len(rows) : rows[k].text = text => i <= k
  BY <1>1, IndexIs
<1>3. /\ b \in 1..Len(base) + 1 /\ (b <= Len(base) => base[b].text = text)
      /\ \A k \in 1..Len(base) : base[k].text = text => b <= k
  BY <1>1, IndexIs
<1>4. result = IF apart THEN rows ELSE Moved(rows, i, j)
  BY DEF Restore
<1>5. p \in 1..Len(base) /\ p \in Int /\ x.used = full /\ x \in S
      /\ \A q \in 1..Len(base) : base[q].used = full => p <= q
  BY <1>1 DEF FirstWhole
<1>6. earlier \in SUBSET DOMAIN base
      /\ earlier = {k \in DOMAIN base : base[k].used = base[b].used /\ k < b}
  BY DEF SameUse
<1> HIDE DEF i, b, earlier, x, result
<1>7. IsFiniteSet(earlier) /\ Cardinality(earlier) \in Nat
  BY <1>6, SomePlaces
<1>8. same \in SUBSET DOMAIN rows /\ same = {k \in DOMAIN rows : rows[k].used = rows[i].used}
  BY DEF SameUse
<1>9. i <= Len(rows) => i \in same
  BY <1>1, <1>2, <1>8
<1> HIDE DEF same
<1>10. IsFiniteSet(same) /\ Cardinality(same) \in Nat /\ same \subseteq 1..Len(rows) /\ same \subseteq Int
  BY <1>8, SomePlaces
<1>11. PICK h \in 1..Len(rows) : rows[h] = x
  BY <1>1 DEF Has, x
<1>12. ASSUME ~apart
       PROVE  /\ i \in 1..Len(rows) /\ b \in 1..Len(base) /\ base[b].used = rows[i].used
              /\ rank \in 1..Cardinality(same) /\ j \in same /\ j \in 1..Len(rows)
              /\ rows[i].used = rows[j].used /\ Cardinality({k \in same : k < j}) = rank - 1
  <2>1. i \in 1..Len(rows) /\ b \in 1..Len(base) /\ base[b].used = rows[i].used /\ ~ (rank > Cardinality(same))
    BY <1>1, <1>2, <1>3, <1>12
  <2>2. rank \in 1..Cardinality(same)
    BY <1>7, <1>10, <2>1
  <2> HIDE DEF rank, apart
  <2>3. j \in same /\ Cardinality({k \in same : k < j}) = rank - 1
    BY <1>10, <2>2, PlaceIn
  <2>4. j \in 1..Len(rows) /\ rows[i].used = rows[j].used
    BY <1>8, <1>10, <2>3
  <2> QED BY <2>1, <2>2, <2>3, <2>4
<1>13. WholesFirst(result, full) /\ Has(result, x)
  <2>1. CASE apart
    BY <1>4, <2>1 DEF x
  <2>2. CASE ~apart
    <3>1. i \in 1..Len(rows) /\ j \in 1..Len(rows) /\ rows[i].used = rows[j].used
      BY <1>12, <2>2
    <3>2. result = Moved(rows, i, j)
      BY <1>4, <2>2
    <3> HIDE DEF j, apart
    <3> QED BY <3>1, <3>2, MovedKeeps DEF x
  <2> QED BY <2>1, <2>2
<1>14. ASSUME text = x.text PROVE result[1] = x
  <2>1. i \in 1..Len(rows) /\ rows[i] = x
    <3>1. i <= h
      BY <1>2, <1>11, <1>14
    <3>2. i \in 1..Len(rows) /\ rows[i].text = text
      BY <1>1, <1>2, <1>11, <3>1
    <3> QED BY <1>1, <1>5, <1>14, <3>2 DEF TextsTell
  <2>2. b = p
    <3>1. b <= p
      BY <1>3, <1>5, <1>14 DEF x
    <3>2. b \in 1..Len(base) /\ base[b].text = text
      BY <1>1, <1>3, <1>5, <3>1
    <3>3. base[b] = x
      BY <1>1, <1>5, <1>14, <3>2 DEF TextsTell
    <3>4. p <= b
      BY <1>5, <3>2, <3>3
    <3> QED BY <1>5, <3>1, <3>2, <3>4
  <2>3. rank = 1
    <3>1. earlier = {}
      BY <1>1, <1>5, <1>6, <2>2 DEF x
    <3> QED BY <1>7, <3>1, FS_EmptySet
  <2>4. 1 \in same
    <3>1. i = 1 \/ (1 \in 1..Len(rows) /\ 1 < i)
      BY <1>1, <2>1
    <3>2. rows[1].used = full
      BY <1>1, <1>5, <2>1, <3>1 DEF WholesFirst
    <3> QED BY <1>1, <1>5, <1>8, <2>1, <3>1, <3>2
  <2>5. Cardinality(same) >= 1 /\ Place(same, 1) \in same /\ Place(same, 1) <= 1
    BY <1>8, <2>4, FirstPlace
  <2>6. ~apart
    BY <1>1, <1>5, <1>10, <2>1, <2>2, <2>3, <2>5 DEF x
  <2>7. j = 1
    <3>1. Place(same, 1) = 1
      <4> DEFINE y == Place(same, 1)
      <4>1. y \in 1..Len(rows) /\ y <= 1
        BY <1>10, <2>5
      <4> HIDE DEF y
      <4>2. y = 1
        BY <1>1, <4>1
      <4> QED BY <4>2 DEF y
    <3> HIDE DEF rank
    <3> QED BY <2>3, <3>1
  <2> HIDE DEF rank, apart
  <2>8. result = Moved(rows, i, j) /\ j \in 1..Len(rows) /\ rows[i].used = rows[j].used
    BY <1>4, <1>12, <2>6
  <2> HIDE DEF j
  <2>9. Moved(rows, i, j)[j] = rows[i]
    BY <2>1, <2>8, MovedKeeps
  <2> QED BY <2>1, <2>7, <2>8, <2>9
<1>15. ASSUME text # x.text, rows[1] = x PROVE result[1] = x
  <2>1. CASE apart
    BY <1>4, <1>15, <2>1
  <2>2. CASE ~apart
    <3>1. /\ i \in 1..Len(rows) /\ b \in 1..Len(base) /\ base[b].used = rows[i].used
          /\ rank \in 1..Cardinality(same) /\ j \in same /\ j \in 1..Len(rows)
          /\ rows[i].used = rows[j].used /\ Cardinality({k \in same : k < j}) = rank - 1
      BY <1>12, <2>2
    <3>2. result = Moved(rows, i, j)
      BY <1>4, <2>2
    <3> HIDE DEF j, apart
    <3>3. i # 1
      <4>1. rows[i].text = text
        BY <1>1, <1>2, <3>1
      <4> QED BY <1>15, <4>1
    <3>4. ASSUME j = 1 PROVE FALSE
      <4>1. base[b].used = full
        BY <1>5, <1>15, <3>1, <3>4
      <4>2. p <= b /\ base[b].text = text
        BY <1>1, <1>3, <1>5, <3>1, <4>1
      <4>3. p # b
        BY <1>15, <4>2 DEF x
      <4>4. p \in earlier
        BY <1>1, <1>5, <1>6, <3>1, <4>1, <4>2, <4>3 DEF x
      <4>5. Cardinality(earlier) # 0
        BY <1>7, <4>4, FS_EmptySet
      <4>6. {k \in same : k < j} = {}
        <5>1. \A k \in same : k \in 1..Len(rows)
          BY <1>10
        <5> QED BY <1>1, <3>4, <5>1
      <4>7. Cardinality({k \in same : k < j}) = 0
        BY <4>6, FS_EmptySet
      <4> QED BY <1>7, <3>1, <4>5, <4>7
    <3>5. Moved(rows, i, j)[1] = rows[1]
      BY <3>1, <3>3, <3>4, MovedKeeps
    <3> QED BY <1>15, <3>2, <3>5
  <2> QED BY <2>1, <2>2
<1>16. text = x.text \/ rows[1] = x => result[1] = x
  BY <1>14, <1>15
<1> QED BY <1>13, <1>16 DEF x, result

\* Preferences that are promoted keep the rows and the order of the wholes.
LEMMA PromotedKeeps ==
  ASSUME NEW S, NEW rows \in Seq(S), NEW preferences, Len(preferences) \in Nat,
         NEW full, WholesFirst(rows, full), NEW x, Has(rows, x)
  PROVE  WholesFirst(Promoted(preferences, rows), full) /\ Has(Promoted(preferences, rows), x)
<1> DEFINE l == Len(preferences)
           T == {r \in Seq(S) : WholesFirst(r, full) /\ Has(r, x)}
<1>0. PICK iter : PromotedBy(iter, preferences, rows)
  BY PromotedUnfolds
<1>1. /\ Promoted(preferences, rows) = iter[1..l]
      /\ iter[{}] = rows
      /\ \A s \in SUBSET (1..l) : s # {} => iter[s] = Promote(iter[Before(s)], Reverse(preferences)[Max(s)])
  BY <1>0 DEF PromotedBy
<1>2. \A r \in T : \A text : Promote(r, text) \in T
  BY PromoteIn, PromoteKeeps
<1>3. rows \in T
  OBVIOUS
<1> HIDE DEF T
<1>4. \A s \in SUBSET (1..l) : s # {} /\ iter[Before(s)] \in T => iter[s] \in T
  BY <1>1, <1>2
<1>5. \A s \in SUBSET (1..l) : iter[s] \in T
  BY <1>1, <1>3, <1>4, FoldStays
<1> QED BY <1>1, <1>5 DEF T

\* The first whole of the base comes first when it is among what is put back.
LEMMA RestoredFirst ==
  ASSUME NEW S, TextsTell(S),
         NEW rows \in Seq(S), NEW base \in Seq(S), NEW full, WholesFirst(rows, full),
         NEW p, FirstWhole(base, full, p), Has(rows, base[p]),
         NEW texts, Len(texts) \in Nat, DOMAIN texts = 1..Len(texts), base[p].text \in ToSet(texts)
  PROVE  Has(Restored(texts, base, rows), base[p]) /\ Restored(texts, base, rows)[1] = base[p]
<1> DEFINE l == Len(texts)
           x == base[p]
           Whole(r) == WholesFirst(r, full) /\ Has(r, x)
<1>0. PICK iter : RestoredBy(iter, texts, base, rows)
  BY RestoredUnfolds
<1>1. /\ Restored(texts, base, rows) = iter[1..l]
      /\ iter[{}] = rows
      /\ \A s \in SUBSET (1..l) : s # {} => iter[s] = Restore(base, iter[Before(s)], texts[Max(s)])
  BY <1>0 DEF RestoredBy
<1>2. PICK k \in 1..l : texts[k] = x.text
  BY DEF ToSet
<1>3. ASSUME NEW r \in Seq(S), Whole(r), NEW text
      PROVE  LET q == Restore(base, r, text)
             IN q \in Seq(S) /\ Whole(q) /\ (text = x.text \/ r[1] = x => q[1] = x)
  <2> DEFINE q == Restore(base, r, text)
  <2>1. q \in Seq(S)
    BY RestoreIn
  <2>2. WholesFirst(r, full) /\ Has(r, base[p])
    BY <1>3
  <2>3. /\ WholesFirst(q, full) /\ Has(q, base[p])
        /\ text = base[p].text \/ r[1] = base[p] => q[1] = base[p]
    BY <2>2, RestoreKeeps
  <2> QED BY <2>1, <2>3
<1>4. /\ rows \in Seq(S) /\ Whole(rows)
      /\ \A r : Whole(r) => Has(r, x)
  OBVIOUS
<1> HIDE DEF Whole, x
<1> DEFINE P(s) == iter[s] \in Seq(S) /\ Whole(iter[s]) /\ (k \in s => iter[s][1] = x)
           f == [s \in SUBSET (1..l) |-> IF P(s) THEN 0 ELSE 1]
<1>5. P({})
  BY <1>1, <1>4
<1>6. ASSUME NEW s \in SUBSET (1..l), s # {}, P(Before(s)) PROVE P(s)
  <2> DEFINE r == iter[Before(s)]
             text == texts[Max(s)]
             q == Restore(base, r, text)
  <2>1. Before(s) = s \ {Max(s)}
    BY DEF Before
  <2>2. r \in Seq(S) /\ Whole(r) /\ (k \in Before(s) => r[1] = x)
    BY <1>6
  <2>3. iter[s] = q
    BY <1>1, <1>6
  <2> HIDE DEF r
  <2>4. q \in Seq(S) /\ Whole(q) /\ (text = x.text \/ r[1] = x => q[1] = x)
    BY <1>3, <2>2
  <2>5. k \in s => text = x.text \/ k \in Before(s)
    BY <1>2, <2>1
  <2> HIDE DEF q, text
  <2> QED BY <2>2, <2>3, <2>4, <2>5
<1> HIDE DEF P
<1>7. f[{}] \in {0}
  BY <1>5
<1>8. ASSUME NEW s \in SUBSET (1..l), s # {}, f[Before(s)] \in {0} PROVE f[s] \in {0}
  <2>1. Before(s) \in SUBSET (1..l)
    BY DEF Before
  <2> QED BY <1>6, <1>8, <2>1
<1>9. \A s \in SUBSET (1..l) : f[s] \in {0}
  <2> DEFINE T == {0}
  <2>1. f[{}] \in T /\ \A s \in SUBSET (1..l) : s # {} /\ f[Before(s)] \in T => f[s] \in T
    BY <1>7, <1>8
  <2> HIDE DEF f, T
  <2>2. \A s \in SUBSET (1..l) : f[s] \in T
    BY <2>1, FoldStays
  <2> QED BY <2>2 DEF T
<1>10. P(1..l)
  <2>1. f[1..l] \in {0}
    BY <1>9
  <2> QED BY <2>1
<1> QED BY <1>1, <1>2, <1>4, <1>10 DEF P, x

\* The greatest of one, a number and perhaps two is a number, and one at least.
LEMMA MaxOfSome ==
  ASSUME NEW n \in Nat, NEW both \in BOOLEAN
  PROVE  Max({1, n} \cup (IF both THEN {2} ELSE {})) \in Nat /\ Max({1, n} \cup (IF both THEN {2} ELSE {})) >= 1
<1> DEFINE T == {1, n} \cup (IF both THEN {2} ELSE {})
<1>1. T \subseteq Nat /\ 1 \in T /\ \A x \in T : x = 1 \/ x = n \/ x = 2
  OBVIOUS
<1>2. \E x \in T : \A y \in T : x >= y
  <2>1. CASE n >= 2
    <3>1. n \in T /\ \A y \in T : n >= y
      BY <1>1, <2>1
    <3> QED BY <3>1
  <2>2. CASE ~ (n >= 2) /\ both
    <3>1. 2 \in T /\ \A y \in T : 2 >= y
      BY <1>1, <2>2
    <3> QED BY <3>1
  <2>3. CASE ~ (n >= 2) /\ ~both
    <3>1. T = {1, n}
      BY <2>3
    <3>2. 1 \in T /\ \A y \in T : 1 >= y
      BY <2>3, <3>1
    <3> QED BY <3>2
  <2> QED BY <2>1, <2>2, <2>3
<1> HIDE DEF T
<1>3. Max(T) \in T /\ \A y \in T : Max(T) >= y
  BY <1>2 DEF Max
<1>4. Max(T) \in Nat /\ Max(T) >= 1
  BY <1>1, <1>3
<1> QED BY <1>4 DEF T

\* The first of a sequence stays when only so many wholes are kept.
LEMMA WithWholesKeepsFirst ==
  ASSUME NEW S, NEW rows \in Seq(S), rows # <<>>, NEW full, NEW n \in Nat, n >= 1
  PROVE  WithWholes(rows, full, n) \in Seq(S) /\ WithWholes(rows, full, n)[1] = rows[1]
<1> DEFINE W == Wholes(rows, full)
           places == {i \in DOMAIN rows : i \in W => Cardinality({j \in W : j <= i}) <= n}
<1>1. DOMAIN rows = 1..Len(rows) /\ Len(rows) \in Nat /\ Len(rows) # 0
  BY LenProperties, EmptySeq
<1>2. W \subseteq 1..Len(rows)
  BY <1>1 DEF Wholes
<1>3. WithWholes(rows, full, n) = Those(rows, places)
  BY DEF WithWholes
<1> HIDE DEF W
<1>4. 1 \in W => {j \in W : j <= 1} = {1}
  <2>1. \A j \in W : j \in Int /\ j >= 1
    BY <1>1, <1>2
  <2> QED BY <2>1
<1>5. 1 \in places
  <2>1. Cardinality({1}) = 1
    BY FS_Singleton
  <2>2. 1 \in W => Cardinality({j \in W : j <= 1}) <= n
    BY <1>4, <2>1
  <2>3. 1 \in DOMAIN rows
    BY <1>1
  <2> QED BY <2>2, <2>3
<1>6. places \in SUBSET DOMAIN rows
  OBVIOUS
<1> HIDE DEF places
<1>7. Those(rows, places) \in Seq(S)
  BY <1>6, ThoseAre
<1>8. Place(places, 1) \in places /\ Place(places, 1) <= 1 /\ Those(rows, places)[1] = rows[Place(places, 1)]
  BY <1>5, <1>6, FirstPlace
<1>9. Place(places, 1) = 1
  <2> DEFINE y == Place(places, 1)
  <2>1. y \in 1..Len(rows) /\ y <= 1
    BY <1>1, <1>6, <1>8
  <2> HIDE DEF y
  <2>2. y = 1
    BY <1>1, <2>1
  <2> QED BY <2>2 DEF y
<1> QED BY <1>3, <1>7, <1>8, <1>9

\* A learned first whole is the first of the update.
LEMMA UpdatedFirst ==
  ASSUME NEW S, \A r \in S : r.used \in Int, TextsTell(S),
         NEW e, e.rows \in Seq(S), e.visible \in Nat,
         Len(e.contextual) \in Nat, Len(e.learned) \in Nat, DOMAIN e.learned = 1..Len(e.learned),
         NEW model, Len(model) \in Nat, DOMAIN model = 1..Len(model),
         NEW p, FirstWhole(e.rows, e.full, p), e.rows[p].text \in ToSet(e.learned),
         Updated(model, e) # <<>>
  PROVE  Updated(model, e)[1] = e.rows[p]
<1> DEFINE x == e.rows[p]
           ordered == ModelOrder(model, e.full, e.rows)
           promoted == Promoted(e.contextual, ordered)
           restored == Restored(e.learned, e.rows, promoted)
           wholes == Those(restored, Wholes(restored, e.full))
           preferred == Those(ordered, Wholes(ordered, e.full))
           conflict == preferred # <<>> /\ wholes[1].text # preferred[1].text
           shown == Cardinality({i \in Wholes(e.rows, e.full) : i <= e.visible})
           m == Max({1, shown} \cup (IF conflict THEN {2} ELSE {}))
           kept == WithWholes(restored, e.full, m)
           n == Min({e.visible, Len(kept)})
<1>1. Updated(model, e) = SubSeq(kept, 1, n)
  BY DEF Updated
<1>2. shown \in Nat
  <2> DEFINE places == {i \in Wholes(e.rows, e.full) : i <= e.visible}
  <2>1. places \in SUBSET DOMAIN e.rows
    BY DEF Wholes
  <2> HIDE DEF places
  <2>2. Cardinality(places) \in Nat
    BY <2>1, SomePlaces
  <2> QED BY <2>2 DEF places
<1>3. Has(e.rows, x)
  BY DEF Has, FirstWhole
<1>4. ordered \in Seq(S) /\ WholesFirst(ordered, e.full) /\ Has(ordered, x)
  <2> HIDE DEF x
  <2>1. ordered \in Seq(S)
    BY OrderedByModel
  <2>2. WholesFirst(ordered, e.full) /\ \A r : Has(e.rows, r) => Has(ordered, r)
    BY ModelKeepsWholes
  <2> QED BY <1>3, <2>1, <2>2
<1> HIDE DEF conflict, shown, ordered
<1>5. promoted \in Seq(S) /\ WholesFirst(promoted, e.full) /\ Has(promoted, x)
  <2> HIDE DEF x
  <2> QED BY <1>4, PromotedIn, PromotedKeeps
<1> HIDE DEF promoted
<1>6. restored \in Seq(S) /\ Has(restored, x) /\ restored[1] = x
  <2>1. restored \in Seq(S)
    BY <1>5, RestoredIn
  <2>2. Has(restored, x) /\ restored[1] = x
    BY <1>5, RestoredFirst
  <2> QED BY <2>1, <2>2
<1> HIDE DEF restored, x
<1>7. restored # <<>>
  <2>1. DOMAIN <<>> = {}
    OBVIOUS
  <2> QED BY <1>6, <2>1 DEF Has
<1>8. m \in Nat /\ m >= 1
  <2>1. conflict \in BOOLEAN
    BY DEF conflict
  <2> QED BY <1>2, <2>1, MaxOfSome
<1> HIDE DEF m
<1>9. kept \in Seq(S) /\ kept[1] = x
  BY <1>6, <1>7, <1>8, WithWholesKeepsFirst
<1> HIDE DEF kept
<1>10. Len(kept) \in Nat /\ \A i \in 1..Len(kept) : kept[i] \in S
  BY <1>9, LenProperties, ElementOfSeq
<1>11. n \in {e.visible, Len(kept)} /\ n <= Len(kept)
  <2> DEFINE a == e.visible
             b == Len(kept)
  <2>1. a \in Int /\ b \in Int
    BY <1>10
  <2> HIDE DEF a, b
  <2>2. Min({a, b}) \in {a, b} /\ Min({a, b}) <= b
    BY <2>1, MinOfTwo
  <2> QED BY <2>2 DEF a, b
<1> HIDE DEF n
<1>12. n \in Nat /\ \A i \in 1..n : kept[i] \in S
  BY <1>10, <1>11
<1>13. /\ SubSeq(kept, 1, n) \in Seq(S) /\ Len(SubSeq(kept, 1, n)) = IF 1 <= n THEN n - 1 + 1 ELSE 0
       /\ \A i \in 1..n - 1 + 1 : SubSeq(kept, 1, n)[i] = kept[1 + i - 1]
  BY <1>12, SubSeqProperties
<1>14. n >= 1
  <2>1. Len(SubSeq(kept, 1, n)) # 0
    BY <1>1, <1>13, EmptySeq
  <2> QED BY <1>12, <1>13, <2>1
<1>15. SubSeq(kept, 1, n)[1] = kept[1]
  BY <1>12, <1>13, <1>14
<1> QED BY <1>1, <1>9, <1>15 DEF x

---------------------------------------------------------------------------
(* What Core makes of an input: rows, a page of them, two texts at most *)

\* How often a text was learned is a number, and so is the weight of a row.
LEMMA CountsAreNumbers ==
  ASSUME NEW S, NEW known \in Seq(S), NEW text
  PROVE  CountIn(known, text) \in Nat
<1> DEFINE places == {i \in DOMAIN known : known[i] = text}
<1>1. places \in SUBSET DOMAIN known
  OBVIOUS
<1>2. CountIn(known, text) = Cardinality(places)
  BY DEF CountIn
<1> HIDE DEF places
<1> QED BY <1>1, <1>2, SomePlaces

\* Rows are ordered by numbers.
LEMMA WeightsAreNumbers ==
  ASSUME NEW known \in Seq(Texts), NEW row \in AllRows, NEW config \in Config
  PROVE  row.used \in Int /\ Weight(row, known, config) \in Int
<1>1. CountIn(known, row.text) \in Int
  BY CountsAreNumbers
<1>2. row.used \in Int /\ row.weight \in Int /\ config.sensitivity \in Int
  BY ServerConstants
<1>3. config.sensitivity * CountIn(known, row.text) \in Int
  BY <1>1, <1>2
<1> QED BY <1>2, <1>3 DEF Weight

\* The two first texts of something that has n places.
LEMMA FirstTexts ==
  ASSUME NEW n \in Nat, NEW f, DOMAIN f = 1..n
  PROVE  LET two == SubSeq(TextsIn(f), 1, Min({2, Len(TextsIn(f))}))
         IN Len(two) \in Nat /\ DOMAIN two = 1..Len(two)
<1> DEFINE texts == TextsIn(f)
           S == {f[i].text : i \in 1..n}
<1>1. texts = [i \in 1..n |-> f[i].text]
  BY DEF TextsIn
<1>2. texts \in Seq(S)
  BY <1>1
<1> HIDE DEF texts, S
<1>3. 2 \in Int
  OBVIOUS
<1>4. SubSeq(texts, 1, Min({2, Len(texts)})) \in Seq(S)
  BY <1>2, <1>3, FirstFew
<1>5. Len(SubSeq(texts, 1, Min({2, Len(texts)}))) \in Nat
      /\ DOMAIN SubSeq(texts, 1, Min({2, Len(texts)})) = 1..Len(SubSeq(texts, 1, Min({2, Len(texts)})))
  BY <1>4, LenProperties
<1> QED BY <1>5 DEF texts

\* What the context prefers and what was learned most are two texts at most.
LEMMA PreferencesAreTexts ==
  ASSUME NEW ask, NEW S, NEW rows \in Seq(S)
  PROVE  Len(Preferences(ask, rows)) \in Nat /\ DOMAIN Preferences(ask, rows) = 1..Len(Preferences(ask, rows))
<1> DEFINE places == {i \in DOMAIN rows : ~Hidden(ask.text, rows[i]) /\ rows[i].text \in DOMAIN Joined}
           joined == Those(rows, places)
           Better(r, q) ==
             \/ Joined[r.text].syllables > Joined[q.text].syllables
             \/ /\ Joined[r.text].syllables = Joined[q.text].syllables
                /\ Joined[r.text].frequency > Joined[q.text].frequency
           f == StableSort(joined, Better)
<1>1. places \in SUBSET DOMAIN rows
  OBVIOUS
<1>2. Preferences(ask, rows) = SubSeq(TextsIn(f), 1, Min({2, Len(TextsIn(f))}))
  BY DEF Preferences
<1> HIDE DEF places
<1>3. joined \in Seq(S)
  BY <1>1, ThoseAre
<1> HIDE DEF joined, Better
<1>4. DOMAIN f = DOMAIN joined
  BY DEF StableSort
<1> HIDE DEF f
<1>5. Len(joined) \in Nat /\ DOMAIN f = 1..Len(joined)
  BY <1>3, <1>4, LenProperties
<1> QED BY <1>2, <1>5, FirstTexts

\* What was learned most of a page are texts.
LEMMA LearnedAreTexts ==
  ASSUME NEW S, NEW page \in Seq(S)
  PROVE  Len(LearnedIn(page)) \in Nat /\ DOMAIN LearnedIn(page) = 1..Len(LearnedIn(page))
<1> DEFINE places == {i \in DOMAIN page : CountOf(page[i].text) > 0}
           learnt == Those(page, places)
           More(r, q) == CountOf(r.text) > CountOf(q.text)
           f == StableSort(learnt, More)
<1>1. places \in SUBSET DOMAIN page
  OBVIOUS
<1>2. LearnedIn(page) = SubSeq(TextsIn(f), 1, Min({2, Len(TextsIn(f))}))
  BY DEF LearnedIn
<1> HIDE DEF places
<1>3. learnt \in Seq(S)
  BY <1>1, ThoseAre
<1> HIDE DEF learnt, More
<1>4. DOMAIN f = DOMAIN learnt
  BY DEF StableSort
<1> HIDE DEF f
<1>5. Len(learnt) \in Nat /\ DOMAIN f = 1..Len(learnt)
  BY <1>3, <1>4, LenProperties
<1> QED BY <1>2, <1>5, FirstTexts

\* The hidden rows are rows, and hidden, and the first page's.
LEMMA HiddenInIs ==
  ASSUME NEW ask, NEW S, NEW rows \in Seq(S)
  PROVE  /\ HiddenIn(ask, rows) \in Seq(S)
         /\ \A r \in ToSet(HiddenIn(ask, rows)) : ask.page = 0 /\ Hidden(ask.text, r)
<1> DEFINE places == {i \in DOMAIN rows : Hidden(ask.text, rows[i])}
           those == Those(rows, places)
<1>1. places \in SUBSET DOMAIN rows /\ \A i \in places : Hidden(ask.text, rows[i])
  OBVIOUS
<1> HIDE DEF places
<1>2. those \in Seq(S) /\ \A k \in DOMAIN those : \E i \in places : those[k] = rows[i]
  BY <1>1, ThoseAre
<1> HIDE DEF those
<1>3. \A r \in ToSet(those) : Hidden(ask.text, r)
  BY <1>1, <1>2 DEF ToSet
<1>4. HiddenIn(ask, rows) = IF ask.page = 0 THEN those ELSE <<>>
  BY DEF HiddenIn, those, places
<1>5. ToSet(<<>>) = {} /\ <<>> \in Seq(S)
  BY EmptySeq DEF ToSet
<1> QED BY <1>2, <1>3, <1>4, <1>5

\* A page is some of the rows.
LEMMA SizesAreNumbers ==
  ASSUME NEW ask, ask.page \in Nat
  PROVE  First(ask) \in Nat /\ Size(ask) \in Nat
<1>1. PageSize \in Nat /\ ExpandedPages \in Nat
  BY ServerConstants
<1>2. PageSize * ExpandedPages \in Nat /\ ask.page * PageSize \in Nat
  BY <1>1
<1> QED BY <1>1, <1>2 DEF First, Size

\* A page has rows of those it is taken from.
LEMMA PageIn ==
  ASSUME NEW ask, ask.page \in Nat, NEW S, NEW rows \in Seq(S)
  PROVE  Page(ask, rows) \in Seq(S)
<1> DEFINE places == {i \in DOMAIN rows : ~Hidden(ask.text, rows[i])}
           visible == Those(rows, places)
<1>1. places \in SUBSET DOMAIN rows
  OBVIOUS
<1>2. Page(ask, rows) = SubSeq(visible, First(ask) + 1, Min({Len(visible), First(ask) + Size(ask)}))
  BY DEF Page
<1> HIDE DEF places
<1>3. visible \in Seq(S)
  BY <1>1, ThoseAre
<1> HIDE DEF visible
<1>4. First(ask) \in Nat /\ First(ask) + Size(ask) \in Int
  BY SizesAreNumbers
<1> QED BY <1>2, <1>3, <1>4, Middle

\* The rows of an input are rows, and no two have the same text.
LEMMA RowsOfInput ==
  ASSUME NEW text \in DOMAIN Dictionary
  PROVE  /\ RowsOf(text) \subseteq AllRows /\ TextsTell(RowsOf(text))
         /\ Dictionary[text].shown \in Seq(RowsOf(text)) /\ Dictionary[text].hidden \in Seq(RowsOf(text))
<1>1. RowsOf(text) \subseteq AllRows
  BY DEF AllRows
<1>2. \A r, q \in RowsOf(text) : r.text = q.text => r = q
  BY ServerConstants
<1>3. {Dictionary[text].shown, Dictionary[text].hidden} \subseteq Seq(RowsOf(text))
  BY ServerConstants
<1> QED BY <1>1, <1>2, <1>3 DEF TextsTell

\* What the engine makes of an input are rows.
LEMMA GeneratedIn ==
  ASSUME NEW known \in Seq(Texts), NEW limit \in Int, NEW text \in DOMAIN Dictionary, NEW config \in Config
  PROVE  GeneratedWith(known, limit, text, config) \in Seq(RowsOf(text))
<1> DEFINE s == Dictionary[text].shown
           hidden == Dictionary[text].hidden
           D == DOMAIN s
           u == [i \in D |-> s[i].used]
           w == [i \in D |-> Weight(s[i], known, config)]
           Less(r, q) == r.used > q.used
                         \/ (r.used = q.used /\ Weight(r, known, config) > Weight(q, known, config))
           L == {p \in D \X D : Less(s[p[1]], s[p[2]])}
           before(i) == {j \in D : Less(s[j], s[i]) \/ (j < i /\ ~Less(s[i], s[j]))}
           P(i, k) == Cardinality(before(i)) = k - 1
           c == [k \in D |-> CHOOSE i \in D : P(i, k)]
           shown == StableSort(s, Less)
<1>0. s \in Seq(RowsOf(text)) /\ hidden \in Seq(RowsOf(text)) /\ RowsOf(text) \subseteq AllRows
  BY RowsOfInput
<1>1. GeneratedWith(known, limit, text, config) =
        SubSeq(shown, 1, Min({limit, Len(shown)})) \o (IF config.ranking THEN hidden ELSE <<>>)
  BY DEF GeneratedWith
<1> HIDE DEF s, hidden
<1>2. \A i \in D : s[i] \in AllRows
  BY <1>0, ElementOfSeq, LenProperties
<1>3. u \in [D -> Int] /\ w \in [D -> Int]
  <2>1. ASSUME NEW i \in D PROVE s[i].used \in Int /\ Weight(s[i], known, config) \in Int
    BY <1>2, WeightsAreNumbers
  <2> HIDE DEF D
  <2> QED BY <2>1
<1>4. \A i, j \in D : <<i, j>> \in L <=> Less(s[i], s[j])
  <2> HIDE DEF Less
  <2> QED OBVIOUS
<1>5. Weighed(D, u, w, L)
  <2> SUFFICES ASSUME NEW i \in D, NEW j \in D
               PROVE  <<i, j>> \in L <=> u[i] > u[j] \/ (u[i] = u[j] /\ w[i] > w[j])
    BY DEF Weighed
  <2>1. /\ u[i] = s[i].used /\ w[i] = Weight(s[i], known, config)
        /\ u[j] = s[j].used /\ w[j] = Weight(s[j], known, config)
    OBVIOUS
  <2>2. <<i, j>> \in L <=> Less(s[i], s[j])
    BY <1>4
  <2> HIDE DEF L, u, w
  <2> QED BY <2>1, <2>2
<1> HIDE DEF L
<1>6. Weak(D, L)
  <2> HIDE DEF D, u, w
  <2> QED BY <1>3, <1>5, WeightsAreWeak
<1>7. \A i \in D : before(i) = {j \in D : <<j, i>> \in L \/ (j < i /\ <<i, j>> \notin L)}
  <2> HIDE DEF Less
  <2> QED BY <1>4
<1> HIDE DEF before
<1>8. \A k \in D : \E i \in D : P(i, k)
  <2>1. EachPlace(D, L)
    BY <1>0, <1>6, PlacesFilled
  <2> HIDE DEF D
  <2> QED BY <1>7, <2>1 DEF EachPlace, PlaceOf
<1> HIDE DEF P
<1>9. \A k \in D : (CHOOSE i \in D : P(i, k)) \in D
  BY <1>8
<1>10. c \in [D -> D] /\ \A k \in D : c[k] = CHOOSE i \in D : P(i, k)
  BY <1>9
<1>11. shown = [k \in D |-> s[CHOOSE i \in D : P(i, k)]]
  BY DEF StableSort, P, before
<1> HIDE DEF c, shown
<1>12. shown = [k \in D |-> s[c[k]]]
  <2> HIDE DEF D
  <2>1. \A k \in D : s[c[k]] = s[CHOOSE i \in D : P(i, k)]
    BY <1>10
  <2>2. [k \in D |-> s[c[k]]] = [k \in D |-> s[CHOOSE i \in D : P(i, k)]]
    BY <2>1
  <2> QED BY <1>11, <2>2
<1>13. shown \in Seq(RowsOf(text))
  BY <1>0, <1>10, <1>12, Picked
<1>14. SubSeq(shown, 1, Min({limit, Len(shown)})) \in Seq(RowsOf(text))
  BY <1>13, FirstFew
<1>15. (IF config.ranking THEN hidden ELSE <<>>) \in Seq(RowsOf(text))
  BY <1>0, EmptySeq
<1> QED BY <1>1, <1>14, <1>15, ConcatProperties

\* A request has a limit.
LEMMA LimitIsNumber ==
  ASSUME NEW ask, ask.page \in Nat, NEW config
  PROVE  Limit(ask, config) \in Int
<1> DEFINE n == First(ask) + Size(ask) + 1
           T == {n} \cup (IF Contextual(ask, config) THEN {RankedLimit} ELSE {})
<1>1. n \in Nat /\ RankedLimit \in Nat
  BY SizesAreNumbers, ServerConstants
<1> HIDE DEF n
<1>2. \E x \in T : \A y \in T : x >= y
  <2>1. CASE RankedLimit > n
    BY <1>1, <2>1
  <2>2. CASE ~ (RankedLimit > n)
    BY <1>1, <2>2
  <2> QED BY <2>1, <2>2
<1>3. Max(T) \in T
  BY <1>2 DEF Max
<1>4. Max(T) \in Int
  BY <1>1, <1>3
<1> QED BY <1>4 DEF Limit, n

\* The rows in context are rows, some of which the page has.
LEMMA PageInContext ==
  ASSUME NEW ask, ask.page \in Nat, NEW config, NEW S, NEW rows \in Seq(S)
  PROVE  Page(ask, InContext(ask, config, rows)) \in Seq(S)
<1>1. Len(Preferences(ask, rows)) \in Nat
  BY PreferencesAreTexts
<1>2. Promoted(Preferences(ask, rows), rows) \in Seq(S)
  BY <1>1, PromotedIn
<1>3. InContext(ask, config, rows) \in Seq(S)
  BY <1>2 DEF InContext
<1> QED BY <1>3, PageIn

---------------------------------------------------------------------------
(* An update is of the request that it updates *)

\* What the model has of a request.
Entry(e) ==
  /\ e = [id |-> e.id, rows |-> e.rows, visible |-> e.visible, full |-> e.full,
          contextual |-> e.contextual, learned |-> e.learned, result |-> e.result]
  /\ e.result \in ModelOrders \cup {Waiting, Failed}

\* An entry that was made with a page of candidates: it has their rows and
\* hidden ones after them, and shows as many.
MadeWith(e, ask, base) ==
  /\ ask.text \in DOMAIN Dictionary /\ e.full = Dictionary[ask.text].size
  /\ e.rows \in Seq(RowsOf(ask.text)) /\ e.visible = Len(base.rows)
  /\ Len(e.contextual) \in Nat
  /\ e.learned = base.learned /\ Len(e.learned) \in Nat /\ DOMAIN e.learned = 1..Len(e.learned)
  /\ \A r \in ToSet(e.rows) : r \in ToSet(base.rows) \/ (ask.page = 0 /\ Hidden(ask.text, r))
  /\ \E hidden \in Seq(AllRows) : e.rows = base.rows \o hidden

\* What an update is of the candidates that it updates: some of their rows, or
\* hidden ones, and the learned sentence first if it was.
RowsStay(rows, ask, base) ==
  /\ Len(rows) <= Len(base.rows)
  /\ \A r \in ToSet(rows) : r \in ToSet(base.rows) \/ (ask.page = 0 /\ Hidden(ask.text, r))
LearnedStays(rows, ask, base) ==
  LET Whole(some) == Those(some, Wholes(some, Dictionary[ask.text].size))
      before == Whole(base.rows)
      after == Whole(rows)
  IN rows # <<>> /\ before # <<>> /\ before[1].text \in ToSet(base.learned) =>
       after # <<>> /\ after[1] = before[1]
Updates(rows, ask, base) == RowsStay(rows, ask, base) /\ LearnedStays(rows, ask, base)

\* Candidates of a worker, which the entry of its number was made with if there is one.
Based(w, base, entries) ==
  /\ base.rows \in Seq(AllRows)
  /\ \A e \in entries : e.id = w.id => MadeWith(e, w.ask, base)

\* A worker a that the pipe links to Core: while it waits with candidates for
\* the update of them, nobody else has the connection.
Linked(a, w, connection, served, entries) ==
  /\ w.pc = "ask" => w.ask.type \in {"rows", "commit"}
  /\ connection = a /\ served # None => served.id = w.id /\ (served.ask.type = "update" <=> w.pc = "poll")
  /\ w.pc \in {"shown", "poll"} /\ w.tries = 1 => connection = a /\ Based(w, w.base, entries)
  /\ connection = a /\ w.pc = "told" /\ w.reply.type = "rows" /\ w.reply.pending => Based(w, w.reply, entries)
  /\ w.pc = "told" /\ w.reply.type = "update" /\ w.tries = 1 => Updates(w.reply.rows, w.ask, w.base)

Linking ==
  /\ \A e \in entry : Entry(e)
  /\ \A c \in ToSet(cache) : c.rows \in Seq(RowsOf(c.key.text))
  /\ \A a \in Apps : Linked(a, app[a], conn, server, entry)

\* Fewer entries, or the same with an answer of the model.
Same(e, f) ==
  /\ e.id = f.id /\ e.rows = f.rows /\ e.visible = f.visible /\ e.full = f.full
  /\ e.contextual = f.contextual /\ e.learned = f.learned
\* An entry that stays was made with what it was made with.
LEMMA BasedKept ==
  ASSUME NEW w, NEW base, NEW entries, Based(w, base, entries),
         NEW later, \A f \in later : \E e \in entries : Same(e, f)
  PROVE  Based(w, base, later)
<1>1. ASSUME NEW f \in later, f.id = w.id PROVE MadeWith(f, w.ask, base)
  <2>1. PICK e \in entries : Same(e, f)
    OBVIOUS
  <2>2. MadeWith(e, w.ask, base)
    BY <1>1, <2>1 DEF Based, Same
  <2> QED BY <2>1, <2>2 DEF MadeWith, Same
<1> QED BY <1>1 DEF Based

\* A worker keeps its link when entries go or get an answer, or a request is done.
LEMMA LinkedKept ==
  ASSUME NEW a, NEW w, NEW connection, NEW served, NEW entries, Linked(a, w, connection, served, entries),
         NEW later, \A f \in later : \E e \in entries : Same(e, f),
         NEW next, next \in {served, None}
  PROVE  Linked(a, w, connection, next, later)
<1>1. \A base : Based(w, base, entries) => Based(w, base, later)
  BY BasedKept
<1> QED BY <1>1 DEF Linked

\* A worker that keeps to itself does not care what the pipe serves.
LEMMA LinkedApart ==
  ASSUME NEW a, NEW w, NEW connection, NEW served, NEW entries, Linked(a, w, connection, served, entries),
         connection # a, NEW other, other # a, NEW next, NEW later
  PROVE  Linked(a, w, other, next, later)
BY DEF Linked

\* A worker that rests or begins.
LEMMA LinkedFresh ==
  ASSUME NEW a, NEW w, w.pc = "idle" \/ (w.pc = "ask" /\ w.ask.type \in {"rows", "commit"}),
         NEW connection, NEW served, connection # a \/ served = None, NEW entries
  PROVE  Linked(a, w, connection, served, entries)
BY DEF Linked

\* The worker that gets an answer.
LEMMA ToldWorker ==
  ASSUME NEW w, Worker(w), NEW reply
  PROVE  LET x == [w EXCEPT !.pc = "told", !.reply = reply]
         IN /\ x.pc = "told" /\ x.reply = reply
            /\ x.id = w.id /\ x.ask = w.ask /\ x.tries = w.tries /\ x.base = w.base
<1> DEFINE v == [w EXCEPT !.pc = "told"]
           x == [v EXCEPT !.reply = reply]
<1>1. v = [pc |-> "told", id |-> w.id, ask |-> w.ask, tries |-> w.tries, base |-> w.base, reply |-> w.reply]
  BY DEF Worker
<1> HIDE DEF v
<1>2. x = [pc |-> "told", id |-> w.id, ask |-> w.ask, tries |-> w.tries, base |-> w.base, reply |-> reply]
  BY <1>1
<1> HIDE DEF x
<1>3. /\ x.pc = "told" /\ x.reply = reply
      /\ x.id = w.id /\ x.ask = w.ask /\ x.tries = w.tries /\ x.base = w.base
  BY <1>2
<1> QED BY <1>3 DEF x, v

\* The worker that has heard the candidates.
LEMMA HeardWorker ==
  ASSUME NEW w, Worker(w), NEW n
  PROVE  LET x == [w EXCEPT !.pc = "shown", !.base = w.reply, !.reply = None, !.tries = n]
         IN x.pc = "shown" /\ x.base = w.reply /\ x.tries = n /\ x.id = w.id /\ x.ask = w.ask
<1> DEFINE u == [w EXCEPT !.pc = "shown"]
           v == [u EXCEPT !.base = w.reply]
           y == [v EXCEPT !.reply = None]
           x == [y EXCEPT !.tries = n]
<1>1. u = [pc |-> "shown", id |-> w.id, ask |-> w.ask, tries |-> w.tries, base |-> w.base, reply |-> w.reply]
  BY DEF Worker
<1> HIDE DEF u
<1>2. v = [pc |-> "shown", id |-> w.id, ask |-> w.ask, tries |-> w.tries, base |-> w.reply, reply |-> w.reply]
  BY <1>1
<1> HIDE DEF v
<1>3. y = [pc |-> "shown", id |-> w.id, ask |-> w.ask, tries |-> w.tries, base |-> w.reply, reply |-> None]
  BY <1>2
<1> HIDE DEF y
<1>4. x = [pc |-> "shown", id |-> w.id, ask |-> w.ask, tries |-> n, base |-> w.reply, reply |-> None]
  BY <1>3
<1> HIDE DEF x
<1>5. x.pc = "shown" /\ x.base = w.reply /\ x.tries = n /\ x.id = w.id /\ x.ask = w.ask
  BY <1>4
<1> QED BY <1>5 DEF x, y, v, u

\* The worker that asks for the update.
LEMMA PollingWorker ==
  ASSUME NEW w, Worker(w)
  PROVE  LET x == [w EXCEPT !.pc = "poll"]
         IN x.pc = "poll" /\ x.id = w.id /\ x.ask = w.ask /\ x.tries = w.tries /\ x.base = w.base
<1> DEFINE x == [w EXCEPT !.pc = "poll"]
<1>1. x = [pc |-> "poll", id |-> w.id, ask |-> w.ask, tries |-> w.tries, base |-> w.base, reply |-> w.reply]
  BY DEF Worker
<1> HIDE DEF x
<1>2. x.pc = "poll" /\ x.id = w.id /\ x.ask = w.ask /\ x.tries = w.tries /\ x.base = w.base
  BY <1>1
<1> QED BY <1>2 DEF x

\* An answer changes the connected worker only.
LEMMA AnswerReaches ==
  ASSUME AppsKnown, NEW reply, Deliver(reply), NEW a \in Apps
  PROVE  /\ conn # a => app'[a] = app[a]
         /\ conn = a =>
              /\ app'[a].pc = "told" /\ app'[a].reply = reply
              /\ app'[a].id = app[a].id /\ app'[a].ask = app[a].ask
              /\ app'[a].tries = app[a].tries /\ app'[a].base = app[a].base
<1>1. CASE conn # a
  BY <1>1 DEF Deliver, AppsKnown
<1>2. CASE conn = a
  <2>1. conn # "closed"
    BY <1>2, ServerConstants
  <2>2. app'[a] = [app[a] EXCEPT !.pc = "told", !.reply = reply]
    BY <1>2, <2>1 DEF Deliver, AppsKnown
  <2>3. Worker(app[a])
    BY DEF AppsKnown
  <2> QED BY <1>2, <2>2, <2>3, ToldWorker
<1> QED BY <1>1, <1>2

\* The entry that a request submits was made with its page.
LEMMA SubmitMakes ==
  ASSUME NEW ask, ask.text \in DOMAIN Dictionary,
         NEW rows \in Seq(RowsOf(ask.text)), NEW page \in Seq(RowsOf(ask.text)),
         NEW contextual, Len(contextual) \in Nat,
         NEW learnedHere, Len(learnedHere) \in Nat, DOMAIN learnedHere = 1..Len(learnedHere),
         Submit(ask, page, HiddenIn(ask, rows), contextual, learnedHere),
         NEW base, base.rows = page, base.learned = learnedHere
  PROVE  \A e \in entry' : Entry(e) /\ MadeWith(e, ask, base)
<1> DEFINE hidden == HiddenIn(ask, rows)
           both == page \o hidden
           n == Len(page)
           full == Dictionary[ask.text].size
           S == RowsOf(ask.text)
<1>1. /\ hidden \in Seq(S) /\ \A r \in ToSet(hidden) : ask.page = 0 /\ Hidden(ask.text, r)
      /\ page \in Seq(S)
  BY HiddenInIs
<1>2. entry' = {[id |-> server.id, rows |-> both, visible |-> n, full |-> full,
                   contextual |-> contextual, learned |-> learnedHere, result |-> Waiting]}
  BY DEF Submit
<1> HIDE DEF hidden, full, S
<1>3. both \in Seq(S) /\ n \in Nat
  BY <1>1, ConcatProperties, LenProperties
<1>4. \A r \in ToSet(both) : r \in ToSet(page) \/ r \in ToSet(hidden)
  <2> SUFFICES ASSUME NEW i \in DOMAIN both PROVE both[i] \in ToSet(page) \/ both[i] \in ToSet(hidden)
    BY DEF ToSet
  <2>1. /\ Len(both) = n + Len(hidden) /\ Len(hidden) \in Nat
        /\ \A j \in 1..n + Len(hidden) : both[j] = IF j <= n THEN page[j] ELSE hidden[j - n]
    BY <1>1, ConcatProperties, LenProperties
  <2>2. DOMAIN both = 1..Len(both) /\ DOMAIN page = 1..n /\ DOMAIN hidden = 1..Len(hidden)
    BY <1>1, <1>3, LenProperties
  <2> HIDE DEF both, n
  <2>3. i \in 1..n + Len(hidden)
    BY <2>1, <2>2
  <2>4. CASE i <= n
    <3>1. both[i] = page[i] /\ i \in DOMAIN page
      BY <1>3, <2>1, <2>2, <2>3, <2>4
    <3> QED BY <3>1 DEF ToSet
  <2>5. CASE ~ (i <= n)
    <3>1. both[i] = hidden[i - n] /\ i - n \in DOMAIN hidden
      BY <1>3, <2>1, <2>2, <2>3, <2>5
    <3> QED BY <3>1 DEF ToSet
  <2> QED BY <2>4, <2>5
<1>9. \E some \in Seq(AllRows) : both = page \o some
  <2>1. S \subseteq AllRows
    BY RowsOfInput DEF S
  <2>2. hidden \in Seq(AllRows)
    BY <1>1, <2>1, SeqMonotonic
  <2> QED BY <2>2
<1> HIDE DEF both, n
<1> SUFFICES ASSUME NEW e \in entry' PROVE Entry(e) /\ MadeWith(e, ask, base)
  OBVIOUS
<1>5. e = [id |-> server.id, rows |-> both, visible |-> n, full |-> full,
           contextual |-> contextual, learned |-> learnedHere, result |-> Waiting]
  BY <1>2
<1>6. /\ e.rows = both /\ e.visible = n /\ e.full = full /\ e.contextual = contextual
      /\ e.learned = learnedHere /\ e.result = Waiting
  BY <1>5
<1>7. Entry(e)
  BY <1>5 DEF Entry
<1>8. MadeWith(e, ask, base)
  BY <1>1, <1>3, <1>4, <1>6, <1>9 DEF MadeWith, n, full, S
<1> QED BY <1>7, <1>8

\* The candidates that Core answers with are rows, and so are those it caches;
\* an entry is made with them when they may be updated.
LEMMA RowsMade ==
  ASSUME ServerKnown, Serving, CacheFresh, LearningTypeOK, AnswerRows,
         \A c \in ToSet(cache) : c.rows \in Seq(RowsOf(c.key.text))
  PROVE  /\ \A c \in ToSet(cache') : c.rows \in Seq(RowsOf(c.key.text))
         /\ \E reply : /\ Deliver(reply) /\ reply.type = "rows" /\ reply.rows \in Seq(AllRows)
                       /\ \/ UNCHANGED entry /\ ~reply.pending
                          \/ \A e \in entry' : Entry(e) /\ MadeWith(e, server.ask, reply)
<1> DEFINE ask == server.ask
           config == server.config
           key == CacheKey(ask, config)
           found == {i \in DOMAIN cache : cache[i].key = key}
           place == CHOOSE i \in found : TRUE
           Put(rows, others) ==
             LET latest == <<[key |-> key, rows |-> rows]>> \o others
             IN SubSeq(latest, 1, Min({CacheSize, Len(latest)}))
           Sent(rows) == Page(ask, InContext(ask, config, rows))
           Rows(cut) == IF found # {} THEN cache[place].rows
                        ELSE IF cut = "early" THEN <<>> ELSE Generated(ask, config)
           Cached(cut) == cache' = IF found = {} /\ cut # "no" THEN cache
                                   ELSE Put(Rows(cut), IF found # {} THEN RemoveAt(cache, place) ELSE cache)
           Learnt(page) == IF config.learning THEN LearnedIn(page) ELSE <<>>
           InTheContext(rows) == IF Contextual(ask, config) THEN Preferences(ask, rows) ELSE <<>>
           Pending(page) == config.ranking /\ page # <<>>
           Reply(cut) == [type |-> "rows", rows |-> Sent(Rows(cut)), pending |-> Pending(Sent(Rows(cut))),
                          whole |-> found # {} \/ cut # "early",
                          learned |-> Learnt(Sent(Rows(cut)))]
           Submitted(cut) == IF Pending(Sent(Rows(cut)))
                             THEN Submit(ask, Sent(Rows(cut)), HiddenIn(ask, Rows(cut)), InTheContext(Rows(cut)),
                                         Learnt(Sent(Rows(cut))))
                             ELSE UNCHANGED <<entry, queued, running>>
<1>1. PICK cut \in {"no", "early", "late"} : Cached(cut) /\ Submitted(cut) /\ Deliver(Reply(cut))
  BY Zenon DEF AnswerRows
<1>2. config \in Config /\ ask.text \in DOMAIN Dictionary /\ ask.page \in Nat
  BY DEF AnswerRows, Handles, Serving, ServerKnown, Known
<1>3. counts \in Seq(Texts) /\ cache \in Seq(ToSet(cache)) /\ CacheSize \in Nat
  BY ServerConstants DEF LearningTypeOK, CacheFresh
<1> DEFINE rows == Rows(cut)
           page == Sent(rows)
           reply == Reply(cut)
<1>4. found # {} => place \in DOMAIN cache
  OBVIOUS
<1>5. rows \in Seq(RowsOf(ask.text))
  <2>1. found # {} => cache[place].rows \in Seq(RowsOf(ask.text))
    <3> SUFFICES ASSUME found # {} PROVE cache[place].rows \in Seq(RowsOf(ask.text))
      OBVIOUS
    <3>1. place \in DOMAIN cache /\ cache[place].key = key
      OBVIOUS
    <3>2. key.text = ask.text
      BY DEF CacheKey
    <3> HIDE DEF place, key
    <3> QED BY <3>1, <3>2 DEF ToSet
  <2>2. Generated(ask, config) \in Seq(RowsOf(ask.text))
    <3>1. Limit(ask, config) \in Int
      BY <1>2, LimitIsNumber
    <3> QED BY <1>2, <1>3, <3>1, GeneratedIn DEF Generated
  <2>3. <<>> \in Seq(RowsOf(ask.text))
    BY EmptySeq
  <2> HIDE DEF found, place
  <2> QED BY <2>1, <2>2, <2>3
<1>6. cache' = cache \/ \E others \in Seq(ToSet(cache)) : cache' = Put(rows, others)
  <2>1. found # {} => RemoveAt(cache, place) \in Seq(ToSet(cache))
    BY <1>3, <1>4, CacheTaken
  <2> HIDE DEF found, place, rows, Put
  <2>2. cache' = IF found = {} /\ cut # "no" THEN cache
                 ELSE Put(rows, IF found # {} THEN RemoveAt(cache, place) ELSE cache)
    BY <1>1 DEF rows
  <2> QED BY <1>3, <2>1, <2>2
<1>7. /\ reply.type = "rows" /\ reply.rows = page /\ reply.pending = Pending(page) /\ reply.learned = Learnt(page)
      /\ Deliver(reply)
  <2> HIDE DEF page, Pending
  <2>1. reply = [type |-> "rows", rows |-> page, pending |-> Pending(page),
                 whole |-> found # {} \/ cut # "early", learned |-> Learnt(page)]
    BY DEF page
  <2>2. Deliver(reply)
    BY <1>1
  <2> HIDE DEF reply
  <2> QED BY <2>1, <2>2
<1>8. IF Pending(page) THEN Submit(ask, page, HiddenIn(ask, rows), InTheContext(rows), Learnt(page))
      ELSE UNCHANGED <<entry, queued, running>>
  BY <1>1
<1> HIDE DEF rows, reply
<1>9. page \in Seq(RowsOf(ask.text))
  BY <1>2, <1>5, PageInContext
<1>10. /\ Len(InTheContext(rows)) \in Nat
       /\ Len(Learnt(page)) \in Nat /\ DOMAIN Learnt(page) = 1..Len(Learnt(page))
  <2> HIDE DEF page
  <2>1. Len(<<>>) = 0 /\ DOMAIN <<>> = 1..Len(<<>>)
    OBVIOUS
  <2>2. Len(Preferences(ask, rows)) \in Nat
    BY <1>5, PreferencesAreTexts
  <2>3. Len(LearnedIn(page)) \in Nat /\ DOMAIN LearnedIn(page) = 1..Len(LearnedIn(page))
    BY <1>9, LearnedAreTexts
  <2> QED BY <2>1, <2>2, <2>3
<1> HIDE DEF page, Pending, InTheContext, Learnt
<1>11. \/ UNCHANGED entry /\ ~reply.pending
       \/ \A e \in entry' : Entry(e) /\ MadeWith(e, ask, reply)
  <2>1. CASE Pending(page)
    <3>1. Submit(ask, page, HiddenIn(ask, rows), InTheContext(rows), Learnt(page))
      BY <1>8, <2>1
    <3> HIDE DEF ask
    <3>2. reply.rows = page /\ reply.learned = Learnt(page)
      BY <1>7
    <3> QED BY <1>2, <1>5, <1>9, <1>10, <3>1, <3>2, SubmitMakes
  <2>2. CASE ~Pending(page)
    BY <1>7, <1>8, <2>2
  <2> QED BY <2>1, <2>2
<1>12. \A c \in ToSet(cache') : c.rows \in Seq(RowsOf(c.key.text))
  <2>1. ASSUME NEW others \in Seq(ToSet(cache)), cache' = Put(rows, others)
        PROVE  \A c \in ToSet(cache') : c.rows \in Seq(RowsOf(c.key.text))
    <3> DEFINE c == [key |-> key, rows |-> rows]
               S == ToSet(cache) \cup {c}
    <3>1. others \in Seq(S) /\ c.rows = rows /\ c.key = key
      BY SeqMonotonic
    <3>2. key.text = ask.text
      BY DEF CacheKey
    <3> HIDE DEF c, key
    <3>3. cache' \in Seq(S)
      BY <1>3, <2>1, <3>1, CachePut DEF c
    <3>4. c.rows \in Seq(RowsOf(c.key.text))
      BY <1>5, <3>1, <3>2
    <3>5. \A x \in S : x.rows \in Seq(RowsOf(x.key.text))
      BY <3>4
    <3> HIDE DEF S
    <3>6. ToSet(cache') \subseteq S
      BY <3>3, OwnElements
    <3> QED BY <3>5, <3>6
  <2> HIDE DEF Put
  <2> QED BY <1>6, <2>1
<1>13. page \in Seq(AllRows)
  <2> HIDE DEF ask
  <2>1. RowsOf(ask.text) \subseteq AllRows
    BY <1>2, RowsOfInput
  <2> QED BY <1>9, <2>1, SeqMonotonic
<1> QED BY <1>7, <1>11, <1>12, <1>13

\* The entries after a step are those before it, with or without an answer.
Kept(entries, later) == \A f \in later : \E e \in entries : Same(e, f)
\* The model's answer leaves the rest of the entry.
LEMMA EntriesFinish ==
  ASSUME \A e \in entry : Entry(e), FinishTask
  PROVE  Kept(entry, entry') /\ \A e \in entry' : Entry(e)
<1>1. ASSUME NEW f \in entry', NEW result \in ModelOrders \cup {Failed},
             entry' = {[e EXCEPT !.result = result] : e \in entry}
      PROVE  Entry(f) /\ \E e \in entry : Same(e, f)
  <2>1. PICK e \in entry : f = [e EXCEPT !.result = result]
    BY <1>1
  <2>2. e = [id |-> e.id, rows |-> e.rows, visible |-> e.visible, full |-> e.full,
             contextual |-> e.contextual, learned |-> e.learned, result |-> e.result]
    BY DEF Entry
  <2>3. f = [id |-> e.id, rows |-> e.rows, visible |-> e.visible, full |-> e.full,
             contextual |-> e.contextual, learned |-> e.learned, result |-> result]
    BY <2>1, <2>2
  <2>4. /\ f.id = e.id /\ f.rows = e.rows /\ f.visible = e.visible /\ f.full = e.full
        /\ f.contextual = e.contextual /\ f.learned = e.learned /\ f.result = result
    BY <2>3
  <2>5. Same(e, f)
    BY <2>4 DEF Same
  <2>6. Entry(f)
    BY <2>3, <2>4 DEF Entry
  <2> QED BY <2>5, <2>6
<1>2. CASE UNCHANGED entry
  BY <1>2 DEF Kept, Same
<1>3. ASSUME NEW result \in ModelOrders \cup {Failed}, entry' = {[e EXCEPT !.result = result] : e \in entry}
      PROVE  Kept(entry, entry') /\ \A e \in entry' : Entry(e)
  BY <1>1, <1>3 DEF Kept
<1> QED BY <1>2, <1>3 DEF FinishTask

\* Entries that are left.
LEMMA FewerEntries ==
  ASSUME \A e \in entry : Entry(e), entry' \subseteq entry
  PROVE  Kept(entry, entry') /\ \A e \in entry' : Entry(e)
BY DEF Kept, Same

\* What an update shows of an entry that was made with a page.
LEMMA UpdateIsOfBase ==
  ASSUME NEW e, Entry(e), e.result \in ModelOrders,
         NEW ask, NEW base, base.rows \in Seq(AllRows), MadeWith(e, ask, base)
  PROVE  RowsStay(Updated(e.result, e), ask, base)
<1> DEFINE S == ToSet(e.rows)
           model == e.result
           rows == Updated(model, e)
<1>1. e.rows \in Seq(AllRows) /\ e.visible = Len(base.rows) /\ Len(base.rows) \in Nat
  <2>1. e.rows \in Seq(RowsOf(ask.text)) /\ RowsOf(ask.text) \subseteq AllRows
    BY RowsOfInput DEF MadeWith
  <2>2. e.rows \in Seq(AllRows)
    BY <2>1, SeqMonotonic
  <2> QED BY <2>2, LenProperties DEF MadeWith
<1>2. e.rows \in Seq(S) /\ S \subseteq AllRows
  BY <1>1, OwnElements
<1> HIDE DEF S
<1>3. \A r \in S : r.used \in Int
  BY <1>2, ServerConstants
<1>4. model \in Seq(ToSet(model))
  BY ServerConstants
<1> HIDE DEF model
<1>5. Len(model) \in Nat /\ DOMAIN model = 1..Len(model)
  BY <1>4, LenProperties
<1>6. Len(e.contextual) \in Nat /\ Len(e.learned) \in Nat /\ DOMAIN e.learned = 1..Len(e.learned)
  BY DEF MadeWith
<1>7. rows \in Seq(S) /\ Len(rows) <= e.visible
  BY <1>1, <1>2, <1>3, <1>5, <1>6, UpdatedIn
<1> HIDE DEF rows
<1>8. ToSet(rows) \subseteq S
  BY <1>7, OwnElements
<1>9. \A r \in S : r \in ToSet(base.rows) \/ (ask.page = 0 /\ Hidden(ask.text, r))
  BY DEF MadeWith, S
<1>10. Len(rows) <= Len(base.rows)
       /\ \A r \in ToSet(rows) : r \in ToSet(base.rows) \/ (ask.page = 0 /\ Hidden(ask.text, r))
  BY <1>1, <1>7, <1>8, <1>9
<1> QED BY <1>10 DEF rows, model, RowsStay

\* The first row for the whole input of a page is the first in its entry.
LEMMA WholeOfBase ==
  ASSUME NEW base \in Seq(AllRows), NEW hidden \in Seq(AllRows), NEW full, Those(base, Wholes(base, full)) # <<>>
  PROVE  \E p \in DOMAIN base :
           /\ Those(base, Wholes(base, full))[1] = base[p] /\ (base \o hidden)[p] = base[p]
           /\ FirstWhole(base \o hidden, full, p)
<1> DEFINE W == Wholes(base, full)
           p == Place(W, 1)
           both == base \o hidden
           n == Len(base)
<1>1. W \in SUBSET DOMAIN base /\ W = {i \in DOMAIN base : base[i].used = full}
  BY DEF Wholes
<1>2. W # {}
  <2>1. W = {} => Len(Those(base, W)) = 0
    BY <1>1, ThoseAre, FS_EmptySet
  <2>2. Those(base, W) \in Seq(AllRows)
    BY <1>1, ThoseAre
  <2> QED BY <2>1, <2>2, EmptySeq
<1>3. p \in W /\ (\A q \in W : p <= q) /\ Those(base, W)[1] = base[p]
  BY <1>1, <1>2, FirstPlace
<1>4. /\ both \in Seq(AllRows) /\ Len(both) = n + Len(hidden)
      /\ \A i \in 1..n + Len(hidden) : both[i] = IF i <= n THEN base[i] ELSE hidden[i - n]
  BY ConcatProperties
<1>5. DOMAIN base = 1..n /\ n \in Nat /\ Len(hidden) \in Nat /\ DOMAIN both = 1..n + Len(hidden)
  BY <1>4, LenProperties
<1> HIDE DEF p, both, n
<1>6. p \in DOMAIN base /\ base[p].used = full /\ both[p] = base[p] /\ p \in DOMAIN both
  BY <1>1, <1>3, <1>4, <1>5
<1>7. ASSUME NEW q \in DOMAIN both, both[q].used = full PROVE p <= q
  <2>1. CASE q <= n
    <3>1. q \in W
      BY <1>1, <1>4, <1>5, <1>7, <2>1
    <3> QED BY <1>3, <3>1
  <2>2. CASE ~ (q <= n)
    BY <1>5, <1>6, <2>2
  <2> QED BY <2>1, <2>2
<1>8. FirstWhole(both, full, p)
  BY <1>6, <1>7 DEF FirstWhole
<1> QED BY <1>3, <1>6, <1>8 DEF both

\* Rows that begin with one for the whole input have it as the first such.
LEMMA FirstIsWhole ==
  ASSUME NEW S, NEW rows \in Seq(S), rows # <<>>, NEW full, rows[1].used = full
  PROVE  Those(rows, Wholes(rows, full)) # <<>> /\ Those(rows, Wholes(rows, full))[1] = rows[1]
<1> DEFINE W == Wholes(rows, full)
           p == Place(W, 1)
<1>1. DOMAIN rows = 1..Len(rows) /\ Len(rows) \in Nat /\ Len(rows) # 0
  BY LenProperties, EmptySeq
<1>2. W \in SUBSET DOMAIN rows /\ 1 \in W
  BY <1>1 DEF Wholes
<1> HIDE DEF W
<1>3. p \in W /\ p <= 1 /\ Those(rows, W) # <<>> /\ Those(rows, W)[1] = rows[p]
  BY <1>2, FirstPlace
<1> HIDE DEF p
<1>4. p \in 1..Len(rows)
  BY <1>1, <1>2, <1>3
<1>5. p = 1
  BY <1>1, <1>3, <1>4
<1> QED BY <1>3, <1>5 DEF W

\* What was learned stays first in an update.
LEMMA UpdateKeepsLearned ==
  ASSUME NEW e, Entry(e), e.result \in ModelOrders,
         NEW ask, NEW base, base.rows \in Seq(AllRows), MadeWith(e, ask, base)
  PROVE  LearnedStays(Updated(e.result, e), ask, base)
<1> DEFINE S == RowsOf(ask.text)
           model == e.result
           rows == Updated(model, e)
           full == e.full
           before == Those(base.rows, Wholes(base.rows, full))
           after == Those(rows, Wholes(rows, full))
<1>1. e.visible = Len(base.rows) /\ Len(base.rows) \in Nat /\ full = Dictionary[ask.text].size
      /\ e.learned = base.learned
  BY LenProperties DEF MadeWith
<1>2. SUFFICES ASSUME rows # <<>>, before # <<>>, before[1].text \in ToSet(e.learned)
               PROVE  after # <<>> /\ after[1] = before[1]
  BY <1>1 DEF LearnedStays
<1>3. e.rows \in Seq(S) /\ S \subseteq AllRows /\ TextsTell(S)
  BY RowsOfInput DEF MadeWith
<1> HIDE DEF S
<1>4. \A r \in S : r.used \in Int
  BY <1>3, ServerConstants
<1>5. model \in Seq(ToSet(model))
  BY ServerConstants
<1> HIDE DEF model, full
<1>6. Len(model) \in Nat /\ DOMAIN model = 1..Len(model)
  BY <1>5, LenProperties
<1>7. Len(e.contextual) \in Nat /\ Len(e.learned) \in Nat /\ DOMAIN e.learned = 1..Len(e.learned)
  BY DEF MadeWith
<1>8. PICK hidden \in Seq(AllRows) : e.rows = base.rows \o hidden
  BY DEF MadeWith
<1>9. PICK p \in DOMAIN base.rows :
        /\ before[1] = base.rows[p] /\ e.rows[p] = base.rows[p]
        /\ FirstWhole(e.rows, full, p)
  <2> DEFINE b == base.rows
  <2>1. b \in Seq(AllRows) /\ Those(b, Wholes(b, full)) # <<>>
    BY <1>2
  <2> HIDE DEF b
  <2>2. \E p \in DOMAIN b : /\ Those(b, Wholes(b, full))[1] = b[p] /\ (b \o hidden)[p] = b[p]
                           /\ FirstWhole(b \o hidden, full, p)
    BY <2>1, WholeOfBase
  <2> QED BY <1>8, <2>2 DEF b
<1> HIDE DEF rows, before
<1>10. rows \in Seq(S)
  BY <1>1, <1>3, <1>4, <1>6, <1>7, UpdatedIn DEF rows
<1>11. rows[1] = e.rows[p]
  <2>1. FirstWhole(e.rows, e.full, p) /\ e.rows[p].text \in ToSet(e.learned) /\ Updated(model, e) # <<>>
    BY <1>2, <1>9 DEF rows, full
  <2>2. e.visible \in Nat
    BY <1>1
  <2>3. Updated(model, e)[1] = e.rows[p]
    BY <1>3, <1>4, <1>6, <1>7, <2>1, <2>2, UpdatedFirst
  <2> QED BY <2>3 DEF rows
<1>12. rows[1].used = full
  BY <1>9, <1>11 DEF FirstWhole
<1>13. after # <<>> /\ after[1] = rows[1]
  BY <1>2, <1>10, <1>12, FirstIsWhole
<1> HIDE DEF after
<1> QED BY <1>9, <1>11, <1>13

\* A worker other than the one that acts.
LEMMA OtherWorker ==
  ASSUME AppsKnown, Linking, NEW a \in Apps, app'[a] = app[a], NEW b \in Apps, b # a,
         conn' \in {conn, Released(b)}, UNCHANGED server, UNCHANGED entry
  PROVE  Linked(a, app'[a], conn', server', entry')
<1>1. Linked(a, app[a], conn, server, entry)
  BY DEF Linking
<1>2. CASE conn' = conn
  <2>1. \A f \in entry' : \E e \in entry : Same(e, f)
    BY DEF Same
  <2>2. server' \in {server, None}
    OBVIOUS
  <2> QED BY <1>1, <1>2, <2>1, <2>2, LinkedKept
<1>3. CASE conn = b /\ conn' = "closed"
  <2>1. conn # a /\ conn' # a
    BY <1>3, ServerConstants
  <2> QED BY <1>1, <2>1, LinkedApart
<1> QED BY <1>2, <1>3 DEF Released

\* A step of a worker.
LEMMA WorkerLinks ==
  ASSUME AppsKnown, Serving, Linking, NEW b \in Apps,
         AskCandidates(b) \/ Commit(b) \/ Expire(b) \/ Heard(b) \/ Poll(b)
  PROVE  Linking'
<1>1. UNCHANGED <<server, cache, entry>> /\ conn' \in {conn, Released(b)}
  BY DEF AskCandidates, Commit, Ask, Expire, Heard, Poll
<1>2. ASSUME NEW w, app' = [app EXCEPT ![b] = w], Linked(b, w, conn', server, entry) PROVE Linking'
  <2>1. \A a \in Apps : app'[a] = IF a = b THEN w ELSE app[a]
    BY <1>2 DEF AppsKnown
  <2>2. ASSUME NEW a \in Apps PROVE Linked(a, app'[a], conn', server', entry')
    <3>1. CASE a = b
      BY <1>1, <1>2, <2>1, <3>1
    <3>2. CASE a # b
      <4>1. app'[a] = app[a]
        BY <2>1, <3>2
      <4> QED BY <1>1, <3>2, <4>1, OtherWorker
    <3> QED BY <3>1, <3>2
  <2> QED BY <1>1, <2>2 DEF Linking
<1>3. Released(b) # b
  BY ServerConstants DEF Released
<1>4. Worker(app[b]) /\ Linked(b, app[b], conn, server, entry)
  BY DEF AppsKnown, Linking
<1>5. ASSUME app' = [app EXCEPT ![b] = Resting(app[b].id)], conn' = Released(b) PROVE Linking'
  <2>1. Resting(app[b].id).pc = "idle" /\ conn' # b
    BY <1>3, <1>5, RestingWorker
  <2>2. Linked(b, Resting(app[b].id), conn', server, entry)
    BY <2>1, LinkedFresh
  <2> QED BY <1>2, <1>5, <2>2
<1>6. ASSUME NEW ask, ask.type \in {"rows", "commit"}, Ask(b, ask) PROVE Linking'
  <2> DEFINE v == [Resting(app[b].id + 1) EXCEPT !.pc = "ask"]
             w == [v EXCEPT !.ask = ask]
  <2>1. Worker(v) /\ v.pc = "ask"
    BY RestingWorker, ChangedWorker
  <2>2. app' = [app EXCEPT ![b] = w] /\ conn' = Released(b)
    BY <1>6 DEF Ask
  <2> HIDE DEF v
  <2>3. w.pc = "ask" /\ w.ask = ask
    BY <2>1, ChangedWorker
  <2> HIDE DEF w
  <2>4. Linked(b, w, conn', server, entry)
    BY <1>3, <1>6, <2>2, <2>3, LinkedFresh
  <2> QED BY <1>2, <2>2, <2>4
<1>7. CASE AskCandidates(b)
  <2>1. PICK ask \in Asks : Ask(b, [type |-> "rows", text |-> ask.text, page |-> ask.page,
                                    expanded |-> ask.expanded, context |-> ask.context])
    BY <1>7 DEF AskCandidates
  <2> QED BY <1>6, <2>1
<1>8. CASE Commit(b)
  <2>1. PICK text \in Texts : Ask(b, [type |-> "commit", text |-> text])
    BY <1>8 DEF Commit
  <2> QED BY <1>6, <2>1
<1>9. CASE Expire(b)
  BY <1>5, <1>9 DEF Expire
<1>10. CASE Heard(b)
  <2>1. CASE app' = [app EXCEPT ![b] = Resting(app[b].id)] /\ conn' = Released(b)
    BY <1>5, <2>1
  <2>2. ASSUME app[b].reply.type = "rows", app[b].reply.pending, UNCHANGED conn, NEW n,
               n = IF conn = b THEN 1 ELSE 2,
               app' = [app EXCEPT ![b].pc = "shown", ![b].base = app[b].reply, ![b].reply = None, ![b].tries = n]
        PROVE  Linking'
    <3> DEFINE w == [app[b] EXCEPT !.pc = "shown", !.base = app[b].reply, !.reply = None, !.tries = n]
    <3>1. w.pc = "shown" /\ w.base = app[b].reply /\ w.tries = n /\ w.id = app[b].id /\ w.ask = app[b].ask
      BY <1>4, HeardWorker
    <3>2. app' = [app EXCEPT ![b] = w]
      BY <2>2
    <3> HIDE DEF w
    <3>3. app[b].pc = "told"
      BY <1>10 DEF Heard
    <3>4. conn = b => server = None
      BY <3>3 DEF Serving
    <3>5. conn = b => Based(app[b], app[b].reply, entry)
      BY <1>4, <2>2, <3>3 DEF Linked
    <3>6. conn = b => Based(w, w.base, entry)
      BY <3>1, <3>5 DEF Based
    <3>7. Linked(b, w, conn', server, entry)
      BY <2>2, <3>1, <3>4, <3>6 DEF Linked
    <3> QED BY <1>2, <3>2, <3>7
  <2> QED BY <1>10, <2>1, <2>2 DEF Heard
<1>11. CASE Poll(b)
  <2> DEFINE w == [app[b] EXCEPT !.pc = "poll"]
  <2>1. w.pc = "poll" /\ w.id = app[b].id /\ w.ask = app[b].ask /\ w.tries = app[b].tries /\ w.base = app[b].base
    BY <1>4, PollingWorker
  <2>2. app' = [app EXCEPT ![b] = w] /\ app[b].pc = "shown" /\ UNCHANGED conn
    BY <1>11 DEF Poll
  <2> HIDE DEF w
  <2>3. conn = b => server = None
    BY <2>2 DEF Serving
  <2>4. Based(app[b], app[b].base, entry) => Based(w, w.base, entry)
    BY <2>1 DEF Based
  <2>5. Linked(b, w, conn', server, entry)
    BY <1>4, <2>1, <2>2, <2>3, <2>4 DEF Linked
  <2> QED BY <1>2, <2>2, <2>5
<1> QED BY <1>7, <1>8, <1>9, <1>10, <1>11

\* Core connects to a worker and reads its request.
LEMMA ConnectLinks ==
  ASSUME AppsKnown, Serving, Linking, NEW b \in Apps, Connect(b) \/ Receive(b)
  PROVE  Linking'
<1>1. UNCHANGED <<app, cache>>
  BY DEF Connect, Receive
<1>2. Kept(entry, entry') /\ \A e \in entry' : Entry(e)
  <2>1. entry' \subseteq entry
    BY DEF Connect, Receive
  <2> QED BY <2>1, FewerEntries DEF Linking
<1>3. ASSUME NEW a \in Apps PROVE Linked(a, app'[a], conn', server', entry')
  <2>1. Linked(a, app[a], conn, server, entry) /\ app'[a] = app[a]
    BY <1>1 DEF Linking
  <2>2. CASE Connect(b)
    <3>1. /\ conn = "nobody" /\ conn' = b /\ server = None /\ server' = None
          /\ app[b].pc \in {"ask", "poll"} /\ conn # a
      BY <2>2, ServerConstants DEF Connect, Serving
    <3> QED BY <2>1, <3>1 DEF Linked
  <2>3. CASE Receive(b) /\ a # b
    <3>1. conn # a /\ conn' # a
      BY <2>3 DEF Receive
    <3> QED BY <2>1, <3>1, LinkedApart
  <2>4. CASE Receive(b) /\ a = b
    <3>1. conn = a /\ conn' = a /\ app[a].pc \in {"ask", "poll"}
      BY <2>4 DEF Receive
    <3>2. /\ server'.id = app[a].id
          /\ app[a].pc = "ask" => server'.ask = app[a].ask
          /\ app[a].pc = "poll" => server'.ask.type = "update"
      BY <2>4 DEF Receive
    <3>3. Based(app[a], app[a].base, entry) => Based(app[a], app[a].base, entry')
      BY <1>2, BasedKept DEF Kept
    <3> QED BY <2>1, <3>1, <3>2, <3>3 DEF Linked
  <2> QED BY <2>2, <2>3, <2>4
<1> QED BY <1>1, <1>2, <1>3 DEF Linking

\* Core answers: the worker that is connected hears it, if one is.
LEMMA AnswerLinks ==
  ASSUME AppsKnown, Linking, NEW reply, Deliver(reply), UNCHANGED conn,
         \A a \in Apps : conn = a =>
           /\ reply.type = "rows" /\ reply.pending =>
                /\ reply.rows \in Seq(AllRows)
                /\ \A e \in entry' : e.id = app[a].id => MadeWith(e, app[a].ask, reply)
           /\ reply.type = "update" /\ app[a].tries = 1 => Updates(reply.rows, app[a].ask, app[a].base),
         NEW a \in Apps
  PROVE  Linked(a, app'[a], conn', server', entry')
<1>1. server' = None
  BY DEF Deliver
<1>2. Linked(a, app[a], conn, server, entry)
  BY DEF Linking
<1>3. CASE conn # a
  <2>1. app'[a] = app[a] /\ conn' # a
    BY <1>3, AnswerReaches
  <2> QED BY <1>2, <1>3, <2>1, LinkedApart
<1>4. CASE conn = a
  <2> DEFINE w == app'[a]
  <2>1. /\ w.pc = "told" /\ w.reply = reply /\ w.id = app[a].id /\ w.ask = app[a].ask
        /\ w.tries = app[a].tries /\ w.base = app[a].base
    BY <1>4, AnswerReaches
  <2> HIDE DEF w
  <2>2. reply.type = "rows" /\ reply.pending => Based(w, reply, entry')
    BY <1>4, <2>1 DEF Based
  <2>3. Linked(a, w, conn', server', entry')
    BY <1>1, <1>4, <2>1, <2>2 DEF Linked
  <2> QED BY <2>3 DEF w
<1> QED BY <1>3, <1>4

\* Every answer of Core keeps the workers linked.
LEMMA CoreAnswers ==
  ASSUME AppsKnown, ServerKnown, Serving, CacheFresh, LearningTypeOK, Linking,
         AnswerRows \/ AnswerUpdate \/ AnswerCommit
  PROVE  Linking'
<1>1. CASE AnswerRows
  <2>1. /\ \A c \in ToSet(cache') : c.rows \in Seq(RowsOf(c.key.text))
        /\ \E reply : /\ Deliver(reply) /\ reply.type = "rows" /\ reply.rows \in Seq(AllRows)
                      /\ \/ UNCHANGED entry /\ ~reply.pending
                         \/ \A e \in entry' : Entry(e) /\ MadeWith(e, server.ask, reply)
    BY <1>1, RowsMade DEF Linking
  <2>2. PICK reply : /\ Deliver(reply) /\ reply.type = "rows" /\ reply.rows \in Seq(AllRows)
                     /\ \/ UNCHANGED entry /\ ~reply.pending
                        \/ \A e \in entry' : Entry(e) /\ MadeWith(e, server.ask, reply)
    BY <2>1
  <2>3. \A e \in entry' : Entry(e)
    BY <2>2 DEF Linking
  <2>4. UNCHANGED conn /\ server # None /\ server.ask.type = "rows"
    BY <1>1 DEF AnswerRows, Handles
  <2>5. \A a \in Apps : conn = a /\ reply.pending => \A e \in entry' : MadeWith(e, app[a].ask, reply)
    BY <2>2, <2>4 DEF Serving
  <2>6. \A a \in Apps : Linked(a, app'[a], conn', server', entry')
    BY <2>2, <2>4, <2>5, AnswerLinks
  <2> QED BY <2>1, <2>3, <2>6 DEF Linking
<1>2. CASE AnswerUpdate
  <2> DEFINE ready == {e \in entry : e.id = server.id /\ e.result # Waiting}
             ranked == {e \in ready : server.config.ranking /\ e.result # Failed}
  <2>1. UNCHANGED <<conn, cache>> /\ server # None /\ server.ask.type = "update" /\ entry' = entry \ ready
    BY <1>2 DEF AnswerUpdate, Handles
  <2>2. PICK rows \in IF ranked = {} THEN {<<>>} ELSE {Updated(e.result, e) : e \in ranked} :
          Deliver([type |-> "update", rows |-> rows])
    BY <1>2, Zenon DEF AnswerUpdate
  <2>3. rows = <<>> \/ \E e \in ranked : rows = Updated(e.result, e)
    BY <2>2
  <2>4. \A e \in ranked : e \in entry /\ Entry(e) /\ e.id = server.id /\ e.result \in ModelOrders
    BY DEF Linking, Entry
  <2> HIDE DEF ready, ranked
  <2> DEFINE reply == [type |-> "update", rows |-> rows]
  <2>5. Deliver(reply) /\ reply.type = "update" /\ reply.rows = rows
    BY <2>2
  <2> HIDE DEF reply
  <2>6. ASSUME NEW a \in Apps, conn = a, app[a].tries = 1
        PROVE  Updates(rows, app[a].ask, app[a].base)
    <3>1. Based(app[a], app[a].base, entry) /\ server.id = app[a].id
      BY <2>1, <2>6 DEF Linking, Linked
    <3>2. app[a].base.rows \in Seq(AllRows) /\ \A e \in ranked : MadeWith(e, app[a].ask, app[a].base)
      BY <2>4, <3>1 DEF Based
    <3>3. CASE rows = <<>>
      <4>1. Len(app[a].base.rows) \in Nat
        BY <3>2, LenProperties
      <4>2. Len(<<>>) = 0 /\ ToSet(<<>>) = {}
        BY DEF ToSet
      <4>3. RowsStay(<<>>, app[a].ask, app[a].base) /\ LearnedStays(<<>>, app[a].ask, app[a].base)
        BY <4>1, <4>2 DEF RowsStay, LearnedStays
      <4> QED BY <3>3, <4>3 DEF Updates
    <3>4. ASSUME NEW e \in ranked, rows = Updated(e.result, e) PROVE Updates(rows, app[a].ask, app[a].base)
      <4>1. Entry(e) /\ e.result \in ModelOrders /\ MadeWith(e, app[a].ask, app[a].base)
        BY <2>4, <3>2
      <4>2. RowsStay(rows, app[a].ask, app[a].base)
        BY <3>2, <3>4, <4>1, UpdateIsOfBase
      <4>3. LearnedStays(rows, app[a].ask, app[a].base)
        BY <3>2, <3>4, <4>1, UpdateKeepsLearned
      <4> QED BY <4>2, <4>3 DEF Updates
    <3> QED BY <2>3, <3>3, <3>4
  <2>7. \A a \in Apps : Linked(a, app'[a], conn', server', entry')
    BY <2>1, <2>5, <2>6, AnswerLinks
  <2>8. \A e \in entry' : Entry(e)
    BY <2>1 DEF Linking
  <2> QED BY <2>1, <2>7, <2>8 DEF Linking
<1>3. CASE AnswerCommit
  <2> DEFINE reply == [type |-> "acknowledgement"]
  <2>1. Deliver(reply) /\ reply.type = "acknowledgement" /\ UNCHANGED <<conn, cache, entry>>
    BY <1>3 DEF AnswerCommit
  <2> HIDE DEF reply
  <2>2. \A a \in Apps : Linked(a, app'[a], conn', server', entry')
    BY <2>1, AnswerLinks
  <2> QED BY <2>1, <2>2 DEF Linking
<1> QED BY <1>1, <1>2, <1>3

\* Core ends: its client tries again, and is not updated then.
LEMMA EndLinks ==
  ASSUME AppsKnown, Linking, CoreStops \/ CoreCrashes \/ PowerFails
  PROVE  Linking'
<1>1. conn' = "nobody" /\ server' = None /\ cache' = <<>> /\ entry' = {}
  BY DEF CoreStops, CoreCrashes, PowerFails, Ended
<1>2. ToSet(<<>>) = {}
  BY DEF ToSet
<1>3. ASSUME NEW a \in Apps PROVE Linked(a, app'[a], conn', server', entry')
  <2>1. Linked(a, app[a], conn, server, entry) /\ Worker(app[a]) /\ conn' # a
    BY <1>1, ServerConstants DEF Linking, AppsKnown
  <2>2. \/ app'[a] = Resting(app[a].id)
        \/ app'[a] = app[a] /\ (conn # a \/ app[a].pc = "told")
        \/ app'[a] = [app[a] EXCEPT !.tries = 2] /\ app[a].pc # "told"
    <3>1. CASE PowerFails
      BY <3>1 DEF PowerFails
    <3>2. CASE BrokenPipe
      BY <3>2 DEF BrokenPipe
    <3> QED BY <3>1, <3>2 DEF CoreStops, CoreCrashes
  <2>3. CASE app'[a] = Resting(app[a].id)
    BY <2>1, <2>3, LinkedFresh, RestingWorker
  <2>4. CASE app'[a] = app[a] /\ (conn # a \/ app[a].pc = "told")
    BY <2>1, <2>4 DEF Linked
  <2>5. CASE app'[a] = [app[a] EXCEPT !.tries = 2] /\ app[a].pc # "told"
    <3> DEFINE w == app'[a]
    <3>1. w.pc = app[a].pc /\ w.ask = app[a].ask
      BY <2>1, <2>5, ChangedWorker
    <3>2. w.tries = 2
      BY <2>1, <2>5 DEF Worker
    <3> HIDE DEF w
    <3>3. Linked(a, w, conn', server', entry')
      BY <2>1, <2>5, <3>1, <3>2 DEF Linked
    <3> QED BY <3>3 DEF w
  <2> QED BY <2>2, <2>3, <2>4, <2>5
<1> QED BY <1>1, <1>2, <1>3 DEF Linking

\* Every step keeps the workers linked.
LEMMA LinkingStep ==
  ASSUME AppsKnown, ServerKnown, Serving, CacheFresh, LearningTypeOK, Linking, [Next]_vars
  PROVE  Linking'
<1>1. CASE FinishTask
  <2>1. Kept(entry, entry') /\ \A e \in entry' : Entry(e)
    BY <1>1, EntriesFinish DEF Linking
  <2>2. UNCHANGED <<app, conn, server, cache>>
    BY <1>1 DEF FinishTask
  <2>3. \A a \in Apps : Linked(a, app[a], conn, server, entry')
    BY <2>1, LinkedKept DEF Kept, Linking
  <2> QED BY <2>1, <2>2, <2>3 DEF Linking
<1>2. CASE Disconnect
  <2>1. UNCHANGED <<app, server, cache, entry>> /\ conn = "closed" /\ conn' = "nobody"
    BY <1>2 DEF Disconnect
  <2>2. \A a \in Apps : Linked(a, app[a], conn', server, entry)
    BY <2>1, LinkedApart, ServerConstants DEF Linking
  <2> QED BY <2>1, <2>2 DEF Linking
<1>3. CASE TakeTask \/ CoreStarts \/ SavesBegin
           \/ ((Saves \/ Monitors) /\ UNCHANGED <<learningVars, serverVars>>) \/ UNCHANGED vars
  <2>1. UNCHANGED <<app, conn, server, cache, entry>>
    BY <1>3 DEF TakeTask, CoreStarts, SavesBegin, serverVars, vars
  <2> QED BY <2>1 DEF Linking
<1> QED BY <1>1, <1>2, <1>3, WorkerLinks, ConnectLinks, CoreAnswers, EndLinks DEF Next

\* Workers stay linked, whatever other applications ask meanwhile.
LEMMA WorkersStayLinked == Spec => []Linking
<1> DEFINE Inv == AppsKnown /\ ServerKnown /\ Linking
<1>1. Init => Inv
  <2> SUFFICES ASSUME Init PROVE Inv
    OBVIOUS
  <2>1. /\ app = [a \in Apps |-> Resting(0)] /\ server = None /\ conn = "nobody" /\ cache = <<>>
        /\ entry = {}
    BY DEF Init
  <2>2. ToSet(<<>>) = {}
    BY DEF ToSet
  <2>3. AppsKnown /\ ServerKnown
    BY <2>1, RestingWorker DEF AppsKnown, ServerKnown
  <2>4. \A a \in Apps : Linked(a, app[a], conn, server, entry)
    BY <2>1, RestingWorker, LinkedFresh
  <2> QED BY <2>1, <2>2, <2>3, <2>4 DEF Linking
<1>2. Inv /\ Serving /\ CacheFresh /\ LearningTypeOK /\ [Next]_vars => Inv'
  BY AsksStep, LinkingStep
<1> QED BY <1>1, <1>2, CoreTypes, CoreServesFresh, PTL DEF Spec

\* Whatever other applications ask meanwhile, and though their requests have
\* the same numbers: an update that reaches a worker, without a restart of
\* Core in between, has rows of the page that the worker shows, or of the first
\* page's hidden ones, and not more of them than the page.
THEOREM CoreUpdatesItsRequest == Spec => []UpdateOfItsRequest
<1>1. Linking => UpdateOfItsRequest
  BY DEF Linking, Linked, Updates, RowsStay, UpdateOfItsRequest, Told
<1> QED BY <1>1, WorkersStayLinked, PTL

\* Whatever model reorders the rows and whatever the context prefers: a learned
\* sentence that the page shows first is the first of its update
\* (restore_preferred_candidate_positions after promote_preferred_candidates).
THEOREM CoreKeepsLearnedFirst == Spec => []LearnedFirstStays
<1>1. Linking => LearnedFirstStays
  <2> SUFFICES ASSUME Linking, NEW a \in Apps, Told(a, "update"), app[a].tries = 1
               PROVE  LearnedStays(app[a].reply.rows, app[a].ask, app[a].base)
    BY DEF LearnedFirstStays, LearnedStays
  <2> QED BY DEF Linking, Linked, Updates, Told
<1> QED BY <1>1, WorkersStayLinked, PTL
=============================================================================
