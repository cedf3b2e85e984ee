--------------------------- MODULE CandidateServer ---------------------------
(***************************************************************************)
(* Core's pipe server and its clients: run_core_server and                 *)
(* PersistentPipeClient of src/ipc/named_pipe.cpp, worker_loop of          *)
(* src/tsf/text_service.cpp, with the configuration and the learned counts *)
(* that Core serves with.                                                  *)
(*                                                                         *)
(* Several applications have a text service, each with a worker that asks  *)
(* Core over a pipe with a single instance.  A worker keeps its connection *)
(* for the candidates and the update that a model may make of them.  Each  *)
(* counts its requests from one; the context generations that are sent     *)
(* with them are left out.  What the engine makes of an input is in        *)
(* CandidateEngine: here the rows of an input are given, and learning and  *)
(* the sensitivity order those that use as much of it.                     *)
(***************************************************************************)
EXTENDS ConfigService, LearningStore, CandidateOrder

CONSTANTS
  Apps,           \* the applications
  Asks,           \* the requests for candidates
  Dictionary,     \* of each input: its size, rows shown and hidden rows
  Joined,         \* of some texts: the syllables and the frequency of the
                  \* longest word that they make with the end of the context
  ModelOrders,    \* the answers of a model
  PageSize, ExpandedPages,
  RankedLimit,    \* rows that are looked at for a context: 16
  CacheSize,      \* 128
  Waiting, Failed,  \* no answer yet, and none that has an order
  None,
  MaxActs         \* bound on what users and failures do: a save counts three,
                  \* a request, a shutdown, a crash or a failed flush two

RowsOf(text) == ToSet(Dictionary[text].shown) \cup ToSet(Dictionary[text].hidden)
AllRows == UNION {RowsOf(text) : text \in DOMAIN Dictionary}

\* The engine offers no text twice: see RowsDistinct of CandidateEngine.
ASSUME ServerConstants ==
  /\ \A text \in DOMAIN Dictionary :
       /\ {Dictionary[text].shown, Dictionary[text].hidden} \subseteq Seq(RowsOf(text))
       /\ \A r, q \in RowsOf(text) : r.text = q.text => r = q
  /\ \A row \in AllRows : row.used \in Nat /\ row.weight \in Int
  /\ \A config \in Config : config.sensitivity \in Int
  /\ \A model \in ModelOrders : model \in Seq(ToSet(model))
  /\ {"closed", "nobody"} \cap Apps = {}
  /\ {PageSize, ExpandedPages, RankedLimit, CacheSize} \subseteq Nat \ {0}
  /\ Asks \subseteq [text : DOMAIN Dictionary, page : Nat, expanded : BOOLEAN, context : BOOLEAN]
  /\ \A ask \in Asks : ask.expanded => ask.page = 0

VARIABLES
  app,                  \* the worker of each application
  conn,                 \* whose connection the pipe has
  server,               \* the request that Core handles
  cache,                \* candidate_cache, the latest entry first
  learningGeneration,
  entry,                \* what model_requests has, which is one at most
  queued, running,      \* LatestModelTaskQueue
  acts

serverVars == <<app, conn, server, cache, learningGeneration, entry, queued, running, acts>>
vars == <<configVars, learningVars, serverVars>>

Resting(id) == [pc |-> "idle", id |-> id, ask |-> None, tries |-> 1, base |-> None, reply |-> None]

Init ==
  /\ InitConfig /\ InitLearning
  /\ app = [a \in Apps |-> Resting(0)]
  /\ conn = "nobody" /\ server = None
  /\ cache = <<>> /\ learningGeneration = 0
  /\ entry = {} /\ queued = FALSE /\ running = "no"
  /\ acts = 0

InBounds == acts' + 2 * faults' <= MaxActs
Spent(n) == acts' = acts + n

---------------------------------------------------------------------------
(* The worker of a text service.                                           *)

Released(a) == IF conn = a THEN "closed" ELSE conn
\* another request interrupts one that waits to ask for an update
Ask(a, ask) ==
  /\ app[a].pc \in {"idle", "shown"}
  /\ app' = [app EXCEPT ![a] = [Resting(app[a].id + 1) EXCEPT !.pc = "ask", !.ask = ask]]
  /\ conn' = Released(a)
  /\ UNCHANGED <<configVars, learningVars, server, cache, learningGeneration, entry, queued, running>>
  /\ Spent(2) /\ InBounds
AskCandidates(a) ==
  \E ask \in Asks :
    Ask(a, [type |-> "rows", text |-> ask.text, page |-> ask.page, expanded |-> ask.expanded, context |-> ask.context])
Commit(a) == \E text \in Texts : Ask(a, [type |-> "commit", text |-> text])

\* open_pipe_with_deadline: Core serves when its monitor has seen the file
Connect(a) ==
  /\ up /\ watch # "start" /\ conn = "nobody" /\ app[a].pc \in {"ask", "poll"}
  /\ conn' = a
  /\ UNCHANGED <<configVars, learningVars, app, server, cache, learningGeneration, entry, queued, running, acts>>

\* the deadline passes; whatever Core answers is lost with the connection
Expire(a) ==
  /\ app[a].pc \in {"ask", "poll"}
  /\ app' = [app EXCEPT ![a] = Resting(@.id)] /\ conn' = Released(a)
  /\ UNCHANGED <<configVars, learningVars, server, cache, learningGeneration, entry, queued, running, acts>>

\* Sensitivity variant: the connection is given back before the update.
HeardReleasing(a) ==
  /\ app[a].pc = "told"
  /\ \/ /\ app[a].reply.type = "rows" /\ app[a].reply.pending
        /\ app' = [app EXCEPT ![a].pc = "shown", ![a].base = app[a].reply, ![a].reply = None]
     \/ app' = [app EXCEPT ![a] = Resting(@.id)]
  /\ conn' = Released(a)
  /\ UNCHANGED <<configVars, learningVars, server, cache, learningGeneration, entry, queued, running, acts>>
\* Sensitivity variant: the connection is kept when the worker rests.
HeardKeeping(a) ==
  /\ app[a].pc = "told"
  /\ \/ /\ app[a].reply.type = "rows" /\ app[a].reply.pending
        /\ app' = [app EXCEPT ![a].pc = "shown", ![a].base = app[a].reply, ![a].reply = None, ![a].tries = 1]
     \/ app' = [app EXCEPT ![a] = Resting(@.id)]
  /\ UNCHANGED <<conn, configVars, learningVars, server, cache, learningGeneration, entry, queued, running, acts>>

\* candidates that a model may still reorder are shown and the update is asked
\* for, unless a newer request has superseded this one
Heard(a) ==
  /\ app[a].pc = "told"
  /\ \/ /\ app[a].reply.type = "rows" /\ app[a].reply.pending
        /\ app' = [app EXCEPT ![a].pc = "shown", ![a].base = app[a].reply, ![a].reply = None,
                                ![a].tries = IF conn = a THEN 1 ELSE 2]
        /\ UNCHANGED conn
     \/ app' = [app EXCEPT ![a] = Resting(@.id)] /\ conn' = Released(a)
  /\ UNCHANGED <<configVars, learningVars, server, cache, learningGeneration, entry, queued, running, acts>>

Poll(a) ==
  /\ app[a].pc = "shown"
  /\ app' = [app EXCEPT ![a].pc = "poll"]
  /\ UNCHANGED <<configVars, learningVars, conn, server, cache, learningGeneration, entry, queued, running, acts>>

---------------------------------------------------------------------------
(* The model's queue: one task waits at most, and one runs.                *)

TakeTask ==
  /\ queued /\ running = "no"
  /\ queued' = FALSE /\ running' = "current"
  /\ UNCHANGED <<configVars, learningVars, app, conn, server, cache, learningGeneration, entry, acts>>
FinishTask ==
  /\ running # "no" /\ running' = "no"
  /\ IF running = "current"
     THEN \E result \in ModelOrders \cup {Failed} : entry' = {[e EXCEPT !.result = result] : e \in entry}
     ELSE UNCHANGED entry
  /\ UNCHANGED <<configVars, learningVars, app, conn, server, cache, learningGeneration, queued, acts>>
---------------------------------------------------------------------------
(* What Core answers.                                                      *)

CountIn(known, text) == Cardinality({i \in DOMAIN known : known[i] = text})
CountOf(text) == CountIn(counts, text)
Weight(row, known, config) == row.weight + config.sensitivity * CountIn(known, row.text)

Size(ask) == IF ask.expanded THEN PageSize * ExpandedPages ELSE PageSize
First(ask) == ask.page * PageSize
Contextual(ask, config) == config.ranking /\ ask.context
Limit(ask, config) ==
  Max({First(ask) + Size(ask) + 1} \cup (IF Contextual(ask, config) THEN {RankedLimit} ELSE {}))

\* what the engine generates of an input, up to a limit, with the selections known
GeneratedWith(known, limit, text, config) ==
  LET entries == Dictionary[text]
      Less(r, q) ==
        r.used > q.used \/ (r.used = q.used /\ Weight(r, known, config) > Weight(q, known, config))
      shown == StableSort(entries.shown, Less)
  IN SubSeq(shown, 1, Min({limit, Len(shown)})) \o (IF config.ranking THEN entries.hidden ELSE <<>>)
Generated(ask, config) == GeneratedWith(counts, Limit(ask, config), ask.text, config)
Hidden(text, row) == row \in ToSet(Dictionary[text].hidden)
\* the rows that only an update may show: the first page's
HiddenIn(ask, rows) == IF ask.page = 0 THEN Those(rows, {i \in DOMAIN rows : Hidden(ask.text, rows[i])}) ELSE <<>>

\* contextual_lexicon_preferences
Preferences(ask, rows) ==
  LET joined == Those(rows, {i \in DOMAIN rows : ~Hidden(ask.text, rows[i]) /\ rows[i].text \in DOMAIN Joined})
      Better(r, q) ==
        \/ Joined[r.text].syllables > Joined[q.text].syllables
        \/ /\ Joined[r.text].syllables = Joined[q.text].syllables
           /\ Joined[r.text].frequency > Joined[q.text].frequency
      best == TextsIn(StableSort(joined, Better))
  IN SubSeq(best, 1, Min({2, Len(best)}))

\* the page that is asked for
Page(ask, rows) ==
  LET visible == Those(rows, {i \in DOMAIN rows : ~Hidden(ask.text, rows[i])})
  IN SubSeq(visible, First(ask) + 1, Min({Len(visible), First(ask) + Size(ask)}))
InContext(ask, config, rows) ==
  IF Contextual(ask, config) THEN Promoted(Preferences(ask, rows), rows) ELSE rows

\* the two texts of a page that were learned most
LearnedIn(page) ==
  LET learnt == Those(page, {i \in DOMAIN page : CountOf(page[i].text) > 0})
      More(r, q) == CountOf(r.text) > CountOf(q.text)
      best == TextsIn(StableSort(learnt, More))
  IN SubSeq(best, 1, Min({2, Len(best)}))

---------------------------------------------------------------------------
(* Core's loop.                                                            *)

Deliver(reply) ==
  /\ server' = None
  /\ app' = IF conn = "closed" THEN app
            ELSE [app EXCEPT ![conn].pc = "told", ![conn].reply = reply]

\* a request is read and the configuration with it; an update that nobody has
\* asked for in five seconds may be dropped
Receive(a) ==
  /\ conn = a /\ server = None /\ app[a].pc \in {"ask", "poll"}
  /\ server' = [ask |-> IF app[a].pc = "ask" THEN app[a].ask ELSE [type |-> "update"],
                id |-> app[a].id, config |-> snapshot]
  /\ entry' \in {entry, {e \in entry : e.result = Waiting}}
  /\ UNCHANGED <<configVars, learningVars, app, conn, cache, learningGeneration, queued, running, acts>>

\* the client has closed its end
Disconnect ==
  /\ conn = "closed" /\ server = None /\ conn' = "nobody"
  /\ UNCHANGED <<configVars, learningVars, app, server, cache, learningGeneration, entry, queued, running, acts>>

Handles(type) == server # None /\ server.ask.type = type

\* the newest request only has an entry and a task
Submit(ask, page, hidden, contextual, learnedHere) ==
  /\ entry' = {[id |-> server.id, rows |-> page \o hidden, visible |-> Len(page),
                full |-> Dictionary[ask.text].size,
                contextual |-> contextual, learned |-> learnedHere, result |-> Waiting]}
  /\ queued' = TRUE
  /\ running' = IF running = "current" THEN "old" ELSE running

CacheKey(ask, config) ==
  [text |-> ask.text, context |-> ask.context, generation |-> generation,
   learning |-> learningGeneration, limit |-> Limit(ask, config), ranking |-> config.ranking]

\* candidate_request.  A cancellation may come before the rows are generated,
\* which there are none of then, or before they are cached
AnswerRows ==
  /\ Handles("rows")
  /\ \E cut \in {"no", "early", "late"} :
       LET ask == server.ask
           config == server.config
           key == CacheKey(ask, config)
           found == {i \in DOMAIN cache : cache[i].key = key}
           place == CHOOSE i \in found : TRUE
           rows == IF found # {} THEN cache[place].rows
                   ELSE IF cut = "early" THEN <<>> ELSE Generated(ask, config)
           others == IF found # {} THEN RemoveAt(cache, place) ELSE cache
           latest == <<[key |-> key, rows |-> rows]>> \o others
           page == Page(ask, InContext(ask, config, rows))
           learnedHere == IF config.learning THEN LearnedIn(page) ELSE <<>>
           ranked == config.ranking /\ page # <<>>
       IN /\ cache' = IF found = {} /\ cut # "no" THEN cache
                      ELSE SubSeq(latest, 1, Min({CacheSize, Len(latest)}))
          /\ IF ranked
             THEN Submit(ask, page, HiddenIn(ask, rows),
                         IF Contextual(ask, config) THEN Preferences(ask, rows) ELSE <<>>, learnedHere)
             ELSE UNCHANGED <<entry, queued, running>>
          /\ Deliver([type |-> "rows", rows |-> page, pending |-> ranked,
                      whole |-> found # {} \/ cut # "early", learned |-> learnedHere])
  /\ UNCHANGED <<configVars, learningVars, conn, learningGeneration, acts>>

\* candidate_update_request: Core waits for the model a little
AnswerUpdate ==
  /\ Handles("update")
  /\ LET ready == {e \in entry : e.id = server.id /\ e.result # Waiting}
         ranked == {e \in ready : server.config.ranking /\ e.result # Failed}
     IN /\ entry' = entry \ ready
        /\ \E rows \in IF ranked = {} THEN {<<>>} ELSE {Updated(e.result, e) : e \in ranked} :
             Deliver([type |-> "update", rows |-> rows])
  /\ UNCHANGED <<configVars, learningVars, conn, cache, learningGeneration, queued, running, acts>>

\* Sensitivity variant: what is learned leaves the cached rows valid.
AnswerCommitCached ==
  /\ Handles("commit")
  /\ IF server.config.learning THEN Learn(server.ask.text) ELSE LearnNothing
  /\ Deliver([type |-> "acknowledgement"])
  /\ UNCHANGED <<learningGeneration, configVars, conn, cache, entry, queued, running, acts>>
  /\ InBounds

\* candidate_committed
AnswerCommit ==
  /\ Handles("commit")
  /\ IF server.config.learning
     THEN Learn(server.ask.text) /\ learningGeneration' = learningGeneration + 1
     ELSE LearnNothing /\ UNCHANGED learningGeneration
  /\ Deliver([type |-> "acknowledgement"])
  /\ UNCHANGED <<configVars, conn, cache, entry, queued, running, acts>>
  /\ InBounds

---------------------------------------------------------------------------
(* Core ends, and starts again.                                            *)

\* what Core's memory had; the client that was connected tries once more
Ended ==
  /\ conn' = "nobody" /\ server' = None
  /\ cache' = <<>> /\ learningGeneration' = 0
  /\ entry' = {} /\ queued' = FALSE /\ running' = "no"
  /\ watch' = "down"
  /\ UNCHANGED <<store, snapshot, generation, seen>>
BrokenPipe ==
  app' = [a \in Apps |->
            IF conn # a \/ app[a].pc = "told" THEN app[a]
            ELSE IF app[a].pc = "shown" \/ app[a].tries = 1 THEN [app[a] EXCEPT !.tries = 2]
            ELSE Resting(app[a].id)]

\* shutdown_request comes as a request of its own client
CoreStops ==
  /\ conn = "nobody" /\ server = None
  /\ Shutdown
  /\ Ended /\ BrokenPipe
  /\ UNCHANGED <<files, saving>>
  /\ Spent(2) /\ InBounds
CoreCrashes ==
  /\ \/ Crash
     \/ Handles("commit") /\ server.config.learning /\ CrashFlushing(server.ask.text)
  /\ Ended /\ BrokenPipe
  /\ UNCHANGED <<files, saving, acts>>
  /\ InBounds
\* everything stops
PowerFails ==
  /\ PowerLoss
  /\ Ended
  /\ app' = [a \in Apps |-> Resting(app[a].id)]
  /\ saver' = [p \in Savers |-> Idle]
  /\ UNCHANGED <<files, deaths, acts>>
  /\ InBounds
\* the launcher starts Core again: see ConfigMonitor::start and load
CoreStarts ==
  /\ LoadCounts /\ StartMonitor
  /\ UNCHANGED serverVars

---------------------------------------------------------------------------
SavesBegin ==
  /\ \E p \in Savers, doc \in Config : BeginSave(p, doc)
  /\ UNCHANGED <<learningVars, app, conn, server, cache, learningGeneration, entry, queued, running>>
  /\ Spent(3) /\ InBounds
Saves == \E p \in Savers : Save(p) \/ SaverDies(p)
Monitors == up /\ (FirstObservation \/ Observe \/ Reload \/ Publish \/ Announce)

Next ==
  \/ \E a \in Apps : AskCandidates(a) \/ Commit(a) \/ Connect(a) \/ Expire(a) \/ Heard(a) \/ Poll(a) \/ Receive(a)
  \/ TakeTask \/ FinishTask
  \/ Disconnect \/ AnswerRows \/ AnswerUpdate \/ AnswerCommit
  \/ CoreStops \/ CoreCrashes \/ PowerFails \/ CoreStarts
  \/ SavesBegin
  \/ (Saves \/ Monitors) /\ UNCHANGED <<learningVars, serverVars>>

\* Core, the workers, the model and the monitor go on; users, settings
\* processes and failures need not
Fairness ==
  /\ \A a \in Apps : WF_vars(Connect(a)) /\ WF_vars(Heard(a)) /\ WF_vars(Poll(a)) /\ WF_vars(Receive(a))
  /\ WF_vars(TakeTask) /\ WF_vars(FinishTask) /\ WF_vars(Disconnect)
  /\ WF_server(server' = None)   \* AnswerRows, AnswerUpdate, AnswerCommit
  /\ WF_vars(Monitors /\ UNCHANGED <<learningVars, serverVars>>)

Spec == Init /\ [][Next]_vars /\ Fairness

---------------------------------------------------------------------------
Told(a, type) == app[a].pc = "told" /\ app[a].reply.type = type

\* Candidates are what the engine makes now of the input, under some
\* configuration: no answer comes from before the latest selection.
AnswersUseLearning ==
  [][\A a \in Apps : Told(a, "rows")' /\ ~Told(a, "rows") /\ app'[a].reply.whole =>
       \E config \in Config :
         app'[a].reply.rows =
           Page(app[a].ask, InContext(app[a].ask, config, Generated(app[a].ask, config)))]_vars

\* An update has rows of the page it updates, or of the first page's hidden
\* ones, and not more of them, though another application may have sent a
\* request of the same number; unless Core restarted in between.
UpdateOfItsRequest ==
  \A a \in Apps : Told(a, "update") /\ app[a].tries = 1 =>
    LET rows == app[a].reply.rows
        base == app[a].base.rows
        ask == app[a].ask
    IN /\ Len(rows) <= Len(base)
       /\ \A r \in ToSet(rows) : r \in ToSet(base) \/ (ask.page = 0 /\ Hidden(ask.text, r))

\* When the page's first sentence is one of those learned most, it is the
\* first of the update: neither the model nor the context displaces it.
LearnedFirstStays ==
  \A a \in Apps : Told(a, "update") /\ app[a].tries = 1 =>
    LET Whole(rows) == Those(rows, Wholes(rows, Dictionary[app[a].ask.text].size))
        before == Whole(app[a].base.rows)
        after == Whole(app[a].reply.rows)
    IN app[a].reply.rows # <<>> /\ before # <<>> /\ before[1].text \in ToSet(app[a].base.learned) =>
         after # <<>> /\ after[1] = before[1]

\* Who asks for candidates or commits is served or told, unless Core is not
\* there: no worker keeps the connection while it rests.  That others ask
\* without end is not excluded by the code, but by the bound on events.
ClientsServed == \A a \in Apps : app[a].pc = "ask" ~> app[a].pc # "ask" \/ ~up

\* What is saved is published, once the monitor watches the file, if it is a
\* document: saves that come while it reads are read later.
MonitorCatchesUp ==
  (up /\ watch # "start" /\ stamp # seen)
    ~> (main \notin Config \/ (snapshot = main /\ generation = store.gen) \/ ~up)
=============================================================================
