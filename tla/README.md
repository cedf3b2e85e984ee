# OwO input method: formal models

OwO is a Chinese pinyin input method for Windows. This directory holds TLA+ models of its concurrent parts, of what it
keeps on disk and of its candidate engine, the configurations that TLC checks them with, and theorems about them
checked by TLAPS. Paths such as
`src/tsf/text_service.cpp` are relative to the repository.

    tlc -workers 2 -config TextService.cfg MCTextService.tla     # any of the runs below
    tlapm TextServiceProofs.tla                                  # any of the proof modules

`PROJECT.json` lists the runs, for every definition the source lines it models, for every property a mutation of
the code's model that breaks it, the hazards of the code, and the findings.

## 1. The system

Four kinds of process take part.

| Process | Parts | State they keep |
|---|---|---|
| Every application with a text field | the **text service**, a COM object in the application's UI thread, and its worker thread | input, candidates on display, request and context generations, deferred selection and paging, two queues of requests |
| Core Service | the **core pipe server**, the **configuration store and monitor**, the **candidate engine** over **lexicons**, **user frequency**, the **plugin executor** | candidate cache, model task queue, configuration snapshot and generation, learned counts, plugin call queue and session |
| Model host | **model inference** behind a pipe | the loaded model |
| Plugin processes | one process per plugin, in a sandbox or with full trust | whatever the plugin keeps |

The settings center, the configuration and plugin shells are front ends that change files: the configuration, and
the **plugin store** with its **installer** and **authorizations**.

How they interact:

- *Text service and Core.* A key changes the input and schedules a candidate request in a slot that holds one. The
  worker thread takes it, exchanges one message over a named pipe with a deadline, and posts the answer to a
  message-only window of the UI thread. A commit queues feedback for Core, which gives way to candidate requests.
- *Core and the model host.* Core answers from its lexicons at once and starts a model task. A second exchange asks
  for the reordered page. Old tasks are dropped for new ones.
- *Core and files.* A thread polls the configuration file and publishes snapshots with a generation; candidate
  caches are tagged with it. Settings processes save that file, several at a time if they are asked to. Learned counts
  are written every 32 commits and when Core ends.
- *Core and plugins.* Callers submit calls to the executor, whose worker launches a process for the plugin's active
  version and calls it over a private pair of pipes. Deadlines and cancellations are forwarded by a watchdog.
- *Tools and the plugin store.* Versions are published, activated and removed under a mutex that only the tools take;
  readers in Core take none and check what they read.

What is hard in it, and what makes each part correct:

| Component | Hard behaviour | Correct when |
|---|---|---|
| text service | late answers, deferred selections, retries, focus changes, two queues with priorities, lost exchanges and posts | what can be committed was computed for what is shown; a deferred selection commits only into its own composition; requests per user action are bounded; documents do not mix; feedback is learned in order; pending states end |
| core pipe server and client | one client at a time, sessions that break mid-exchange and are retried, cancellation by named event, cached pages | an answer belongs to its request; a cached page to the configuration and counts it was made with; nobody waits for ever |
| candidate engine, lexicons, contextual order, pinyin cursor | segmentation, correction, page arithmetic | the algorithms agree with their definitions for every input |
| user frequency | saturating counts, crash between backup and file | counts never wrap around and never vanish |
| configuration store, monitor | crash between steps of a save, concurrent savers, a file changing while it is read | some valid document survives; the generation changes with the snapshot |
| plugin executor | submit against stop, a full queue, expiry and cancellation at every point, sessions of other plugins | each call gets one result, in order; a plugin only gets its calls, with the permissions they need; the stop ends it |
| plugin host and session | caller, watchdog, cancellation and plugin race; answers and cancellations cross | nothing of a call is left for the next one; a killed process is reported; a process is killed only for a cause |
| plugin store, installer, authorization | crashes between moves and record writes, rollback that fails, stale listings | an active record always names an intact version; recovery finishes what a crash left |
| plugin packages, protocol, pipes | parsing | not state machines |
| service processes, launcher | start order, restarts | a service that dies is started again, not in a loop |
| tools, settings, packaging, data | none while the program runs | |

## 2. What is modelled

### TextService: the text service (`src/tsf/text_service.cpp`)

The UI thread runs one handler at a time, so each handler is one action with everything it calls: `KeyLetter`,
`KeySeparator`, `KeyBackspace`, `KeyEscape`, `CommitRawInput`, `SelectCandidate`, `DeferSelection`, `TurnPage`,
`ToggleExpanded`, `ToggleCorrection`, `ToggleLanguage`, `ChangeFocus`, `Activate`, `Deactivate` and `HandleResult`
(a posted answer). The worker is split wherever it unlocks or blocks: `WorkerTake`, `WorkerAnswer`, `WorkerPost`,
`WorkerWindow` (the 2 ms wait before the model's update), `WorkerUpdate` and `WorkerFeedback`. Variables correspond
to members one to one (see the comments on them); `focus`, `learned`, `scheduled` and `events` are history.

Abstractions: the caret is left out, an edit happens at any place; a candidate's text is the reading, page and mode
it was computed from; the language context is the set of documents it has text of; Core answers any rows for the
query it was asked, fails, or receives feedback any number of times up to two (the client sends again over a new
connection). Left out: edit sessions that re-enter the UI thread, the drawing and geometry of the window, shortcuts.

### PluginExecutor and PluginCalls: the executor (`src/core/plugin_executor.cpp`)

`PluginCalls` is what the executor promises its callers: each call gets one result, accepted calls in the order they
were accepted, with bounds on how many wait, and rejections only for reasons that hold. `PluginExecutor` is the code:
`SubmitCheck` (all checks of `submit`, without the lock), `SubmitQueue` (its critical section), and the worker's loop
as `Take`, `Check`, `Switch`, `Launch`, `Dispatch` (the deadline and the checks with which the session's `invoke`
starts), `Invoke`, `Close` and `Drain`. `Stop`, `Cancel`, `Expire` and `ChangeActive` (another process deactivates or
switches the version) happen at any time. The refinement maps the contract's `waiting` to `job \o abandoned \o queue`.

### PluginInvoke: a call in a session (`PluginHostSession::invoke` in `src/plugin/plugin_host.cpp`)

The calling thread is `Begin`, `Receive`, `ReceiveFails`, `Complete`, `Join`, `Return`; the watchdog `WatchTest`,
`WatchBlock`, `WatchDeadline`, `WatchCancel`, `WatchSend`, `WatchGrace`, `WatchKill`. Testing a wait's condition and
blocking are two steps, as they are in the code for anyone who notifies without holding the mutex. `RequestCancel`
flips the stop token, `NotifyCancel` is its callback. Time is where the clock stands relative to the deadline: early,
near (the remaining time may round down to nothing, and the code classifies failures as timeouts), late. The plugin
(the loop of `apps/example_process_plugin/main.cpp`) reads, answers, acknowledges or ignores a cancellation, and it
may crash at any point or send a message out of turn. Messages are kinds with ids. `PluginInvoke` shows what the one
step `Invoke` of `PluginExecutor` may end in.

### The candidate engine (`src/engine`, `src/tsf/pinyin_cursor.cpp`)

| Module | Models |
|---|---|
| `PinyinSchema` | `full_pinyin_schema.cpp`: segmentation of a strict input, its budget and its order, the incremental parse, abbreviations, fuzzy and corrected spellings |
| `CandidateGenerator` | `candidate_generator.cpp` up to the collection of rows, with the look-ups of the lexicons: the chart of words and its beam, leading words, initials, double initials, hidden alternatives, scores |
| `CandidateRanking` | the passes after that: limits, coherence, what is moved or put first |
| `PinyinCursor` | caret and preview: which places of one are which of the other, what an edit does to the preview |
| `Places` | what this engine and the contextual order of Core both do with the places of a sequence: elements in the order of some places, sorting |
| `CandidateEngine` | a user who types, erases and chooses (the editing in `text_service.cpp`), and Core's handling of a candidate request with its one incremental parse state (`run_core_server`) |

The algorithms are operators and recursive functions; `CandidateEngine` is the state machine that gives them every
history of an input: typed letter by letter, with requests Core never saw, cancelled parses, erased letters and chosen
rows. Letters are numbers, texts sequences of numbers. Left out: the bigram model, which Core does not load, tones,
metrics, and the file format of the lexicons.

### The Core service (`src/ipc/named_pipe.cpp`, `src/config`, `src/engine/user_frequency.cpp`)

| Module | Models |
|---|---|
| `ConfigService` | `ConfigStore`: `save` as `BeginSave` to `ReplaceMain`, `GiveUp` for its error paths, `SaverDies`; `load` as `Loaded`; `ConfigMonitor`: `StartMonitor`, `FirstObservation`, `Observe`, `Reload`, `Publish`, `Announce` |
| `LearningStore` | `UserFrequencyStore`: `Learn` and `FlushWhenDue`, `LoadCounts`, `Shutdown`, `Crash`, `CrashFlushing`, `PowerLoss`; `FlushedTo` is what each stage of a flush leaves. Only the move is written through: a power loss may damage the file, the backup or both |
| `CandidateOrder` | `contextual_candidate_order.h`, as operators on rows and on `Places` |
| `CandidateServer` | the composition: the workers of several applications with their persistent connection and its one retry, the serial server of `run_core_server`, its cache, its model requests and task queue, restarts |

`Receive` reads a request and, in the same step, the published configuration; `AnswerRows`, `AnswerUpdate` and
`AnswerCommit` are the handlers of the three requests. Between them the monitor, the savers, the model's thread and the
clients' deadlines (`Expire`) take their steps, so the generation that tags a cached page is read later than the
snapshot the page is made with, as in the code. What the engine finds for an input is a constant; learning and
sensitivity order it, the page is cut from it, and the model's order is applied to it with all of `CandidateOrder`. A
model's request is kept by its number only: the numbers of two applications coincide.

### The plugin store (`src/plugin/plugin_store.cpp`, installer and authorizations)

`PluginDisk` is the store of one plugin on disk as a value: version directories, version records, the active record,
authorizations, staging directories, tombstones, temporary files, the sandbox profile; and, as operators, the queries,
the recovery scan and the removal of one of its items. A package is the identity of its digests, so two builds of one
version are two packages. `PluginStore` is the processes: each runs one command of `owo_plugin_shell` as steps between
any two of which it may die and others run. A file operation is a step that may fail.

| Command | Steps |
|---|---|
| install, install-risk | `StartInstall`, `Extracted`, `PublishMove`, `PublishRecord`, `PublishActive`; `GrantCheck`, `GrantWrite` with a consent; `Discard` |
| activate, deactivate, revoke | `StartActivate`, `ActivateCheck`, `ActivateWrite`; `StartDeactivate`, `Deactivate`; `StartRevoke`, `GrantCheck`, `GrantWrite` |
| cleanup | `StartCleanup`, `CleanupCheck`, `CleanupRemove` |
| uninstall | `StartUninstall`, `UninstallCheck`, `Detach`, `DeleteProfile`, `DeleteRecord`, `DeleteGrant`, `DeleteTomb`, and `RestoreRecord`, `RestoreDir`, `RestoreProfile` for the rollback, `Report` |

`HostQueries` and `HostPrepares` are a plugin host that reads the store without the lock. Taking the lock and the checks
after it are one step, since what they read changes only under the lock; extraction, authorizations and queries take
none, as in the code. A store starts as earlier commands left it, with what an uninstall left that died. `raced` in a job
is history: whether another process was between `GrantCheck` and `GrantWrite` for the version when the uninstall deleted
its authorization.

## 3. What is checked

| Run | Bounds | Shows |
|---|---|---|
| `text_service` | 1 letter and the separator, 2 documents, inputs of 2 characters, 2 pages, 5 user events, 2 unhandled messages; posts may fail | the safety properties `CommittableIsCurrent`, `DeferralIsForThisComposition`, `RequestsBounded`, `ContextOfFocusedDocument`, `LearnedInOrder` |
| `text_service_live` | 1 document, 4 events, posts succeed | a pending request always has someone who will settle it (`PendingIsServed`) and is settled (`PendingResolves`); feedback is not starved (`FeedbackDrains`) |
| `plugin_executor` | 3 calls of 5 kinds for 2 plugins, a queue of one | the contract (`ImplementsPluginCalls`), `InvokesAsAsked`, `NothingTakenAfterStop`, `EveryCallAnswered`, `StopEnds` |
| `plugin_invoke` | 3 calls in a session, one message out of turn | `NothingLeftOver`, `HonestOutcome`, `KilledForCause`, `AnswerEndsCall` |
| `candidate_engine` | 4 letters with all 17 of their syllables and the apostrophe, 26 words; every input of 2 letters and 7 longer ones with what leads to them; one letter whose request Core does not see; beams of 2 | the parse keeps the shortest reading whatever the history (`ShortestReadingFirst`, `IncrementalKeepsFirst`); the beams keep the best sentence (`BestSentenceFirst`); rows are distinct, use whole syllables, and correction only adds (`RowsDistinct`, `RowsUseSyllables`, `CorrectionOnlyAdds`); input and preview stay in step (`PreviewSpells`, `EditsKeepPreview`) |
| `core_service` | 2 applications, 2 settings processes, 3 documents, 2 inputs, a cache of 2, a flush every 2 commits; user events and failures up to a weight of 6 (a save 3, a request, a commit, a restart or a failure 2) | answers know what was learned (`AnswersUseLearning`); updates belong to their request and keep learned rows first (`UpdateOfItsRequest`, `LearnedFirstStays`); no selection is unaccounted for, and what was flushed survives failures and crashes (`NothingUnaccounted`, `LearningSurvives`); a document can be loaded (`ConfigLoadable`) and the last save is published (`MonitorCatchesUp`); who asks is served (`ClientsServed`) |
| `plugin_store` | 2 processes, 2 versions in 3 packages, 3 commands, 2 failures or deaths | the active record resolves (`ActiveResolves`); installed versions stay (`InstalledStays`); an uninstall says what it did, and leaves an authorization only if another process was about to write one (`UninstallHonest`); cleaning up what the scan lists recovers every store (`CleanupRecovers`) |

Why the bounds are enough. Two characters are the least that a partial commit can leave something of; a request, its
retry and a late answer with two edits between them fit in five events, as do a deferred selection, a focus change
and the answer. With two messages unhandled an old answer is behind a new one. Three calls with a queue of one give a
call in hand, one queued and one rejected, and a session that must be switched. In a session, what is left over by a
call meets the next one, and a third begins after a cancelled one.

The engine's inputs were chosen for what makes segmentation ambiguous: a syllable that is also two (`nian`, `lian`),
syllables that meet in two ways (`anali`), apostrophes, a leading syllable that stays while the rest is retyped, an
abbreviation, and a letter that begins no syllable. The code's beams (32 and more) never bind on inputs one can
enumerate, so the model's are smaller, and `BestSentenceFirst` is checked where they do bind. In `core_service` a weight
of six is three requests, commits or failures in any mixture, or two saves, or a save with one of the others: a commit
between two requests for the same rows, a save while the monitor reads, a failed flush and a crash, two applications
with the same number. What `LearningSurvives` says of longer histories of flushes, failures and power losses than fit in
that weight is proved for all of them (section 5). With two processes every pair of the plugin
store's commands meets, a third command meets what the two left, and two faults make a rollback fail, or a cleanup of
what a death left die too. A store need not be built up first: the initial states include every sound store of these
packages and those an uninstall left.

What the properties except, as far as it is known: saves of which two die in the middle of a write can leave both the
document and its backup cut short, because all savers share the names of the temporary files (`config_store.cpp:434`).
`ConfigLoadable` therefore speaks of states in which at most one saver died so; the theorem holds for any number of
savers, the run has two. `flush` writes neither its temporary file nor the copy it makes as backup through to the disk
(`user_frequency.cpp:249-256`), so one power loss can damage both and leave nothing that can be read. `LearningSurvives`
promises the last flush's counts while no power loss has damaged the file; those of one of the last two when a power
loss damaged the file, spared the backup and is the only fault; and in every other case that nothing is read that no
flush wrote. An uninstall's success can be followed by an authorization that a revoke or an install-risk, past its
check, writes without the lock (`plugin_authorization_store.cpp:111-130`). And a page of one row, which
`validate_config` accepts, leaves no room for the words of two initials; the models assume two rows or more.

Three simplifications help a property. `stamp` counts the replacements of the configuration, where the monitor compares size
and write time: two replacements of one size within one tick of the file system's clock are told apart in the model only.
`Reload` never fails on a document that is valid; in the code a read that fails for another reason, after the observation
was noted (`config_monitor.cpp:101`), is not tried again until the file changes, so `MonitorCatchesUp` assumes that the file
can be read. And `ClientsServed` is checked with bounded user events: it shows that nobody keeps Core's pipe while at
rest, not that one client gets it while others ask without end.

Fairness. The text service's worker and its message window are weakly fair: every exchange has a deadline, and an
application pumps its messages; nothing is assumed of the user. The executor's worker is weakly fair because launch,
invocation and shutdown all have deadlines; a caller inside `submit` runs on. In `PluginInvoke` the threads are weakly
fair, and for `AnswerEndsCall` also a plugin that reads and answers; time never has to pass. In `CandidateServer` Core's
loop, the workers, the model's thread and the monitor are weakly fair, each of their steps being a system call with a
deadline or none; users, settings processes, deadlines and failures are not, and nothing makes Core start again. No
strong fairness is used. Deadlock checking is off because each of these systems may rest: a stopped executor, an
unused session, a finished bound of events, a store nobody changes.

## 4. Where code and documents disagree

Each is a run that TLC finds violated; `PROJECT.json` quotes the lines.

| Run | What happens |
|---|---|
| `text_service_paging` | A page turn asked for during a request is kept and turns the page when the answer comes, even one for another input; ADR 0027 says paging is disabled meanwhile. |
| `text_service_feedback_loss` | A feedback exchange that fails loses its feedback; ADR 0028 says feedback is never lost. Order is kept. |
| `plugin_executor_stale` | An idle session of a deactivated version stays until the next call; ADR 0017 says it may not. |
| `plugin_invoke_kill` | The watchdog can kill the process after its answer was received; the call is reported as a success and the dead session kept. ADR 0015 says a hard timeout is reported as a forced termination. |
| `plugin_invoke_cancel` | The stop callback notifies without the watchdog's mutex. The notification can fall between the test and the wait, and then the cancellation is noticed only at the deadline. |

Further divergences came up while modelling which no run is about:

- The rollback of a failed uninstall moves the directory back whether or not the record could be restored
  (`plugin_store.cpp:1018`), and before it prepares the profile again (1022). When the record or the profile fails, the
  version is reported as removed and `retained_uninstall_path` (1004) names a directory that is not there any more. ADR
  0018, decision 4, promises a tombstone that the scan can list. `UninstallHonest` accepts the files in either place.
- After a start from the backup the damaged file stays where it is, and the next flush copies it over the backup
  (`user_frequency.cpp:256`) without looking at whether it can be decoded; when the move after that fails (258), file and
  backup are both damaged and the next start of Core fails. `p2-kickoff.md:64` promises recovery from the last valid
  snapshot. `LearningSurvives` excepts what follows a power loss that damaged the file and a second fault.
- `PluginStore` exempts by a mark a directory that stands beside the record of an earlier build of its version. An
  install over a record that a died uninstall left moves the new build in first and replaces the record after
  (`plugin_store.cpp:466-476`); a death or a double failure between the two leaves contents bound by another build's
  record, which the queries accept. ADR 0010 has each version's record bind its package.
- `ActiveResolves` exempts a version that was published after a cleanup took files of it (`harmed`, a history variable
  in the store): the staged files are looked at before the lock is taken (450-457), and the scan offers the staging
  directories of running installations. Such a version can be made active without its manifest; the scan then lists its
  directory as orphaned, and with a third command cleaning it up leaves an active record that names nothing.
- An uninstall and a host that starts the plugin can leave the sandbox profile behind the last version: the host reads
  the active record first and prepares the profile later.
- A commit that was written before Core died is sent again to the next Core and counts twice; a failed flush when Core
  ends loses what was not written. `NothingUnaccounted` is about the time between.
- `parse_incremental` keeps a prefix that a full parse of the same letters would not always keep when its first path is
  incomplete (`full_pinyin_schema.cpp:529-616`); `IncrementalKeepsFirst` asks for equality where the full parse's first
  path is complete.

## 5. What is proved

The theorems hold for every value of the constants that satisfies the `ASSUME`s of the module they are about. Those say
little: special values are not members of the sets they are told apart from, sizes, limits, weights and the sensitivity
are numbers, a dictionary's rows and a model's answer are sequences, no input has two rows of one text (which
`AnswersAreDistinct` proves of the engine), versions, packages and processes are finite in number, there is a version. Of
the engine they say that the tables of syllables and of words are finite, that no syllable is empty or has an apostrophe,
that scores and counts are integers, that budgets and limits are natural numbers, and that a page has two rows or more.

`TextServiceProofs` proves `TypeCorrect`, `CommittableCorrect`, `DeferralCorrect` and `ContextCorrect`.

- `TypeOK` is inductive. Its substance is the pure part: what inserting, erasing and stripping separators leave is an
  input, and no request asks about an empty one.
- `CommittableIsCurrent` is not inductive. `CurrentInv` adds that ids in use are below `nextId`; that every answer under
  way converts the query it carries; and that a request or answer with the active id and the current generation asks
  about the query on display. An edit always takes a new generation and a new id, so old answers fail `Accepts`; an
  accepted answer converts the query shown.
- `DeferralIsForThisComposition` and `ContextOfFocusedDocument` are proved together (`FocusInv`): the context stays that
  of the focused document only because a deferred selection is dropped by whatever changes the focus.

It continues with `RequestsAreBounded`, `LearningKeepsOrder` and `PendingServed`.

- `RequestsBounded` compares requests with user events. `WithinBudget` counts also what may still come without an event:
  the one retry of a pending request, and two requests for each deferred page turn or selection. An answer spends of that
  only while the window waits for it, so `Served` is needed: an answer that can be accepted is awaited. It in turn needs
  `InOrder` (the newer a request, the less far it has come), and `RankedSucceeds`: the model's order, which may come
  after the answer, is no failure and earns no retry.
- `LearnedInOrder` follows from `FeedbackInv`: feedback waits in the order of the commits, behind what is being sent.
- `PendingIsServed` needs that the slot and the worker hold one request each and that the active one is the latest. It
  is proved for an application whose `PostMessageW` succeeds (`PostMayFail = FALSE`); without that it is false.

`PluginExecutorProofs` proves `ExecutorTypeCorrect`, `ExecutorImplementsPluginCalls`, `ExecutorInvokesAsAsked` and
`ExecutorTakesNothingAfterStop` from one inductive invariant, `ExecutorInv`. Its part `Shape` says which of the three
sequences of waiting calls can be non-empty where the worker is. So each step leaves `Waiting` alone, appends to it or
removes its head, which is a step of the contract. That no call waits twice (`WaitsOnce`) is needed because finishing a
call forgets its request, which must not be the request of another place in the queue. `AcceptedRequests` keeps what
`submit` established until the worker uses it, and gives `InvokesAsAsked`.

`PluginInvokeProofs` proves `InvokeTypes`, `SessionsAreClean` (`NothingLeftOver`), `OutcomesAreHonest` and
`KillsHaveCause` for any number of calls. `InvokeInv` says which ids messages have (`Ids`), what the caller's and the
watchdog's places imply of each other (`Phases`, `Causes`), and, above all, what the two pipes and the plugin can hold
together (`Exchange`): each of a call's messages is in one place at most, the answer only after the request was read,
the acknowledgement only after the cancellation was. From this `AtRest` follows: between calls nothing is under way in a
session that is kept.

`CoreFilesProofs` proves the two stores as specifications of their own.

- `ConfigStaysLoadable`: the temporary files have one writer at a time (`OneWriter`), although all savers use the same
  names, since a file that is written is not shared; and a writer still holds what it began (`WritersHold`). A death cuts
  short one temporary file, and a later save may move that one into place, so the document and its backup are both whole
  without a death and one of them is with one. That is as much as is true.
- `LearningInvariant`: the file with the unflushed selections makes up what Core has learned (`NothingUnaccounted`);
  and `LastWritten`: the file is the last that a flush wrote until a power loss damages it, the backup is one of the last
  two until the first fault, and still after it if that was a power loss that spared the backup, and neither ever has
  readable counts that no flush wrote. `FewAreLost`: without a fault fewer selections than a flush takes are only in
  memory.

`CandidateServerProofs` shows that the Core service implements both (`CoreImplementsConfig`, `CoreImplementsLearning`):
each of its steps is one of the store's or leaves it alone. So the stores' theorems hold of the composition
(`CoreStaysLoadable`, `CoreAccountsForSelections`, `CoreLearningSurvives`, `CoreLosesFew`, `CoreTypes`). Of Core's own it
proves `CoreAnswersUseLearning`. `CacheFresh` says that no cached entry is tagged with more than Core has learned, and that
one tagged with just that has the rows the engine makes now; a commit makes every tag old, a restart empties the cache
as it begins to count anew. `Serving` says that the request in hand is the one its client still waits with.

`CoreUpdatesItsRequest` proves `UpdateOfItsRequest`. The numbers of requests are no help: every application counts from
one. What helps is the connection (`Linked`): a worker that shows candidates and will still be updated has kept it, so
nobody else can replace the model's entry, and the entry of its number was made with its page (`MadeWith`). A restart
makes the worker try again, for which nothing is promised. What then remains is that `Updated` invents no row, for any
rows and any answer of the model (`UpdatedIn`): the order of a model gives each place a row, since in a strict weak order
with ties broken by place every rank is taken (`Ranked`, `Ordered`); moving rows and keeping some of them adds none; and
the folds over preferences keep that (`FoldDefined`, `FoldStays`, as for the plugin store's fold).

`CoreKeepsLearnedFirst` proves `LearnedFirstStays` from the same invariant, since `MadeWith` also says that the entry
begins with the page and remembers what of it was learned. For any answer of the model its order keeps every row and puts
those for the whole input first (`ModelSorts`, `SortedKeeps`); promoting what the context prefers keeps both, because it
moves a row only among those that use as much of the input (`MovedKeeps`). The learned first sentence is then put back
into the first of those places, which is the first of all, and no later preference gets there: only the base's first
sentence has that rank (`RestoreKeeps`, `RestoredFirst`). Which row a text means must be certain for this; that is where
rows of one text would do harm. At least one sentence is kept, so the cut to the page spares it (`WithWholesKeepsFirst`).

`PluginStoreProofs` proves `StoreTypes`, `ActiveRecordResolves`, `AuthorizationGone`, `UninstallReports`, `InstalledVersionsStay` and
`CleanupAlwaysRecovers` for any number of processes, versions, packages, commands and faults.

- `StoreInv` is the discipline of the lock together with what each process knows at each of its steps (`Phase`): a
  process past its checks relies on what it saw, and nobody else may change that. Most commands' steps are `Quiet` for
  all versions but their own. Uninstalls need most: while the directory is a tombstone the version is nobody's, and the
  rollback finds its place free (`TombFree`).
- `UninstallReports` needs `GrantFree` besides (`AuthorizationGone`): from the deletion of the authorization to the report
  there is none and nobody is about to write one, or somebody was when it was deleted. `GrantCheck` cannot pass meanwhile,
  since the version has no record; every other step but `GrantWrite` at most deletes authorizations (`ElsehowWrites`).
- `CleanupRecovers` is about a whole sequence of removals, the fold of `Cleaned` over what the scan lists. The fold's
  equation holds for every finite set: a least set for which it failed would give one with less
  (`FoldDefined`, `FoldKeeps`). What the fold keeps is that each removal spares what no item names, and that an item that
  is removed stays removed (`SameAnswers`, `Gone`). What is left has nothing the scan lists: it is sound.

`CandidateEngineProofs` proves of the engine, for all inputs and tables, that the rows of an answer use whole segments
of the input (`AnswersUseSyllables`), that no two have one text (`AnswersAreDistinct`), that the preview of an answer
spells the input (`PreviewsSpell`), and that an edit leaves input and preview in step (`PreviewsAreEditedAlike`).
`EngineInv`, the invariant, says that input and preview are texts, that the incremental state holds a parse of some
input (`ParsesOf`), and that the rows on display are rows of this input.

- A path tiles the input between its apostrophes (`Tilings`). Every source of paths gives tilings: the segmentation within
  its budget, the incremental parse, whose kept prefix is one that tiles the same letters of the new input
  (`IncrementalParses`), abbreviations, fuzzy and corrected spellings. Offsets that lead from one to the next through
  syllables and apostrophes (`Follows`) are what `Tilings`, the rows' use of segments (`Uses`) and the chart of words share.
- Every row that `Generate` collects uses some of its own segments as a whole (`RowSet`), whatever its source; the passes
  after that cut, move and relabel rows, and invent none (`GenerateUsesSyllables`).
- Rows are kept one for each text (`BestPerText`); from there every pass keeps texts apart (`Apart`): a pass gives each
  place of its result a row of its own, since sorting, moving to the front, limits and coherence are all reorderings of
  some of the places (`Places`). Three passes need more: hidden alternatives are added for texts no row has, words are put
  before sentences by taking them out first, and the pages of two initials divide the rows between words and others (`Divided`).
- The segments of a row are slices of the input, one after the other with at most an apostrophe between (`Covers`), and so are
  those of an exact path and the runs of the raw input: whatever the preview is taken from, joining it shows each character
  of the input in order (`JoinedShows`), and giving the letters back as the user wrote them changes nothing (`RespelledShown`).
  A character for the first of two initials is the one row that covers less (`Fits`). It is first on the pages of an
  answer only when the answer has no word (`PagesLead`), which is the exception that `PreviewSpells` makes.
- An input's caret is translated by counting what the beginnings of the preview show. A preview that spells the input shows
  each character of it once, in order, with apostrophes between; an edit at the caret that this count gives keeps that
  (`EditsSpell`).

A recursive function is chosen by its equation, and has its values only if some function does. One exists up to every
number, and by induction beyond it; that is how the proofs get at what the algorithms compute.
`SequenceLemmas` states such facts for any sets: a recursion over a sequence (`RecursionDefined`, `FlattenSeq`), sorting as
a rearrangement (`SortedBy`), the elements at some places in their order (`Those`). Both orders, that of the engine and that of
`CandidateServerProofs`, cite it.

Model-checked only: the liveness properties (the prover has no rule for fairness here); the refusals that section 4 quotes,
which are counterexamples; and four properties of `CandidateEngine`. These hold only while something does not bind, or
of lexicons such as the one checked, and so not for every value of the constants: `ShortestReadingFirst` and
`IncrementalKeepsFirst` while the budget is enough for the first path, `CorrectionOnlyAdds` while the limit on rows is not
reached, `BestSentenceFirst` where no coherence lifts another sentence over the best.

## 6. What is not modelled

- The operating system calls: COM, process creation, sandboxes, pipes' overlapped I/O, registration, drawing.
- Formats: messages, packages, manifests, dictionaries, configuration and count files; numerical code of the models.
- Edit sessions of the text service that run later or re-enter it.
- The launcher's checks for running processes and its delays; the model host's own server.
- What front ends print and show; installers, benchmarks, offline tools, test data.
- Sizes and times: how long a deadline is, 2^32 - 1 selections of one text.

`PROJECT.json` says for each component what of it is left out.

## 7. Plan

Done: `TextService`, `PluginExecutor` with `PluginCalls` and the proofs about both, `PluginInvoke`, the engine,
`CandidateServer` with what it composes, `PluginStore`, and the proofs about all of these.

Every safety property that a run checks is proved, but for the four of `CandidateEngine` that section 5 names.

To model next, if the instances stay within reach: the edit session of a commit as steps of its own; the launcher.
