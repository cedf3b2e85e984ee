---------------------------- MODULE TextService ----------------------------
(***************************************************************************)
(* The TSF text service of the input method: the UI thread that owns the   *)
(* composition, the worker thread that asks Core for candidates, and the   *)
(* window messages by which the worker hands answers back.                 *)
(*                                                                         *)
(* The UI thread runs one handler at a time (a key, a mouse button, a      *)
(* focus notification, a posted result), so each handler is one action.    *)
(* The worker is split wherever it releases request_mutex_ or blocks.      *)
(*                                                                         *)
(* Abstractions.  The caret is left out: an edit may happen at any place   *)
(* of the input.  A candidate's text is identified by the reading it was   *)
(* converted from, the language context by the documents whose committed   *)
(* text it holds.  Core is an environment that answers a request with some *)
(* rows for the input it was sent, or fails to.                            *)
(***************************************************************************)
EXTENDS Integers, Sequences, FiniteSets, SequencesExt

CONSTANTS
  Letters,       \* the letters a key can type
  Sep,           \* the syllable separator, an apostrophe
  Docs,          \* the documents of the host application
  MaxInput,      \* kMaximumPinyinInputLength
  LastPage,      \* bound: the last page Core has rows for
  MaxEvents,     \* bound: user events in a behaviour
  MaxBacklog,    \* bound: posted messages the UI thread has not handled
  PostMayFail    \* whether PostMessageW may fail

ASSUME SepAssumption == Sep \notin Letters
ASSUME BoundsAssumption ==
  /\ MaxInput \in Nat \ {0}
  /\ LastPage \in Nat
  /\ MaxEvents \in Nat
  /\ MaxBacklog \in Nat \ {0}
  /\ PostMayFail \in BOOLEAN

VARIABLES
  query,         \* input_buffer_, candidate_page_, candidates_expanded_, correction_enabled_
  generation,    \* context_generation_
  rows,          \* candidates_ and candidate_consumed_
  hasMore,       \* has_more_candidates_
  pending,       \* candidate_request_pending_
  retries,       \* candidate_retry_count_
  deferredPage,  \* deferred_page_direction_
  deferred,      \* deferred_candidate_text_ and its context, {} when there is none
  active,        \* ActivateEx has run, Deactivate has not
  chinese,       \* chinese_mode_
  context,       \* documents whose text recent_language_context_ holds
  focus,         \* history: the document of the last focus notification
  nextId,        \* next_request_id_
  activeId,      \* active_candidate_request_id_
  latestId,      \* latest_candidate_request_id_
  slot,          \* pending_request_, {} when empty
  feedback,      \* feedback_requests_
  wpc,           \* where the worker is in worker_loop
  wreq,          \* the candidate request in the worker's hands
  wres,          \* the result the worker is about to post
  wfb,           \* the feedback in the worker's hands
  msgs,          \* posted kCandidateReady messages
  learned,       \* history: the id of the last feedback Core received
  scheduled,     \* history: candidate requests scheduled
  events         \* history: user events handled

uiVars      == <<query, generation, rows, hasMore, pending, retries, deferredPage, deferred>>
modeVars    == <<active, chinese, context, focus>>
idVars      == <<nextId, activeId, latestId>>
queueVars   == <<slot, feedback>>
workerVars  == <<wpc, wreq, wres, wfb>>
historyVars == <<learned, scheduled, events>>
vars == <<uiVars, modeVars, idVars, queueVars, workerVars, msgs, historyVars>>

----------------------------------------------------------------------------
(* Types *)

Char  == Letters \cup {Sep}
Input == Seq(Char)
Query == [input: Input, page: Nat, expanded: BOOLEAN, correction: BOOLEAN]
Text  == [reading: Input, page: Nat, correction: BOOLEAN]
Row   == [text: Text, consumed: Nat]

\* A query worth asking: the service never asks about an empty input.
Asked == {q \in Query : q.input # <<>>}

\* PendingRequest of type candidate_request.
Request == [id: Nat, gen: Nat, query: Asked]

\* CandidateResult, with the model_pending flag of the response it came from.
Result == [id: Nat, gen: Nat, query: Asked, rows: Seq(Row), hasMore: BOOLEAN,
           failed: BOOLEAN, ranked: BOOLEAN, model: BOOLEAN]

\* PendingRequest of type candidate_committed.
Feedback == [id: Nat, text: Text, input: Input, context: SUBSET Docs, doc: Docs]

Deferral == [text: Text, doc: Docs, gen: Nat]

WorkerPc == {"idle", "exchange", "post", "window", "update", "feedback", "stopped"}

UiTypeOK ==
  /\ query \in Query /\ generation \in Nat /\ rows \in Seq(Row)
  /\ hasMore \in BOOLEAN /\ pending \in BOOLEAN /\ retries \in Nat
  /\ deferredPage \in {-1, 0, 1} /\ deferred \subseteq Deferral

ModeTypeOK ==
  active \in BOOLEAN /\ chinese \in BOOLEAN /\ context \subseteq Docs /\ focus \in Docs

IdTypeOK == nextId \in Nat /\ activeId \in Nat /\ latestId \in Nat

QueueTypeOK == slot \subseteq Request /\ feedback \in Seq(Feedback)

WorkerTypeOK ==
  /\ wpc \in WorkerPc /\ wreq \subseteq Request /\ wres \subseteq Result
  /\ wfb \subseteq Feedback

HistoryTypeOK == learned \in Nat /\ scheduled \in Nat /\ events \in Nat

TypeOK ==
  /\ UiTypeOK /\ ModeTypeOK /\ IdTypeOK /\ QueueTypeOK /\ WorkerTypeOK
  /\ msgs \in Seq(Result)
  /\ HistoryTypeOK

----------------------------------------------------------------------------
(* Initial state: the service has just been activated. *)

\* The first page, collapsed.
FirstPage(input, correction) ==
  [input |-> input, page |-> 0, expanded |-> FALSE, correction |-> correction]

Init ==
  /\ query = FirstPage(<<>>, TRUE) /\ generation = 0 /\ rows = <<>> /\ hasMore = FALSE
  /\ pending = FALSE /\ retries = 0 /\ deferredPage = 0 /\ deferred = {}
  /\ active = TRUE /\ chinese = TRUE /\ context = {} /\ focus \in Docs
  /\ nextId = 1 /\ activeId = 0 /\ latestId = 0
  /\ slot = {} /\ feedback = <<>>
  /\ wpc = "idle" /\ wreq = {} /\ wres = {} /\ wfb = {}
  /\ msgs = <<>>
  /\ learned = 0 /\ scheduled = 0 /\ events = 0

----------------------------------------------------------------------------
(* clear_composition and schedule_candidate_request *)

\* Sensitivity variant: a deferred selection survives the end of its composition.
ClearCompositionKeepsDeferral(gen) ==
  /\ query' = FirstPage(<<>>, query.correction) /\ generation' = gen
  /\ rows' = <<>> /\ hasMore' = FALSE /\ pending' = FALSE /\ retries' = 0
  /\ deferredPage' = 0 /\ latestId' = 0
  /\ UNCHANGED <<activeId, deferred>>

\* clear_composition, leaving the generation at gen.  The request slot is not
\* emptied: a request already queued is sent and its answer dropped.
ClearComposition(gen) ==
  /\ query' = FirstPage(<<>>, query.correction) /\ generation' = gen
  /\ rows' = <<>> /\ hasMore' = FALSE /\ pending' = FALSE /\ retries' = 0
  /\ deferredPage' = 0 /\ deferred' = {} /\ latestId' = 0
  /\ UNCHANGED activeId

\* schedule_candidate_request: q becomes the current query and the newest
\* request replaces whatever the worker has not taken yet.
ScheduleRequest(q, gen, retry) ==
  /\ query' = q /\ generation' = gen
  /\ pending' = TRUE /\ retries' = retry /\ deferred' = {}
  /\ activeId' = nextId /\ latestId' = nextId
  /\ slot' = {[id |-> nextId, gen |-> gen, query |-> q]}
  /\ scheduled' = scheduled + 1

----------------------------------------------------------------------------
(* Committing a candidate *)

\* The input left once its leading separators are erased.
StripFront(s) ==
  LET leading == {i \in 1 .. Len(s) : \A j \in 1 .. i : s[j] = Sep}
  IN SubSeq(s, Cardinality(leading) + 1, Len(s))

\* The learned input: the consumed prefix without its trailing separators.
StripBack(s) ==
  LET trailing == {i \in 1 .. Len(s) : \A j \in i .. Len(s) : s[j] = Sep}
  IN SubSeq(s, 1, Len(s) - Cardinality(trailing))

CanConsume(row) == row.consumed \in 1 .. Len(query.input)

\* queue_commit_feedback
QueueFeedback(id, row, doc) ==
  /\ feedback' = Append(feedback,
       [id |-> id, text |-> row.text, doc |-> doc, context |-> context,
        input |-> StripBack(SubSeq(query.input, 1, row.consumed))])
  /\ nextId' = id + 1

\* commit_candidate once the edit session has inserted the text into doc.  The
\* request for the rest of the input is queued before the feedback.  turn is
\* what is left of the deferred page direction.
Commit(row, list, turn, doc) ==
  LET rest == StripFront(SubSeq(query.input, row.consumed + 1, Len(query.input)))
  IN /\ context' = context \cup {doc}
     /\ \/ /\ rest = <<>>
           /\ ClearComposition(generation + 1)
           /\ QueueFeedback(nextId, row, doc)
           /\ UNCHANGED <<slot, scheduled>>
        \/ /\ rest # <<>>
           /\ ScheduleRequest(FirstPage(rest, query.correction), generation + 1, 0)
           /\ rows' = list /\ hasMore' = FALSE /\ deferredPage' = turn
           /\ QueueFeedback(nextId + 1, row, doc)

----------------------------------------------------------------------------
(* User events, handled on the UI thread *)

UserEvent ==
  /\ active /\ events < MaxEvents /\ events' = events + 1

\* The handlers below leave these alone unless they say otherwise.
NotUi == <<workerVars, msgs, learned>>

\* The common tail of the editing keys: back to the first page, collapsed, with
\* a request for the new input.  The old rows stay on display.
EditTo(input) ==
  /\ ScheduleRequest(FirstPage(input, query.correction), generation + 1, 0)
  /\ hasMore' = FALSE /\ nextId' = nextId + 1
  /\ UNCHANGED <<rows, deferredPage, modeVars, feedback>>

\* A letter key.
KeyLetter ==
  /\ UserEvent /\ chinese /\ Len(query.input) < MaxInput
  /\ \E p \in 1 .. Len(query.input) + 1, c \in Letters : EditTo(InsertAt(query.input, p, c))
  /\ UNCHANGED NotUi

\* The apostrophe key: never beside another separator.
KeySeparator ==
  /\ UserEvent /\ query.input # <<>> /\ Len(query.input) < MaxInput
  /\ \E p \in 1 .. Len(query.input) + 1 :
       /\ p > 1 => query.input[p - 1] # Sep
       /\ p <= Len(query.input) => query.input[p] # Sep
       /\ EditTo(InsertAt(query.input, p, Sep))
  /\ UNCHANGED NotUi

\* The backspace key.
KeyBackspace ==
  /\ UserEvent
  /\ \E p \in 1 .. Len(query.input) :
       \/ /\ Len(query.input) > 1
          /\ EditTo(RemoveAt(query.input, p))
       \/ /\ Len(query.input) = 1
          /\ ClearComposition(generation + 2)
          /\ UNCHANGED <<modeVars, nextId, queueVars, scheduled>>
  /\ UNCHANGED NotUi

\* The escape key.
KeyEscape ==
  /\ UserEvent /\ query.input # <<>>
  /\ ClearComposition(generation + 1)
  /\ UNCHANGED <<modeVars, nextId, queueVars, scheduled, NotUi>>

\* The correction shortcut.
ToggleCorrection ==
  /\ UserEvent
  /\ \/ /\ query.input # <<>>
        /\ ScheduleRequest(FirstPage(query.input, ~query.correction), generation + 1, 0)
        /\ rows' = <<>> /\ hasMore' = FALSE /\ nextId' = nextId + 1
        /\ UNCHANGED deferredPage
     \/ /\ query.input = <<>>
        /\ query' = [query EXCEPT !.correction = ~query.correction]
        /\ UNCHANGED <<generation, rows, hasMore, pending, retries, deferredPage, deferred,
                       idVars, slot, scheduled>>
  /\ UNCHANGED <<modeVars, feedback, NotUi>>

\* commit_raw_input: the letters themselves go into the document.
CommitRawInput ==
  /\ UserEvent /\ query.input # <<>>
  /\ ClearComposition(generation + 1)
  /\ context' = {}
  /\ UNCHANGED <<active, chinese, focus, nextId, queueVars, scheduled, NotUi>>

\* apply_language_mode: leaving Chinese mode commits the raw input first.
ToggleLanguage ==
  /\ UserEvent
  /\ chinese' = ~chinese
  /\ \/ /\ chinese /\ query.input # <<>>
        /\ ClearComposition(generation + 2)
        /\ context' = {}
     \/ /\ chinese /\ query.input = <<>>
        /\ ClearComposition(generation + 1)
        /\ UNCHANGED context
     \/ /\ ~chinese
        /\ UNCHANGED <<uiVars, activeId, latestId, context>>
  /\ UNCHANGED <<active, focus, nextId, queueVars, scheduled, NotUi>>

\* Sensitivity variant: the first page has one before it.
CanTurnBelowFirst(direction, more) ==
  IF direction > 0 THEN more ELSE TRUE

\* The paging step of change_candidate_page, once the request is not pending.
CanTurn(direction, more) ==
  IF direction > 0 THEN more ELSE query.page > 0

TurnTo(page) ==
  /\ ScheduleRequest([query EXCEPT !.page = page], generation, 0)
  /\ hasMore' = FALSE /\ nextId' = nextId + 1

\* change_candidate_page from a key or a button.
TurnPage ==
  /\ UserEvent /\ query.input # <<>> /\ ~query.expanded
  /\ \E direction \in {-1, 1} :
       \/ /\ pending
          /\ deferredPage' = direction
          /\ UNCHANGED <<query, generation, rows, hasMore, pending, retries, deferred,
                         idVars, slot, scheduled>>
       \/ /\ ~pending /\ CanTurn(direction, hasMore)
          /\ TurnTo(query.page + direction)
          /\ UNCHANGED <<rows, deferredPage>>
  /\ UNCHANGED <<modeVars, feedback, NotUi>>

\* The expand button of invoke_hit_target.
ToggleExpanded ==
  /\ UserEvent /\ query.input # <<>> /\ ~pending
  /\ rows # <<>> \/ query.expanded
  /\ ScheduleRequest([query EXCEPT !.page = 0, !.expanded = ~query.expanded], generation, 0)
  /\ hasMore' = FALSE /\ nextId' = nextId + 1
  /\ UNCHANGED <<rows, deferredPage, modeVars, feedback, NotUi>>

\* A digit, space or click on a row while the request is pending:
\* defer_candidate_selection remembers the text and the text context.
DeferSelection ==
  /\ UserEvent /\ pending
  /\ \E i \in DOMAIN rows :
       deferred' = {[text |-> rows[i].text, doc |-> focus, gen |-> generation]}
  /\ UNCHANGED <<query, generation, rows, hasMore, pending, retries, deferredPage,
                 modeVars, idVars, queueVars, scheduled, NotUi>>

\* The same with no request pending: commit_candidate.  An edit session that
\* fails changes nothing.
SelectCandidate ==
  /\ UserEvent /\ ~pending
  /\ \E i \in DOMAIN rows : CanConsume(rows[i]) /\ Commit(rows[i], rows, deferredPage, focus)
  /\ UNCHANGED <<active, chinese, focus, NotUi>>

\* Sensitivity variant: the language context follows the focus.
ChangeFocusKeepsContext ==
  /\ UserEvent
  /\ ClearComposition(generation + 1)
  /\ focus' \in Docs
  /\ UNCHANGED <<active, chinese, context, nextId, queueVars, scheduled, NotUi>>

\* The focus notifications: another document, another context, or the thread
\* losing the focus.
ChangeFocus ==
  /\ UserEvent
  /\ ClearComposition(generation + 1)
  /\ context' = {} /\ focus' \in Docs
  /\ UNCHANGED <<active, chinese, nextId, queueVars, scheduled, NotUi>>

----------------------------------------------------------------------------
(* Results, handled on the UI thread as posted messages *)

\* Sensitivity variant: only the page and the layout of a result are compared.
AcceptsAnyGeneration(r) ==
  /\ r.query.page = query.page /\ r.query.expanded = query.expanded
  /\ query.input # <<>>

\* The early return of handle_candidate_result.
Accepts(r) ==
  /\ r.gen = generation /\ r.id = activeId
  /\ r.query.page = query.page /\ r.query.expanded = query.expanded
  /\ query.input # <<>>

\* Sensitivity variant: the retry counter is left alone, so it never stops.
RetryRequestUncounted == ScheduleRequest(query, generation, retries)

\* The first failure of a request asks again under a new request id.
RetryRequest == ScheduleRequest(query, generation, retries + 1)

Turns(r) == ~r.ranked /\ deferredPage # 0 /\ CanTurn(deferredPage, r.hasMore)

\* Row i of r is the first with the text of the deferred selection (std::find).
Chosen(i, r, d) ==
  r.rows[i].text = d.text /\ \A j \in 1 .. i - 1 : r.rows[j].text # d.text

\* What installing r leaves behind when no deferred input acts on it.
InstallRows(r) ==
  /\ pending' = FALSE /\ rows' = r.rows
  /\ retries' = IF r.failed THEN retries ELSE 0
  /\ hasMore' = IF r.ranked THEN hasMore ELSE r.hasMore
  /\ deferredPage' = IF r.ranked THEN deferredPage ELSE 0
  /\ deferred' = {}
  /\ UNCHANGED <<query, generation, idVars, slot, scheduled, context, feedback>>

\* handle_candidate_result: the deferred page turn comes first, then the
\* deferred selection, which commits into the context it was made in.
HandleResult ==
  /\ active /\ msgs # <<>>
  /\ msgs' = Tail(msgs)
  /\ LET r == Head(msgs)
     IN \/ /\ ~Accepts(r)
           /\ UNCHANGED <<uiVars, idVars, queueVars, scheduled, context>>
        \/ /\ Accepts(r) /\ r.failed /\ retries = 0
           /\ RetryRequest /\ nextId' = nextId + 1
           /\ UNCHANGED <<rows, hasMore, deferredPage, context, feedback>>
        \/ /\ Accepts(r) /\ ~(r.failed /\ retries = 0)
           /\ \/ /\ Turns(r)
                 /\ TurnTo(query.page + deferredPage)
                 /\ rows' = r.rows /\ deferredPage' = 0
                 /\ UNCHANGED <<context, feedback>>
              \/ /\ ~Turns(r)
                 /\ \E d \in deferred, i \in DOMAIN r.rows :
                      /\ Chosen(i, r, d) /\ CanConsume(r.rows[i])
                      /\ Commit(r.rows[i], r.rows,
                                IF r.ranked THEN deferredPage ELSE 0, d.doc)
              \/ /\ ~Turns(r)      \* nothing deferred, or the selection came to nothing
                 /\ InstallRows(r)
  /\ UNCHANGED <<active, chinese, focus, workerVars, learned, events>>

----------------------------------------------------------------------------
(* Activation *)

\* How often Core receives one feedback: not at all, once, or again because the
\* client sent it a second time over a new connection.
Deliveries == 0 .. 2

Learn(n) ==
  \/ n = 0 /\ UNCHANGED learned
  \/ n > 0 /\ \E f \in wfb : learned' = f.id

\* Deactivate: the worker is stopped and joined, what it had not finished is
\* dropped, and the message window goes away with its messages.
Deactivate ==
  /\ UserEvent
  /\ active' = FALSE
  /\ wpc' = "stopped" /\ wreq' = {} /\ wres' = {} /\ wfb' = {}
  /\ \/ wpc = "feedback" /\ \E n \in Deliveries : Learn(n)
     \/ wpc # "feedback" /\ UNCHANGED learned
  /\ slot' = {} /\ feedback' = <<>> /\ msgs' = <<>>
  /\ ClearComposition(generation + 1)
  /\ UNCHANGED <<chinese, context, focus, nextId, scheduled>>

\* ActivateEx: a new worker, and Chinese mode whatever it was before.
Activate ==
  /\ ~active /\ events < MaxEvents /\ events' = events + 1
  /\ active' = TRUE /\ chinese' = TRUE /\ wpc' = "idle"
  /\ UNCHANGED <<uiVars, context, focus, idVars, queueVars, wreq, wres, wfb, msgs,
                 learned, scheduled>>

----------------------------------------------------------------------------
(* What Core answers *)

\* The row of a query that converts the first n characters of its input.
RowOf(q, n) ==
  [text |-> [reading |-> SubSeq(q.input, 1, n), page |-> q.page, correction |-> q.correction],
   consumed |-> n]

\* Core may have no row, or one for the first character and one for the input.
BaseRows(q) ==
  {<<>>, IF Len(q.input) = 1 THEN <<RowOf(q, 1)>> ELSE <<RowOf(q, 1), RowOf(q, Len(q.input))>>}

\* The model may give no order, or put the row for the whole input first.
RankedRows(q) ==
  {<<>>, IF Len(q.input) = 1 THEN <<RowOf(q, 1)>> ELSE <<RowOf(q, Len(q.input)), RowOf(q, 1)>>}

\* has_more: only a page before the last one has more behind it.
MoreAfter(q, list) == list # <<>> /\ q.page < LastPage

----------------------------------------------------------------------------
(* The worker thread: worker_loop *)

NotWorker == <<uiVars, modeVars, idVars, scheduled, events>>

\* Sensitivity variant: the newest feedback is sent first.
WorkerTakeNewest ==
  /\ wpc = "idle"
  /\ \/ /\ slot # {}
        /\ wpc' = "exchange" /\ wreq' = slot /\ slot' = {}
        /\ UNCHANGED <<feedback, wfb>>
     \/ /\ slot = {} /\ feedback # <<>>
        /\ wpc' = "feedback" /\ wfb' = {Last(feedback)} /\ feedback' = Front(feedback)
        /\ UNCHANGED <<slot, wreq>>
  /\ UNCHANGED <<wres, msgs, learned, NotWorker>>

\* Sensitivity variant: the wait is for a candidate request only.
WorkerTakeRequests ==
  /\ wpc = "idle" /\ slot # {}
  /\ wpc' = "exchange" /\ wreq' = slot /\ slot' = {}
  /\ UNCHANGED <<feedback, wfb, wres, msgs, learned, NotWorker>>

\* The wait at the top of the loop: a candidate request goes before feedback.
WorkerTake ==
  /\ wpc = "idle"
  /\ \/ /\ slot # {}
        /\ wpc' = "exchange" /\ wreq' = slot /\ slot' = {}
        /\ UNCHANGED <<feedback, wfb>>
     \/ /\ slot = {} /\ feedback # <<>>
        /\ wpc' = "feedback" /\ wfb' = {Head(feedback)} /\ feedback' = Tail(feedback)
        /\ UNCHANGED <<slot, wreq>>
  /\ UNCHANGED <<wres, msgs, learned, NotWorker>>

FailedResult(q) ==
  [id |-> q.id, gen |-> q.gen, query |-> q.query, rows |-> <<>>, hasMore |-> FALSE,
   failed |-> TRUE, ranked |-> FALSE, model |-> FALSE]

BaseResult(q, list, more, model) ==
  [id |-> q.id, gen |-> q.gen, query |-> q.query, rows |-> list, hasMore |-> more,
   failed |-> FALSE, ranked |-> FALSE, model |-> model]

RankedResult(q, list) ==
  [id |-> q.id, gen |-> q.gen, query |-> q.query, rows |-> list, hasMore |-> FALSE,
   failed |-> FALSE, ranked |-> TRUE, model |-> FALSE]

\* The candidate exchange returns, with an answer or with any of the errors
\* that post a failure.  An answer to a superseded request is dropped here.
WorkerAnswer ==
  /\ wpc = "exchange"
  /\ \E q \in wreq :
       \/ /\ latestId # q.id
          /\ wpc' = "idle" /\ wreq' = {} /\ UNCHANGED wres
       \/ /\ latestId = q.id
          /\ wpc' = "post" /\ UNCHANGED wreq
          /\ \/ wres' = {FailedResult(q)}
             \/ \E list \in BaseRows(q.query), model \in BOOLEAN :
                  wres' = {BaseResult(q, list, MoreAfter(q.query, list), model)}
  /\ UNCHANGED <<wfb, queueVars, msgs, learned, NotWorker>>

\* Sensitivity variant: a failed exchange is not reported to the UI thread.
WorkerPostDropsFailures ==
  /\ wpc = "post" /\ Len(msgs) < MaxBacklog
  /\ \E r \in wres :
       /\ msgs' = IF r.failed THEN msgs ELSE Append(msgs, r)
       /\ wpc' = IF r.model THEN "window" ELSE "idle"
       /\ wreq' = IF r.model THEN wreq ELSE {}
  /\ wres' = {}
  /\ UNCHANGED <<wfb, queueVars, learned, NotWorker>>

\* PostMessageW of a result.  If it fails the result is dropped and nothing
\* tells the UI thread.
WorkerPost ==
  /\ wpc = "post" /\ Len(msgs) < MaxBacklog
  /\ \E r \in wres :
       \/ /\ msgs' = Append(msgs, r)
          /\ wpc' = IF r.model THEN "window" ELSE "idle"
          /\ wreq' = IF r.model THEN wreq ELSE {}
       \/ /\ PostMayFail
          /\ wpc' = "idle" /\ wreq' = {}
          /\ UNCHANGED msgs
  /\ wres' = {}
  /\ UNCHANGED <<wfb, queueVars, learned, NotWorker>>

\* The 2 ms wait before the model update: new work ends it.
WorkerWindow ==
  /\ wpc = "window"
  /\ \/ /\ slot # {} \/ feedback # <<>>
        /\ wpc' = "idle" /\ wreq' = {}
     \/ /\ slot = {} /\ feedback = <<>>
        /\ wpc' = "update" /\ UNCHANGED wreq
  /\ UNCHANGED <<wres, wfb, queueVars, msgs, learned, NotWorker>>

\* The update exchange: ranked rows, or none, a failure or "still pending".
WorkerUpdate ==
  /\ wpc = "update"
  /\ \E q \in wreq : \E list \in RankedRows(q.query) :
       \/ /\ list # <<>>
          /\ wres' = {RankedResult(q, list)} /\ wpc' = "post" /\ UNCHANGED wreq
       \/ /\ list = <<>>
          /\ wpc' = "idle" /\ wreq' = {} /\ UNCHANGED wres
  /\ UNCHANGED <<wfb, queueVars, msgs, learned, NotWorker>>

\* The feedback exchange: whatever it returns, the feedback is done with.
WorkerFeedback ==
  /\ wpc = "feedback"
  /\ \E n \in Deliveries : Learn(n)
  /\ wpc' = "idle" /\ wfb' = {}
  /\ UNCHANGED <<wreq, wres, queueVars, msgs, NotWorker>>

----------------------------------------------------------------------------

User ==
  \/ KeyLetter \/ KeySeparator \/ KeyBackspace \/ KeyEscape
  \/ ToggleCorrection \/ CommitRawInput \/ ToggleLanguage
  \/ TurnPage \/ ToggleExpanded \/ DeferSelection \/ SelectCandidate
  \/ ChangeFocus \/ Deactivate \/ Activate

Worker ==
  \/ WorkerTake \/ WorkerAnswer \/ WorkerPost \/ WorkerWindow \/ WorkerUpdate
  \/ WorkerFeedback

Next == User \/ HandleResult \/ Worker

Spec == Init /\ [][Next]_vars

\* Every exchange has a deadline, so the worker never stays in one, and the
\* host pumps its messages.  Nothing is assumed of the user.
Fairness == WF_vars(Worker) /\ WF_vars(HandleResult)

FairSpec == Spec /\ Fairness

----------------------------------------------------------------------------
(* Properties *)

ConvertedFrom(q, list) ==
  \A i \in DOMAIN list :
    list[i].consumed \in 1 .. Len(q.input) /\ list[i] = RowOf(q, list[i].consumed)

\* Rows that a key or a click may commit were computed by Core for exactly the
\* input, page and correction mode now on display, so the number of
\* characters a commit erases is the number its text stands for.  It is what
\* candidate_request_pending_ and the checks of handle_candidate_result protect.
CommittableIsCurrent ==
  ~pending /\ query.input # <<>> => ConvertedFrom(query, rows)

\* A remembered selection belongs to the composition and to the document it was
\* made in, and there is a request whose answer will settle it.
DeferralIsForThisComposition ==
  \A d \in deferred : pending /\ d.gen = generation /\ d.doc = focus

\* However requests fail and whatever was deferred, the service sends at most
\* two candidate requests for each thing the user did: the automatic retry is
\* bounded over a whole behaviour, not only between two resets of its counter.
RequestsBounded == scheduled <= 2 * events

\* The language context sent to Core, with requests and with feedback, holds
\* only text committed to the document that has the focus, however late the
\* answer that commits a deferred selection.
ContextOfFocusedDocument ==
  /\ context \subseteq {focus}
  /\ \A i \in DOMAIN feedback : feedback[i].context \subseteq {feedback[i].doc}

\* Feedback still to be sent, or being sent.
FeedbackWaiting == ToSet(feedback) \cup wfb

\* Core learns commits in the order they were made, whatever was lost or sent
\* twice on the way: everything it has learned was committed before everything
\* that still waits.
LearnedInOrder ==
  \A f \in FeedbackWaiting : learned < f.id

\* The candidate request whose answer the window is waiting for.
Awaited(r) == r.id = activeId /\ r.gen = generation /\ r.query = query

\* As long as the window shows a pending request, that very request is queued,
\* in the worker's hands, or answered by a message still to be handled: the
\* pending state has an end.  It takes every PostMessageW to succeed.
PendingIsServed ==
  pending => \/ \E q \in slot : Awaited(q)
             \/ wpc = "exchange" /\ \E q \in wreq : Awaited(q)
             \/ wpc = "post" /\ \E r \in wres : Awaited(r) /\ ~r.ranked
             \/ \E i \in DOMAIN msgs : Awaited(msgs[i]) /\ ~msgs[i].ranked

\* A pending request is answered or given up once the user pauses.
PendingResolves == pending ~> ~pending

\* Feedback gives way to candidate requests but is not starved for good.
FeedbackDrains == (feedback # <<>>) ~> (feedback = <<>>)

\* ADR 0027: the page buttons do nothing while a request is pending, so only a
\* user event ever advances the page.
PagingDisabledWhilePending == [][query'.page > query.page => events' # events]_vars

\* ADR 0028: feedback is not lost: while the service stays active, feedback that
\* no longer waits has reached Core.
FeedbackNotLost ==
  [][active' => \A f \in FeedbackWaiting :
                  f \notin FeedbackWaiting' => learned' >= f.id]_vars

====
