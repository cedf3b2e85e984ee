------------------------- MODULE TextServiceProofs --------------------------
(***************************************************************************)
(* Theorems about the text service, for any letters, documents and bounds. *)
(*                                                                         *)
(* TypeCorrect is inductive by itself.  CommittableIsCurrent is not: it    *)
(* needs to know that every answer under way converts the query it was     *)
(* asked, that an answer the UI thread would accept was asked about the    *)
(* very query on display, and that request ids are new (CurrentInv).       *)
(* DeferralIsForThisComposition and ContextOfFocusedDocument hold together *)
(* (FocusInv): a deferred selection commits into the document it was made  *)
(* in, so the context stays that document's only if the deferral is.       *)
(*                                                                         *)
(* Request ids are handed out once and travel in order: what is queued is  *)
(* newer than what the worker has, and that newer than what it posted      *)
(* (InOrder).  So an answer the UI thread accepts is the only one to its   *)
(* request, apart from the model's order of it, and the window shows a     *)
(* request as pending while such an answer can still come (Served).  Then  *)
(* a failure is retried only for a pending request, and what is pending or *)
(* deferred is a debt that never exceeds what user events paid for         *)
(* (WithinBudget).                                                         *)
(* Feedback is queued with growing ids and sent from the front             *)
(* (FeedbackInv), so Core learns in the order of the commits.  The request *)
(* the window waits for is never dropped on its way: the worker holds one  *)
(* at a time, and the latest id is the active one (PendingInv).            *)
(***************************************************************************)
EXTENDS TextService, SequenceTheorems, FiniteSetTheorems, TLAPS

\* Any piece of an input is an input.
LEMMA SubSeqType ==
  ASSUME NEW s \in Input, NEW m \in Nat \ {0}, NEW n \in Int, n <= Len(s)
  PROVE  /\ SubSeq(s, m, n) \in Input
         /\ Len(SubSeq(s, m, n)) = IF m <= n THEN n - m + 1 ELSE 0
         /\ \A i \in 1 .. n - m + 1 : SubSeq(s, m, n)[i] = s[m + i - 1]
<1>1. Len(s) \in Nat
  BY LenProperties DEF Input
<1>2. \A i \in m .. n : s[i] \in Char
  BY <1>1, ElementOfSeq DEF Input
<1> QED
  BY <1>1, <1>2, SubSeqProperties DEF Input

\* Typing a character keeps the input one, and not empty.
LEMMA InsertAtType ==
  ASSUME NEW s \in Input, NEW p \in 1 .. Len(s) + 1, NEW c \in Char
  PROVE  InsertAt(s, p, c) \in Input /\ Len(InsertAt(s, p, c)) = Len(s) + 1
<1>1. Len(s) \in Nat
  BY LenProperties DEF Input
<1> DEFINE left == SubSeq(s, 1, p - 1)
           right == SubSeq(s, p, Len(s))
<1>2. left \in Input /\ Len(left) = p - 1 /\ right \in Input /\ Len(right) = Len(s) - p + 1
  BY <1>1, SubSeqType
<1>3. <<c>> \in Input /\ Len(<<c>>) = 1
  BY DEF Input
<1> HIDE DEF left, right
<1>4. left \o <<c>> \in Input /\ Len(left \o <<c>>) = p
  BY <1>1, <1>2, <1>3, ConcatProperties DEF Input
<1> DEFINE front == left \o <<c>>
<1> HIDE DEF front
<1>5. front \o right \in Input /\ Len(front \o right) = p + Len(right)
  BY <1>2, <1>4, ConcatProperties DEF Input, front
<1>6. Len(front \o right) = Len(s) + 1
  BY <1>1, <1>2, <1>5
<1> QED
  BY <1>5, <1>6 DEF InsertAt, front, left, right

\* Erasing one keeps the input one.
LEMMA RemoveAtType ==
  ASSUME NEW s \in Input, NEW p \in 1 .. Len(s)
  PROVE  RemoveAt(s, p) \in Input /\ Len(RemoveAt(s, p)) = Len(s) - 1
<1> DEFINE left == SubSeq(s, 1, p - 1)
           right == SubSeq(s, p + 1, Len(s))
<1>1. Len(s) \in Nat
  BY LenProperties DEF Input
<1>2. left \in Input /\ Len(left) = p - 1
  BY <1>1, SubSeqType
<1>3. right \in Input /\ Len(right) = Len(s) - p
  BY <1>1, SubSeqType
<1>4. RemoveAt(s, p) = left \o right
  BY DEF RemoveAt
<1> HIDE DEF left, right
<1>5. left \o right \in Input /\ Len(left \o right) = Len(left) + Len(right)
  BY <1>2, <1>3, ConcatProperties DEF Input
<1>6. Len(left) + Len(right) = Len(s) - 1
  BY <1>1, <1>2, <1>3
<1> QED
  BY <1>4, <1>5, <1>6

\* What a commit leaves of the input.
LEMMA StripFrontType ==
  ASSUME NEW s \in Input
  PROVE  StripFront(s) \in Input
<1> DEFINE leading == {i \in 1 .. Len(s) : \A j \in 1 .. i : s[j] = Sep}
<1>1. Len(s) \in Nat
  BY LenProperties DEF Input
<1>2. Cardinality(leading) \in Nat
  <2>1. IsFiniteSet(1 .. Len(s)) /\ leading \in SUBSET (1 .. Len(s))
    BY <1>1, FS_Interval
  <2> QED
    BY <2>1, FS_Subset, FS_CardinalityType
<1> HIDE DEF leading
<1>3. SubSeq(s, Cardinality(leading) + 1, Len(s)) \in Input
  BY <1>1, <1>2, SubSeqType
<1> QED
  BY <1>3 DEF StripFront, leading

\* What a commit teaches Core.
LEMMA StripBackType ==
  ASSUME NEW s \in Input
  PROVE  StripBack(s) \in Input
<1> DEFINE trailing == {i \in 1 .. Len(s) : \A j \in i .. Len(s) : s[j] = Sep}
<1>1. Len(s) \in Nat
  BY LenProperties DEF Input
<1>2. Cardinality(trailing) \in Nat
  <2>1. IsFiniteSet(1 .. Len(s)) /\ trailing \in SUBSET (1 .. Len(s))
    BY <1>1, FS_Interval
  <2> QED
    BY <2>1, FS_Subset, FS_CardinalityType
<1> HIDE DEF trailing
<1>3. SubSeq(s, 1, Len(s) - Cardinality(trailing)) \in Input
  BY <1>1, <1>2, SubSeqType
<1> QED
  BY <1>3 DEF StripBack, trailing


----------------------------------------------------------------------------
(* Type correctness *)

\* The query a new input starts with is a query, worth asking unless it is empty.
LEMMA FirstPageType ==
  ASSUME NEW input \in Input, NEW correction \in BOOLEAN
  PROVE  /\ FirstPage(input, correction) \in Query
         /\ input # <<>> => FirstPage(input, correction) \in Asked
BY DEF FirstPage, Query, Asked

\* clear_composition leaves well-typed UI state whatever it found.
LEMMA ClearCompositionType ==
  ASSUME TypeOK, NEW gen \in Nat, ClearComposition(gen)
  PROVE  UiTypeOK' /\ activeId' \in Nat /\ latestId' \in Nat
<1>1. FirstPage(<<>>, query.correction) \in Query
  BY EmptySeq, FirstPageType DEF Input, TypeOK, UiTypeOK, Query
<1> QED
  BY <1>1, EmptySeq DEF TypeOK, UiTypeOK, IdTypeOK, ClearComposition

\* schedule_candidate_request does, when the query is worth asking.
LEMMA ScheduleRequestType ==
  ASSUME TypeOK, NEW q \in Asked, NEW gen \in Nat, NEW retry \in Nat,
         ScheduleRequest(q, gen, retry),
         rows' \in Seq(Row), hasMore' \in BOOLEAN, deferredPage' \in {-1, 0, 1},
         nextId' \in Nat
  PROVE  UiTypeOK' /\ IdTypeOK' /\ slot' \subseteq Request /\ scheduled' \in Nat
BY DEF TypeOK, UiTypeOK, IdTypeOK, HistoryTypeOK, ScheduleRequest, Request, Asked

\* The common tail of the editing keys.
LEMMA EditToType ==
  ASSUME TypeOK, NEW input \in Input, input # <<>>, EditTo(input), UserEvent, UNCHANGED NotUi
  PROVE  TypeOK'
<1> DEFINE q == FirstPage(input, query.correction)
<1>1. q \in Asked
  BY FirstPageType DEF TypeOK, UiTypeOK, Query
<1>2. ScheduleRequest(q, generation + 1, 0)
  BY DEF EditTo
<1>3. rows' \in Seq(Row) /\ deferredPage' \in {-1, 0, 1} /\ nextId' \in Nat
  BY DEF EditTo, TypeOK, UiTypeOK, IdTypeOK
<1>4. hasMore' \in BOOLEAN
  BY DEF EditTo
<1>5. generation + 1 \in Nat
  BY DEF TypeOK, UiTypeOK
<1>6. UiTypeOK' /\ IdTypeOK' /\ slot' \subseteq Request /\ scheduled' \in Nat
  BY <1>1, <1>2, <1>3, <1>4, <1>5, ScheduleRequestType
<1> QED
  BY <1>6 DEF EditTo, TypeOK, ModeTypeOK, QueueTypeOK, WorkerTypeOK, HistoryTypeOK, modeVars,
              NotUi, workerVars, UserEvent

\* queue_commit_feedback appends one well-formed feedback.
LEMMA QueueFeedbackType ==
  ASSUME TypeOK, NEW id \in Nat, NEW row \in Row, NEW doc \in Docs, CanConsume(row),
         QueueFeedback(id, row, doc)
  PROVE  feedback' \in Seq(Feedback) /\ nextId' \in Nat
<1>1. SubSeq(query.input, 1, row.consumed) \in Input
  BY SubSeqType DEF CanConsume, TypeOK, UiTypeOK, Query, Input
<1>2. [id |-> id, text |-> row.text, doc |-> doc, context |-> context,
        input |-> StripBack(SubSeq(query.input, 1, row.consumed))] \in Feedback
  BY <1>1, StripBackType DEF Feedback, Row, TypeOK, ModeTypeOK
<1> QED
  BY <1>2, AppendProperties DEF QueueFeedback, TypeOK, QueueTypeOK

\* commit_candidate, both when it ends the composition and when it goes on with
\* the rest of the input.
LEMMA CommitType ==
  ASSUME TypeOK, NEW row \in Row, NEW list \in Seq(Row), NEW turn \in {-1, 0, 1},
         NEW doc \in Docs, CanConsume(row), Commit(row, list, turn, doc)
  PROVE  /\ UiTypeOK' /\ IdTypeOK' /\ QueueTypeOK' /\ scheduled' \in Nat
         /\ context' \subseteq Docs
<1> DEFINE rest == StripFront(SubSeq(query.input, row.consumed + 1, Len(query.input)))
           q == FirstPage(rest, query.correction)
<1>1. rest \in Input
  <2>1. SubSeq(query.input, row.consumed + 1, Len(query.input)) \in Input
    BY SubSeqType, LenProperties DEF CanConsume, TypeOK, UiTypeOK, Query, Input, Row
  <2> QED
    BY <2>1, StripFrontType
<1>2. rest # <<>> => q \in Asked
  BY <1>1, FirstPageType DEF TypeOK, UiTypeOK, Query
<1>3. generation + 1 \in Nat /\ nextId \in Nat /\ nextId + 1 \in Nat
  BY DEF TypeOK, UiTypeOK, IdTypeOK
<1>4. context' \subseteq Docs
  BY DEF Commit, TypeOK, ModeTypeOK
<1>5. CASE /\ ClearComposition(generation + 1)
           /\ QueueFeedback(nextId, row, doc)
           /\ UNCHANGED <<slot, scheduled>>
  BY <1>3, <1>4, <1>5, ClearCompositionType, QueueFeedbackType
  DEF TypeOK, IdTypeOK, QueueTypeOK, HistoryTypeOK
<1>6. CASE /\ rest # <<>>
           /\ ScheduleRequest(q, generation + 1, 0)
           /\ rows' = list /\ hasMore' = FALSE /\ deferredPage' = turn
           /\ QueueFeedback(nextId + 1, row, doc)
  <2>1. feedback' \in Seq(Feedback) /\ nextId' \in Nat
    BY <1>3, <1>6, QueueFeedbackType
  <2> QED
    BY <1>2, <1>3, <1>4, <1>6, <2>1, ScheduleRequestType DEF QueueTypeOK
<1> QED
  BY <1>5, <1>6 DEF Commit

\* The rows Core may answer with are rows of the query.
LEMMA RowOfType ==
  ASSUME NEW q \in Query, NEW n \in 1 .. Len(q.input)
  PROVE  RowOf(q, n) \in Row
<1>1. SubSeq(q.input, 1, n) \in Input
  BY SubSeqType, LenProperties DEF Query, Input
<1> QED
  BY <1>1, LenProperties DEF RowOf, Row, Text, Query, Input

\* Whatever Core answers, the lists the worker may post are lists of rows.
LEMMA AnswerType ==
  ASSUME NEW q \in Asked
  PROVE  BaseRows(q) \subseteq Seq(Row) /\ RankedRows(q) \subseteq Seq(Row)
<1>1. 1 \in 1 .. Len(q.input) /\ Len(q.input) \in 1 .. Len(q.input)
  BY EmptySeq DEF Asked, Query, Input
<1>2. RowOf(q, 1) \in Row /\ RowOf(q, Len(q.input)) \in Row
  BY <1>1, RowOfType DEF Asked
<1>3. /\ <<>> \in Seq(Row) /\ <<RowOf(q, 1)>> \in Seq(Row)
      /\ <<RowOf(q, 1), RowOf(q, Len(q.input))>> \in Seq(Row)
      /\ <<RowOf(q, Len(q.input)), RowOf(q, 1)>> \in Seq(Row)
  BY <1>2
<1> QED
  BY <1>3 DEF BaseRows, RankedRows

----------------------------------------------------------------------------

\* The service is well typed when activated.
LEMMA InitTypeOK == Init => TypeOK
<1> SUFFICES ASSUME Init PROVE TypeOK
  OBVIOUS
<1>1. UiTypeOK
  BY EmptySeq, FirstPageType DEF Init, UiTypeOK, Input
<1>2. ModeTypeOK
  BY DEF Init, ModeTypeOK
<1>3. IdTypeOK /\ QueueTypeOK /\ msgs \in Seq(Result) /\ HistoryTypeOK
  BY DEF Init, IdTypeOK, QueueTypeOK, HistoryTypeOK
<1>4. WorkerTypeOK
  BY DEF Init, WorkerTypeOK, WorkerPc
<1> QED
  BY <1>1, <1>2, <1>3, <1>4 DEF TypeOK

\* What an action that leaves the worker alone still has to show.
LEMMA UiStepType ==
  ASSUME TypeOK, UNCHANGED NotUi, UiTypeOK', ModeTypeOK', IdTypeOK', QueueTypeOK',
         scheduled' \in Nat, events' \in Nat
  PROVE  TypeOK'
BY DEF TypeOK, NotUi, workerVars, WorkerTypeOK, HistoryTypeOK

\* What an action that ends the composition still has to show.
LEMMA ClearStepType ==
  ASSUME TypeOK, UserEvent, NEW gen \in Nat, ClearComposition(gen),
         UNCHANGED <<nextId, queueVars, scheduled, NotUi>>, ModeTypeOK'
  PROVE  TypeOK'
<1>1. UiTypeOK' /\ activeId' \in Nat /\ latestId' \in Nat
  BY ClearCompositionType
<1>2. IdTypeOK' /\ QueueTypeOK' /\ scheduled' \in Nat /\ events' \in Nat
  BY <1>1 DEF TypeOK, IdTypeOK, QueueTypeOK, HistoryTypeOK, UserEvent, queueVars
<1> QED
  BY <1>1, <1>2, UiStepType

\* The editing keys.
LEMMA KeyTypes ==
  ASSUME TypeOK
  PROVE  /\ KeyLetter => TypeOK'
         /\ KeySeparator => TypeOK'
         /\ KeyBackspace => TypeOK'
         /\ KeyEscape => TypeOK'
<1>1. query.input \in Input /\ Len(query.input) \in Nat /\ generation + 1 \in Nat
      /\ generation + 2 \in Nat
  BY LenProperties DEF TypeOK, UiTypeOK, Query, Input
<1>2. ASSUME NEW p \in 1 .. Len(query.input) + 1, NEW c \in Char
      PROVE  InsertAt(query.input, p, c) \in Input /\ InsertAt(query.input, p, c) # <<>>
  BY <1>1, InsertAtType, EmptySeq DEF Input
<1>3. KeyLetter => TypeOK'
  BY <1>2, EditToType DEF KeyLetter, Char
<1>4. KeySeparator => TypeOK'
  BY <1>2, EditToType DEF KeySeparator, Char
<1>5. ASSUME KeyBackspace PROVE TypeOK'
  <2> PICK p \in 1 .. Len(query.input) :
          \/ /\ Len(query.input) > 1
             /\ EditTo(RemoveAt(query.input, p))
          \/ /\ Len(query.input) = 1
             /\ ClearComposition(generation + 2)
             /\ UNCHANGED <<modeVars, nextId, queueVars, scheduled>>
    BY <1>5 DEF KeyBackspace
  <2>1. CASE Len(query.input) > 1 /\ EditTo(RemoveAt(query.input, p))
    <3>1. RemoveAt(query.input, p) \in Input /\ RemoveAt(query.input, p) # <<>>
      BY <1>1, <2>1, RemoveAtType, EmptySeq DEF Input
    <3> QED
      BY <1>5, <2>1, <3>1, EditToType DEF KeyBackspace
  <2>2. CASE /\ ClearComposition(generation + 2)
             /\ UNCHANGED <<modeVars, nextId, queueVars, scheduled>>
    BY <1>1, <1>5, <2>2, ClearStepType DEF KeyBackspace, TypeOK, ModeTypeOK, modeVars
  <2> QED
    BY <2>1, <2>2
<1>6. KeyEscape => TypeOK'
  BY <1>1, ClearStepType DEF KeyEscape, TypeOK, ModeTypeOK, modeVars
<1> QED
  BY <1>3, <1>4, <1>5, <1>6

\* The keys and notifications that change the mode or end the composition.
LEMMA ModeTypes ==
  ASSUME TypeOK
  PROVE  /\ ToggleCorrection => TypeOK'
         /\ CommitRawInput => TypeOK'
         /\ ToggleLanguage => TypeOK'
         /\ ChangeFocus => TypeOK'
<1>1. /\ generation + 1 \in Nat /\ generation + 2 \in Nat
      /\ query \in Query /\ query.input \in Input /\ query.correction \in BOOLEAN
  BY DEF TypeOK, UiTypeOK, Query
<1>2. ASSUME ToggleCorrection PROVE TypeOK'
  <2>1. /\ ModeTypeOK' /\ events' \in Nat /\ UNCHANGED NotUi /\ UNCHANGED feedback
    BY <1>2 DEF ToggleCorrection, modeVars, TypeOK, ModeTypeOK, HistoryTypeOK, UserEvent
  <2>2. CASE /\ query.input # <<>>
             /\ ScheduleRequest(FirstPage(query.input, ~query.correction), generation + 1, 0)
             /\ rows' = <<>> /\ hasMore' = FALSE /\ nextId' = nextId + 1
             /\ UNCHANGED deferredPage
    <3>1. FirstPage(query.input, ~query.correction) \in Asked
      BY <1>1, <2>2, FirstPageType
    <3>2. rows' \in Seq(Row) /\ deferredPage' \in {-1, 0, 1} /\ nextId' \in Nat
      BY <2>2, EmptySeq DEF TypeOK, UiTypeOK, IdTypeOK
    <3>3. UiTypeOK' /\ IdTypeOK' /\ slot' \subseteq Request /\ scheduled' \in Nat
      BY <1>1, <2>2, <3>1, <3>2, ScheduleRequestType
    <3> QED
      BY <2>1, <3>3, UiStepType DEF TypeOK, QueueTypeOK
  <2>3. CASE /\ query' = [query EXCEPT !.correction = ~query.correction]
             /\ UNCHANGED <<generation, rows, hasMore, pending, retries, deferredPage, deferred,
                            idVars, slot, scheduled>>
    <3>1. query' \in Query
      BY <1>1, <2>3 DEF Query
    <3> QED
      BY <2>1, <2>3, <3>1, UiStepType
      DEF TypeOK, UiTypeOK, IdTypeOK, QueueTypeOK, HistoryTypeOK, idVars
  <2> QED
    BY <1>2, <2>2, <2>3 DEF ToggleCorrection
<1>3. CommitRawInput => TypeOK'
  BY <1>1, ClearStepType DEF CommitRawInput, TypeOK, ModeTypeOK
<1>4. ASSUME ToggleLanguage PROVE TypeOK'
  <2>1. ModeTypeOK' /\ UserEvent /\ UNCHANGED <<nextId, queueVars, scheduled, NotUi>>
    <3>1. context' \subseteq Docs
      BY <1>4 DEF ToggleLanguage, TypeOK, ModeTypeOK
    <3> QED
      BY <1>4, <3>1 DEF ToggleLanguage, TypeOK, ModeTypeOK
  <2>2. CASE ClearComposition(generation + 1) \/ ClearComposition(generation + 2)
    BY <1>1, <2>1, <2>2, ClearStepType
  <2>3. CASE UNCHANGED <<uiVars, activeId, latestId>>
    BY <2>1, <2>3, UiStepType
    DEF uiVars, queueVars, UserEvent, TypeOK, UiTypeOK, IdTypeOK, QueueTypeOK, HistoryTypeOK
  <2> QED
    BY <1>4, <2>2, <2>3 DEF ToggleLanguage
<1>5. ChangeFocus => TypeOK'
  BY <1>1, ClearStepType DEF ChangeFocus, TypeOK, ModeTypeOK
<1> QED
  BY <1>2, <1>3, <1>4, <1>5

\* A page turn to a page that exists.
LEMMA TurnToType ==
  ASSUME TypeOK, query.input # <<>>, NEW page \in Nat, TurnTo(page),
         rows' \in Seq(Row), deferredPage' \in {-1, 0, 1}
  PROVE  UiTypeOK' /\ IdTypeOK' /\ slot' \subseteq Request /\ scheduled' \in Nat
<1>1. [query EXCEPT !.page = page] \in Asked
  BY DEF TypeOK, UiTypeOK, Query, Asked
<1>2. /\ ScheduleRequest([query EXCEPT !.page = page], generation, 0)
      /\ hasMore' = FALSE /\ nextId' = nextId + 1
  BY DEF TurnTo
<1>3. generation \in Nat /\ nextId' \in Nat
  BY <1>2 DEF TypeOK, UiTypeOK, IdTypeOK
<1> QED
  BY <1>1, <1>2, <1>3, ScheduleRequestType

\* Turning below the first page is what CanTurn excludes.
LEMMA CanTurnType ==
  ASSUME TypeOK, NEW direction \in {-1, 1}, NEW more, CanTurn(direction, more)
  PROVE  query.page + direction \in Nat
BY DEF TypeOK, UiTypeOK, Query, CanTurn

\* Page turns and the expand button.
LEMMA PagingTypes ==
  ASSUME TypeOK
  PROVE  /\ TurnPage => TypeOK'
         /\ ToggleExpanded => TypeOK'
<1>1. ASSUME TurnPage PROVE TypeOK'
  <2>1. /\ query.input # <<>>
        /\ ModeTypeOK' /\ events' \in Nat /\ UNCHANGED NotUi /\ UNCHANGED feedback
    BY <1>1 DEF TurnPage, modeVars, TypeOK, ModeTypeOK, HistoryTypeOK, UserEvent
  <2> PICK direction \in {-1, 1} :
         \/ /\ deferredPage' = direction
            /\ UNCHANGED <<query, generation, rows, hasMore, pending, retries, deferred,
                           idVars, slot, scheduled>>
         \/ /\ CanTurn(direction, hasMore)
            /\ TurnTo(query.page + direction)
            /\ UNCHANGED <<rows, deferredPage>>
    BY <1>1 DEF TurnPage
  <2>2. CASE /\ deferredPage' = direction
             /\ UNCHANGED <<query, generation, rows, hasMore, pending, retries, deferred,
                            idVars, slot, scheduled>>
    BY <2>1, <2>2, UiStepType
    DEF TypeOK, UiTypeOK, IdTypeOK, QueueTypeOK, HistoryTypeOK, idVars
  <2>3. CASE /\ CanTurn(direction, hasMore)
             /\ TurnTo(query.page + direction)
             /\ UNCHANGED <<rows, deferredPage>>
    <3>1. rows' \in Seq(Row) /\ deferredPage' \in {-1, 0, 1}
      BY <2>3 DEF TypeOK, UiTypeOK
    <3>2. UiTypeOK' /\ IdTypeOK' /\ slot' \subseteq Request /\ scheduled' \in Nat
      BY <2>1, <2>3, <3>1, CanTurnType, TurnToType
    <3> QED
      BY <2>1, <3>2, UiStepType DEF TypeOK, QueueTypeOK
  <2> QED
    BY <2>2, <2>3
<1>2. ASSUME ToggleExpanded PROVE TypeOK'
  <2> DEFINE q == [query EXCEPT !.page = 0, !.expanded = ~query.expanded]
  <2>1. q \in Asked /\ generation \in Nat
    BY <1>2 DEF ToggleExpanded, TypeOK, UiTypeOK, Query, Asked
  <2>2. rows' \in Seq(Row) /\ deferredPage' \in {-1, 0, 1} /\ nextId' \in Nat
    BY <1>2 DEF ToggleExpanded, TypeOK, UiTypeOK, IdTypeOK
  <2>3. ScheduleRequest(q, generation, 0) /\ hasMore' \in BOOLEAN
    BY <1>2 DEF ToggleExpanded
  <2>4. UiTypeOK' /\ IdTypeOK' /\ slot' \subseteq Request /\ scheduled' \in Nat
    BY <2>1, <2>2, <2>3, ScheduleRequestType
  <2>5. /\ ModeTypeOK' /\ events' \in Nat /\ UNCHANGED NotUi /\ UNCHANGED feedback
    BY <1>2 DEF ToggleExpanded, modeVars, TypeOK, ModeTypeOK, HistoryTypeOK, UserEvent
  <2> QED
    BY <2>4, <2>5, UiStepType DEF TypeOK, QueueTypeOK
<1> QED
  BY <1>1, <1>2

\* A selection, deferred or committed.
LEMMA SelectionTypes ==
  ASSUME TypeOK
  PROVE  /\ DeferSelection => TypeOK'
         /\ SelectCandidate => TypeOK'
<1>1. ASSUME NEW i \in DOMAIN rows PROVE rows[i] \in Row
  BY ElementOfSeq, LenProperties DEF TypeOK, UiTypeOK
<1>2. ASSUME DeferSelection PROVE TypeOK'
  <2>1. deferred' \subseteq Deferral
    BY <1>1, <1>2 DEF DeferSelection, Deferral, Row, TypeOK, UiTypeOK, ModeTypeOK
  <2>2. /\ ModeTypeOK' /\ events' \in Nat /\ UNCHANGED NotUi /\ IdTypeOK' /\ QueueTypeOK'
        /\ scheduled' \in Nat
    BY <1>2 DEF DeferSelection, modeVars, idVars, queueVars, TypeOK, ModeTypeOK, IdTypeOK,
                QueueTypeOK, HistoryTypeOK, UserEvent
  <2>3. UiTypeOK'
    BY <1>2, <2>1 DEF DeferSelection, TypeOK, UiTypeOK
  <2> QED
    BY <2>2, <2>3, UiStepType
<1>3. ASSUME SelectCandidate PROVE TypeOK'
  <2>1. PICK i \in DOMAIN rows : CanConsume(rows[i]) /\ Commit(rows[i], rows, deferredPage, focus)
    BY <1>3 DEF SelectCandidate
  <2>2. /\ rows \in Seq(Row) /\ deferredPage \in {-1, 0, 1} /\ focus \in Docs
    BY DEF TypeOK, UiTypeOK, ModeTypeOK
  <2>3. /\ UiTypeOK' /\ IdTypeOK' /\ QueueTypeOK' /\ scheduled' \in Nat
        /\ context' \subseteq Docs
    BY <1>1, <2>1, <2>2, CommitType
  <2>4. events' \in Nat /\ UNCHANGED NotUi /\ ModeTypeOK'
    BY <1>3, <2>3 DEF SelectCandidate, UserEvent, TypeOK, ModeTypeOK, HistoryTypeOK
  <2> QED
    BY <2>3, <2>4, UiStepType
<1> QED
  BY <1>2, <1>3

\* handle_candidate_result, one step per way out of it.
LEMMA HandleResultType ==
  ASSUME TypeOK, HandleResult
  PROVE  TypeOK'
<1> DEFINE r == Head(msgs)
<1>1. r \in Result /\ msgs' \in Seq(Result)
  BY HeadTailProperties DEF HandleResult, TypeOK
<1>2. /\ r.rows \in Seq(Row) /\ r.hasMore \in BOOLEAN
      /\ generation \in Nat /\ retries + 1 \in Nat /\ query \in Query
  BY <1>1 DEF Result, TypeOK, UiTypeOK
<1>3. WorkerTypeOK' /\ learned' \in Nat /\ events' \in Nat
      /\ active' \in BOOLEAN /\ chinese' \in BOOLEAN /\ focus' \in Docs
  BY DEF HandleResult, workerVars, TypeOK, WorkerTypeOK, ModeTypeOK, HistoryTypeOK
<1>4. SUFFICES /\ UiTypeOK' /\ IdTypeOK' /\ QueueTypeOK' /\ context' \subseteq Docs
               /\ scheduled' \in Nat
  BY <1>1, <1>3 DEF TypeOK, ModeTypeOK, HistoryTypeOK
<1>5. CASE UNCHANGED <<uiVars, idVars, queueVars, scheduled, context>>
  BY <1>5 DEF uiVars, idVars, queueVars, TypeOK, UiTypeOK, ModeTypeOK, IdTypeOK, QueueTypeOK,
              HistoryTypeOK
<1>6. CASE /\ Accepts(r) /\ RetryRequest /\ nextId' = nextId + 1
           /\ UNCHANGED <<rows, hasMore, deferredPage, context, feedback>>
  <2>1. query \in Asked /\ ScheduleRequest(query, generation, retries + 1)
    BY <1>2, <1>6 DEF Accepts, RetryRequest, Asked
  <2>2. /\ rows' \in Seq(Row) /\ deferredPage' \in {-1, 0, 1} /\ nextId' \in Nat
        /\ context' \subseteq Docs
    BY <1>6 DEF TypeOK, UiTypeOK, IdTypeOK, ModeTypeOK
  <2>3. hasMore' \in BOOLEAN
    BY <1>6 DEF TypeOK, UiTypeOK
  <2>4. feedback' \in Seq(Feedback)
    BY <1>6 DEF TypeOK, QueueTypeOK
  <2>5. UiTypeOK' /\ IdTypeOK' /\ slot' \subseteq Request /\ scheduled' \in Nat
    BY <1>2, <2>1, <2>2, <2>3, ScheduleRequestType
  <2> QED
    BY <2>2, <2>4, <2>5 DEF QueueTypeOK
<1>7. CASE /\ Accepts(r) /\ Turns(r)
           /\ TurnTo(query.page + deferredPage)
           /\ rows' = r.rows /\ deferredPage' = 0
           /\ UNCHANGED <<context, feedback>>
  <2>1. query.input # <<>> /\ query.page + deferredPage \in Nat
    BY <1>7, CanTurnType DEF Accepts, Turns, TypeOK, UiTypeOK
  <2>2. rows' \in Seq(Row) /\ deferredPage' \in {-1, 0, 1}
    BY <1>2, <1>7
  <2>3. UiTypeOK' /\ IdTypeOK' /\ slot' \subseteq Request /\ scheduled' \in Nat
    BY <1>7, <2>1, <2>2, TurnToType
  <2> QED
    BY <1>7, <2>3 DEF TypeOK, ModeTypeOK, QueueTypeOK
<1>8. CASE \E d \in deferred, i \in DOMAIN r.rows :
             /\ Chosen(i, r, d) /\ CanConsume(r.rows[i])
             /\ Commit(r.rows[i], r.rows, IF r.ranked THEN deferredPage ELSE 0, d.doc)
  <2> PICK d \in deferred, i \in DOMAIN r.rows :
             /\ Chosen(i, r, d) /\ CanConsume(r.rows[i])
             /\ Commit(r.rows[i], r.rows, IF r.ranked THEN deferredPage ELSE 0, d.doc)
    BY <1>8
  <2> DEFINE turn == IF r.ranked THEN deferredPage ELSE 0
  <2>1. r.rows[i] \in Row /\ d.doc \in Docs /\ turn \in {-1, 0, 1}
    BY <1>2, ElementOfSeq, LenProperties DEF TypeOK, UiTypeOK, Deferral
  <2> QED
    BY <1>2, <2>1, CommitType
<1>9. CASE InstallRows(r)
  <2>1. /\ rows' \in Seq(Row) /\ retries' \in Nat /\ deferredPage' \in {-1, 0, 1}
        /\ deferred' \subseteq Deferral
    BY <1>2, <1>9 DEF InstallRows, TypeOK, UiTypeOK
  <2>2. hasMore' \in BOOLEAN /\ pending' \in BOOLEAN
    BY <1>2, <1>9 DEF InstallRows, TypeOK, UiTypeOK
  <2>3. query' \in Query /\ generation' \in Nat /\ IdTypeOK' /\ context' \subseteq Docs
        /\ QueueTypeOK' /\ scheduled' \in Nat
    BY <1>9 DEF InstallRows, idVars, TypeOK, UiTypeOK, ModeTypeOK, IdTypeOK, QueueTypeOK,
                HistoryTypeOK
  <2> QED
    BY <2>1, <2>2, <2>3 DEF UiTypeOK
<1> QED
  BY <1>5, <1>6, <1>7, <1>8, <1>9 DEF HandleResult

\* Core learning a feedback.
LEMMA LearnType ==
  ASSUME TypeOK, NEW n \in Deliveries, Learn(n)
  PROVE  learned' \in Nat
BY DEF Learn, TypeOK, WorkerTypeOK, HistoryTypeOK, Feedback

\* ActivateEx and Deactivate.
LEMMA ActivationTypes ==
  ASSUME TypeOK
  PROVE  /\ Deactivate => TypeOK'
         /\ Activate => TypeOK'
<1>1. ASSUME Deactivate PROVE TypeOK'
  <2>1. generation + 1 \in Nat
    BY DEF TypeOK, UiTypeOK
  <2>2. UiTypeOK' /\ activeId' \in Nat /\ latestId' \in Nat
    BY <1>1, <2>1, ClearCompositionType DEF Deactivate
  <2>3. learned' \in Nat
    BY <1>1, LearnType DEF Deactivate, TypeOK, HistoryTypeOK
  <2>4. HistoryTypeOK' /\ IdTypeOK'
    BY <1>1, <2>2, <2>3 DEF Deactivate, UserEvent, TypeOK, IdTypeOK, HistoryTypeOK
  <2>5. ModeTypeOK'
    BY <1>1 DEF Deactivate, TypeOK, ModeTypeOK
  <2>6. QueueTypeOK' /\ WorkerTypeOK' /\ msgs' \in Seq(Result)
    BY <1>1, EmptySeq DEF Deactivate, QueueTypeOK, WorkerTypeOK, WorkerPc
  <2> QED
    BY <2>2, <2>4, <2>5, <2>6 DEF TypeOK
<1>2. ASSUME Activate PROVE TypeOK'
  <2>1. UiTypeOK'
    BY <1>2 DEF Activate, uiVars, TypeOK, UiTypeOK
  <2>2. ModeTypeOK' /\ WorkerTypeOK' /\ HistoryTypeOK'
    BY <1>2 DEF Activate, TypeOK, ModeTypeOK, WorkerTypeOK, WorkerPc, HistoryTypeOK
  <2>3. IdTypeOK' /\ QueueTypeOK' /\ msgs' \in Seq(Result)
    BY <1>2 DEF Activate, idVars, queueVars, TypeOK, IdTypeOK, QueueTypeOK
  <2> QED
    BY <2>1, <2>2, <2>3 DEF TypeOK
<1> QED
  BY <1>1, <1>2

\* What an action of the worker still has to show.
LEMMA WorkerStepType ==
  ASSUME TypeOK, UNCHANGED NotWorker, QueueTypeOK', WorkerTypeOK', msgs' \in Seq(Result),
         learned' \in Nat
  PROVE  TypeOK'
<1>1. UiTypeOK'
  BY DEF NotWorker, uiVars, TypeOK, UiTypeOK
<1>2. ModeTypeOK' /\ IdTypeOK' /\ HistoryTypeOK'
  BY DEF NotWorker, modeVars, idVars, TypeOK, ModeTypeOK, IdTypeOK, HistoryTypeOK
<1> QED
  BY <1>1, <1>2 DEF TypeOK

\* The steps of the worker that make a result.
LEMMA WorkerResultTypes ==
  ASSUME NEW q \in Request
  PROVE  /\ FailedResult(q) \in Result
         /\ \A list \in BaseRows(q.query), model \in BOOLEAN :
              BaseResult(q, list, MoreAfter(q.query, list), model) \in Result
         /\ \A list \in RankedRows(q.query) : RankedResult(q, list) \in Result
<1>1. q.id \in Nat /\ q.gen \in Nat /\ q.query \in Asked
  BY DEF Request
<1>2. BaseRows(q.query) \subseteq Seq(Row) /\ RankedRows(q.query) \subseteq Seq(Row)
  BY <1>1, AnswerType
<1>3. FailedResult(q) \in Result
  BY <1>1, EmptySeq DEF FailedResult, Result
<1>4. ASSUME NEW list \in BaseRows(q.query), NEW model \in BOOLEAN
      PROVE  BaseResult(q, list, MoreAfter(q.query, list), model) \in Result
  <2>1. MoreAfter(q.query, list) \in BOOLEAN
    BY DEF MoreAfter
  <2>2. ASSUME NEW more \in BOOLEAN PROVE BaseResult(q, list, more, model) \in Result
    BY <1>1, <1>2 DEF BaseResult, Result
  <2> QED
    BY <2>1, <2>2
<1>5. ASSUME NEW list \in RankedRows(q.query)
      PROVE  RankedResult(q, list) \in Result
  BY <1>1, <1>2 DEF RankedResult, Result
<1> QED
  BY <1>3, <1>4, <1>5

\* The worker, one step per wait or blocking call of worker_loop.
LEMMA WorkerTypes ==
  ASSUME TypeOK, Worker
  PROVE  TypeOK'
<1> USE DEF TypeOK
<1>1. CASE WorkerTake
  <2>1. slot' \subseteq Request /\ wreq' \subseteq Request
    BY <1>1 DEF WorkerTake, QueueTypeOK, WorkerTypeOK
  <2>2. feedback' \in Seq(Feedback) /\ wfb' \subseteq Feedback
    BY <1>1, HeadTailProperties DEF WorkerTake, QueueTypeOK, WorkerTypeOK
  <2>3. wpc' \in WorkerPc /\ wres' \subseteq Result /\ msgs' \in Seq(Result) /\ learned' \in Nat
    BY <1>1 DEF WorkerTake, WorkerPc, WorkerTypeOK, HistoryTypeOK
  <2> QED
    BY <1>1, <2>1, <2>2, <2>3, WorkerStepType DEF WorkerTake, QueueTypeOK, WorkerTypeOK
<1>2. CASE WorkerAnswer
  <2>1. QueueTypeOK' /\ msgs' \in Seq(Result) /\ learned' \in Nat /\ wfb' \subseteq Feedback
    BY <1>2 DEF WorkerAnswer, queueVars, QueueTypeOK, WorkerTypeOK, HistoryTypeOK
  <2>2. wpc' \in WorkerPc /\ wreq' \subseteq Request
    BY <1>2 DEF WorkerAnswer, WorkerPc, WorkerTypeOK
  <2>3. wres' \subseteq Result
    BY <1>2, WorkerResultTypes DEF WorkerAnswer, WorkerTypeOK
  <2> QED
    BY <1>2, <2>1, <2>2, <2>3, WorkerStepType DEF WorkerAnswer, WorkerTypeOK
<1>3. CASE WorkerPost
  <2>1. QueueTypeOK' /\ learned' \in Nat /\ wfb' \subseteq Feedback /\ wres' \subseteq Result
    BY <1>3 DEF WorkerPost, queueVars, QueueTypeOK, WorkerTypeOK, HistoryTypeOK
  <2>2. wpc' \in WorkerPc /\ wreq' \subseteq Request
    BY <1>3 DEF WorkerPost, WorkerPc, WorkerTypeOK
  <2>3. msgs' \in Seq(Result)
    BY <1>3, AppendProperties DEF WorkerPost, WorkerTypeOK
  <2> QED
    BY <1>3, <2>1, <2>2, <2>3, WorkerStepType DEF WorkerPost, WorkerTypeOK
<1>4. CASE WorkerWindow
  <2>1. /\ QueueTypeOK' /\ learned' \in Nat /\ wfb' \subseteq Feedback /\ wres' \subseteq Result
        /\ msgs' \in Seq(Result)
    BY <1>4 DEF WorkerWindow, queueVars, QueueTypeOK, WorkerTypeOK, HistoryTypeOK
  <2>2. wpc' \in WorkerPc /\ wreq' \subseteq Request
    BY <1>4 DEF WorkerWindow, WorkerPc, WorkerTypeOK
  <2> QED
    BY <1>4, <2>1, <2>2, WorkerStepType DEF WorkerWindow, WorkerTypeOK
<1>5. CASE WorkerUpdate
  <2>1. QueueTypeOK' /\ msgs' \in Seq(Result) /\ learned' \in Nat /\ wfb' \subseteq Feedback
    BY <1>5 DEF WorkerUpdate, queueVars, QueueTypeOK, WorkerTypeOK, HistoryTypeOK
  <2>2. wpc' \in WorkerPc /\ wreq' \subseteq Request
    BY <1>5 DEF WorkerUpdate, WorkerPc, WorkerTypeOK
  <2>3. wres' \subseteq Result
    BY <1>5, WorkerResultTypes DEF WorkerUpdate, WorkerTypeOK
  <2> QED
    BY <1>5, <2>1, <2>2, <2>3, WorkerStepType DEF WorkerUpdate, WorkerTypeOK
<1>6. CASE WorkerFeedback
  <2>1. learned' \in Nat
    BY <1>6, LearnType DEF WorkerFeedback
  <2>2. /\ QueueTypeOK' /\ msgs' \in Seq(Result) /\ wfb' \subseteq Feedback
        /\ wpc' \in WorkerPc /\ wreq' \subseteq Request /\ wres' \subseteq Result
    BY <1>6 DEF WorkerFeedback, queueVars, QueueTypeOK, WorkerTypeOK, WorkerPc
  <2> QED
    BY <1>6, <2>1, <2>2, WorkerStepType DEF WorkerFeedback, WorkerTypeOK
<1> QED
  BY <1>1, <1>2, <1>3, <1>4, <1>5, <1>6 DEF Worker

\* Type correctness is inductive.
LEMMA NextTypeOK == TypeOK /\ [Next]_vars => TypeOK'
<1> SUFFICES ASSUME TypeOK, [Next]_vars PROVE TypeOK'
  OBVIOUS
<1>1. CASE User
  BY <1>1, KeyTypes, ModeTypes, PagingTypes, SelectionTypes, ActivationTypes DEF User
<1>2. CASE UNCHANGED vars
  <2>1. UiTypeOK'
    BY <1>2 DEF vars, uiVars, TypeOK, UiTypeOK
  <2>2. ModeTypeOK' /\ IdTypeOK' /\ QueueTypeOK'
    BY <1>2 DEF vars, modeVars, idVars, queueVars, TypeOK, ModeTypeOK, IdTypeOK, QueueTypeOK
  <2>3. WorkerTypeOK' /\ msgs' \in Seq(Result) /\ HistoryTypeOK'
    BY <1>2 DEF vars, workerVars, historyVars, TypeOK, WorkerTypeOK, HistoryTypeOK
  <2> QED
    BY <2>1, <2>2, <2>3 DEF TypeOK
<1> QED
  BY <1>1, <1>2, HandleResultType, WorkerTypes DEF Next

\* Every variable keeps its type, whatever the bounds: among others, no request
\* ever asks about an empty input, a page is never negative, and every
\* remembered selection, row and posted result is well formed.
THEOREM TypeCorrect == Spec => []TypeOK
<1>1. Init => TypeOK
  BY InitTypeOK
<1>2. TypeOK /\ [Next]_vars => TypeOK'
  BY NextTypeOK
<1> QED
  BY <1>1, <1>2, PTL DEF Spec

----------------------------------------------------------------------------
(* Rows on display belong to the query on display *)

\* A request or an answer on its way is never from a later generation, and one
\* from this generation is about this input: the generation alone tells an
\* edit, and only the page and the layout are left for
\* handle_candidate_result to compare.
CurrentQuery(x) ==
  /\ x.gen <= generation
  /\ x.gen = generation =>
       x.query.input = query.input /\ x.query.correction = query.correction

CurrentInv ==
  /\ \A x \in slot \cup wreq \cup wres : CurrentQuery(x)
  /\ \A i \in DOMAIN msgs : CurrentQuery(msgs[i])
  /\ \A r \in wres : ConvertedFrom(r.query, r.rows)
  /\ \A i \in DOMAIN msgs : ConvertedFrom(msgs[i].query, msgs[i].rows)
  /\ CommittableIsCurrent

\* What Core answers converts the query it was asked.
LEMMA AnswerConverts ==
  ASSUME NEW q \in Asked, NEW list \in BaseRows(q) \cup RankedRows(q)
  PROVE  ConvertedFrom(q, list)
<1>1. 1 \in 1 .. Len(q.input) /\ Len(q.input) \in 1 .. Len(q.input)
  BY EmptySeq DEF Asked, Query, Input
<1>2. \A n : RowOf(q, n).consumed = n
  BY DEF RowOf
<1>3. \A i \in DOMAIN list : list[i] = RowOf(q, 1) \/ list[i] = RowOf(q, Len(q.input))
  BY DEF BaseRows, RankedRows
<1> QED
  BY <1>1, <1>2, <1>3 DEF ConvertedFrom

\* The window side of a step.  Either the generation grows, or the input and
\* the correction mode stay; a request that appears is about the new query; and
\* rows on display stay committable only if nothing about them changes.
LEMMA CurrentUiStep ==
  ASSUME TypeOK, TypeOK', CurrentInv,
         UNCHANGED <<wreq, wres>>, UNCHANGED msgs \/ (msgs # <<>> /\ msgs' = Tail(msgs)),
         \/ generation' > generation
         \/ /\ generation' = generation /\ query'.input = query.input
            /\ query'.correction = query.correction,
         \A x \in slot' : x \in slot \/ (x.gen = generation' /\ x.query = query'),
         pending' \/ query'.input = <<>> \/ UNCHANGED <<query, pending, rows>>
  PROVE  CurrentInv'
<1>1. ASSUME NEW x, x.gen \in Nat, CurrentQuery(x) PROVE CurrentQuery(x)'
  BY <1>1 DEF CurrentQuery, TypeOK, UiTypeOK
<1>2. \A x \in (slot \cup wreq \cup wres)' : CurrentQuery(x)'
  <2>1. \A x \in slot \cup wreq \cup wres : CurrentQuery(x) /\ x.gen \in Nat
    BY DEF CurrentInv, TypeOK, QueueTypeOK, WorkerTypeOK, Request, Result
  <2>2. ASSUME NEW x, x.gen = generation', x.query = query' PROVE CurrentQuery(x)'
    BY <2>2 DEF CurrentQuery, TypeOK, UiTypeOK
  <2> QED
    BY <1>1, <2>1, <2>2
<1>3. \A i \in DOMAIN msgs' : \E j \in DOMAIN msgs : msgs'[i] = msgs[j]
  <2>1. CASE msgs # <<>> /\ msgs' = Tail(msgs)
    <3>1. /\ DOMAIN msgs = 1 .. Len(msgs) /\ DOMAIN msgs' = 1 .. Len(msgs')
          /\ Len(msgs) \in Nat /\ Len(msgs') \in Nat
      BY LenProperties DEF TypeOK
    <3>2. Len(msgs') = Len(msgs) - 1 /\ \A i \in 1 .. Len(msgs') : msgs'[i] = msgs[i + 1]
      BY <2>1, HeadTailProperties DEF TypeOK
    <3> QED
      BY <3>1, <3>2
  <2> QED
    BY <2>1
<1>4. \A i \in DOMAIN msgs' : CurrentQuery(msgs[i])'
  <2>1. \A i \in DOMAIN msgs : msgs[i] \in Result
    BY ElementOfSeq, LenProperties DEF TypeOK
  <2>2. \A i \in DOMAIN msgs : CurrentQuery(msgs[i]) /\ msgs[i].gen \in Nat
    BY <2>1 DEF CurrentInv, Result
  <2> QED
    BY <1>1, <1>3, <2>2
<1>5. CommittableIsCurrent'
  BY DEF CurrentInv, CommittableIsCurrent, ConvertedFrom, RowOf
<1>6. \A i \in DOMAIN msgs' : ConvertedFrom(msgs[i].query, msgs[i].rows)'
  BY <1>3 DEF CurrentInv, ConvertedFrom, RowOf
<1> QED
  BY <1>2, <1>4, <1>5, <1>6 DEF CurrentInv, ConvertedFrom, RowOf

\* Nothing is committable once the composition is over.
LEMMA CurrentClear ==
  ASSUME TypeOK, TypeOK', CurrentInv, NEW gen \in Nat, gen > generation,
         ClearComposition(gen), UNCHANGED slot, UNCHANGED <<wreq, wres>>,
         UNCHANGED msgs \/ (msgs # <<>> /\ msgs' = Tail(msgs))
  PROVE  CurrentInv'
BY CurrentUiStep DEF ClearComposition, FirstPage

\* Nothing is committable while a request is pending.
LEMMA CurrentSchedule ==
  ASSUME TypeOK, TypeOK', CurrentInv, NEW q \in Query, NEW gen \in Nat, NEW retry \in Nat,
         ScheduleRequest(q, gen, retry), UNCHANGED <<wreq, wres>>,
         UNCHANGED msgs \/ (msgs # <<>> /\ msgs' = Tail(msgs)),
         \/ gen > generation
         \/ gen = generation /\ q.input = query.input /\ q.correction = query.correction
  PROVE  CurrentInv'
BY CurrentUiStep DEF ScheduleRequest

\* Turning the page schedules a request for the page turned to.
LEMMA CurrentTurnTo ==
  ASSUME TypeOK, TypeOK', CurrentInv, NEW page \in Nat, TurnTo(page),
         UNCHANGED <<wreq, wres>>,
         UNCHANGED msgs \/ (msgs # <<>> /\ msgs' = Tail(msgs))
  PROVE  CurrentInv'
<1> DEFINE q == [query EXCEPT !.page = page]
<1>1. /\ q \in Query /\ q.input = query.input /\ q.correction = query.correction
      /\ generation \in Nat
  BY DEF TypeOK, UiTypeOK, Query
<1>2. ScheduleRequest(q, generation, 0)
  BY DEF TurnTo
<1> HIDE DEF q
<1> QED
  BY <1>1, <1>2, CurrentSchedule

\* Committing either ends the composition or schedules a request for its rest.
LEMMA CurrentCommit ==
  ASSUME TypeOK, TypeOK', CurrentInv, NEW row \in Row, NEW list, NEW turn, NEW doc,
         CanConsume(row), Commit(row, list, turn, doc), UNCHANGED <<wreq, wres>>,
         UNCHANGED msgs \/ (msgs # <<>> /\ msgs' = Tail(msgs))
  PROVE  CurrentInv'
<1> DEFINE rest == StripFront(SubSeq(query.input, row.consumed + 1, Len(query.input)))
           q == FirstPage(rest, query.correction)
<1>1. generation \in Nat /\ generation + 1 \in Nat /\ generation + 1 > generation
  BY DEF TypeOK, UiTypeOK
<1>2. CASE ClearComposition(generation + 1) /\ UNCHANGED slot
  BY <1>1, <1>2, CurrentClear
<1>3. CASE ScheduleRequest(q, generation + 1, 0)
  <2>1. q \in Query
    BY <1>3 DEF ScheduleRequest, TypeOK, UiTypeOK
  <2> QED
    BY <1>1, <1>3, <2>1, CurrentSchedule
<1> QED
  BY <1>2, <1>3 DEF Commit

\* The user's actions, one step each.
LEMMA CurrentUser ==
  ASSUME TypeOK, TypeOK', CurrentInv, User
  PROVE  CurrentInv'
<1>1. /\ generation + 1 \in Nat /\ generation + 1 > generation
      /\ generation + 2 \in Nat /\ generation + 2 > generation
      /\ query \in Query /\ query.page \in Nat
  BY DEF TypeOK, UiTypeOK, Query
<1>2. ASSUME NEW input, EditTo(input), UNCHANGED NotUi PROVE CurrentInv'
  <2>1. ScheduleRequest(FirstPage(input, query.correction), generation + 1, 0)
    BY <1>2 DEF EditTo
  <2>2. FirstPage(input, query.correction) \in Query
    BY <2>1 DEF ScheduleRequest, TypeOK, UiTypeOK
  <2>3. UNCHANGED <<wreq, wres, msgs>>
    BY <1>2 DEF NotUi, workerVars
  <2> QED
    BY <1>1, <2>1, <2>2, <2>3, CurrentSchedule
<1>3. ASSUME ClearComposition(generation + 1) \/ ClearComposition(generation + 2),
             UNCHANGED <<queueVars, NotUi>>
      PROVE  CurrentInv'
  <2>1. UNCHANGED <<slot, wreq, wres, msgs>>
    BY <1>3 DEF queueVars, NotUi, workerVars
  <2> QED
    BY <1>1, <1>3, <2>1, CurrentClear
<1>4. KeyLetter => CurrentInv'
  BY <1>2 DEF KeyLetter
<1>5. KeySeparator => CurrentInv'
  BY <1>2 DEF KeySeparator
<1>6. KeyBackspace => CurrentInv'
  BY <1>2, <1>3 DEF KeyBackspace
<1>7. KeyEscape => CurrentInv'
  BY <1>3 DEF KeyEscape
<1>8. ASSUME ToggleCorrection PROVE CurrentInv'
  <2>1. UNCHANGED <<wreq, wres, msgs>>
    BY <1>8 DEF ToggleCorrection, NotUi, workerVars
  <2>2. CASE ScheduleRequest(FirstPage(query.input, ~query.correction), generation + 1, 0)
    <3>1. FirstPage(query.input, ~query.correction) \in Query
      BY <2>2 DEF ScheduleRequest, TypeOK, UiTypeOK
    <3> QED
      BY <1>1, <2>1, <2>2, <3>1, CurrentSchedule
  <2>3. CASE /\ query.input = <<>>
             /\ query' = [query EXCEPT !.correction = ~query.correction]
             /\ UNCHANGED <<generation, rows, hasMore, pending, retries, deferredPage, deferred,
                            idVars, slot, scheduled>>
    \* nothing of this generation is on its way: it would ask about an empty input
    <3>1. query'.input = <<>>
      BY <1>1, <2>3 DEF Query
    <3>2. \A x \in slot \cup wreq \cup wres : x.query.input # <<>>
      BY DEF TypeOK, QueueTypeOK, WorkerTypeOK, Request, Result, Asked
    <3>3. \A i \in DOMAIN msgs : msgs[i].query.input # <<>>
      <4>1. \A i \in DOMAIN msgs : msgs[i] \in Result
        BY ElementOfSeq, LenProperties DEF TypeOK
      <4> QED
        BY <4>1 DEF Result, Asked
    <3>4. \A x : CurrentQuery(x) /\ x.query.input # <<>> => CurrentQuery(x)'
      BY <2>3 DEF CurrentQuery
    <3>5. CommittableIsCurrent'
      BY <3>1 DEF CommittableIsCurrent
    <3> QED
      BY <2>1, <2>3, <3>2, <3>3, <3>4, <3>5 DEF CurrentInv, ConvertedFrom, RowOf
  <2> QED
    BY <1>8, <2>2, <2>3 DEF ToggleCorrection
<1>9. CommitRawInput => CurrentInv'
  BY <1>3 DEF CommitRawInput
<1>10. ASSUME ToggleLanguage PROVE CurrentInv'
  <2>1. CASE ClearComposition(generation + 1) \/ ClearComposition(generation + 2)
    BY <1>3, <1>10, <2>1 DEF ToggleLanguage
  <2>2. CASE UNCHANGED uiVars
    <3>1. UNCHANGED <<query, generation, rows, pending, slot, wreq, wres, msgs>>
      BY <1>10, <2>2 DEF ToggleLanguage, uiVars, queueVars, NotUi, workerVars
    <3> QED
      BY <3>1, CurrentUiStep
  <2> QED
    BY <1>10, <2>1, <2>2 DEF ToggleLanguage
<1>11. ASSUME TurnPage PROVE CurrentInv'
  <2>1. UNCHANGED <<wreq, wres, msgs>>
    BY <1>11 DEF TurnPage, NotUi, workerVars
  <2>2. CASE UNCHANGED <<query, generation, rows, pending, slot>>
    BY <2>1, <2>2, CurrentUiStep
  <2>3. CASE \E direction \in {-1, 1} : CanTurn(direction, hasMore)
                                        /\ TurnTo(query.page + direction)
    BY <2>1, <2>3, CanTurnType, CurrentTurnTo
  <2> QED
    BY <1>11, <2>2, <2>3 DEF TurnPage
<1>12. ASSUME ToggleExpanded PROVE CurrentInv'
  <2> DEFINE q == [query EXCEPT !.page = 0, !.expanded = ~query.expanded]
  <2>1. ScheduleRequest(q, generation, 0) /\ UNCHANGED <<wreq, wres, msgs>>
    BY <1>12 DEF ToggleExpanded, NotUi, workerVars
  <2>2. q \in Query /\ q.input = query.input /\ q.correction = query.correction
    BY <1>1 DEF Query
  <2>3. generation \in Nat
    BY DEF TypeOK, UiTypeOK
  <2> HIDE DEF q
  <2> QED
    BY <2>1, <2>2, <2>3, CurrentSchedule
<1>13. ASSUME DeferSelection PROVE CurrentInv'
  <2>1. UNCHANGED <<query, generation, rows, pending, slot, wreq, wres, msgs>>
    BY <1>13 DEF DeferSelection, queueVars, NotUi, workerVars
  <2> QED
    BY <2>1, CurrentUiStep
<1>14. ASSUME SelectCandidate PROVE CurrentInv'
  <2>1. PICK i \in DOMAIN rows : CanConsume(rows[i]) /\ Commit(rows[i], rows, deferredPage, focus)
    BY <1>14 DEF SelectCandidate
  <2>2. rows[i] \in Row
    BY ElementOfSeq, LenProperties DEF TypeOK, UiTypeOK
  <2>3. UNCHANGED <<wreq, wres, msgs>>
    BY <1>14 DEF SelectCandidate, NotUi, workerVars
  <2> QED
    BY <2>1, <2>2, <2>3, CurrentCommit
<1>15. ChangeFocus => CurrentInv'
  BY <1>3 DEF ChangeFocus
<1>16. ASSUME Deactivate PROVE CurrentInv'
  <2>1. /\ slot' = {} /\ wreq' = {} /\ wres' = {} /\ msgs' = <<>>
        /\ query'.input = <<>>
    BY <1>16 DEF Deactivate, ClearComposition, FirstPage
  <2>2. DOMAIN msgs' = {}
    BY <2>1
  <2> QED
    BY <2>1, <2>2 DEF CurrentInv, CommittableIsCurrent
<1>17. ASSUME Activate PROVE CurrentInv'
  <2>1. UNCHANGED <<query, generation, rows, pending, slot, wreq, wres, msgs>>
    BY <1>17 DEF Activate, uiVars, queueVars
  <2> QED
    BY <2>1, CurrentUiStep
<1> QED
  BY <1>4, <1>5, <1>6, <1>7, <1>8, <1>9, <1>10, <1>11, <1>12, <1>13, <1>14, <1>15, <1>16, <1>17
  DEF User

\* An accepted answer carries rows of the query on display.
LEMMA CurrentResult ==
  ASSUME TypeOK, TypeOK', CurrentInv, HandleResult
  PROVE  CurrentInv'
<1> DEFINE r == Head(msgs)
<1>1. /\ UNCHANGED <<wreq, wres>> /\ msgs # <<>> /\ msgs' = Tail(msgs)
  BY DEF HandleResult, workerVars
<1>2. r \in Result /\ CurrentQuery(r) /\ ConvertedFrom(r.query, r.rows)
  <2>1. 1 \in DOMAIN msgs /\ r = msgs[1] /\ r \in Result
    BY <1>1, EmptySeq, LenProperties, HeadTailProperties DEF TypeOK
  <2> QED
    BY <2>1 DEF CurrentInv
<1>3. generation \in Nat /\ retries + 1 \in Nat /\ query \in Query
  BY DEF TypeOK, UiTypeOK
<1>4. CASE UNCHANGED <<uiVars, queueVars>>
  BY <1>1, <1>4, CurrentUiStep DEF uiVars, queueVars
<1>5. CASE RetryRequest
  BY <1>1, <1>3, <1>5, CurrentSchedule DEF RetryRequest
<1>6. CASE Turns(r) /\ TurnTo(query.page + deferredPage)
  <2>1. query.page + deferredPage \in Nat
    BY <1>6, CanTurnType DEF Turns, TypeOK, UiTypeOK
  <2> QED
    BY <1>1, <1>6, <2>1, CurrentTurnTo
<1>7. CASE \E d \in deferred, i \in DOMAIN r.rows :
             /\ CanConsume(r.rows[i])
             /\ Commit(r.rows[i], r.rows, IF r.ranked THEN deferredPage ELSE 0, d.doc)
  <2>1. \A i \in DOMAIN r.rows : r.rows[i] \in Row
    BY <1>2, ElementOfSeq, LenProperties DEF Result
  <2> QED
    BY <1>1, <1>7, <2>1, CurrentCommit
<1>8. CASE Accepts(r) /\ InstallRows(r)
  \* the generation vouches for the input and the mode, Accepts for the rest
  <2>1. r.query = query
    BY <1>2, <1>3, <1>8 DEF Accepts, CurrentQuery, Result, Asked, Query
  <2>2. rows' = r.rows /\ UNCHANGED <<query, generation, slot>>
    BY <1>8 DEF InstallRows
  <2>3. CommittableIsCurrent'
    BY <1>2, <2>1, <2>2 DEF CommittableIsCurrent, ConvertedFrom, RowOf
  <2>4. ASSUME NEW x PROVE /\ CurrentQuery(x) => CurrentQuery(x)'
                           /\ ConvertedFrom(x.query, x.rows) => ConvertedFrom(x.query, x.rows)'
    BY <2>2 DEF CurrentQuery, ConvertedFrom, RowOf
  <2>5. \A i \in DOMAIN msgs' : \E j \in DOMAIN msgs : msgs'[i] = msgs[j]
    BY <1>1, HeadTailProperties, LenProperties DEF TypeOK
  <2> QED
    BY <1>1, <2>2, <2>3, <2>4, <2>5 DEF CurrentInv
<1> QED
  BY <1>4, <1>5, <1>6, <1>7, <1>8 DEF HandleResult

\* The worker only makes results out of the request in its hands.
LEMMA CurrentWorker ==
  ASSUME TypeOK, TypeOK', CurrentInv, Worker
  PROVE  CurrentInv'
<1>1. UNCHANGED <<query, generation, rows, pending>>
  BY DEF Worker, WorkerTake, WorkerAnswer, WorkerPost, WorkerWindow, WorkerUpdate,
         WorkerFeedback, NotWorker, uiVars
<1>2. CommittableIsCurrent'
  BY <1>1 DEF CurrentInv, CommittableIsCurrent, ConvertedFrom, RowOf
<1>3. ASSUME NEW x PROVE /\ CurrentQuery(x)' <=> CurrentQuery(x)
                         /\ ConvertedFrom(x.query, x.rows)' <=> ConvertedFrom(x.query, x.rows)
  BY <1>1 DEF CurrentQuery, ConvertedFrom, RowOf
<1>4. SUFFICES /\ \A x \in slot' \cup wreq' \cup wres' : CurrentQuery(x)
               /\ \A i \in DOMAIN msgs' : CurrentQuery(msgs'[i])
               /\ \A r \in wres' : ConvertedFrom(r.query, r.rows)
               /\ \A i \in DOMAIN msgs' : ConvertedFrom(msgs'[i].query, msgs'[i].rows)
  BY <1>2, <1>3 DEF CurrentInv
<1>5. \A q \in wreq : q.query \in Asked /\ CurrentQuery(q)
  BY DEF CurrentInv, TypeOK, WorkerTypeOK, Request
<1>6. CASE WorkerTake \/ WorkerWindow \/ WorkerFeedback
  BY <1>6 DEF WorkerTake, WorkerWindow, WorkerFeedback, queueVars, CurrentInv
<1>7. CASE WorkerAnswer
  <2>1. \A r \in wres' : r \in wres \/ \E q \in wreq :
           r.gen = q.gen /\ r.query = q.query
           /\ (r.rows = <<>> \/ r.rows \in BaseRows(q.query))
    BY <1>7 DEF WorkerAnswer, FailedResult, BaseResult
  <2>2. \A r \in wres' : CurrentQuery(r) /\ ConvertedFrom(r.query, r.rows)
    <3>1. \A q : ConvertedFrom(q, <<>>)
      BY DEF ConvertedFrom
    <3> QED
      BY <1>5, <2>1, <3>1, AnswerConverts DEF CurrentInv, CurrentQuery
  <2> QED
    BY <1>7, <2>2 DEF WorkerAnswer, queueVars, CurrentInv
<1>8. CASE WorkerUpdate
  <2>1. \A r \in wres' : r \in wres \/ \E q \in wreq :
           r.gen = q.gen /\ r.query = q.query /\ r.rows \in RankedRows(q.query)
    BY <1>8 DEF WorkerUpdate, RankedResult
  <2>2. \A r \in wres' : CurrentQuery(r) /\ ConvertedFrom(r.query, r.rows)
    BY <1>5, <2>1, AnswerConverts DEF CurrentInv, CurrentQuery
  <2> QED
    BY <1>8, <2>2 DEF WorkerUpdate, queueVars, CurrentInv
<1>9. CASE WorkerPost
  <2>1. wres' = {} /\ wreq' \subseteq wreq /\ UNCHANGED slot
    BY <1>9 DEF WorkerPost, queueVars
  <2>2. CASE UNCHANGED msgs
    BY <2>1, <2>2 DEF CurrentInv
  <2>3. CASE \E r \in wres : msgs' = Append(msgs, r)
    <3> PICK r \in wres : msgs' = Append(msgs, r)
      BY <2>3
    <3>1. r \in Result /\ msgs \in Seq(Result)
      BY DEF TypeOK, WorkerTypeOK
    <3>2. \A i \in DOMAIN msgs' : msgs'[i] = r \/ \E j \in DOMAIN msgs : msgs'[i] = msgs[j]
      BY <3>1, AppendProperties, LenProperties
    <3> QED
      BY <2>1, <3>2 DEF CurrentInv
  <2> QED
    BY <1>9, <2>2, <2>3 DEF WorkerPost
<1> QED
  BY <1>6, <1>7, <1>8, <1>9 DEF Worker

\* The invariant behind CommittableCorrect.
LEMMA CurrentInvariant == Spec => []CurrentInv
<1>1. Init => CurrentInv
  BY DEF Init, FirstPage, CurrentInv, CommittableIsCurrent
<1>2. TypeOK /\ TypeOK' /\ CurrentInv /\ [Next]_vars => CurrentInv'
  <2> SUFFICES ASSUME TypeOK, TypeOK', CurrentInv, [Next]_vars PROVE CurrentInv'
    OBVIOUS
  <2>1. CASE UNCHANGED vars
    <3>1. UNCHANGED <<query, generation, rows, pending, slot, wreq, wres, msgs>>
      BY <2>1 DEF vars, uiVars, queueVars, workerVars
    <3> QED
      BY <3>1, CurrentUiStep
  <2> QED
    BY <2>1, CurrentUser, CurrentResult, CurrentWorker DEF Next
<1> QED
  BY <1>1, <1>2, TypeCorrect, PTL DEF Spec

\* A key or a click never commits a row that Core computed for another input,
\* page or correction mode than the one on display, however requests, answers,
\* retries and edits interleave: the invariant CommittableIsCurrent of the runs,
\* for any letters, input length, page count and number of events.
THEOREM CommittableCorrect == Spec => []CommittableIsCurrent
<1>1. CurrentInv => CommittableIsCurrent
  BY DEF CurrentInv
<1> QED
  BY <1>1, CurrentInvariant, PTL

----------------------------------------------------------------------------
(* Deferred selections and the language context follow the focus *)

FocusInv == DeferralIsForThisComposition /\ ContextOfFocusedDocument

\* Steps that leave no deferred selection and send no feedback: the context may
\* only stay with its document or be emptied.
LEMMA FocusForget ==
  ASSUME FocusInv, deferred' = {}, UNCHANGED feedback \/ feedback' = <<>>,
         context' = {} \/ UNCHANGED <<context, focus>>
  PROVE  FocusInv'
BY DEF FocusInv, DeferralIsForThisComposition, ContextOfFocusedDocument

\* Steps that keep what is deferred, and all that it depends on.
LEMMA FocusKeep ==
  ASSUME FocusInv,
         UNCHANGED <<deferred, pending, generation, focus, context, feedback>>
  PROVE  FocusInv'
BY DEF FocusInv, DeferralIsForThisComposition, ContextOfFocusedDocument

\* A commit into the focused document.
LEMMA FocusCommit ==
  ASSUME TypeOK, FocusInv, NEW row \in Row, NEW list, NEW turn, CanConsume(row),
         Commit(row, list, turn, focus), UNCHANGED focus
  PROVE  FocusInv'
<1>1. deferred' = {} /\ context' = context \cup {focus}
  BY DEF Commit, ClearComposition, ScheduleRequest
<1>2. PICK f \in Feedback : feedback' = Append(feedback, f) /\ f.doc = focus /\ f.context = context
  <2>1. ASSUME NEW id \in Nat, QueueFeedback(id, row, focus)
        PROVE  \E f \in Feedback :
                 feedback' = Append(feedback, f) /\ f.doc = focus /\ f.context = context
    <3> DEFINE f == [id |-> id, text |-> row.text, doc |-> focus, context |-> context,
                     input |-> StripBack(SubSeq(query.input, 1, row.consumed))]
    <3>1. SubSeq(query.input, 1, row.consumed) \in Input
      BY SubSeqType DEF CanConsume, TypeOK, UiTypeOK, Query, Input
    <3>2. f \in Feedback
      BY <3>1, StripBackType DEF Feedback, Row, TypeOK, ModeTypeOK
    <3> QED
      BY <2>1, <3>2 DEF QueueFeedback
  <2> QED
    BY <2>1 DEF Commit, TypeOK, IdTypeOK
<1>3. \A i \in DOMAIN feedback' : feedback'[i] = f \/ \E j \in DOMAIN feedback : feedback'[i] = feedback[j]
  BY <1>2, AppendProperties, LenProperties DEF TypeOK, QueueTypeOK
<1>4. \A i \in DOMAIN feedback' : feedback'[i].context \subseteq {feedback'[i].doc}
  BY <1>2, <1>3 DEF FocusInv, ContextOfFocusedDocument
<1> QED
  BY <1>1, <1>4 DEF FocusInv, DeferralIsForThisComposition, ContextOfFocusedDocument

\* The user's actions, one step each.
LEMMA FocusUser ==
  ASSUME TypeOK, FocusInv, User
  PROVE  FocusInv'
<1>1. CASE KeyLetter \/ KeySeparator
  BY <1>1, FocusForget DEF KeyLetter, KeySeparator, EditTo, ScheduleRequest, modeVars
<1>2. CASE KeyBackspace \/ KeyEscape
  <2>1. deferred' = {} /\ UNCHANGED <<context, focus, feedback>>
    BY <1>2 DEF KeyBackspace, KeyEscape, EditTo, ScheduleRequest, ClearComposition, modeVars,
                queueVars
  <2> QED
    BY <2>1, FocusForget
<1>3. CASE ToggleCorrection
  BY <1>3, FocusForget, FocusKeep DEF ToggleCorrection, ScheduleRequest, modeVars
<1>4. CASE CommitRawInput \/ ChangeFocus
  BY <1>4, FocusForget DEF CommitRawInput, ChangeFocus, ClearComposition, queueVars
<1>5. CASE ToggleLanguage
  BY <1>5, FocusForget, FocusKeep DEF ToggleLanguage, ClearComposition, queueVars, uiVars
<1>6. CASE TurnPage \/ ToggleExpanded
  BY <1>6, FocusForget, FocusKeep
  DEF TurnPage, ToggleExpanded, TurnTo, ScheduleRequest, modeVars
<1>7. CASE DeferSelection
  BY <1>7 DEF DeferSelection, modeVars, queueVars, FocusInv, DeferralIsForThisComposition,
              ContextOfFocusedDocument
<1>8. CASE SelectCandidate
  <2>1. \A i \in DOMAIN rows : rows[i] \in Row
    BY ElementOfSeq, LenProperties DEF TypeOK, UiTypeOK
  <2> QED
    BY <1>8, <2>1, FocusCommit DEF SelectCandidate
<1>9. CASE Deactivate
  BY <1>9, FocusForget DEF Deactivate, ClearComposition
<1>10. CASE Activate
  BY <1>10, FocusKeep DEF Activate, uiVars, queueVars
<1> QED
  BY <1>1, <1>2, <1>3, <1>4, <1>5, <1>6, <1>7, <1>8, <1>9, <1>10 DEF User

\* An answer commits a deferred selection into the document it was made in.
LEMMA FocusResult ==
  ASSUME TypeOK, FocusInv, HandleResult
  PROVE  FocusInv'
<1> DEFINE r == Head(msgs)
<1>1. UNCHANGED focus
  BY DEF HandleResult
<1>2. CASE UNCHANGED <<uiVars, queueVars, context>>
  BY <1>1, <1>2, FocusKeep DEF uiVars, queueVars
<1>3. CASE (RetryRequest \/ TurnTo(query.page + deferredPage) \/ InstallRows(r))
           /\ UNCHANGED <<context, feedback>>
  BY <1>1, <1>3, FocusForget DEF RetryRequest, TurnTo, ScheduleRequest, InstallRows
<1>4. CASE \E d \in deferred, i \in DOMAIN r.rows :
             /\ CanConsume(r.rows[i])
             /\ Commit(r.rows[i], r.rows, IF r.ranked THEN deferredPage ELSE 0, d.doc)
  <2>1. \A d \in deferred : d.doc = focus
    BY DEF FocusInv, DeferralIsForThisComposition
  <2>2. r \in Result
    BY HeadTailProperties DEF HandleResult, TypeOK
  <2>3. \A i \in DOMAIN r.rows : r.rows[i] \in Row
    BY <2>2, ElementOfSeq, LenProperties DEF Result
  <2> QED
    BY <1>1, <1>4, <2>1, <2>3, FocusCommit
<1> QED
  BY <1>2, <1>3, <1>4 DEF HandleResult, InstallRows

\* The worker only takes feedback out of its queue.
LEMMA FocusWorker ==
  ASSUME TypeOK, FocusInv, Worker
  PROVE  FocusInv'
<1>1. UNCHANGED <<deferred, pending, generation, focus, context>>
  BY DEF Worker, WorkerTake, WorkerAnswer, WorkerPost, WorkerWindow, WorkerUpdate,
         WorkerFeedback, NotWorker, uiVars, modeVars
<1>2. CASE UNCHANGED feedback
  BY <1>1, <1>2, FocusKeep
<1>3. CASE feedback # <<>> /\ feedback' = Tail(feedback)
  <2>1. \A i \in DOMAIN feedback' : \E j \in DOMAIN feedback : feedback'[i] = feedback[j]
    BY <1>3, HeadTailProperties, LenProperties DEF TypeOK, QueueTypeOK
  <2> QED
    BY <1>1, <2>1 DEF FocusInv, DeferralIsForThisComposition, ContextOfFocusedDocument
<1> QED
  BY <1>2, <1>3 DEF Worker, WorkerTake, WorkerAnswer, WorkerPost, WorkerWindow, WorkerUpdate,
                    WorkerFeedback, queueVars

\* The invariant behind DeferralCorrect and ContextCorrect.
LEMMA FocusInvariant == Spec => []FocusInv
<1>1. Init => FocusInv
  BY DEF Init, FocusInv, DeferralIsForThisComposition, ContextOfFocusedDocument
<1>2. TypeOK /\ FocusInv /\ [Next]_vars => FocusInv'
  <2> SUFFICES ASSUME TypeOK, FocusInv, [Next]_vars PROVE FocusInv'
    OBVIOUS
  <2>1. CASE UNCHANGED vars
    BY <2>1, FocusKeep DEF vars, uiVars, modeVars, queueVars
  <2> QED
    BY <2>1, FocusUser, FocusResult, FocusWorker DEF Next
<1> QED
  BY <1>1, <1>2, TypeCorrect, PTL DEF Spec

\* A selection made while a request is pending can only be committed into the
\* composition and the document it was made in.
THEOREM DeferralCorrect == Spec => []DeferralIsForThisComposition
<1>1. FocusInv => DeferralIsForThisComposition
  BY DEF FocusInv
<1> QED
  BY <1>1, FocusInvariant, PTL

\* Text committed to one document never reaches Core as the context of another.
THEOREM ContextCorrect == Spec => []ContextOfFocusedDocument
<1>1. FocusInv => ContextOfFocusedDocument
  BY DEF FocusInv
<1> QED
  BY <1>1, FocusInvariant, PTL
---------------------------------------------------------------------------
(* Requests *)

\* Requests and answers have ids that were handed out.
IdsUsed ==
  /\ \A x \in slot \cup wreq \cup wres : x.id < nextId
  /\ \A i \in DOMAIN msgs : msgs[i].id < nextId

\* The newer a request, the less far it has come.  Only the model's order of an
\* answer may come after the answer itself.
InOrder ==
  /\ \A x \in slot, y \in wreq \cup wres : y.id < x.id
  /\ \A x \in slot, i \in DOMAIN msgs : msgs[i].id < x.id
  /\ wpc = "exchange" => \A x \in wreq, i \in DOMAIN msgs : msgs[i].id < x.id
  /\ \A r \in wres, i \in DOMAIN msgs : ~r.ranked => msgs[i].id < r.id
  /\ \A i, j \in DOMAIN msgs : i < j /\ ~msgs[j].ranked => msgs[i].id < msgs[j].id

\* What can still become the first answer to its request.
Unanswered ==
  slot \cup {q \in wreq : wpc = "exchange"} \cup {r \in wres : ~r.ranked}
       \cup {msgs[i] : i \in {j \in DOMAIN msgs : ~msgs[j].ranked}}

\* An answer that can be accepted is one the window waits for.
Served == \A x \in Unanswered : x.id = activeId /\ x.gen = generation => pending

\* The model's order is never a failure.
RankedSucceeds ==
  /\ \A r \in wres : r.failed => ~r.ranked
  /\ \A i \in DOMAIN msgs : msgs[i].failed => ~msgs[i].ranked

\* The requests that what is pending and deferred may still cause: the retry of
\* a first failure; a page turn or a commit, and the retry of its request.
Owed ==
  (IF pending /\ retries = 0 THEN 1 ELSE 0)
    + (IF deferredPage # 0 THEN 2 ELSE 0) + (IF deferred # {} THEN 2 ELSE 0)

WithinBudget == scheduled + Owed <= 2 * events

RequestInv == IdsUsed /\ InOrder /\ Served /\ RankedSucceeds /\ WithinBudget

---------------------------------------------------------------------------
(* A pending request *)

AtMostOne(S) == \A x, y \in S : x = y

\* The worker has one request at a time, and the one it must not drop is the
\* active one while the window waits.
PendingInv ==
  /\ AtMostOne(slot) /\ AtMostOne(wreq) /\ AtMostOne(wres)
  /\ pending => latestId = activeId /\ active
  /\ PendingIsServed

---------------------------------------------------------------------------
(* Feedback *)

\* Feedback waits in the order of the commits, behind what the worker sends.
FeedbackInv ==
  /\ learned < nextId
  /\ \A i \in DOMAIN feedback : learned < feedback[i].id /\ feedback[i].id < nextId
  /\ \A i, j \in DOMAIN feedback : i < j => feedback[i].id < feedback[j].id
  /\ \A f \in wfb : /\ learned < f.id /\ f.id < nextId
                    /\ \A i \in DOMAIN feedback : f.id < feedback[i].id

---------------------------------------------------------------------------
(* What the steps of the UI thread do to requests and feedback *)

\* A request is scheduled, is dropped with its composition, or left as it is.
Asks(retry) ==
  /\ pending' = TRUE /\ retries' = retry /\ deferred' = {}
  /\ activeId' = nextId /\ latestId' = nextId
  /\ slot' = {[id |-> nextId, gen |-> generation', query |-> query']}
  /\ scheduled' = scheduled + 1 /\ nextId' \in Nat /\ nextId' > nextId

Drops ==
  /\ pending' = FALSE /\ deferredPage' = 0 /\ deferred' = {}
  /\ generation' > generation /\ UNCHANGED <<activeId, slot, scheduled>>
  /\ nextId' \in Nat /\ nextId' >= nextId

Leaves ==
  /\ UNCHANGED <<generation, pending, retries, idVars, slot, scheduled>>
  /\ UNCHANGED deferredPage \/ UNCHANGED deferred
  /\ UNCHANGED query \/ query.input = <<>>

\* A commit adds its feedback at the end.
Teaches ==
  \/ UNCHANGED feedback
  \/ \E f \in Feedback : f.id >= nextId /\ nextId' = f.id + 1 /\ feedback' = Append(feedback, f)

\* A commit drops the request or schedules one for the rest of the input.
LEMMA CommitCases ==
  ASSUME TypeOK, NEW row \in Row, NEW list, NEW turn, NEW doc \in Docs, CanConsume(row),
         Commit(row, list, turn, doc)
  PROVE  /\ (Asks(0) /\ deferredPage' = turn) \/ Drops
         /\ Teaches
<1>1. nextId \in Nat /\ generation \in Nat /\ generation + 1 > generation
  BY DEF TypeOK, IdTypeOK, UiTypeOK
<1>2. ASSUME NEW id \in Nat, id >= nextId, QueueFeedback(id, row, doc) PROVE Teaches
  <2> DEFINE f == [id |-> id, text |-> row.text, doc |-> doc, context |-> context,
                   input |-> StripBack(SubSeq(query.input, 1, row.consumed))]
  <2>1. SubSeq(query.input, 1, row.consumed) \in Input
    BY SubSeqType DEF CanConsume, TypeOK, UiTypeOK, Query, Input
  <2>2. f \in Feedback
    BY <2>1, StripBackType DEF Feedback, Row, TypeOK, ModeTypeOK
  <2>3. feedback' = Append(feedback, f) /\ nextId' = f.id + 1 /\ f.id >= nextId
    BY <1>2 DEF QueueFeedback
  <2> QED
    BY <2>2, <2>3 DEF Teaches
<1>3. CASE ClearComposition(generation + 1) /\ QueueFeedback(nextId, row, doc)
           /\ UNCHANGED <<slot, scheduled>>
  BY <1>1, <1>2, <1>3 DEF ClearComposition, QueueFeedback, Drops
<1>4. ASSUME NEW rest, ScheduleRequest(FirstPage(rest, query.correction), generation + 1, 0),
             deferredPage' = turn, QueueFeedback(nextId + 1, row, doc)
      PROVE  Asks(0) /\ deferredPage' = turn /\ Teaches
  <2>1. nextId' = nextId + 2
    BY <1>1, <1>4 DEF QueueFeedback
  <2> QED
    BY <1>1, <1>2, <1>4, <2>1 DEF ScheduleRequest, Asks
<1> QED
  BY <1>3, <1>4 DEF Commit

\* What the user does while the service stays active.
LEMMA UserCases ==
  ASSUME TypeOK, User
  PROVE  \/ /\ active /\ events' = events + 1 /\ UNCHANGED <<workerVars, msgs, learned, active>>
            /\ (Asks(0) /\ UNCHANGED deferredPage) \/ Drops \/ Leaves
            /\ Teaches
         \/ Deactivate
         \/ Activate
<1>1. nextId \in Nat /\ nextId + 1 > nextId /\ generation \in Nat /\ generation + 1 > generation
      /\ generation + 2 > generation
  BY DEF TypeOK, IdTypeOK, UiTypeOK
<1> DEFINE Goal == /\ (Asks(0) /\ UNCHANGED deferredPage) \/ Drops \/ Leaves
                   /\ Teaches
<1> DEFINE Quiet == events' = events + 1 /\ UNCHANGED <<workerVars, msgs, learned, active>> /\ active
<1>2. ASSUME NEW input, EditTo(input) PROVE Goal
  BY <1>1, <1>2 DEF EditTo, ScheduleRequest, Asks, Teaches
<1>3. ASSUME NEW gen, gen \in {generation + 1, generation + 2}, ClearComposition(gen),
             UNCHANGED <<nextId, queueVars, scheduled>>
      PROVE  Goal
  BY <1>1, <1>3 DEF ClearComposition, Drops, Teaches, queueVars
<1>4. CASE KeyLetter \/ KeySeparator
  BY <1>2, <1>4 DEF KeyLetter, KeySeparator, UserEvent, NotUi, EditTo, modeVars
<1>5. CASE KeyBackspace \/ KeyEscape
  BY <1>2, <1>3, <1>5 DEF KeyBackspace, KeyEscape, UserEvent, NotUi, EditTo, modeVars
<1>6. CASE ToggleCorrection
  <2>1. Goal
    BY <1>1, <1>6 DEF ToggleCorrection, ScheduleRequest, Asks, Leaves, Teaches
  <2> QED
    BY <1>6, <2>1 DEF ToggleCorrection, UserEvent, NotUi, modeVars
<1>7. CASE CommitRawInput \/ ChangeFocus
  BY <1>3, <1>7 DEF CommitRawInput, ChangeFocus, UserEvent, NotUi
<1>8. CASE ToggleLanguage
  <2>1. CASE UNCHANGED <<uiVars, activeId, latestId>>
    BY <1>8, <2>1 DEF ToggleLanguage, UserEvent, NotUi, uiVars, idVars, queueVars, Leaves, Teaches
  <2>2. CASE ClearComposition(generation + 1) \/ ClearComposition(generation + 2)
    BY <1>3, <1>8, <2>2 DEF ToggleLanguage, UserEvent, NotUi
  <2> QED
    BY <1>8, <2>1, <2>2 DEF ToggleLanguage
<1>9. CASE TurnPage \/ ToggleExpanded
  <2>1. Goal
    BY <1>1, <1>9 DEF TurnPage, ToggleExpanded, TurnTo, ScheduleRequest, Asks, Leaves, Teaches
  <2> QED
    BY <1>9, <2>1 DEF TurnPage, ToggleExpanded, UserEvent, NotUi, modeVars
<1>10. CASE DeferSelection
  <2>1. Goal
    BY <1>10 DEF DeferSelection, queueVars, Leaves, Teaches
  <2> QED
    BY <1>10, <2>1 DEF DeferSelection, UserEvent, NotUi, modeVars
<1>11. CASE SelectCandidate
  <2>1. \A i \in DOMAIN rows : rows[i] \in Row
    BY ElementOfSeq, LenProperties DEF TypeOK, UiTypeOK
  <2>2. focus \in Docs
    BY DEF TypeOK, ModeTypeOK
  <2>3. ((Asks(0) /\ UNCHANGED deferredPage) \/ Drops) /\ Teaches
    BY <1>11, <2>1, <2>2, CommitCases DEF SelectCandidate
  <2> QED
    BY <1>11, <2>3 DEF SelectCandidate, UserEvent, NotUi
<1> QED
  BY <1>4, <1>5, <1>6, <1>7, <1>8, <1>9, <1>10, <1>11 DEF User

\* What an answer does: nothing, a retry, a page turn, the deferred commit, or
\* its rows are installed.
LEMMA ResultCases ==
  ASSUME TypeOK, HandleResult
  PROVE  LET r == Head(msgs)
             settles == UNCHANGED deferredPage \/ deferredPage' = 0
         IN /\ msgs # <<>> /\ msgs' = Tail(msgs) /\ r \in Result /\ active
            /\ UNCHANGED <<workerVars, learned, events, active>>
            /\ \/ ~Accepts(r) /\ UNCHANGED <<uiVars, idVars, slot, scheduled>>
               \/ Accepts(r) /\ r.failed /\ retries = 0 /\ Asks(1) /\ UNCHANGED deferredPage
               \/ Accepts(r) /\ deferredPage # 0 /\ Asks(0) /\ deferredPage' = 0
               \/ Accepts(r) /\ deferred # {} /\ ((Asks(0) /\ settles) \/ Drops)
               \/ /\ Accepts(r) /\ pending' = FALSE /\ deferred' = {} /\ settles
                  /\ UNCHANGED <<query, generation, idVars, slot, scheduled>>
            /\ Teaches
<1> DEFINE r == Head(msgs)
           settles == UNCHANGED deferredPage \/ deferredPage' = 0
<1>1. /\ msgs # <<>> /\ msgs' = Tail(msgs) /\ active
      /\ UNCHANGED <<workerVars, learned, events, active>>
  BY DEF HandleResult
<1>2. r \in Result
  BY <1>1, HeadTailProperties DEF TypeOK
<1>3. nextId \in Nat /\ nextId + 1 > nextId /\ retries \in Nat
  BY DEF TypeOK, IdTypeOK, UiTypeOK
<1>4. CASE ~Accepts(r) /\ UNCHANGED <<uiVars, idVars, queueVars, scheduled>>
  BY <1>1, <1>2, <1>4 DEF Teaches, queueVars
<1>5. CASE Accepts(r) /\ r.failed /\ retries = 0 /\ RetryRequest /\ nextId' = nextId + 1
           /\ UNCHANGED <<deferredPage, feedback>>
  BY <1>1, <1>2, <1>3, <1>5 DEF RetryRequest, ScheduleRequest, Asks, Teaches
<1>6. CASE Accepts(r) /\ Turns(r) /\ TurnTo(query.page + deferredPage) /\ deferredPage' = 0
           /\ UNCHANGED feedback
  BY <1>1, <1>2, <1>3, <1>6 DEF Turns, TurnTo, ScheduleRequest, Asks, Teaches
<1>7. CASE Accepts(r) /\ \E d \in deferred, i \in DOMAIN r.rows :
             /\ CanConsume(r.rows[i])
             /\ Commit(r.rows[i], r.rows, IF r.ranked THEN deferredPage ELSE 0, d.doc)
  <2>1. \A i \in DOMAIN r.rows : r.rows[i] \in Row
    BY <1>2, ElementOfSeq, LenProperties DEF Result
  <2>2. \A d \in deferred : d.doc \in Docs
    BY DEF TypeOK, UiTypeOK, Deferral
  <2>3. ((Asks(0) /\ settles) \/ Drops) /\ Teaches
    BY <1>7, <2>1, <2>2, CommitCases
  <2>4. deferred # {}
    BY <1>7
  <2> QED
    BY <1>1, <1>2, <1>7, <2>3, <2>4
<1>8. CASE Accepts(r) /\ InstallRows(r)
  <2>1. UNCHANGED feedback /\ settles
    BY <1>8 DEF InstallRows
  <2> QED
    BY <1>1, <1>2, <1>8, <2>1 DEF InstallRows, Teaches
<1> QED
  BY <1>4, <1>5, <1>6, <1>7, <1>8 DEF HandleResult
---------------------------------------------------------------------------
(* The order of requests *)

\* What comes after the first message comes one place earlier when that is
\* handled.
LEMMA MessageHandled ==
  ASSUME TypeOK, msgs # <<>>, msgs' = Tail(msgs)
  PROVE  /\ DOMAIN msgs' = 1 .. Len(msgs) - 1 /\ DOMAIN msgs = 1 .. Len(msgs) /\ Len(msgs) \in Nat \ {0}
         /\ Head(msgs) = msgs[1]
         /\ \A i \in DOMAIN msgs' : i + 1 \in DOMAIN msgs /\ msgs'[i] = msgs[i + 1]
<1>1. /\ DOMAIN msgs = 1 .. Len(msgs) /\ Len(msgs) \in Nat /\ Len(msgs) # 0
      /\ Tail(msgs) \in Seq(Result) /\ Len(Tail(msgs)) = Len(msgs) - 1 /\ Head(msgs) = msgs[1]
      /\ \A i \in 1 .. Len(Tail(msgs)) : Tail(msgs)[i] = msgs[i + 1]
  BY HeadTailProperties, LenProperties, EmptySeq DEF TypeOK
<1>2. DOMAIN Tail(msgs) = 1 .. Len(Tail(msgs))
  BY <1>1, LenProperties
<1> QED BY <1>1, <1>2

\* What is on its way is typed.
LEMMA OnTheWay ==
  ASSUME TypeOK
  PROVE  /\ \A x \in slot \cup wreq : x \in Request /\ x.id \in Nat /\ x.gen \in Nat
         /\ \A r \in wres : r \in Result /\ r.id \in Nat /\ r.gen \in Nat
         /\ \A i \in DOMAIN msgs : i \in Nat /\ msgs[i] \in Result /\ msgs[i].id \in Nat /\ msgs[i].gen \in Nat
         /\ nextId \in Nat
<1>1. \A i \in DOMAIN msgs : i \in Nat /\ msgs[i] \in Result
  BY ElementOfSeq, LenProperties DEF TypeOK
<1> QED BY <1>1 DEF TypeOK, QueueTypeOK, WorkerTypeOK, IdTypeOK, Request, Result

\* A step of the UI thread keeps the order: a new request has a new id.
LEMMA UiOrder ==
  ASSUME TypeOK, TypeOK', IdsUsed, InOrder, UNCHANGED <<wpc, wreq, wres>>,
         UNCHANGED msgs \/ (msgs # <<>> /\ msgs' = Tail(msgs)),
         nextId' >= nextId,
         UNCHANGED slot \/ (nextId' > nextId /\ \A x \in slot' : x.id = nextId)
  PROVE  IdsUsed' /\ InOrder'
<1>1. \A i \in DOMAIN msgs' : \E k \in DOMAIN msgs : msgs'[i] = msgs[k]
  BY MessageHandled
<1>2. \A i, j \in DOMAIN msgs' : i < j =>
        \E k, l \in DOMAIN msgs : k < l /\ msgs'[i] = msgs[k] /\ msgs'[j] = msgs[l]
  <2>1. CASE UNCHANGED msgs
    BY <2>1
  <2>2. CASE msgs # <<>> /\ msgs' = Tail(msgs)
    <3>1. ASSUME NEW i \in DOMAIN msgs', NEW j \in DOMAIN msgs', i < j
          PROVE  \E k, l \in DOMAIN msgs : k < l /\ msgs'[i] = msgs[k] /\ msgs'[j] = msgs[l]
      <4>1. /\ i + 1 \in DOMAIN msgs /\ msgs'[i] = msgs[i + 1]
            /\ j + 1 \in DOMAIN msgs /\ msgs'[j] = msgs[j + 1]
        BY <2>2, <3>1, MessageHandled
      <4>2. i + 1 < j + 1
        <5>1. DOMAIN msgs' = 1 .. Len(msgs) - 1 /\ Len(msgs) \in Nat
          BY <2>2, MessageHandled
        <5> QED BY <3>1, <5>1
      <4> QED BY <4>1, <4>2
    <3> QED BY <3>1
  <2> QED BY <2>1, <2>2
<1>3. /\ \A x \in wreq \cup wres : x.id \in Nat /\ x.id < nextId
      /\ \A i \in DOMAIN msgs : msgs[i].id \in Nat /\ msgs[i].id < nextId
      /\ nextId \in Nat /\ nextId' \in Nat
      /\ \A x \in slot : x.id \in Nat /\ x.id < nextId
  BY OnTheWay DEF IdsUsed, TypeOK, IdTypeOK
<1>4. IdsUsed'
  BY <1>1, <1>3 DEF IdsUsed
<1>5. \A x \in slot', y \in wreq \cup wres : y.id < x.id
  BY <1>3 DEF InOrder
<1>6. \A x \in slot', i \in DOMAIN msgs' : msgs'[i].id < x.id
  BY <1>1, <1>3 DEF InOrder
<1>7. \A r \in wres, i \in DOMAIN msgs' : ~r.ranked => msgs'[i].id < r.id
  BY <1>1 DEF InOrder
<1>8. wpc = "exchange" => \A x \in wreq, i \in DOMAIN msgs' : msgs'[i].id < x.id
  BY <1>1 DEF InOrder
<1>9. \A i, j \in DOMAIN msgs' : i < j /\ ~msgs'[j].ranked => msgs'[i].id < msgs'[j].id
  BY <1>2 DEF InOrder
<1> QED BY <1>4, <1>5, <1>6, <1>7, <1>8, <1>9 DEF InOrder

\* The worker hands a request on with its id, and answers in turn.
LEMMA WorkerOrder ==
  ASSUME TypeOK, IdsUsed, InOrder, Worker
  PROVE  IdsUsed' /\ InOrder'
<1>0. UNCHANGED nextId
  BY DEF Worker, WorkerTake, WorkerAnswer, WorkerPost, WorkerWindow, WorkerUpdate, WorkerFeedback,
         NotWorker, idVars
<1>1. CASE WorkerTake
  <2>1. CASE slot # {} /\ wpc' = "exchange" /\ wreq' = slot /\ slot' = {} /\ UNCHANGED <<wres, msgs>>
    BY <1>0, <2>1 DEF IdsUsed, InOrder
  <2>2. CASE wpc' = "feedback" /\ UNCHANGED <<slot, wreq, wres, msgs>>
    BY <1>0, <2>2 DEF IdsUsed, InOrder
  <2> QED BY <1>1, <2>1, <2>2 DEF WorkerTake
<1>2. CASE WorkerAnswer
  <2>1. CASE wpc' = "idle" /\ wreq' = {} /\ UNCHANGED <<slot, wres, msgs>>
    BY <1>0, <2>1 DEF IdsUsed, InOrder
  <2>2. CASE \E q \in wreq : \E r : wpc' = "post" /\ wres' = {r} /\ r.id = q.id /\ UNCHANGED <<slot, wreq, msgs>>
    BY <1>0, <1>2, <2>2 DEF IdsUsed, InOrder, WorkerAnswer
  <2> QED BY <1>2, <2>1, <2>2 DEF WorkerAnswer, FailedResult, BaseResult, queueVars
<1>3. CASE WorkerPost
  <2>1. wres' = {} /\ wreq' \subseteq wreq /\ wpc' \in {"window", "idle"} /\ UNCHANGED slot
    BY <1>3 DEF WorkerPost, queueVars
  <2>2. CASE UNCHANGED msgs
    BY <1>0, <2>1, <2>2 DEF IdsUsed, InOrder
  <2>3. ASSUME NEW r \in wres, msgs' = Append(msgs, r) PROVE IdsUsed' /\ InOrder'
    <3>1. r \in Result /\ msgs \in Seq(Result)
      BY DEF TypeOK, WorkerTypeOK
    <3>2. /\ Len(msgs') = Len(msgs) + 1 /\ DOMAIN msgs' = 1 .. Len(msgs') /\ DOMAIN msgs = 1 .. Len(msgs)
          /\ Len(msgs) \in Nat
          /\ \A i \in 1 .. Len(msgs) : msgs'[i] = msgs[i]
          /\ msgs'[Len(msgs) + 1] = r
      BY <2>3, <3>1, AppendProperties, LenProperties
    <3>3. \A i \in DOMAIN msgs' : (i \in DOMAIN msgs /\ msgs'[i] = msgs[i]) \/ (i = Len(msgs) + 1 /\ msgs'[i] = r)
      BY <3>2
    <3>4. IdsUsed'
      BY <1>0, <2>1, <3>3 DEF IdsUsed
    <3>5. \A i, j \in DOMAIN msgs' : i < j /\ ~msgs'[j].ranked => msgs'[i].id < msgs'[j].id
      <4>1. ASSUME NEW i \in DOMAIN msgs', NEW j \in DOMAIN msgs', i < j, ~msgs'[j].ranked
            PROVE  msgs'[i].id < msgs'[j].id
        <5>1. i \in DOMAIN msgs /\ msgs'[i] = msgs[i]
          BY <3>2, <4>1
        <5>2. CASE j \in DOMAIN msgs /\ msgs'[j] = msgs[j]
          BY <4>1, <5>1, <5>2 DEF InOrder
        <5>3. CASE msgs'[j] = r
          BY <4>1, <5>1, <5>3 DEF InOrder
        <5> QED BY <3>3, <5>2, <5>3
      <4> QED BY <4>1
    <3>6. \A x \in slot', i \in DOMAIN msgs' : msgs'[i].id < x.id
      BY <2>1, <3>3 DEF InOrder
    <3> QED BY <2>1, <3>4, <3>5, <3>6 DEF InOrder
  <2> QED BY <1>3, <2>2, <2>3 DEF WorkerPost
<1>4. CASE WorkerWindow \/ WorkerFeedback
  <2>1. wreq' \subseteq wreq /\ wpc' # "exchange" /\ UNCHANGED <<slot, wres, msgs>>
    BY <1>4 DEF WorkerWindow, WorkerFeedback, queueVars
  <2> QED BY <1>0, <2>1 DEF IdsUsed, InOrder
<1>5. CASE WorkerUpdate
  <2>1. wreq' \subseteq wreq /\ wpc' # "exchange" /\ UNCHANGED <<slot, msgs>>
    BY <1>5 DEF WorkerUpdate, queueVars
  <2>2. UNCHANGED wres \/ \E q \in wreq : \E r : wres' = {r} /\ r.id = q.id /\ r.ranked
    <3>1. \A q, list : RankedResult(q, list).id = q.id /\ RankedResult(q, list).ranked
      BY DEF RankedResult
    <3> QED BY <1>5, <3>1 DEF WorkerUpdate
  <2> QED BY <1>0, <2>1, <2>2 DEF IdsUsed, InOrder
<1> QED BY <1>1, <1>2, <1>3, <1>4, <1>5 DEF Worker
---------------------------------------------------------------------------
(* Answers that can be accepted are waited for *)

\* Handling a message adds nothing to what may answer.
LEMMA UnansweredHandled ==
  ASSUME TypeOK, UNCHANGED <<wpc, wreq, wres, slot>>,
         UNCHANGED msgs \/ (msgs # <<>> /\ msgs' = Tail(msgs))
  PROVE  Unanswered' \subseteq Unanswered
<1>1. \A i \in DOMAIN msgs' : \E k \in DOMAIN msgs : msgs'[i] = msgs[k]
  BY MessageHandled
<1> QED BY <1>1 DEF Unanswered

\* What may answer is typed and not of a later generation.
LEMMA UnansweredTyped ==
  ASSUME TypeOK, CurrentInv
  PROVE  \A x \in Unanswered : x.gen \in Nat /\ x.gen <= generation
BY OnTheWay DEF Unanswered, CurrentInv, CurrentQuery

\* The first message's request has no other answer on its way.
LEMMA AnsweredOnce ==
  ASSUME TypeOK, IdsUsed, InOrder, UNCHANGED <<wpc, wreq, wres, slot>>, msgs # <<>>, msgs' = Tail(msgs)
  PROVE  \A x \in Unanswered' : x.id # Head(msgs).id
<1>1. /\ 1 \in DOMAIN msgs /\ Head(msgs) = msgs[1] /\ Head(msgs).id \in Nat
      /\ \A i \in DOMAIN msgs' : i + 1 \in DOMAIN msgs /\ msgs'[i] = msgs[i + 1]
      /\ \A i \in DOMAIN msgs' : 1 < i + 1
  <2>1. DOMAIN msgs' = 1 .. Len(msgs) - 1 /\ DOMAIN msgs = 1 .. Len(msgs) /\ Len(msgs) \in Nat \ {0}
    BY MessageHandled
  <2> QED BY <2>1, MessageHandled, OnTheWay
<1>2. \A x \in slot \cup wreq \cup wres : x.id \in Nat
  BY OnTheWay
<1>3. \A x \in slot : Head(msgs).id < x.id
  BY <1>1 DEF InOrder
<1>4. wpc = "exchange" => \A x \in wreq : Head(msgs).id < x.id
  BY <1>1 DEF InOrder
<1>5. \A r \in wres : ~r.ranked => Head(msgs).id < r.id
  BY <1>1 DEF InOrder
<1>6. \A i \in DOMAIN msgs' : ~msgs'[i].ranked => Head(msgs).id < msgs'[i].id /\ msgs'[i].id \in Nat
  BY <1>1, OnTheWay DEF InOrder
<1> QED BY <1>1, <1>2, <1>3, <1>4, <1>5, <1>6 DEF Unanswered

\* A step of the UI thread: whatever ends the wait also outdates the answer.
LEMMA UiServed ==
  ASSUME TypeOK, IdsUsed, InOrder, CurrentInv, Served, UNCHANGED <<wpc, wreq, wres>>,
         UNCHANGED msgs \/ (msgs # <<>> /\ msgs' = Tail(msgs)),
         \/ pending' = TRUE
         \/ generation' > generation /\ UNCHANGED slot
         \/ UNCHANGED <<pending, generation, activeId, slot>>
         \/ /\ UNCHANGED <<generation, activeId, slot>>
            /\ msgs # <<>> /\ msgs' = Tail(msgs) /\ Head(msgs).id = activeId
  PROVE  Served'
<1>1. CASE pending' = TRUE
  BY <1>1 DEF Served
<1>2. CASE generation' > generation /\ UNCHANGED slot
  <2>1. Unanswered' \subseteq Unanswered
    BY <1>2, UnansweredHandled
  <2>2. generation \in Nat /\ \A x \in Unanswered' : x.gen \in Nat /\ x.gen <= generation
    BY <2>1, UnansweredTyped DEF TypeOK, UiTypeOK
  <2>3. \A x \in Unanswered' : x.gen # generation'
    BY <1>2, <2>2
  <2> QED BY <2>3 DEF Served
<1>3. CASE UNCHANGED <<pending, generation, activeId, slot>>
  <2>1. Unanswered' \subseteq Unanswered
    BY <1>3, UnansweredHandled
  <2> QED BY <1>3, <2>1 DEF Served
<1>4. CASE /\ UNCHANGED <<generation, activeId, slot>>
           /\ msgs # <<>> /\ msgs' = Tail(msgs) /\ Head(msgs).id = activeId
  BY <1>4, AnsweredOnce DEF Served
<1> QED BY <1>1, <1>2, <1>3, <1>4

\* The worker hands a request on with its id and generation, and posts its
\* first answer once.
LEMMA WorkerServed ==
  ASSUME TypeOK, Served, RankedSucceeds, Worker
  PROVE  Served' /\ RankedSucceeds'
<1>0. UNCHANGED <<pending, generation, activeId>>
  BY DEF Worker, WorkerTake, WorkerAnswer, WorkerPost, WorkerWindow, WorkerUpdate, WorkerFeedback,
         NotWorker, uiVars, idVars
<1>1. SUFFICES /\ \A x \in Unanswered' : \E y \in Unanswered : x.id = y.id /\ x.gen = y.gen
               /\ RankedSucceeds'
  BY <1>0 DEF Served
<1>2. CASE WorkerTake
  BY <1>2 DEF WorkerTake, Unanswered, RankedSucceeds
<1>3. CASE WorkerAnswer
  <2>1. CASE wpc' = "idle" /\ wreq' = {} /\ UNCHANGED <<slot, wres, msgs>>
    BY <2>1 DEF Unanswered, RankedSucceeds
  <2>2. CASE \E q \in wreq : \E r : /\ wpc = "exchange" /\ wpc' = "post" /\ wres' = {r}
                                    /\ r.id = q.id /\ r.gen = q.gen /\ ~r.ranked
                                    /\ UNCHANGED <<slot, wreq, msgs>>
    <3>0. PICK q \in wreq : \E r : /\ wpc = "exchange" /\ wpc' = "post" /\ wres' = {r}
                                   /\ r.id = q.id /\ r.gen = q.gen /\ ~r.ranked
                                   /\ UNCHANGED <<slot, wreq, msgs>>
      BY <2>2
    <3>1. PICK r : /\ wpc = "exchange" /\ wpc' = "post" /\ wres' = {r}
                   /\ r.id = q.id /\ r.gen = q.gen /\ ~r.ranked
                   /\ UNCHANGED <<slot, wreq, msgs>>
      BY <3>0
    <3>2. q \in Unanswered
      BY <3>1 DEF Unanswered
    <3>3. \A x \in Unanswered' : x = r \/ x \in Unanswered
      BY <3>1 DEF Unanswered
    <3> QED BY <3>1, <3>2, <3>3 DEF RankedSucceeds
  <2>3. \A q, list, more, model :
          /\ FailedResult(q).id = q.id /\ FailedResult(q).gen = q.gen /\ ~FailedResult(q).ranked
          /\ BaseResult(q, list, more, model).id = q.id /\ BaseResult(q, list, more, model).gen = q.gen
          /\ ~BaseResult(q, list, more, model).ranked
    BY DEF FailedResult, BaseResult
  <2> QED BY <1>3, <2>1, <2>2, <2>3 DEF WorkerAnswer, queueVars
<1>4. CASE WorkerPost
  <2>1. wpc' # "exchange" /\ wres' = {} /\ UNCHANGED slot
    BY <1>4 DEF WorkerPost, queueVars
  <2>2. CASE UNCHANGED msgs
    BY <2>1, <2>2 DEF Unanswered, RankedSucceeds
  <2>3. ASSUME NEW r \in wres, msgs' = Append(msgs, r)
        PROVE  /\ \A x \in Unanswered' : \E y \in Unanswered : x.id = y.id /\ x.gen = y.gen
               /\ RankedSucceeds'
    <3>1. r \in Result /\ msgs \in Seq(Result)
      BY DEF TypeOK, WorkerTypeOK
    <3>2. \A i \in DOMAIN msgs' : msgs'[i] = r \/ \E j \in DOMAIN msgs : msgs'[i] = msgs[j]
      BY <2>3, <3>1, AppendProperties, LenProperties
    <3> QED BY <2>1, <3>2 DEF Unanswered, RankedSucceeds
  <2> QED BY <1>4, <2>2, <2>3 DEF WorkerPost
<1>5. CASE WorkerWindow \/ WorkerFeedback
  <2>1. wpc' # "exchange" /\ UNCHANGED <<slot, wres, msgs>>
    BY <1>5 DEF WorkerWindow, WorkerFeedback, queueVars
  <2> QED BY <2>1 DEF Unanswered, RankedSucceeds
<1>6. CASE WorkerUpdate
  <2>1. wpc' # "exchange" /\ UNCHANGED <<slot, msgs>>
    BY <1>6 DEF WorkerUpdate, queueVars
  <2>2. UNCHANGED wres \/ \E r : wres' = {r} /\ r.ranked /\ ~r.failed
    <3>1. \A q, list : RankedResult(q, list).ranked /\ ~RankedResult(q, list).failed
      BY DEF RankedResult
    <3> QED BY <1>6, <3>1 DEF WorkerUpdate
  <2> QED BY <2>1, <2>2 DEF Unanswered, RankedSucceeds
<1> QED BY <1>2, <1>3, <1>4, <1>5, <1>6 DEF Worker
---------------------------------------------------------------------------
(* What is owed *)

\* A request is owed its retry, a page direction or a deferred selection a
\* request and the retry of that.
LEMMA OwedIs ==
  /\ Owed \in 0 .. 5
  /\ pending = FALSE /\ deferredPage = 0 /\ deferred = {} => Owed = 0
  /\ deferredPage # 0 => Owed >= 2
  /\ deferred # {} => Owed >= 2
BY DEF Owed

\* k more requests are within the budget when as much debt is settled or paid.
LEMMA DebtPaid ==
  ASSUME TypeOK, TypeOK', WithinBudget, NEW k \in Int, scheduled' = scheduled + k,
         \/ events' = events + 1 /\ Owed' + k <= Owed + 2
         \/ events' = events /\ Owed' + k <= Owed
  PROVE  WithinBudget'
<1> DEFINE o == Owed
           p == Owed'
<1>1. o \in Int /\ p \in Int
  BY DEF Owed
<1>2. /\ scheduled \in Int /\ events \in Int
      /\ scheduled + o <= 2 * events
      /\ scheduled' = scheduled + k
      /\ (events' = events + 1 /\ p + k <= o + 2) \/ (events' = events /\ p + k <= o)
  BY DEF TypeOK, HistoryTypeOK, WithinBudget
<1> HIDE DEF o, p
<1>3. scheduled' + p <= 2 * events'
  BY <1>1, <1>2
<1> QED BY <1>3 DEF WithinBudget, o, p

\* The user's actions: each pays for one request and its retry.
LEMMA UserRequests ==
  ASSUME TypeOK, TypeOK', RequestInv, CurrentInv, User
  PROVE  RequestInv'
<1>1. scheduled \in Nat /\ events \in Nat /\ nextId \in Nat /\ nextId' \in Nat
  BY DEF TypeOK, HistoryTypeOK, IdTypeOK
<1>2. ASSUME events' = events + 1, UNCHANGED <<workerVars, msgs>>,
             (Asks(0) /\ UNCHANGED deferredPage) \/ Drops \/ Leaves
      PROVE  RequestInv'
  <2>1. UNCHANGED <<wpc, wreq, wres, msgs>>
    BY <1>2 DEF workerVars
  <2>2. /\ nextId' >= nextId
        /\ UNCHANGED slot \/ (nextId' > nextId /\ \A x \in slot' : x.id = nextId)
    BY <1>1, <1>2 DEF Asks, Drops, Leaves, idVars
  <2>3. IdsUsed' /\ InOrder'
    BY <2>1, <2>2, UiOrder DEF RequestInv
  <2>4. \/ pending' = TRUE
        \/ generation' > generation /\ UNCHANGED <<activeId, slot>>
        \/ UNCHANGED <<pending, generation, activeId, slot>>
    BY <1>2 DEF Asks, Drops, Leaves, idVars
  <2>5. Served'
    BY <2>1, <2>4, UiServed DEF RequestInv
  <2>6. RankedSucceeds'
    BY <2>1 DEF RequestInv, RankedSucceeds
  <2>7. WithinBudget'
    <3>0. WithinBudget
      BY DEF RequestInv
    <3>1. CASE Asks(0) /\ UNCHANGED deferredPage
      <4>1. Owed' + 1 <= Owed + 2
        BY <3>1 DEF Asks, Owed
      <4>2. scheduled' = scheduled + 1
        BY <3>1 DEF Asks
      <4> QED BY <1>2, <3>0, <4>1, <4>2, DebtPaid
    <3>2. CASE Drops
      <4>1. Owed' + 0 <= Owed + 2
        BY <3>2 DEF Drops, Owed
      <4>2. scheduled' = scheduled + 0
        BY <1>1, <3>2 DEF Drops
      <4> QED BY <1>2, <3>0, <4>1, <4>2, DebtPaid
    <3>3. CASE Leaves
      <4>1. Owed' + 0 <= Owed + 2
        BY <3>3 DEF Leaves, Owed
      <4>2. scheduled' = scheduled + 0
        BY <1>1, <3>3 DEF Leaves
      <4> QED BY <1>2, <3>0, <4>1, <4>2, DebtPaid
    <3> QED BY <1>2, <3>1, <3>2, <3>3
  <2> QED BY <2>3, <2>5, <2>6, <2>7 DEF RequestInv
<1>3. CASE Deactivate
  <2>1. /\ slot' = {} /\ wreq' = {} /\ wres' = {} /\ msgs' = <<>> /\ wpc' = "stopped"
        /\ events' = events + 1 /\ UNCHANGED scheduled
        /\ pending' = FALSE /\ deferredPage' = 0 /\ deferred' = {}
    BY <1>3 DEF Deactivate, UserEvent, ClearComposition
  <2>2. DOMAIN msgs' = {}
    BY <2>1
  <2>3. Owed' = 0
    BY <2>1 DEF Owed
  <2>4. WithinBudget'
    BY <1>1, <2>1, <2>3, OwedIs DEF RequestInv, WithinBudget
  <2>5. IdsUsed' /\ InOrder' /\ Served' /\ RankedSucceeds'
    BY <2>1, <2>2 DEF IdsUsed, InOrder, Served, Unanswered, RankedSucceeds
  <2> QED BY <2>4, <2>5 DEF RequestInv
<1>4. CASE Activate
  <2>1. /\ UNCHANGED <<slot, wreq, wres, msgs, nextId, activeId, generation, scheduled>>
        /\ UNCHANGED <<pending, retries, deferredPage, deferred>>
        /\ events' = events + 1 /\ wpc' = "idle"
    BY <1>4 DEF Activate, uiVars, idVars, queueVars
  <2>2. Owed' = Owed
    BY <2>1 DEF Owed
  <2>3. WithinBudget'
    BY <1>1, <2>1, <2>2, OwedIs DEF RequestInv, WithinBudget
  <2>4. Unanswered' \subseteq Unanswered
    BY <2>1 DEF Unanswered
  <2>5. Served'
    BY <2>1, <2>4 DEF RequestInv, Served
  <2>6. IdsUsed' /\ InOrder' /\ RankedSucceeds'
    BY <2>1 DEF RequestInv, IdsUsed, InOrder, RankedSucceeds
  <2> QED BY <2>3, <2>5, <2>6 DEF RequestInv
<1> QED BY <1>2, <1>3, <1>4, UserCases

\* An answer only causes what is owed.
LEMMA ResultRequests ==
  ASSUME TypeOK, TypeOK', RequestInv, CurrentInv, HandleResult
  PROVE  RequestInv'
<1> DEFINE r == Head(msgs)
           settles == UNCHANGED deferredPage \/ deferredPage' = 0
<1>1. /\ msgs # <<>> /\ msgs' = Tail(msgs) /\ r \in Result
      /\ UNCHANGED <<wpc, wreq, wres, events>>
      /\ \/ UNCHANGED <<uiVars, idVars, slot, scheduled>>
         \/ Accepts(r) /\ r.failed /\ retries = 0 /\ Asks(1) /\ UNCHANGED deferredPage
         \/ Accepts(r) /\ deferredPage # 0 /\ Asks(0) /\ deferredPage' = 0
         \/ Accepts(r) /\ deferred # {} /\ ((Asks(0) /\ settles) \/ Drops)
         \/ /\ Accepts(r) /\ pending' = FALSE /\ deferred' = {} /\ settles
            /\ UNCHANGED <<query, generation, idVars, slot, scheduled>>
  BY ResultCases DEF workerVars
<1>2. scheduled \in Nat /\ events \in Nat /\ nextId \in Nat /\ nextId' \in Nat
  BY DEF TypeOK, HistoryTypeOK, IdTypeOK
<1>3. /\ nextId' >= nextId
      /\ UNCHANGED slot \/ (nextId' > nextId /\ \A x \in slot' : x.id = nextId)
  BY <1>1, <1>2 DEF Asks, Drops, idVars
<1>4. IdsUsed' /\ InOrder'
  BY <1>1, <1>3, UiOrder DEF RequestInv
<1>5. Accepts(r) => r.id = activeId /\ r.gen = generation
  BY DEF Accepts
<1>6. \/ pending' = TRUE
      \/ generation' > generation /\ UNCHANGED slot
      \/ UNCHANGED <<pending, generation, activeId, slot>>
      \/ UNCHANGED <<generation, activeId, slot>> /\ r.id = activeId
  BY <1>1, <1>5 DEF Asks, Drops, uiVars, idVars
<1>7. Served'
  BY <1>1, <1>6, UiServed DEF RequestInv
<1>8. RankedSucceeds'
  <2>1. \A i \in DOMAIN msgs' : \E k \in DOMAIN msgs : msgs'[i] = msgs[k]
    BY <1>1, MessageHandled
  <2> QED BY <1>1, <2>1 DEF RequestInv, RankedSucceeds
<1>9. WithinBudget'
  <2>0. WithinBudget /\ events' = events
    BY <1>1 DEF RequestInv
  <2>1. CASE UNCHANGED <<uiVars, idVars, slot, scheduled>>
    BY <1>1, <2>1 DEF uiVars, RequestInv, WithinBudget, Owed
  <2>2. CASE Accepts(r) /\ r.failed /\ retries = 0 /\ Asks(1) /\ UNCHANGED deferredPage
    \* a failure that is accepted answers a request that is still pending
    <3>1. 1 \in DOMAIN msgs /\ r = msgs[1]
      BY <1>1, MessageHandled
    <3>2. ~r.ranked
      BY <2>2, <3>1 DEF RequestInv, RankedSucceeds
    <3>3. r \in Unanswered
      BY <3>1, <3>2 DEF Unanswered
    <3>4. pending
      BY <1>5, <2>2, <3>3 DEF RequestInv, Served
    <3>5. Owed' + 1 <= Owed
      BY <2>2, <3>4 DEF Asks, Owed
    <3>6. scheduled' = scheduled + 1
      BY <2>2 DEF Asks
    <3> QED BY <2>0, <3>5, <3>6, DebtPaid
  <2>3. CASE (deferredPage # 0 /\ Asks(0) /\ deferredPage' = 0)
             \/ (deferred # {} /\ Asks(0) /\ settles)
    <3>1. Owed' + 1 <= Owed
      BY <2>3 DEF Asks, Owed
    <3>2. scheduled' = scheduled + 1
      BY <2>3 DEF Asks
    <3> QED BY <2>0, <3>1, <3>2, DebtPaid
  <2>4. CASE Drops
    <3>1. Owed' + 0 <= Owed
      BY <2>4 DEF Drops, Owed
    <3>2. scheduled' = scheduled + 0
      BY <1>2, <2>4 DEF Drops
    <3> QED BY <2>0, <3>1, <3>2, DebtPaid
  <2>5. CASE pending' = FALSE /\ deferred' = {} /\ settles /\ UNCHANGED scheduled
    <3>1. Owed' + 0 <= Owed
      BY <2>5 DEF Owed
    <3>2. scheduled' = scheduled + 0
      BY <1>2, <2>5
    <3> QED BY <2>0, <3>1, <3>2, DebtPaid
  <2> QED BY <1>1, <2>1, <2>2, <2>3, <2>4, <2>5
<1> QED BY <1>4, <1>7, <1>8, <1>9 DEF RequestInv

\* The worker schedules nothing.
LEMMA WorkerRequests ==
  ASSUME TypeOK, RequestInv, Worker
  PROVE  RequestInv'
<1>1. UNCHANGED <<pending, retries, deferredPage, deferred, scheduled, events>>
  BY DEF Worker, WorkerTake, WorkerAnswer, WorkerPost, WorkerWindow, WorkerUpdate, WorkerFeedback,
         NotWorker, uiVars
<1>2. WithinBudget'
  BY <1>1 DEF RequestInv, WithinBudget, Owed
<1> QED BY <1>2, WorkerOrder, WorkerServed DEF RequestInv

\* Requests travel in order, an answer that can be accepted is waited for, and
\* the debt in requests is paid.
THEOREM RequestInvariant == Spec => []RequestInv
<1>1. Init => RequestInv
  <2> SUFFICES ASSUME Init PROVE RequestInv
    OBVIOUS
  <2>1. /\ slot = {} /\ wreq = {} /\ wres = {} /\ DOMAIN msgs = {}
        /\ pending = FALSE /\ deferredPage = 0 /\ deferred = {} /\ scheduled = 0 /\ events = 0
    BY DEF Init
  <2>2. WithinBudget
    BY <2>1 DEF WithinBudget, Owed
  <2> QED BY <2>1, <2>2 DEF RequestInv, IdsUsed, InOrder, Served, Unanswered, RankedSucceeds
<1>2. TypeOK /\ TypeOK' /\ CurrentInv /\ RequestInv /\ [Next]_vars => RequestInv'
  <2> SUFFICES ASSUME TypeOK, TypeOK', CurrentInv, RequestInv, [Next]_vars PROVE RequestInv'
    OBVIOUS
  <2>1. CASE UNCHANGED vars
    <3>1. /\ UNCHANGED <<slot, wpc, wreq, wres, msgs, nextId, activeId, generation, pending>>
          /\ UNCHANGED <<retries, deferredPage, deferred, scheduled, events>>
      BY <2>1 DEF vars, uiVars, idVars, queueVars, workerVars, historyVars
    <3>2. Unanswered' = Unanswered /\ Owed' = Owed
      BY <3>1 DEF Unanswered, Owed
    <3> QED BY <3>1, <3>2 DEF RequestInv, IdsUsed, InOrder, Served, RankedSucceeds, WithinBudget
  <2> QED BY <2>1, UserRequests, ResultRequests, WorkerRequests DEF Next
<1> QED BY <1>1, <1>2, TypeCorrect, CurrentInvariant, PTL DEF Spec

\* However requests fail and whatever was deferred, the service sends at most
\* two candidate requests for each thing the user did: the invariant
\* RequestsBounded of the runs, for any number of events.
THEOREM RequestsAreBounded == Spec => []RequestsBounded
<1>1. TypeOK /\ RequestInv => RequestsBounded
  <2> SUFFICES ASSUME TypeOK, RequestInv PROVE RequestsBounded
    OBVIOUS
  <2> QED BY OwedIs DEF RequestInv, WithinBudget, RequestsBounded, TypeOK, HistoryTypeOK
<1> QED BY <1>1, TypeCorrect, RequestInvariant, PTL
---------------------------------------------------------------------------
(* Feedback in order *)

\* What waits as feedback is typed.
LEMMA FeedbackTyped ==
  ASSUME TypeOK
  PROVE  /\ nextId \in Nat /\ learned \in Nat
         /\ DOMAIN feedback = 1 .. Len(feedback) /\ Len(feedback) \in Nat
         /\ \A i \in DOMAIN feedback : feedback[i] \in Feedback /\ feedback[i].id \in Nat
         /\ \A f \in wfb : f \in Feedback /\ f.id \in Nat
<1>1. /\ DOMAIN feedback = 1 .. Len(feedback) /\ Len(feedback) \in Nat
      /\ \A i \in DOMAIN feedback : feedback[i] \in Feedback
  BY ElementOfSeq, LenProperties DEF TypeOK, QueueTypeOK
<1> QED BY <1>1 DEF TypeOK, IdTypeOK, HistoryTypeOK, WorkerTypeOK, Feedback

\* A commit's feedback has a new id and joins the end of the queue.
LEMMA FeedbackTaught ==
  ASSUME TypeOK, FeedbackInv, Teaches, UNCHANGED <<learned, wfb>>,
         nextId' \in Nat, nextId' >= nextId
  PROVE  FeedbackInv'
<1>1. CASE UNCHANGED feedback
  BY <1>1, FeedbackTyped DEF FeedbackInv
<1>2. ASSUME NEW f \in Feedback, f.id >= nextId, nextId' = f.id + 1, feedback' = Append(feedback, f)
      PROVE  FeedbackInv'
  <2>1. f.id \in Nat /\ f.id < nextId'
    BY <1>2 DEF Feedback
  <2>2. /\ DOMAIN feedback' = 1 .. Len(feedback) + 1
        /\ feedback'[Len(feedback) + 1] = f
        /\ \A i \in DOMAIN feedback : feedback'[i] = feedback[i]
    BY <1>2, AppendProperties, LenProperties DEF TypeOK, QueueTypeOK
  <2>3. \A i \in DOMAIN feedback' :
          (i \in DOMAIN feedback /\ feedback'[i] = feedback[i])
          \/ (i = Len(feedback) + 1 /\ feedback'[i] = f)
    BY <2>2, FeedbackTyped
  <2>4. \A i \in DOMAIN feedback' : learned' < feedback'[i].id /\ feedback'[i].id < nextId'
    BY <1>2, <2>1, <2>3, FeedbackTyped DEF FeedbackInv
  <2>5. \A i, j \in DOMAIN feedback' : i < j => feedback'[i].id < feedback'[j].id
    <3> SUFFICES ASSUME NEW i \in DOMAIN feedback', NEW j \in DOMAIN feedback', i < j
                 PROVE  feedback'[i].id < feedback'[j].id
      OBVIOUS
    <3>1. i \in DOMAIN feedback /\ feedback'[i] = feedback[i]
      BY <2>2, <2>3, FeedbackTyped
    <3>2. CASE j \in DOMAIN feedback /\ feedback'[j] = feedback[j]
      BY <3>1, <3>2 DEF FeedbackInv
    <3>3. CASE feedback'[j] = f
      BY <1>2, <2>1, <3>1, <3>3, FeedbackTyped DEF FeedbackInv
    <3> QED BY <2>3, <3>2, <3>3
  <2>6. \A g \in wfb : \A i \in DOMAIN feedback' : g.id < feedback'[i].id
    BY <1>2, <2>1, <2>3, FeedbackTyped DEF FeedbackInv
  <2>7. learned' < nextId' /\ \A g \in wfb : learned' < g.id /\ g.id < nextId'
    BY <1>2, <2>1, FeedbackTyped DEF FeedbackInv
  <2> QED BY <1>2, <2>4, <2>5, <2>6, <2>7 DEF FeedbackInv
<1> QED BY <1>1, <1>2 DEF Teaches

\* The worker sends the oldest feedback, and Core may learn it then.
LEMMA FeedbackSent ==
  ASSUME TypeOK, FeedbackInv, Worker
  PROVE  FeedbackInv'
<1>0. UNCHANGED nextId
  BY DEF Worker, WorkerTake, WorkerAnswer, WorkerPost, WorkerWindow, WorkerUpdate, WorkerFeedback,
         NotWorker, idVars
<1>1. CASE UNCHANGED <<feedback, wfb, learned>>
  BY <1>0, <1>1 DEF FeedbackInv
<1>2. CASE feedback # <<>> /\ wfb' = {Head(feedback)} /\ feedback' = Tail(feedback)
           /\ UNCHANGED learned
  <2>1. /\ Head(feedback) = feedback[1] /\ 1 \in DOMAIN feedback
        /\ DOMAIN Tail(feedback) = 1 .. Len(feedback) - 1
        /\ \A i \in DOMAIN Tail(feedback) : Tail(feedback)[i] = feedback[i + 1]
    <3>1. /\ Len(feedback) # 0 /\ Head(feedback) = feedback[1] /\ Tail(feedback) \in Seq(Feedback)
          /\ Len(Tail(feedback)) = Len(feedback) - 1
          /\ \A i \in 1 .. Len(Tail(feedback)) : Tail(feedback)[i] = feedback[i + 1]
      BY <1>2, HeadTailProperties, LenProperties, EmptySeq DEF TypeOK, QueueTypeOK
    <3>2. DOMAIN Tail(feedback) = 1 .. Len(Tail(feedback))
      BY <3>1, LenProperties
    <3> QED BY <3>1, <3>2, FeedbackTyped
  <2>2. \A i \in DOMAIN feedback' : /\ i \in Nat /\ i + 1 \in DOMAIN feedback /\ 1 < i + 1
                                    /\ feedback'[i] = feedback[i + 1]
    BY <1>2, <2>1, FeedbackTyped
  <2>3. \A i, j \in DOMAIN feedback' : i < j => feedback'[i].id < feedback'[j].id
    <3> SUFFICES ASSUME NEW i \in DOMAIN feedback', NEW j \in DOMAIN feedback', i < j
                 PROVE  feedback'[i].id < feedback'[j].id
      OBVIOUS
    <3>1. i + 1 < j + 1
      BY <2>2
    <3>2. i + 1 \in DOMAIN feedback /\ j + 1 \in DOMAIN feedback
      BY <2>2
    <3>3. feedback[i + 1].id < feedback[j + 1].id
      BY <3>1, <3>2 DEF FeedbackInv
    <3> QED BY <2>2, <3>3
  <2>4. \A f \in wfb' : f = feedback[1]
    BY <1>2, <2>1
  <2>5. \A f \in wfb' : /\ learned < f.id /\ f.id < nextId
                        /\ \A i \in DOMAIN feedback' : f.id < feedback'[i].id
    BY <2>1, <2>2, <2>4 DEF FeedbackInv
  <2>6. \A i \in DOMAIN feedback' : learned < feedback'[i].id /\ feedback'[i].id < nextId
    BY <2>2 DEF FeedbackInv
  <2> QED BY <1>0, <1>2, <2>3, <2>5, <2>6 DEF FeedbackInv
<1>3. CASE wfb' = {} /\ UNCHANGED feedback /\ \E n \in Deliveries : Learn(n)
  BY <1>0, <1>3 DEF FeedbackInv, Learn
<1>4. CASE WorkerTake
  BY <1>1, <1>2, <1>4 DEF WorkerTake
<1>5. CASE WorkerFeedback
  BY <1>3, <1>5 DEF WorkerFeedback, queueVars
<1>6. CASE WorkerAnswer \/ WorkerPost \/ WorkerWindow \/ WorkerUpdate
  BY <1>1, <1>6 DEF WorkerAnswer, WorkerPost, WorkerWindow, WorkerUpdate, queueVars
<1> QED BY <1>4, <1>5, <1>6 DEF Worker

\* Feedback is queued and sent in the order of its ids, and what Core has
\* learned is older than all of it.
THEOREM FeedbackInvariant == Spec => []FeedbackInv
<1>1. Init => FeedbackInv
  <2> SUFFICES ASSUME Init PROVE FeedbackInv
    OBVIOUS
  <2>1. DOMAIN feedback = {} /\ wfb = {} /\ learned = 0 /\ nextId = 1
    BY DEF Init
  <2> QED BY <2>1 DEF FeedbackInv
<1>2. TypeOK /\ TypeOK' /\ FeedbackInv /\ [Next]_vars => FeedbackInv'
  <2> SUFFICES ASSUME TypeOK, TypeOK', FeedbackInv, [Next]_vars PROVE FeedbackInv'
    OBVIOUS
  <2>0. nextId \in Nat /\ nextId' \in Nat
    BY DEF TypeOK, IdTypeOK
  <2>1. CASE UNCHANGED vars
    BY <2>1 DEF vars, idVars, queueVars, workerVars, historyVars, FeedbackInv
  <2>2. CASE UNCHANGED <<workerVars, learned>> /\ Teaches
             /\ ((\E retry : Asks(retry)) \/ Drops \/ UNCHANGED idVars)
    <3>1. nextId' >= nextId
      BY <2>0, <2>2 DEF Asks, Drops, idVars
    <3> QED BY <2>0, <2>2, <3>1, FeedbackTaught DEF workerVars
  <2>3. CASE Deactivate
    <3>1. /\ DOMAIN feedback' = {} /\ wfb' = {} /\ UNCHANGED nextId
          /\ UNCHANGED learned \/ \E f \in wfb : learned' = f.id
      BY <2>3 DEF Deactivate, Learn
    <3> QED BY <3>1 DEF FeedbackInv
  <2>4. CASE Activate
    BY <2>4 DEF Activate, idVars, queueVars, FeedbackInv
  <2>5. CASE User
    BY <2>2, <2>3, <2>4, <2>5, UserCases DEF Leaves
  <2>6. CASE HandleResult
    BY <2>2, <2>6, ResultCases
  <2> QED BY <2>1, <2>5, <2>6, FeedbackSent DEF Next
<1> QED BY <1>1, <1>2, TypeCorrect, PTL DEF Spec

\* Core learns commits in the order they were made, whatever was lost or sent
\* twice on the way: the invariant LearnedInOrder of the runs.
THEOREM LearningKeepsOrder == Spec => []LearnedInOrder
<1>1. TypeOK /\ FeedbackInv => LearnedInOrder
  <2> SUFFICES ASSUME TypeOK, FeedbackInv, NEW f \in FeedbackWaiting PROVE learned < f.id
    BY DEF LearnedInOrder
  <2>1. CASE f \in wfb
    BY <2>1 DEF FeedbackInv
  <2>2. CASE f \in ToSet(feedback)
    <3>1. PICK i \in DOMAIN feedback : feedback[i] = f
      BY <2>2 DEF ToSet
    <3> QED BY <3>1 DEF FeedbackInv
  <2> QED BY <2>1, <2>2 DEF FeedbackWaiting
<1> QED BY <1>1, TypeCorrect, FeedbackInvariant, PTL
---------------------------------------------------------------------------
(* What is pending is on its way *)

\* A new request is the one the window waits for, and it is queued.
LEMMA AskedIsServed ==
  ASSUME NEW retry, Asks(retry), active', UNCHANGED <<wreq, wres>>, PendingInv
  PROVE  PendingInv'
<1>1. \E q \in slot' : Awaited(q)'
  BY DEF Asks, Awaited
<1>2. AtMostOne(slot)'
  BY DEF Asks, AtMostOne
<1>3. (pending => latestId = activeId /\ active)'
  BY DEF Asks
<1>4. AtMostOne(wreq)' /\ AtMostOne(wres)'
  BY DEF PendingInv, AtMostOne
<1> QED BY <1>1, <1>2, <1>3, <1>4 DEF PendingInv, PendingIsServed

\* When nothing is pending, nothing has to be on its way.
LEMMA NothingPending ==
  ASSUME PendingInv, pending' = FALSE,
         UNCHANGED slot \/ slot' = {},
         UNCHANGED wreq \/ wreq' = {},
         UNCHANGED wres \/ wres' = {}
  PROVE  PendingInv'
BY DEF PendingInv, AtMostOne, PendingIsServed

\* The user's actions: a request that is pending stays on its way.
LEMMA UserServes ==
  ASSUME TypeOK, PendingInv, User
  PROVE  PendingInv'
<1>1. CASE active /\ UNCHANGED <<workerVars, msgs, active>>
           /\ ((Asks(0) /\ UNCHANGED deferredPage) \/ Drops \/ Leaves)
  <2>1. UNCHANGED <<wpc, wreq, wres>>
    BY <1>1 DEF workerVars
  <2>2. CASE Asks(0)
    BY <1>1, <2>1, <2>2, AskedIsServed
  <2>3. CASE Drops
    BY <2>1, <2>3, NothingPending DEF Drops
  <2>4. CASE Leaves
    <3>1. UNCHANGED <<generation, pending, activeId, latestId, slot>>
      BY <2>4 DEF Leaves, idVars
    <3>2. CASE ~pending
      BY <2>1, <3>1, <3>2 DEF PendingInv, AtMostOne, PendingIsServed
    <3>3. CASE pending
      <4>1. \A x \in slot \cup wreq \cup wres : x.query.input # <<>>
        BY OnTheWay DEF Request, Result, Asked
      <4>2. \A i \in DOMAIN msgs : msgs[i].query.input # <<>>
        BY OnTheWay DEF Result, Asked
      <4>3. query.input # <<>>
        BY <3>3, <4>1, <4>2 DEF PendingInv, PendingIsServed, Awaited
      <4>4. UNCHANGED query
        BY <2>4, <4>3 DEF Leaves
      <4> QED BY <1>1, <2>1, <3>1, <4>4 DEF PendingInv, AtMostOne, PendingIsServed, Awaited
    <3> QED BY <3>2, <3>3
  <2> QED BY <1>1, <2>2, <2>3, <2>4
<1>2. CASE Deactivate
  <2>1. pending' = FALSE /\ slot' = {} /\ wreq' = {} /\ wres' = {}
    BY <1>2 DEF Deactivate, ClearComposition
  <2> QED BY <2>1, NothingPending
<1>3. CASE Activate
  <2>1. ~active /\ UNCHANGED <<pending, slot, wreq, wres>>
    BY <1>3 DEF Activate, uiVars, queueVars
  <2>2. pending = FALSE
    BY <2>1 DEF PendingInv, TypeOK, UiTypeOK
  <2> QED BY <2>1, <2>2, NothingPending
<1> QED BY <1>1, <1>2, <1>3, UserCases

\* An answer that is not accepted is not the one the window waits for.
LEMMA ResultServes ==
  ASSUME TypeOK, PendingInv, HandleResult
  PROVE  PendingInv'
<1> DEFINE r == Head(msgs)
           settles == UNCHANGED deferredPage \/ deferredPage' = 0
<1>1. /\ msgs # <<>> /\ msgs' = Tail(msgs) /\ r \in Result /\ active /\ active'
      /\ UNCHANGED <<wpc, wreq, wres>>
      /\ \/ ~Accepts(r) /\ UNCHANGED <<uiVars, idVars, slot>>
         \/ Asks(0) \/ Asks(1) \/ Drops
         \/ pending' = FALSE /\ UNCHANGED slot
  <2>1. /\ msgs # <<>> /\ msgs' = Tail(msgs) /\ r \in Result /\ active
        /\ UNCHANGED <<workerVars, active>>
        /\ \/ ~Accepts(r) /\ UNCHANGED <<uiVars, idVars, slot, scheduled>>
           \/ Asks(1)
           \/ Asks(0)
           \/ (Asks(0) /\ settles) \/ Drops
           \/ pending' = FALSE /\ UNCHANGED <<query, generation, idVars, slot, scheduled>>
    BY ResultCases
  <2> QED BY <2>1 DEF workerVars
<1>2. CASE ~Accepts(r) /\ UNCHANGED <<uiVars, idVars, slot>>
  <2>1. UNCHANGED <<query, generation, pending, activeId, latestId>>
    BY <1>2 DEF uiVars, idVars
  <2>2. ~Awaited(r)
    BY <1>1, <1>2 DEF Awaited, Accepts, Result, Asked
  <2>3. ASSUME NEW i \in DOMAIN msgs, Awaited(msgs[i]), ~msgs[i].ranked
        PROVE  \E j \in DOMAIN msgs' : Awaited(msgs'[j]) /\ ~msgs'[j].ranked
    <3>1. /\ DOMAIN msgs' = 1 .. Len(msgs) - 1 /\ DOMAIN msgs = 1 .. Len(msgs)
          /\ Len(msgs) \in Nat \ {0} /\ r = msgs[1]
      BY <1>1, MessageHandled
    <3>2. i # 1
      BY <2>2, <2>3, <3>1
    <3>3. i - 1 \in DOMAIN msgs' /\ (i - 1) + 1 = i
      BY <3>1, <3>2
    <3>4. msgs'[i - 1] = msgs[i]
      BY <1>1, <3>3, MessageHandled
    <3> QED BY <2>3, <3>3, <3>4
  <2>4. PendingIsServed'
    <3> SUFFICES ASSUME pending' PROVE PendingIsServed'
      BY DEF PendingIsServed
    <3>1. PendingIsServed /\ pending
      BY <2>1 DEF PendingInv
    <3>2. \A x : Awaited(x)' <=> Awaited(x)
      BY <2>1 DEF Awaited
    <3>3. CASE \E i \in DOMAIN msgs : Awaited(msgs[i]) /\ ~msgs[i].ranked
      <4>1. \E j \in DOMAIN msgs' : Awaited(msgs'[j]) /\ ~msgs'[j].ranked
        BY <2>3, <3>3
      <4> QED BY <2>1, <4>1 DEF PendingIsServed, Awaited
    <3> QED BY <1>1, <1>2, <2>1, <3>1, <3>3 DEF PendingIsServed, Awaited
  <2> QED BY <1>1, <1>2, <2>1, <2>4 DEF PendingInv, AtMostOne
<1>3. CASE Asks(0) \/ Asks(1)
  BY <1>1, <1>3, AskedIsServed
<1>4. CASE Drops \/ (pending' = FALSE /\ UNCHANGED slot)
  BY <1>1, <1>4, NothingPending DEF Drops
<1> QED BY <1>1, <1>2, <1>3, <1>4

\* The worker carries a pending request to its answer, as long as posting works.
LEMMA WorkerServes ==
  ASSUME PostMayFail = FALSE, TypeOK, PendingInv, Worker
  PROVE  PendingInv'
<1>1. UNCHANGED <<query, generation, pending, activeId, latestId, active>>
  BY DEF Worker, WorkerTake, WorkerAnswer, WorkerPost, WorkerWindow, WorkerUpdate, WorkerFeedback,
         NotWorker, uiVars, idVars, modeVars
<1>2. AtMostOne(slot)' /\ AtMostOne(wreq)' /\ AtMostOne(wres)'
  BY DEF PendingInv, AtMostOne, Worker, WorkerTake, WorkerAnswer, WorkerPost, WorkerWindow,
         WorkerUpdate, WorkerFeedback, queueVars
<1>3. ASSUME pending PROVE PendingIsServed'
  <2> DEFINE InSlot == \E q \in slot : Awaited(q)
             InHand == wpc = "exchange" /\ \E q \in wreq : Awaited(q)
             ToPost == wpc = "post" /\ \E r \in wres : Awaited(r) /\ ~r.ranked
             Posted == \E i \in DOMAIN msgs : Awaited(msgs[i]) /\ ~msgs[i].ranked
  <2>1. InSlot \/ InHand \/ ToPost \/ Posted
    BY <1>3 DEF PendingInv, PendingIsServed
  <2>2. InSlot' \/ InHand' \/ ToPost' \/ Posted' => PendingIsServed'
    BY DEF PendingIsServed
  <2>3. CASE Posted /\ UNCHANGED msgs
    <3>1. Posted'
      BY <1>1, <2>3 DEF Awaited
    <3> QED BY <2>2, <3>1
  <2>4. CASE InSlot /\ UNCHANGED slot
    <3>1. InSlot'
      BY <1>1, <2>4 DEF Awaited
    <3> QED BY <2>2, <3>1
  <2>5. CASE WorkerTake
    <3>1. UNCHANGED msgs /\ ~InHand /\ ~ToPost
      BY <2>5 DEF WorkerTake
    <3>2. CASE slot # {} /\ wpc' = "exchange" /\ wreq' = slot
      <4>1. InSlot => InHand'
        BY <1>1, <3>2 DEF Awaited
      <4> QED BY <2>1, <2>2, <2>3, <3>1, <4>1
    <3>3. CASE UNCHANGED slot
      BY <2>1, <2>3, <2>4, <3>1, <3>3
    <3> QED BY <2>5, <3>2, <3>3 DEF WorkerTake
  <2>6. CASE WorkerAnswer
    <3>1. UNCHANGED <<slot, msgs>> /\ ~ToPost
      BY <2>6 DEF WorkerAnswer, queueVars
    <3>2. ASSUME InHand PROVE ToPost'
      <4>1. PICK q \in wreq : Awaited(q)
        BY <3>2
      <4>2. \A p \in wreq : p = q
        BY <4>1 DEF PendingInv, AtMostOne
      <4>3. latestId = q.id
        BY <1>3, <4>1 DEF PendingInv, Awaited
      <4>4. wpc' = "post" /\ (wres' = {FailedResult(q)}
                \/ \E list, more, model : wres' = {BaseResult(q, list, more, model)})
        BY <2>6, <4>2, <4>3 DEF WorkerAnswer
      <4>5. \E r \in wres' : r.id = q.id /\ r.gen = q.gen /\ r.query = q.query /\ ~r.ranked
        <5>1. \A list, more, model :
                /\ BaseResult(q, list, more, model).id = q.id
                /\ BaseResult(q, list, more, model).gen = q.gen
                /\ BaseResult(q, list, more, model).query = q.query
                /\ ~BaseResult(q, list, more, model).ranked
          BY DEF BaseResult
        <5>2. /\ FailedResult(q).id = q.id /\ FailedResult(q).gen = q.gen
              /\ FailedResult(q).query = q.query /\ ~FailedResult(q).ranked
          BY DEF FailedResult
        <5> QED BY <4>4, <5>1, <5>2
      <4> QED BY <1>1, <4>1, <4>4, <4>5 DEF Awaited
    <3> QED BY <2>1, <2>2, <2>3, <2>4, <3>1, <3>2
  <2>7. CASE WorkerPost
    <3>1. UNCHANGED slot /\ ~InHand
      BY <2>7 DEF WorkerPost, queueVars
    <3>2. PICK r \in wres : msgs' = Append(msgs, r)
      BY <2>7 DEF WorkerPost
    <3>3. r \in Result /\ msgs \in Seq(Result)
      BY <3>2 DEF TypeOK, WorkerTypeOK
    <3>4. /\ Len(msgs) + 1 \in DOMAIN msgs' /\ msgs'[Len(msgs) + 1] = r
          /\ \A i \in DOMAIN msgs : i \in DOMAIN msgs' /\ msgs'[i] = msgs[i]
      BY <3>2, <3>3, AppendProperties, LenProperties
    <3>5. ToPost => Posted'
      <4>1. \A x \in wres : x = r
        BY <3>2 DEF PendingInv, AtMostOne
      <4> QED BY <1>1, <3>4, <4>1 DEF Awaited
    <3>6. Posted => Posted'
      BY <1>1, <3>4 DEF Awaited
    <3> QED BY <2>1, <2>2, <2>4, <3>1, <3>5, <3>6
  <2>8. CASE WorkerWindow \/ WorkerUpdate \/ WorkerFeedback
    <3>1. UNCHANGED <<slot, msgs>> /\ ~InHand /\ ~ToPost
      BY <2>8 DEF WorkerWindow, WorkerUpdate, WorkerFeedback, queueVars
    <3> QED BY <2>1, <2>3, <2>4, <3>1
  <2> QED BY <2>5, <2>6, <2>7, <2>8 DEF Worker
<1>4. PendingIsServed'
  BY <1>1, <1>3 DEF PendingIsServed
<1> QED BY <1>1, <1>2, <1>4 DEF PendingInv

\* While the window shows a pending request, that very request is queued, in
\* the worker's hands, or answered by a message still to be handled, when every
\* PostMessageW succeeds: the invariant PendingIsServed of the runs.
THEOREM PendingServed ==
  ASSUME PostMayFail = FALSE
  PROVE  Spec => []PendingIsServed
<1>1. Init => PendingInv
  BY DEF Init, PendingInv, AtMostOne, PendingIsServed
<1>2. TypeOK /\ PendingInv /\ [Next]_vars => PendingInv'
  <2> SUFFICES ASSUME TypeOK, PendingInv, [Next]_vars PROVE PendingInv'
    OBVIOUS
  <2>1. CASE UNCHANGED vars
    BY <2>1 DEF vars, uiVars, modeVars, idVars, queueVars, workerVars, historyVars,
         PendingInv, AtMostOne, PendingIsServed, Awaited
  <2> QED BY <2>1, UserServes, ResultServes, WorkerServes DEF Next
<1>3. PendingInv => PendingIsServed
  BY DEF PendingInv
<1> QED BY <1>1, <1>2, <1>3, TypeCorrect, PTL DEF Spec
=============================================================================
