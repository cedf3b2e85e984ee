--------------------------- MODULE CandidateEngine ---------------------------
(***************************************************************************)
(* A user edits pinyin and gets candidates for it: the editing of the      *)
(* input, its preview and its caret in src/tsf/text_service.cpp, and what  *)
(* run_core_server in src/ipc/named_pipe.cpp does for candidate_request    *)
(* over the engine.  The server keeps one incremental parse state for all  *)
(* requests.                                                               *)
(*                                                                         *)
(* An edit asks for candidates of the new input.  When the next edit comes *)
(* first, the server has not seen the request, or has been cancelled while *)
(* it parsed, or its answer is thrown away; what it parsed stays in the    *)
(* incremental parse state.  Requests and answers in detail are the        *)
(* subject of TextService; here they carry what they are about.  The caret *)
(* stays at the end of the input (a bound); what an edit elsewhere does to  *)
(* the input and its preview is the subject of the properties.             *)
(***************************************************************************)
EXTENDS CandidateRanking, PinyinCursor

CONSTANTS
  MaxInput,     \* kMaximumPinyinInputLength
  Drafts,       \* bound: the inputs that are typed
  PageSize,     \* candidate_page_size
  MaxCut,       \* bound: visits of a parse before its cancellation
  MaxShown,     \* bound: characters of a preview
  MaxUnseen     \* bound: letters of an input whose request the server may not see

ASSUME EngineConstants ==
  /\ MaxInput \in Nat /\ MaxCut \in Nat /\ MaxUnseen \in Nat /\ MaxShown \in Nat
  /\ PageSize \in Nat \ {0, 1} /\ PathBudget \in Nat \ {0}

VARIABLES
  input, shown,          \* input_buffer_ and segmented_input_
  mode,                  \* correction_enabled_ and candidates_expanded_
  asking,                \* the state of the request for the input
  inc,                   \* incremental_parse_state: a strict parse and its max_paths
  answer                 \* the answer to the request

vars == <<input, shown, mode, asking, inc, answer>>

Budget(expanded, in) == IF expanded \/ IsLong(in) THEN 2 * PathBudget ELSE PathBudget

\* the strict parse of a request
StrictParse(in, expanded, cut) ==
  LET budget == Budget(expanded, in)
      previous == IF ~IsLong(in) /\ inc.budget = budget THEN inc.parsed ELSE Invalid(<<>>)
  IN ParseIncremental(in, budget, previous, cut)

\* strict_evidence: a row for the whole input that is not a guess
StrictEvidence(parsed, rows) ==
  \E i \in DOMAIN rows :
    /\ rows[i].used = Len(parsed.in)
    /\ \/ rows[i].kind = Exact
       \/ Len(rows[i].segs) <= 2
       \/ Shortened(rows[i].segs, rows[i].syl) >= 2

\* arrange_double_initial_pages: on each page words fill the larger half
\* What is on a page is gone from the words and the characters of the next.
NextPage(acc) ==
  LET words == acc.words
      characters == acc.characters
      left == Lesser(Len(words), (PageSize + 1) \div 2)
      right == Lesser(Len(characters), PageSize \div 2)
      moreWords == Lesser(Len(words) - left, IF right = Len(characters) THEN PageSize - left - right ELSE 0)
      moreCharacters == Lesser(Len(characters) - right, IF left = Len(words) THEN PageSize - left - right ELSE 0)
  IN [rows |-> acc.rows \o Take(words, left) \o Take(characters, right)
               \o SubSeq(words, left + 1, left + moreWords)
               \o SubSeq(characters, right + 1, right + moreCharacters),
      words |-> SubSeq(words, left + moreWords + 1, Len(words)),
      characters |-> SubSeq(characters, right + moreCharacters + 1, Len(characters))]
Pages(words, characters) ==
  LET pages[n \in 0..Len(words) + Len(characters)] ==
        IF n = 0 THEN [rows |-> <<>>, words |-> words, characters |-> characters] ELSE NextPage(pages[n - 1])
  IN pages[Len(words) + Len(characters)].rows
IsDoubleInitial(in) == Len(in) = 2 /\ AllConsonants(in)
DoubleInitialPages(in, rows) ==
  IF ~IsDoubleInitial(in) THEN rows
  ELSE Pages(Selected(rows, LAMBDA r : r.used = Len(in)), Selected(rows, LAMBDA r : r.used # Len(in)))

\* Sensitivity variant: what follows an apostrophe is not shown.
FirstChunk(in) == <<Slice(in, 0, ChunkEnd(in, 0))>>

\* preferred_source_segmentation: how the input is shown to the user
RawSegments(in) ==
  LET Starts == {k \in DOMAIN in : in[k] # Separator /\ (k = 1 \/ in[k - 1] = Separator)}
  IN MapSeq(LAMBDA k : Slice(in, k - 1, ChunkEnd(in, k - 1)), OrderedBy(Starts, LAMBDA j, k : j < k))
Preview(parsed, rows, correct) ==
  LET of == IF rows = <<>> THEN <<>> ELSE rows[1].segs
      exact == Selected(parsed.paths, LAMBDA p : p.kind = Exact)
      unfinished == Selected(exact, LAMBDA p : ~AllComplete(p))
      segs == SourceSegments(parsed.in, unfinished[1])
      apart == {k \in DOMAIN segs : k > Len(of) \/ segs[k] # of[k]}
      first == Min(apart)
      chosen ==
        IF IsLong(parsed.in) /\ of # <<>> THEN of
        ELSE IF ~correct THEN IF exact # <<>> THEN SourceSegments(parsed.in, exact[1]) ELSE RawSegments(parsed.in)
        ELSE IF unfinished = <<>> THEN IF of = <<>> THEN RawSegments(parsed.in) ELSE <<>>
        ELSE IF of = <<>> THEN segs
        ELSE IF apart = {} THEN <<>>
        ELSE IF unfinished[1].syl[first].complete /\ Len(segs[first]) >= 2 THEN segs
        ELSE <<>>
  IN IF chosen = <<>> THEN of ELSE chosen

NoAnswer == [strict |-> <<>>, parsed |-> Invalid(<<>>), rows |-> <<>>]

\* the rows of a strict parse, unless those of a wider one are wanted and there
\* are some
FoundFrom(in, size, rowsOf) ==
  LET strict == rowsOf[FALSE]
      wider == rowsOf[TRUE]
      fallback == mode.correct /\ (Len(strict.rows) < size \/ ~StrictEvidence(strict.parsed, strict.rows))
      chosen == IF fallback /\ wider.rows # <<>> THEN wider ELSE strict
  IN [strict |-> strict.rows, parsed |-> chosen.parsed, rows |-> DoubleInitialPages(in, chosen.rows)]
\* what a request is answered from
Found(in, parsed) ==
  LET size == IF mode.expanded THEN 2 * PageSize ELSE PageSize
      limit == IF IsDoubleInitial(in)
               THEN Greater(size + 1, 2 * ((size \div PageSize) * ((PageSize + 1) \div 2) + 1)) ELSE size + 1
      RowsOf(parse) == [parsed |-> parse, rows |-> Generate(parse, limit, TRUE)]
      wider == Parse(in, (IF mode.expanded THEN 4 ELSE 2) * PathBudget, TRUE, Never)
  IN FoundFrom(in, size, [wide \in BOOLEAN |-> RowsOf(IF wide THEN wider ELSE parsed)])

\* case_preserving_segmented_input of the segments the answer shows: the
\* letters are the user's
Joined(segs) == IF segs = <<>> THEN <<>> ELSE Tail(FlattenSeq(MapSeq(LAMBDA t : <<Separator>> \o t, segs)))
LettersOf(in) == Selected(in, LAMBDA c : c # Separator)
Respelled(in, text) ==
  LET before(k) == Len(LettersOf(Take(text, k)))
  IN IF Len(LettersOf(text)) > Len(LettersOf(in)) THEN text
     ELSE [k \in DOMAIN text |-> IF text[k] = Separator THEN Separator ELSE LettersOf(in)[before(k)]]

Init ==
  /\ input = <<>> /\ shown = <<>>
  /\ mode \in [correct : BOOLEAN, expanded : {FALSE}]
  /\ asking = "no"
  /\ inc = [parsed |-> Invalid(<<>>), budget |-> 0] /\ answer = NoAnswer

---------------------------------------------------------------------------
(* The server.                                                             *)

\* the answer is applied: its segments are shown
Applied(found) ==
  LET segs == Preview(found.parsed, found.rows, mode.correct)
  IN /\ answer' = found
     /\ shown' = IF segs = <<>> THEN shown ELSE Respelled(input, Joined(segs))
\* the request is answered
Answer(parsed) == Applied(Found(input, parsed)) /\ asking' = "no"
\* another edit overtakes the request
Overtaken == asking' = "overtaken" /\ UNCHANGED <<shown, answer>>
\* the request is parsed to the end, or up to the visit that sees its
\* cancellation
Serve(cut) ==
  /\ asking = "asked"
  /\ inc' = [parsed |-> StrictParse(input, mode.expanded, cut), budget |-> Budget(mode.expanded, input)]
  /\ \/ cut = Never /\ Answer(inc'.parsed)
     \/ Overtaken
  /\ UNCHANGED <<input, mode>>

---------------------------------------------------------------------------
(* The user.                                                               *)

\* queue_candidate_request for an input; none for an empty one
Ask(in) ==
  /\ asking = "asked" => Len(input) <= MaxUnseen
  /\ asking' = IF in = <<>> THEN "no" ELSE "asked"
  /\ answer' = NoAnswer
  /\ UNCHANGED inc
Edited(in, preview) ==
  /\ Len(preview) <= MaxShown
  /\ input' = in /\ shown' = preview
  /\ mode' = [mode EXCEPT !.expanded = FALSE]
  /\ Ask(in)

TypeLetter(c) ==
  /\ Len(input) < MaxInput /\ Append(input, c) \in Drafts
  /\ Edited(Append(input, c), PreviewInserted(input, shown, Len(input), c))

TypeSeparator ==
  /\ input # <<>> /\ Len(input) < MaxInput /\ Append(input, Separator) \in Drafts
  /\ Last(input) # Separator
  /\ Edited(Append(input, Separator), PreviewInserted(input, shown, Len(input), Separator))

Backspace ==
  /\ input # <<>>
  /\ IF Len(input) = 1 THEN Edited(<<>>, <<>>)
     ELSE Edited(Front(input), PreviewErased(input, shown, Len(input)))

ToggleCorrection ==
  /\ mode' = [correct |-> ~mode.correct, expanded |-> FALSE]
  /\ shown' = input /\ UNCHANGED input
  /\ IF input = <<>> THEN UNCHANGED <<asking, inc, answer>> ELSE Ask(input)

ToggleExpanded ==
  /\ answer.rows # <<>>
  /\ mode' = [mode EXCEPT !.expanded = ~@]
  /\ UNCHANGED <<input, shown>> /\ Ask(input)

\* commit_candidate: what the row used goes, with the apostrophes after it
Choose(row) ==
  LET rest == SubSeq(input, row.used + 1, Len(input))
      in == IF rest # <<>> /\ rest[1] = Separator THEN Tail(rest) ELSE rest
  IN /\ asking = "no" /\ ~row.hidden
     /\ Edited(in, <<>>)

Next ==
  \/ \E cut \in (-1..MaxCut) \cup {Never} : Serve(cut)
  \/ \E c \in DOMAIN Fallback : TypeLetter(c)
  \/ TypeSeparator
  \/ Backspace
  \/ ToggleCorrection
  \/ ToggleExpanded
  \/ \E row \in ToSet(answer.rows) : Choose(row)

Spec == Init /\ [][Next]_vars

---------------------------------------------------------------------------
(* What the engine is for, said without its algorithms.                    *)

Answered == asking = "no" /\ input # <<>>
Marks(in) == {k \in DOMAIN in : in[k] = Separator}

\* the ways to read an input as syllables, each the set of their ends
Readings(in) ==
  LET Begin(ends, end) == LET before == Max({e \in ends \cup {0} : e < end})
                          IN IF before + 1 \in Marks(in) THEN before + 1 ELSE before
  IN {ends \in SUBSET (DOMAIN in \ Marks(in)) :
        /\ Len(in) \in ends /\ \A k \in Marks(in) : k - 1 \in ends
        /\ \A end \in ends : IsComplete(Slice(in, Begin(ends, end), end))}

\* the ways to write a reading with the words of the lexicon, with their
\* scores before learning
Writings(reading) ==
  LET write[n \in 0..Len(reading)] ==
        IF n = 0 THEN {[text |-> <<>>, score |-> 0]}
        ELSE UNION {{[text |-> w.text \o e.text,
                      score |-> w.score + e.weight - (IF k = 0 THEN 0 ELSE SegmentPenalty)] :
                       w \in write[k], e \in ToSet(Lookup(Slice(reading, k, n)))} : k \in 0..n - 1}
  IN write[Len(reading)]

\* An input that can be read as syllables is read so, whatever was typed,
\* erased or cancelled before: the first path of the strict parse has as few
\* syllables as any reading (parse, parse_incremental and parse_chunk with its
\* depth-first search, its budget and its order).
ShortestReadingFirst ==
  Answered /\ WellFormed(input) /\ Readings(input) # {} =>
    LET first == inc.parsed.paths[1] IN
    /\ first.kind = Exact /\ AllComplete(first)
    /\ \A ends \in Readings(input) : Len(first.syl) <= Cardinality(ends)

\* No text is offered twice in an answer, though sentences, leading words,
\* initials, abbreviations, corrections and hidden alternatives are collected
\* from different sources.
RowsDistinct ==
  \A i, j \in DOMAIN answer.rows : answer.rows[i].text = answer.rows[j].text => i = j

\* A row uses some of its own segments as a whole, so that what commit_candidate
\* erases from the input ends where one of its syllables ends.
RowsUseSyllables ==
  Answered => \A row \in ToSet(answer.rows) :
    \E n \in DOMAIN row.segs : row.used = Len(FlattenSeq(Take(row.segs, n))) + Cardinality({k \in Marks(input) : k < row.used})

\* When the first path is exact, a row for the whole input is shown that
\* scores at least what the best of all ways to write the path with words
\* scores: neither the beam of the chart, nor the row limit, nor the ordering
\* after it loses the best sentence.
BestSentenceFirst ==
  Answered /\ answer.parsed.paths # <<>> =>
    LET path == answer.parsed.paths[1]
        best == {w \in Writings(Texts(path.syl)) : \A v \in Writings(Texts(path.syl)) : v.score <= w.score}
    IN path.kind = Exact /\ AllComplete(path) /\ best # {} =>
         \A w \in best : \E row \in ToSet(answer.rows) : ~row.hidden /\ row.used = Len(input) /\ row.score >= w.score

\* a preview shows all of an input and nothing else but apostrophes: each of its
\* characters is the next of the input or an apostrophe more
Spells(in, preview) ==
  LET raw == Raw(in, preview) IN
  /\ raw[Len(preview)] = Len(in)
  /\ \A k \in DOMAIN preview : preview[k] = IF raw[k] > raw[k - 1] THEN in[raw[k]] ELSE Separator

\* Once a well-formed input is answered, its preview shows its letters and its
\* apostrophes, and nothing more than further apostrophes.  (The first row of
\* two initials without a word reads one letter, and the preview with it.)
PreviewSpells ==
  /\ Answered /\ WellFormed(input) /\ shown # <<>>
  /\ IsDoubleInitial(input) => \E row \in ToSet(answer.rows) : row.used = 2
  => Spells(input, shown)

\* While the preview spells the input, an edit at any caret changes both
\* alike, and the caret placed through the preview is where it was.
EditsKeepPreview ==
  shown # <<>> /\ Spells(input, shown) =>
    \A caret \in 0..Len(input) :
      /\ InputCaret(input, shown, PreviewIndex(input, shown, caret)) = caret
      /\ \A c \in DOMAIN Fallback :
           Spells(InsertAt(input, caret + 1, c), PreviewInserted(input, shown, caret, c))
      /\ caret > 0 => Spells(RemoveAt(input, caret), PreviewErased(input, shown, caret))

KeepsFirst(paths) ==
  paths # <<>> /\ paths[1].kind = Exact /\ AllComplete(paths[1]) => inc.parsed.paths[1] = paths[1]

\* Typing letter by letter, with overtaken requests among the letters, finds
\* the first path that a parse of the whole input finds when that is complete:
\* reusing a stable prefix never fixes a boundary that the next letter moves.
IncrementalKeepsFirst ==
  Answered /\ WellFormed(input) => KeepsFirst(Parse(input, inc.budget, FALSE, Never).paths)

\* With correction the answer comes from another, wider parse; an exact row for
\* the whole input that the strict parse had is still among the rows.
CorrectionOnlyAdds ==
  Answered =>
    \A i \in DOMAIN answer.strict :
      answer.strict[i].kind = Exact /\ answer.strict[i].used = Len(input) /\ ~answer.strict[i].hidden =>
        \E row \in ToSet(answer.rows) : row.text = answer.strict[i].text
=============================================================================
