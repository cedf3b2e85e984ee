---------------------------- MODULE PinyinSchema ----------------------------
(***************************************************************************)
(* Segmentation of typed letters into pinyin syllables:                    *)
(* src/engine/full_pinyin_schema.cpp.                                      *)
(*                                                                         *)
(* A letter is its number in the alphabet, the apostrophe is 0, and an     *)
(* input or a syllable is a sequence of them, so that the code's           *)
(* comparison of strings is the lexicographic order.  The tables of the    *)
(* code are constants.  Sizes of beams and budgets are constants because   *)
(* the code's (8 to 32 paths, beams of 32 and more) never bind on inputs   *)
(* short enough to enumerate.                                              *)
(***************************************************************************)
EXTENDS Places, TLC

CONSTANTS
  Syllables,        \* kSyllables, without tones
  Vowels,           \* letters no syllable is abbreviated to
  Unlikely,         \* syllables that seldom stand inside a word: e, en, ou ...
  Fallback,         \* fallback_syllable: the last-resort reading of a letter
  Near,             \* pairs of letters substitution_allowed accepts
  PathBudget,       \* max_paths of a strict parse
  WideBudget,       \* exploration_limit of a long compact input
  LongInput,        \* letters from which a compact input is long
  AssistBeam        \* beam_width of abbreviations and of corrections

Separator == 0

ASSUME SchemaConstants ==
  /\ IsFiniteSet(Syllables) /\ \A y \in Syllables : y \in Seq(Nat \ {Separator}) /\ y # <<>>
  /\ Fallback \in [DOMAIN Fallback -> Seq(Nat \ {Separator})] /\ DOMAIN Fallback \subseteq Nat \ {Separator}
  /\ PathBudget \in Nat /\ WideBudget \in Nat /\ LongInput \in Nat /\ AssistBeam \in Nat

Letters == UNION {ToSet(y) : y \in Syllables} \cup DOMAIN Fallback

\* match kinds in the order of InputMatchKind
Exact == 0
Completion == 1
Corrected == 2
Abbreviated == 3

Lesser(m, n) == IF m < n THEN m ELSE n
Greater(m, n) == IF m < n THEN n ELSE m
Take(s, n) == SubSeq(s, 1, Lesser(n, Len(s)))
\* the letters of s from offset b up to offset e, offsets counted from 0
Slice(s, b, e) == SubSeq(s, b + 1, e)

TextLess(s, t) ==
  \/ IsStrictPrefix(s, t)
  \/ \E i \in 1..Lesser(Len(s), Len(t)) :
       s[i] < t[i] /\ \A j \in 1..i - 1 : s[j] = t[j]

IsComplete(t) == t \in Syllables
IsUnfinished(t) == \E y \in Syllables : IsStrictPrefix(t, y)

\* a reading of part of the input: which syllable, and the letters it reads
Syllable(text, from, to, complete) ==
  [text |-> text, from |-> from, to |-> to, complete |-> complete]
Path(syl, kind, extra) == [syl |-> syl, kind |-> kind, extra |-> extra]
Texts(syl) == MapSeq(LAMBDA y : y.text, syl)
\* assisted_reading_key; the apostrophe that ends each text sorts first
Key(path) == FlattenSeq(MapSeq(LAMBDA t : Append(t, Separator), Texts(path.syl)))
AllComplete(path) == \A i \in DOMAIN path.syl : path.syl[i].complete

---------------------------------------------------------------------------
(* One chunk between apostrophes.  The depth-first search visits the       *)
(* longest syllables first.  A node of it is numbered in the order of the  *)
(* visits, and a path carries the number of the node that yields it: a     *)
(* cancellation seen at the visit n keeps the paths of the nodes before n, *)
(* the unfinished suffixes of the nodes that were open among them.         *)

\* what is found below a node, given the nodes below the ends of its syllables:
\* how many nodes there are, itself included, and their paths
Below(in, from, to, ends, sub) ==
  LET First(k) == 1 + Total([j \in 1..k - 1 |-> sub[j].nodes])
      head(k) == Syllable(Slice(in, from, ends[k]), from, ends[k], TRUE)
      Found(k) == MapSeq(LAMBDA p : [p EXCEPT !.syl = <<head(k)>> \o @, !.node = First(k) + @], sub[k].found)
      rest == Slice(in, from, to)
      last == [syl |-> <<Syllable(rest, from, to, FALSE)>>, incomplete |-> TRUE, node |-> 0]
  IN [nodes |-> First(Len(ends) + 1),
      found |-> FlattenSeq([k \in DOMAIN ends |-> Found(k)]) \o (IF IsUnfinished(rest) THEN <<last>> ELSE <<>>)]
\* the ends of the syllables that can be read from an offset, the longest first
Ends(in, from, to) ==
  LET most == Lesser(6, to - from)
  IN Selected([k \in 1..most |-> from + most + 1 - k], LAMBDA end : IsComplete(Slice(in, from, end)))
Visit(in, start, to) ==
  LET visit[from \in start..to] ==
        LET ends == Ends(in, from, to)
        IN IF from = to THEN [nodes |-> 1, found |-> <<[syl |-> <<>>, incomplete |-> FALSE, node |-> 0]>>]
           ELSE Below(in, from, to, ends, [k \in DOMAIN ends |-> visit[ends[k]]])
  IN visit[start]

\* unlikely_internal_vowel_syllables
UnlikelyInside(p) == Cardinality({k \in 2..Len(p.syl) : p.syl[k].text \in Unlikely})

ChunkLess(p, q) ==
  \/ ~p.incomplete /\ q.incomplete
  \/ /\ p.incomplete = q.incomplete
     /\ \/ Len(p.syl) < Len(q.syl)
        \/ Len(p.syl) = Len(q.syl) /\ UnlikelyInside(p) < UnlikelyInside(q)

\* of the paths found for a chunk of some letters, those that stay when some
\* are complete, the fewest of them in syllables
NoLonger(found, fewest, letters) ==
  Selected(found, LAMBDA p : Len(p.syl) <= fewest /\ ~(fewest = 1 /\ letters > 1 /\ p.incomplete))
Fewest(sizes) == CHOOSE n \in sizes : \A m \in sizes : n <= m
Shortest(found, letters) ==
  LET sizes == {Len(p.syl) : p \in {q \in ToSet(found) : ~q.incomplete}}
  IN IF sizes = {} THEN found ELSE NoLonger(found, Fewest(sizes), letters)

\* parse_chunk, cancelled at the visit number cut
ChunkPaths(in, from, to, budget, cut) ==
  LET limit == IF to - from >= LongInput THEN WideBudget ELSE budget
      found == Take(Selected(Visit(in, from, to).found, LAMBDA p : p.node < cut), limit)
  IN Take(Sorted(Shortest(found, to - from), ChunkLess), budget)

\* a cancellation that does not come
Never == 1000000

---------------------------------------------------------------------------
(* Readings for what is not spelled out.                                   *)

AssistLess(p, q) ==
  \/ Len(p.syl) < Len(q.syl)
  \/ /\ Len(p.syl) = Len(q.syl)
     /\ \/ p.extra < q.extra
        \/ p.extra = q.extra /\ TextLess(Key(p), Key(q))

\* the first of the paths that read the same
FirstReadings(paths, Same(_, _)) ==
  Those(paths, {i \in DOMAIN paths : ~\E j \in 1..i - 1 : Same(paths[i], paths[j])})
SameReading(p, q) == p.kind = q.kind /\ Texts(p.syl) = Texts(q.syl)

\* prune_assisted_paths, without and with removing duplicates
Prune(paths, limit) == Take(Sorted(paths, AssistLess), limit)
PruneDistinct(paths, limit) ==
  Take(FirstReadings(Sorted(paths, AssistLess), SameReading), limit)

\* what a table has for a key
Entries(table, key) == IF key \in DOMAIN table THEN table[key] ELSE <<>>

\* syllable_prefix_matches: a table built once, in alphabetical order
CompletionTable ==
  [prefix \in UNION {{SubSeq(y, 1, n) : n \in DOMAIN y} : y \in Syllables} |->
     OrderedBy({y \in Syllables : IsPrefix(prefix, y)}, TextLess)]
Completing(prefix) == Entries(CompletionTable, prefix)

\* append_incomplete_completions: the completions of one path, and of its
\* syllable i
Completed(path, i) ==
  LET prefix == path.syl[i].text
      With(y) == [path EXCEPT !.syl[i].text = y, !.syl[i].complete = TRUE, !.extra = @ + Len(y) - Len(prefix)]
  IN IF path.syl[i].complete THEN <<path>>
     ELSE MapSeq(With, Selected(Completing(prefix), LAMBDA y : y # prefix))
Spell(path) ==
  LET spelled[i \in 0..Len(path.syl)] ==
        IF i = 0 THEN <<path>> ELSE FlattenSeq(MapSeq(LAMBDA p : Completed(p, i), spelled[i - 1]))
  IN spelled[Len(path.syl)]

Completions(base, budget, mostSyllables) ==
  LET open == Selected(base, LAMBDA p : Len(p.syl) <= mostSyllables /\ ~AllComplete(p))
      all == FlattenSeq(MapSeq(LAMBDA p : Spell([p EXCEPT !.kind = Completion, !.extra = 0]), open))
  IN Sorted(Take(all, budget), AssistLess)

\* a chart over the letters of a compact input: Step extends the states at
\* one offset to a later one, and Keep prunes what has reached an offset
Chart(in, start, Step(_, _, _), Keep(_), reach) ==
  LET Reached(chart, to) ==
        LET From(from) == FlattenSeq(MapSeq(LAMBDA s : Step(s, from, to), chart[from + 1]))
            first == Greater(0, to - reach)
        IN FlattenSeq([k \in 1..to - first |-> From(first + k - 1)])
      chart[to \in 0..Len(in)] ==
        IF to = 0 THEN <<<<start>>>> ELSE Append(chart[to - 1], Keep(Reached(chart[to - 1], to)))
  IN chart[Len(in)]

\* append_abbreviated_completions: every piece of up to six letters may be
\* the beginning of a syllable
Abbreviations(in, budget) ==
  LET Step(p, from, to) ==
        MapSeq(LAMBDA y : [p EXCEPT !.syl = Append(@, Syllable(y, from, to, TRUE)),
                                    !.extra = @ + Len(y) - (to - from)],
               Completing(Slice(in, from, to)))
      Keep(paths) == Prune(paths, AssistBeam)
      columns == Chart(in, Path(<<>>, Abbreviated, 0), Step, Keep, 6)
      shortened == Selected(columns[Len(in) + 1], LAMBDA p : Len(p.syl) >= 2 /\ p.extra > 0)
  IN IF Len(in) < 2 \/ Contains(in, Separator) THEN <<>>
     ELSE PruneDistinct(shortened, budget)

\* fuzzy_token_table: what is typed for a syllable with one letter left out,
\* changed for a near one or swapped with the next, or with one too many
Mistyped(y) ==
  {RemoveAt(y, i) : i \in DOMAIN y}
  \cup {[y EXCEPT ![at[1]] = at[2]] : at \in {p \in (DOMAIN y) \X (DOMAIN Fallback) : <<y[p[1]], p[2]>> \in Near}}
  \cup {[y EXCEPT ![i] = y[i + 1], ![i + 1] = y[i]] : i \in {j \in 1..Len(y) - 1 : y[j] # y[j + 1]}}
  \cup {InsertAt(y, i, c) : i \in 1..Len(y) + 1, c \in DOMAIN Fallback}
TokenTable ==
  [source \in UNION {Mistyped(y) : y \in Syllables} \ {<<>>} |->
     OrderedBy({y \in Syllables : source \in Mistyped(y)}, TextLess)]
Tokens(source, corrected) ==
  IF corrected THEN Entries(TokenTable, source)
  ELSE IF IsComplete(source) THEN <<source>> ELSE <<>>

\* append_corrected_paths: exactly one syllable was mistyped
Corrections(in, budget) ==
  LET Step(s, from, to) ==
        LET source == Slice(in, from, to)
            With(y, edited) == [path |-> [s.path EXCEPT !.syl = Append(@, Syllable(y, from, to, TRUE))],
                                edited |-> edited]
            Reading(corrected) == MapSeq(LAMBDA y : With(y, corrected \/ s.edited), Tokens(source, corrected))
        IN FlattenSeq(MapSeq(Reading, IF s.edited THEN <<FALSE>> ELSE <<FALSE, TRUE>>))
      Less(s, t) == \/ Len(s.path.syl) < Len(t.path.syl)
                    \/ Len(s.path.syl) = Len(t.path.syl) /\ TextLess(Key(s.path), Key(t.path))
      Same(s, t) == s.edited = t.edited /\ SameReading(s.path, t.path)
      Beams(states) == Take(Selected(states, LAMBDA s : s.edited), AssistBeam)
                       \o Take(Selected(states, LAMBDA s : ~s.edited), AssistBeam)
      Keep(states) == Beams(FirstReadings(Sorted(states, Less), Same))
      columns == Chart(in, [path |-> Path(<<>>, Corrected, 0), edited |-> FALSE], Step, Keep, 7)
      edited == Selected(columns[Len(in) + 1], LAMBDA s : s.edited)
  IN IF Len(in) < 3 \/ Contains(in, Separator) THEN <<>>
     ELSE Take(MapSeq(LAMBDA s : s.path, edited), budget)

---------------------------------------------------------------------------
(* The whole input.                                                        *)

Invalid(in) == [valid |-> FALSE, in |-> in, paths |-> <<>>]

\* where the chunk that starts at an offset ends
ChunkEnd(in, from) ==
  LET marks == {k \in from..Len(in) - 1 : in[k + 1] = Separator}
  IN IF marks = {} THEN Len(in) ELSE CHOOSE k \in marks : \A l \in marks : k <= l

\* the segmentations of all chunks from an offset on, in the order of nested
\* loops over the chunks; none when some chunk has none
Finished(paths) ==
  IF \E i \in DOMAIN paths : ~paths[i].incomplete THEN Selected(paths, LAMBDA p : ~p.incomplete) ELSE paths
Combined(chunk, rest) == FlattenSeq(MapSeq(LAMBDA p : MapSeq(LAMBDA r : p.syl \o r, rest), chunk))
Segmentations(in, budget, cut) ==
  LET rest[from \in 0..Len(in)] ==
        LET to == ChunkEnd(in, from)
        IN IF to = Len(in) THEN MapSeq(LAMBDA p : p.syl, ChunkPaths(in, from, to, budget, cut))
           ELSE Take(Combined(Finished(ChunkPaths(in, from, to, budget, cut)), rest[to + 1]), budget)
  IN rest[0]

\* long_stable_trailing_prefix: complete syllables that begin with a
\* consonant, the first one excepted, and an unfinished one at the end
StableTrailingPrefix(in, base) ==
  Len(in) >= LongInput /\
  \E i \in DOMAIN base :
    LET syl == base[i].syl IN
    /\ Len(syl) >= 3 /\ ~syl[Len(syl)].complete
    /\ \A k \in 1..Len(syl) - 1 : syl[k].complete /\ (k > 1 => syl[k].text[1] \notin Vowels)

\* without a complete segmentation: one unfinished path, then completions and
\* abbreviations, of which corrections displace up to eight
Displacing(base, short, fixed, budget) ==
  LET first == Take(base, 1)
      reserve == Lesser(8, Lesser(Len(fixed), budget - Len(first)))
      kept == Lesser(Len(short), Greater(0, budget - reserve - Len(first)))
  IN Take(first \o Take(short, kept) \o fixed \o SubSeq(short, kept + 1, Len(short)) \o SubSeq(base, 2, Len(base)),
          budget)
Assisted(in, base, budget, correct) ==
  LET stable == StableTrailingPrefix(in, base)
      short == Completions(base, budget, Never) \o (IF stable THEN <<>> ELSE Abbreviations(in, budget))
      fixed == IF correct /\ ~stable THEN Corrections(in, budget) ELSE <<>>
  IN Displacing(base, PruneDistinct(short, budget), fixed, budget)

\* nothing fits: each consonant abbreviates something, or each letter has
\* its last-resort reading; a user's apostrophe is never read over
LastResort(in) ==
  LET Letter(k, text, complete) == Syllable(text, k - 1, k, complete)
      initials == [k \in DOMAIN in |-> Letter(k, <<in[k]>>, FALSE)]
      readings == [k \in DOMAIN in |-> Letter(k, Fallback[in[k]], TRUE)]
      extra == Len(FlattenSeq(Texts(readings))) - Len(in)
  IN IF Contains(in, Separator) THEN <<>>
     ELSE IF ToSet(in) \cap Vowels = {} THEN <<Path(initials, Abbreviated, 0)>>
     ELSE IF Len(in) < 2 THEN <<>>
     ELSE <<Path(readings, Abbreviated, extra)>>

WellFormed(in) ==
  /\ in # <<>> /\ in[1] # Separator /\ Last(in) # Separator
  /\ \A k \in 1..Len(in) - 1 : ~(in[k] = Separator /\ in[k + 1] = Separator)

\* Sensitivity variant: corrections replace the readings of the input.
ParseCorrecting(in, budget, correct, cut) ==
  LET base == MapSeq(LAMBDA syl : Path(syl, Exact, 0), Segmentations(in, budget, cut))
      fixed == IF correct THEN Corrections(in, budget) ELSE <<>>
  IN IF ~WellFormed(in) \/ cut < 0 THEN Invalid(in)
     ELSE IF fixed # <<>> THEN [valid |-> TRUE, in |-> in, paths |-> fixed]
     ELSE [valid |-> base # <<>>, in |-> in, paths |-> base]

\* the paths of an input with these segmentations
WithAssistance(in, base, budget, correct) ==
  LET whole == {Len(p.syl) : p \in {q \in ToSet(base) : AllComplete(q)}}
  IN IF whole # {} THEN Take(base \o Completions(base, budget, Fewest(whole)), budget)
     ELSE Assisted(in, base, budget, correct)
Parsed(in, paths) == [valid |-> paths # <<>>, in |-> in, paths |-> paths]
ParsedOr(in, paths, others) == Parsed(in, IF paths # <<>> THEN paths ELSE others)
\* parse; cut is the number of the visit that sees the cancellation, and -1
\* when it is seen before
Parse(in, budget, correct, cut) ==
  LET base == MapSeq(LAMBDA syl : Path(syl, Exact, 0), Segmentations(in, budget, cut))
  IN IF ~WellFormed(in) \/ cut < 0 THEN Invalid(in)
     ELSE ParsedOr(in, WithAssistance(in, base, budget, correct), LastResort(in))

---------------------------------------------------------------------------
(* parse_incremental: one more letter after an input that was parsed.  The *)
(* leading syllables all its paths agree on stay, unless a syllable could  *)
(* now cross their end, and only the letters after them are parsed.        *)

StablePrefix(previous) ==
  LET syl == previous.paths[1].syl
      Common(k) ==
        /\ syl[k].complete /\ syl[k].to < Len(previous.in)
        /\ \A i \in DOMAIN previous.paths :
             k <= Len(previous.paths[i].syl) /\ previous.paths[i].syl[k] = syl[k]
      unstable == {k \in DOMAIN syl : ~Common(k)}
  IN IF unstable = {} THEN syl
     ELSE SubSeq(syl, 1, (CHOOSE k \in unstable : \A l \in unstable : k <= l) - 1)

\* a syllable, or the beginning of one, lies across the boundary
Crossed(in, boundary) ==
  \E from \in Greater(0, boundary - 5)..boundary - 1, to \in boundary + 1..Len(in) :
    /\ to <= from + 6
    /\ IsComplete(Slice(in, from, to)) \/ IsUnfinished(Slice(in, from, to))

Extends(in, previous) ==
  /\ previous.valid /\ previous.paths # <<>>
  /\ Len(in) = Len(previous.in) + 1 /\ IsPrefix(previous.in, in)
  /\ ~Contains(in, Separator)

Shifted(y, by) == [y EXCEPT !.from = @ + by, !.to = @ + by]

\* Sensitivity variant: the leading syllables of the first path stay.
ParseIncrementalGreedy(in, budget, previous, cut) ==
  LET prefix == IF Extends(in, previous) /\ AllComplete(previous.paths[1]) THEN previous.paths[1].syl ELSE <<>>
      boundary == Last(prefix).to
      suffix == Parse(Slice(in, boundary, Len(in)), budget, FALSE, cut)
      With(p) == [p EXCEPT !.syl = prefix \o MapSeq(LAMBDA y : Shifted(y, boundary), @)]
  IN IF prefix # <<>> /\ suffix.valid THEN [valid |-> TRUE, in |-> in, paths |-> MapSeq(With, suffix.paths)]
     ELSE Parse(in, budget, FALSE, cut)

\* the parse of what follows a stable prefix, or else of the whole input
Prefixed(in, prefix, suffix, whole) ==
  LET With(p) == [p EXCEPT !.syl = prefix \o MapSeq(LAMBDA y : Shifted(y, Last(prefix).to), @)]
  IN IF prefix = <<>> THEN suffix
     ELSE IF suffix.valid THEN [valid |-> TRUE, in |-> in, paths |-> MapSeq(With, suffix.paths)] ELSE whole
AfterPrefix(in, budget, prefix, cut) ==
  LET boundary == IF prefix = <<>> THEN 0 ELSE Last(prefix).to
  IN Prefixed(in, prefix, Parse(Slice(in, boundary, Len(in)), budget, FALSE, cut),
              Parse(in, budget, FALSE, IF cut = Never THEN Never ELSE -1))
ParseIncremental(in, budget, previous, cut) ==
  LET prefix == IF Extends(in, previous) THEN StablePrefix(previous) ELSE <<>>
  IN AfterPrefix(in, budget, IF prefix = <<>> \/ Crossed(in, Last(prefix).to) THEN <<>> ELSE prefix, cut)
=============================================================================
