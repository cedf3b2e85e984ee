------------------------- MODULE CandidateGenerator -------------------------
(***************************************************************************)
(* Candidates for a segmented input: src/engine/candidate_generator.cpp    *)
(* over the look-ups of src/engine/lexicon.cpp and binary_lexicon.cpp.     *)
(*                                                                         *)
(* A word of the lexicon has the syllables it is read with, its text and   *)
(* its weight, the unigram_score of its frequency.  A text is a sequence   *)
(* of characters, characters are numbers.  What learning adds to a text is *)
(* the constant function Learned.  Core passes no bigram model.            *)
(***************************************************************************)
EXTENDS PinyinSchema

CONSTANTS
  Lexicon,        \* the words
  Learned,        \* score of the learned texts
  Seeds,          \* common_initial_seed_bonus of some texts
  Preferred,      \* preferred_initial_syllable of some letters
  SearchFloor,    \* kMinimumSearchLimit
  BeamWidth,      \* beam_width of the charts
  KindBudget,     \* kMaximumAssistedPathsPerKind
  CoherenceFloor  \* full rows that are always looked at for coherence

ASSUME LexiconConstants ==
  /\ IsFiniteSet(Lexicon) /\ Lexicon # {}
  /\ \A e \in Lexicon :
       /\ e.syl \in Seq(Seq(Nat)) \ {<<>>} /\ e.text \in Seq(Nat) /\ e.weight \in Int
       /\ \A k \in DOMAIN e.syl : e.syl[k] # <<>>
  /\ Learned \in [DOMAIN Learned -> Int] /\ Seeds \in [DOMAIN Seeds -> Int]
  /\ SearchFloor \in Nat /\ BeamWidth \in Nat /\ KindBudget \in Nat /\ CoherenceFloor \in Nat

SegmentPenalty == 22000
CharacterPenalty == 750
PhraseBonus == 8000
AbbreviationPenalty == 8000

LongestReading == Max({Len(e.syl) : e \in Lexicon})
LearnedScore(text) == IF text \in DOMAIN Learned THEN Learned[text] ELSE 0

\* the order of the entries of a lexicon: by reading, then by text
EntryLess(e, f) == TextLess(e.text, f.text) \/ (e.text = f.text /\ e.weight > f.weight)
\* lookup: the entries of a reading, in that order
ReadingTable == [r \in {e.syl : e \in Lexicon} |-> OrderedBy({e \in Lexicon : e.syl = r}, EntryLess)]
Lookup(reading) == Entries(ReadingTable, reading)

\* retain_frequent_entries: as many as there may be, then best first
MoreFrequent(e, f) == e.weight > f.weight \/ (e.weight = f.weight /\ TextLess(e.text, f.text))
Frequent(entries, limit) ==
  IF Len(entries) <= limit THEN entries ELSE Take(Sorted(entries, MoreFrequent), limit)

InitialLess(e, f) ==
  \/ e.weight > f.weight
  \/ /\ e.weight = f.weight
     /\ \/ Len(e.syl[1]) < Len(f.syl[1])
        \/ Len(e.syl[1]) = Len(f.syl[1]) /\ TextLess(e.text, f.text)
\* initial_entries and lookup_initial
InitialTable ==
  [letter \in {e.syl[1][1] : e \in Lexicon} |->
     OrderedBy({e \in Lexicon : Len(e.syl) = 1 /\ e.syl[1][1] = letter}, InitialLess)]
LookupInitial(letter) == Entries(InitialTable, letter)

\* mixed_abbreviation_segments: the whole first syllable and beginnings of the
\* others, the earlier ones with as many letters as possible; none when nothing
\* is abbreviated
Splits(syl, in) ==
  {segs \in {[k \in DOMAIN syl |-> Take(syl[k], n[k])] : n \in [DOMAIN syl -> 1..6]} :
     segs[1] = syl[1] /\ segs # syl /\ FlattenSeq(segs) = in}
MixedSegments(syl, in) ==
  LET Earlier(s, t) == \E k \in DOMAIN s : Len(s[k]) > Len(t[k]) /\ \A j \in 1..k - 1 : s[j] = t[j]
  IN OrderedBy(Splits(syl, in), Earlier)

\* mixed_entries: the words by their first syllable and the letter after it
MixedBuckets ==
  LET words == {e \in Lexicon : Len(e.syl) >= 2}
      BucketOf(e) == <<e.syl[1], e.syl[2][1]>>
  IN [key \in {BucketOf(e) : e \in words} |-> {e \in words : BucketOf(e) = key}]

MatchLess(m, n) ==
  \/ m.entry.weight > n.entry.weight
  \/ /\ m.entry.weight = n.entry.weight
     /\ \/ Len(m.entry.syl) > Len(n.entry.syl)
        \/ Len(m.entry.syl) = Len(n.entry.syl) /\ TextLess(m.entry.text, n.entry.text)
\* lookup_mixed_abbreviation, from the buckets an input can lie in: two letters
\* are two initials, more begin with a whole syllable
Initials(key, in) == key[1][1] = in[1] /\ key[2] = in[2]
Beginning(key, in) ==
  LET n == Len(key[1]) IN n <= Lesser(6, Len(in) - 1) /\ key = <<Take(in, n), in[n + 1]>>
MatchesOf(e, in) ==
  IF Len(in) > 2 THEN MixedSegments(e.syl, in)
  ELSE IF Len(e.syl) = 2 THEN <<<<<<in[1]>>, <<in[2]>>>>>> ELSE <<>>
MatchedIn(buckets, in) ==
  LET keys == {key \in DOMAIN buckets : IF Len(in) = 2 THEN Initials(key, in) ELSE Beginning(key, in)}
      words == UNION {buckets[key] : key \in keys}
  IN {[entry |-> e, segs |-> MatchesOf(e, in)] : e \in words}
LookupMixed(in) ==
  IF Len(in) < 2 \/ Contains(in, Separator) THEN <<>>
  ELSE LET matches == {[m EXCEPT !.segs = m.segs[1]] : m \in {m \in MatchedIn(MixedBuckets, in) : m.segs # <<>>}}
       IN OrderedBy(matches, MatchLess)

---------------------------------------------------------------------------
Row(text, syl, score, kind, segs, used, count, lengths) ==
  [text |-> text, syl |-> syl, score |-> score + LearnedScore(text), kind |-> kind, segs |-> segs,
   used |-> used, count |-> count, lengths |-> lengths, coherence |-> 0, hidden |-> FALSE]

\* candidate_better
RowBetter(r, q) ==
  \/ r.used > q.used
  \/ r.used = q.used /\ (r.score > q.score \/ (r.score = q.score /\ r.kind < q.kind))
ScoreLess(r, q) ==
  \/ r.score > q.score
  \/ /\ r.score = q.score
     /\ \/ r.kind < q.kind
        \/ /\ r.kind = q.kind
           /\ \/ Len(r.syl) < Len(q.syl)
              \/ Len(r.syl) = Len(q.syl) /\ TextLess(r.text, q.text)

TextsOf(rows) == {rows[i].text : i \in DOMAIN rows}
\* Sensitivity variant: rows from different sources are all kept.
EveryRow(rows) == rows

\* store_candidate: for each text the best row, the first of equally good ones
BestPerText(rows) ==
  LET Beaten(i) == \E j \in DOMAIN rows :
        /\ rows[j].text = rows[i].text
        /\ (RowBetter(rows[j], rows[i]) \/ (j < i /\ ~RowBetter(rows[i], rows[j])))
  IN Those(rows, {i \in DOMAIN rows : ~Beaten(i)})

Ranked(rows) == Sorted(BestPerText(rows), ScoreLess)

\* one consonant: the characters of all its syllables
SingleInitial(in, limit) ==
  LET Bonus(text) == IF text \in DOMAIN Seeds THEN Seeds[text] ELSE 0
      entries == Selected(LookupInitial(in[1]), LAMBDA e : Len(e.text) = 1)
      Of(e) == Row(e.text, e.syl, e.weight + Bonus(e.text), Completion, <<in>>, 1, 1, <<>>)
  IN Take(Ranked(MapSeq(Of, entries)), limit)

\* two consonants: words of two characters and characters of the first
\* consonant, in turns while there are both
InTurns(s, t) ==
  LET both == Lesser(Len(s), Len(t))
      pairs == [k \in 1..2 * both |-> IF k % 2 = 1 THEN s[(k + 1) \div 2] ELSE t[k \div 2]]
  IN pairs \o SubSeq(s, both + 1, Len(s)) \o SubSeq(t, both + 1, Len(t))
DoubleInitial(in, limit) ==
  LET matches == Selected(LookupMixed(in), LAMBDA m : Len(m.entry.syl) = 2 /\ Len(m.entry.text) = 2)
      Word(m) == Row(m.entry.text, m.entry.syl,
                     m.entry.weight + PhraseBonus - CharacterPenalty * (Len(FlattenSeq(m.entry.syl)) - 2),
                     Abbreviated, m.segs, 2, 1, <<>>)
      entries == Selected(LookupInitial(in[1]), LAMBDA e : Len(e.text) = 1)
      Character(e) == Row(e.text, e.syl, e.weight, Abbreviated, <<<<in[1]>>>>, 1, 1, <<>>)
  IN Take(InTurns(Ranked(MapSeq(Word, matches)), Ranked(MapSeq(Character, entries))), limit)

---------------------------------------------------------------------------
(* Sentences: a chart over the syllables of a path.                        *)

SourceSegments(in, path) == MapSeq(LAMBDA y : Slice(in, y.from, y.to), path.syl)

\* input_match_penalty
MatchPenalty(path) ==
  CASE path.kind = Exact -> 0
    [] path.kind = Completion -> 1500 + CharacterPenalty * path.extra
    [] path.kind = Corrected -> 6000
    [] path.kind = Abbreviated -> AbbreviationPenalty + CharacterPenalty * path.extra
\* source_initial_bonus
PreferredBonus(letter, syllable) ==
  IF letter \in DOMAIN Preferred /\ Preferred[letter] = syllable THEN 6000 ELSE 0
InitialBonus(in, path) ==
  Total(MapSeq(LAMBDA y : IF y.to = y.from + 1 THEN PreferredBonus(in[y.to], y.text) ELSE 0, path.syl))

StateLess(s, t) == s.score > t.score \/ (s.score = t.score /\ TextLess(s.text, t.text))
\* Sensitivity variant: the first states stay, not the best.
FirstStates(states) == Take(states, BeamWidth)

PruneStates(states) == Take(Sorted(states, StateLess), BeamWidth)

\* a state followed by a word, at extra the cost of what the word abbreviates
Followed(s, e, extra) ==
  [text |-> s.text \o e.text, syl |-> s.syl \o e.syl,
   score |-> s.score + e.weight + extra - (IF s.text = <<>> THEN 0 ELSE SegmentPenalty),
   count |-> s.count + 1, lengths |-> Append(s.lengths, Len(e.syl))]
Start(score) == [text |-> <<>>, syl |-> <<>>, score |-> score, count |-> 0, lengths |-> <<>>]

SentenceStates(in, path) ==
  LET reading == Texts(path.syl)
      Step(s, from, to) ==
        MapSeq(LAMBDA e : Followed(s, e, 0), Frequent(Lookup(Slice(reading, from, to)), BeamWidth))
      first == Start(InitialBonus(in, path) - MatchPenalty(path))
      columns == Chart(reading, first, Step, PruneStates, LongestReading)
  IN columns[Len(reading) + 1]

\* Sensitivity variant: a leading word uses one letter more.
PathRowsPastSyllable(in, path, searchLimit) ==
  LET segs == SourceSegments(in, path)
      Leading(n) == MapSeq(LAMBDA e : Row(e.text, e.syl, e.weight, path.kind, segs, path.syl[n].to + 1, 1, <<>>),
                           Frequent(Lookup(Take(Texts(path.syl), n)), searchLimit))
  IN [whole |-> <<>>, all |-> FlattenSeq([n \in 1..Len(path.syl) - 1 |-> Leading(n)])]

\* rows that use the whole input, and words for a leading part of it
PathRows(in, path, searchLimit) ==
  LET segs == SourceSegments(in, path)
      last == path.syl[Len(path.syl)].to
      whole == MapSeq(LAMBDA s : Row(s.text, s.syl, s.score, path.kind, segs, last, s.count, s.lengths),
                      SentenceStates(in, path))
      score == InitialBonus(in, path) - MatchPenalty(path)
      Leading(n) == MapSeq(LAMBDA e : Row(e.text, e.syl, e.weight + score, path.kind, segs, path.syl[n].to, 1, <<>>),
                           Frequent(Lookup(Take(Texts(path.syl), n)), searchLimit))
      most == Lesser(Len(path.syl) - 1, LongestReading)
  IN [whole |-> whole, all |-> whole \o FlattenSeq([n \in 1..most |-> Leading(n)])]

IsLong(in) == Len(in) >= LongInput /\ ~Contains(in, Separator)

\* ordered_paths: one exact path, all of a long input, and the assisted ones
\* with what the lexicon has for the whole reading first
FullSpan(path) ==
  FoldLeft(LAMBDA best, e : Greater(best, e.weight), 0, IF AllComplete(path) THEN Lookup(Texts(path.syl)) ELSE <<>>)
MoreSpan(p, q, spanP, spanQ) == spanP > spanQ \/ (spanP = spanQ /\ p.extra < q.extra)
PathLess(p, q) ==
  \/ p.kind < q.kind
  \/ p.kind = q.kind /\ p.kind # Exact /\ MoreSpan(p, q, FullSpan(p), FullSpan(q))
OrderedPaths(parsed) ==
  LET exact == Selected(parsed.paths, LAMBDA p : p.kind = Exact)
      rest == Selected(parsed.paths, LAMBDA p : p.kind # Exact)
  IN (IF IsLong(parsed.in) THEN exact ELSE Take(exact, 1)) \o Sorted(rest, PathLess)

\* the rows collected so far, with those of one more path
Collected(acc, path, rows, exactPaths, searchLimit) ==
  LET tried == [acc.tried EXCEPT ![path.kind] = @ + 1]
      exact == acc.exact \/ (path.kind = Exact /\ rows.whole # <<>>)
      all == acc.rows \o rows.all
      enough == Cardinality(TextsOf(all)) >= searchLimit
  IN [rows |-> all, tried |-> tried, exact |-> exact,
      done |-> enough /\ (path.kind = Completion \/ (exact /\ tried[Exact] >= exactPaths))]
\* the paths one after the other, until there are enough rows
EvaluatedRows(in, paths, searchLimit) ==
  LET exactPaths == Cardinality({i \in DOMAIN paths : paths[i].kind = Exact})
      Evaluate(acc, path) ==
        IF \/ acc.done \/ ~AllComplete(path)
           \/ path.kind = Corrected /\ acc.exact
           \/ path.kind # Exact /\ acc.tried[path.kind] >= KindBudget
        THEN acc
        ELSE Collected(acc, path, PathRows(in, path, searchLimit), exactPaths, searchLimit)
      evaluated[n \in 0..Len(paths)] ==
        IF n = 0 THEN [rows |-> <<>>, tried |-> [k \in Exact..Abbreviated |-> 0], exact |-> FALSE, done |-> FALSE]
        ELSE Evaluate(evaluated[n - 1], paths[n])
  IN evaluated[Len(paths)]
SentenceRows(parsed, searchLimit) == EvaluatedRows(parsed.in, OrderedPaths(parsed), searchLimit)

\* three consonants and more: a character for each of them
AllConsonants(in) == Len(in) >= 2 /\ ToSet(in) \cap (Vowels \cup {Separator}) = {}
InitialRows(in) ==
  LET Step(s, from, to) ==
        MapSeq(LAMBDA e : Followed(s, e, PreferredBonus(in[to], e.syl[1]) - CharacterPenalty * (Len(e.syl[1]) - 1)),
               Take(LookupInitial(in[to]), BeamWidth))
      columns == Chart(in, Start(-AbbreviationPenalty), Step, PruneStates, 1)
      Of(n) == MapSeq(LAMBDA s : Row(s.text, s.syl, s.score, Abbreviated, [k \in DOMAIN in |-> <<in[k]>>], n, 1, <<>>),
                      columns[n + 1])
  IN IF AllConsonants(in) THEN FlattenSeq([n \in DOMAIN in |-> Of(n)]) ELSE <<>>

\* words abbreviated in at least two syllables, unless an exact row or a
\* stable beginning makes them noise
StableStrictPrefix(parsed) ==
  \E i \in DOMAIN parsed.paths :
    LET p == parsed.paths[i] IN
    /\ p.kind = Exact /\ Len(p.syl) >= 2 /\ ~Last(p.syl).complete
    /\ \A k \in 1..Len(p.syl) - 1 : p.syl[k].complete
Shortened(segs, syl) == Cardinality({k \in DOMAIN segs \cap DOMAIN syl : Len(segs[k]) < Len(syl[k])})
MixedRows(parsed, exact) ==
  LET Of(m) == Row(m.entry.text, m.entry.syl,
                   m.entry.weight + PhraseBonus - CharacterPenalty * Shortened(m.segs, m.entry.syl),
                   Abbreviated, m.segs, Len(parsed.in), 1, <<>>)
  IN IF exact \/ StableStrictPrefix(parsed) THEN <<>>
     ELSE MapSeq(Of, Selected(LookupMixed(parsed.in), LAMBDA m : Shortened(m.segs, m.entry.syl) >= 2))
=============================================================================
