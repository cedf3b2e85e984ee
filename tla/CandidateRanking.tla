-------------------------- MODULE CandidateRanking --------------------------
(***************************************************************************)
(* The order of the candidates: the second half of                         *)
(* CandidateGenerator::generate, from the split into rows that use the     *)
(* whole input and rows that use a leading part of it.                     *)
(***************************************************************************)
EXTENDS CandidateGenerator

CONSTANT AlternativeLimit   \* kMaximumModelAlternatives

ASSUME RankingConstants == AlternativeLimit \in Nat

FirstAt(rows, Test(_)) ==
  LET at == {i \in DOMAIN rows : Test(rows[i])}
  IN IF at = {} THEN 0 ELSE Min(at)
Without(rows, i) == IF i = 0 THEN rows ELSE RemoveAt(rows, i)
MovedFirst(rows, i) == IF i = 0 THEN rows ELSE <<rows[i]>> \o RemoveAt(rows, i)

\* limit_two_syllable_full_candidates: two words, or one composition
TwoSyllablesLimited(full) ==
  LET IsWord(r) == Len(r.syl) = 2 /\ r.count = 1
      IsComposed(r) == Len(r.syl) = 2 /\ r.count > 1
      Before(i, Test(_)) == Cardinality({j \in 1..i - 1 : Test(full[j])})
      words == FirstAt(full, IsWord) # 0
      Kept(i) == CASE IsWord(full[i]) -> Before(i, IsWord) < 2
                   [] IsComposed(full[i]) -> ~words /\ Before(i, IsComposed) = 0
                   [] OTHER -> TRUE
  IN Those(full, {i \in DOMAIN full : Kept(i)})

\* apply_cross_boundary_coherence: the best chain of words of two to four
\* syllables through the text; a syllable outside them costs
PhraseScore(reading, text) ==
  LET entries == Selected(Lookup(reading), LAMBDA e : e.text = text)
  IN IF entries = <<>> THEN 0 ELSE Greater(0, Lesser(12000, (entries[1].weight * 3) \div 2))
Coherent(row) ==
  LET n == Len(row.syl)
      most == Lesser(4, LongestReading)
      Best(best, to) ==
        LET Phrase(from) == best[from + 1] + PhraseScore(Slice(row.syl, from, to), Slice(row.text, from, to))
            froms == {from \in Greater(0, to - most)..to - 2 : from > 0 \/ to < n}
        IN Append(best, Max({best[to] - 12000} \cup {Phrase(from) : from \in froms}))
      chain[k \in 0..n] == IF k = 0 THEN <<0>> ELSE Best(chain[k - 1], k)
      gain == Greater(0, chain[n][n + 1])
  IN IF n < 3 \/ Len(row.text) # n THEN row
     ELSE [row EXCEPT !.coherence = gain, !.score = @ + gain]

\* for a long input also one row of every other segmentation
SameStructure(r, q) == r.segs = q.segs /\ r.lengths = q.lengths
WithCoherence(full, limit, alternatives, exactPaths) ==
  LET near == Lesser(Len(full), Greater(CoherenceFloor, 2 * limit))
      IsExact(i) == full[i].kind = Exact
      more == Greater(1, exactPaths - Cardinality({i \in 1..near : IsExact(i)}))
      new == {i \in near + 1..Len(full) :
                IsExact(i) /\ ~\E j \in 1..i - 1 : IsExact(j) /\ SameStructure(full[i], full[j])}
      others == {i \in new : alternatives /\ Cardinality({j \in new : j <= i}) <= more}
  IN [i \in DOMAIN full |-> IF i <= near \/ i \in others THEN Coherent(full[i]) ELSE full[i]]

\* sentence_less; not a weak order, and the sort is the insertion sort that
\* the library uses for short ranges
SentenceLess(r, q) ==
  LET gap == r.coherence - q.coherence IN
  IF r.count > 1 /\ q.count > 1 /\ (gap >= 3000 \/ gap <= -3000) THEN gap > 0 ELSE ScoreLess(r, q)

\* a long input shows two sentences: the second one is a variant of the
\* first in one character, or from other segments, or not more complex
Differences(s, t) ==
  Cardinality({i \in 1..Lesser(Len(s), Len(t)) : s[i] # t[i]}) + Greater(Len(s), Len(t)) - Lesser(Len(s), Len(t))
LongAlternatives(full) ==
  LET first == full[1]
      Variant(r) == SameStructure(r, first) /\ r.count = first.count /\ Differences(first.text, r.text) = 1
      Other(r) == r.segs # first.segs /\ r.lengths # first.lengths
      OtherSegments(r) == r.segs # first.segs
      Simple(r) == r.count <= first.count
      rest == Tail(full)
      at == <<FirstAt(rest, Variant), FirstAt(rest, Other), FirstAt(rest, OtherSegments), FirstAt(rest, Simple)>>
      found == Selected(at, LAMBDA i : i # 0)
  IN <<first>> \o (IF found = <<>> THEN <<>> ELSE <<rest[found[1]]>>)

\* prioritize_two_character_words: among rows of one or two characters, up to
\* ten well scored words, the characters, the other words
WordsFirst(rows) ==
  LET Size(i) == Len(rows[i].text)
      first == IF rows # <<>> /\ Size(1) = 2 /\ \A i \in DOMAIN rows : rows[i].used <= rows[1].used THEN 2 ELSE 1
      places == {i \in first..Len(rows) : Size(i) \in {1, 2}}
      Of(size) == Sorted(Those(rows, {i \in places : Size(i) = size}), ScoreLess)
      words == Of(2)
      poor == FirstAt(words, LAMBDA r : r.score < 5000)
      good == Take(words, Lesser(10, IF poor = 0 THEN Len(words) ELSE poor - 1))
      moved == good \o Of(1) \o SubSeq(words, Len(good) + 1, Len(words))
      PlaceOf(i) == Cardinality({j \in places : j <= i})
  IN IF words = <<>> \/ Len(words) = Cardinality(places) THEN rows
     ELSE [i \in DOMAIN rows |-> IF i \in places THEN moved[PlaceOf(i)] ELSE rows[i]]

\* a sentence or two, the beginning of the sentence and its first character,
\* the other characters, the other beginnings
SecondSentence(full) ==
  /\ Len(full) >= 2
  /\ Tail(full[1].text) # Tail(full[2].text)
  /\ full[1].coherence - full[2].coherence \in -2000..2000
  /\ full[1].score - full[2].score \in -4000..4000
Multiword(full, prefixes, limit, alternatives) ==
  LET count == IF alternatives THEN Lesser(2, Len(full)) ELSE IF SecondSentence(full) THEN 2 ELSE 1
      sentences == Take(full, count)
      IsCharacter(r) == Len(r.syl) = 1 /\ Len(r.text) = 1
      IsRepeated(r) == IsCharacter(r) /\ r.text = Take(full[1].text, 1)
      IsInitial(r) == IsCharacter(r) /\ ~IsRepeated(r)
      IsMatching(r) == ~IsCharacter(r) /\ Len(r.syl) = 2 /\ IsPrefix(r.text, full[1].text)
      IsOther(r) == ~IsCharacter(r) /\ ~IsMatching(r)
      characters == Sorted(Selected(prefixes, IsInitial), ScoreLess)
      repeated == Take(Selected(prefixes, IsRepeated), 1)
      matching == Selected(prefixes, IsMatching)
      \* the first character keeps the last visible place of the page
      before == IF matching # <<>> THEN 0
                ELSE Lesser(Len(characters), Greater(0, limit - count - 2))
  IN sentences \o Take(matching, 1) \o Take(characters, before) \o repeated
     \o SubSeq(characters, before + 1, Len(characters))
     \o SubSeq(matching, 2, Len(matching)) \o Selected(prefixes, IsOther)

\* whole-input variants that only the external model sees: sentences that
\* have no row, and those with another character between two words
HiddenRows(seeds, shown, limit) ==
  LET Bridges(r) ==
        {k \in 2..Len(r.lengths) - 1 : r.lengths[k] = 1 /\ r.lengths[k - 1] >= 2 /\ r.lengths[k + 1] >= 2}
      At(r, k) == Total(Take(r.lengths, k - 1)) + 1
      Swap(r, k) == MapSeq(LAMBDA e : [r EXCEPT !.text[At(r, k)] = e.text[1]],
                           Selected(Frequent(Lookup(<<r.syl[At(r, k)]>>), 32), LAMBDA e : Len(e.text) = 1))
      Bridged(r) == IF Len(r.syl) < 5 \/ Len(r.text) # Len(r.syl) THEN <<>>
                    ELSE FlattenSeq([k \in DOMAIN r.lengths |-> IF k \in Bridges(r) THEN Swap(r, k) ELSE <<>>])
      all == seeds \o FlattenSeq(MapSeq(Bridged, seeds))
      new == {i \in DOMAIN all : all[i].text \notin TextsOf(shown) \cup TextsOf(SubSeq(all, 1, i - 1))}
  IN Take(MapSeq(LAMBDA r : [r EXCEPT !.hidden = TRUE], Those(all, new)), limit + AlternativeLimit - Len(shown))

PrefixLess(r, q) == r.used > q.used \/ (r.used = q.used /\ ScoreLess(r, q))

ExactFirst(rows) == MovedFirst(rows, FirstAt(rows, LAMBDA r : r.kind = Exact))
Ordered(in, full, prefixes, limit, alternatives) ==
  IF AllConsonants(in) THEN full \o prefixes
  ELSE IF full # <<>> /\ Len(full[1].syl) >= 3 THEN Multiword(full, prefixes, limit, alternatives)
  ELSE WordsFirst(full \o prefixes)
WithHidden(seeds, shown, limit) == shown \o HiddenRows(seeds, shown, limit)

\* the rows for the whole input are sentences, which the prefixes follow
ArrangedRows(in, sentences, prefixes, limit, alternatives, withHidden) ==
  LET seeds == IF withHidden /\ sentences # <<>> /\ Len(sentences[1].syl) >= 3 THEN Take(sentences, 24) ELSE <<>>
      chosen == IF alternatives /\ Len(sentences) > 1 THEN LongAlternatives(sentences) ELSE sentences
  IN WithHidden(seeds, Take(Ordered(in, ExactFirst(chosen), prefixes, limit, alternatives), limit), limit)
Arranged(parsed, rows, limit, exactPaths, withHidden) ==
  LET alternatives == IsLong(parsed.in) /\ exactPaths > 1
      IsWhole(r) == r.used = Len(parsed.in)
      ranked == TwoSyllablesLimited(Sorted(Selected(rows, IsWhole), ScoreLess))
      sentences == Sorted(WithCoherence(ranked, limit, alternatives, exactPaths), SentenceLess)
      prefixes == Sorted(Selected(rows, LAMBDA r : ~IsWhole(r)), PrefixLess)
  IN ArrangedRows(parsed.in, sentences, prefixes, limit, alternatives, withHidden)

\* CandidateGenerator::generate
Generate(parsed, limit, withHidden) ==
  LET in == parsed.in
      Every(sentences) == sentences.rows \o InitialRows(in) \o MixedRows(parsed, sentences.exact)
      rows == BestPerText(Every(SentenceRows(parsed, Greater(SearchFloor, limit))))
      exactPaths == Cardinality({i \in DOMAIN parsed.paths : parsed.paths[i].kind = Exact})
      consonant == Len(in) = 1 /\ in[1] \notin Vowels \cup {Separator}
  IN IF ~parsed.valid \/ limit = 0 THEN <<>>
     ELSE IF consonant THEN SingleInitial(in, limit)
     ELSE IF Len(in) = 2 /\ AllConsonants(in) THEN DoubleInitial(in, limit)
     ELSE Arranged(parsed, rows, limit, exactPaths, withHidden)
=============================================================================
