------------------------- MODULE MCCandidateEngine -------------------------
(* Four letters with all their syllables, and a small lexicon. *)
EXTENDS CandidateEngine

a == 1
e == 5
i == 9
l == 12
n == 14
y == 25

MCSyllables ==
  {<<a>>, <<a,i>>, <<a,n>>, <<l,a>>, <<l,a,i>>, <<l,a,n>>, <<l,i>>, <<l,i,a>>, <<l,i,a,n>>, <<l,i,n>>,
   <<n>>, <<n,a>>, <<n,a,i>>, <<n,a,n>>, <<n,i>>, <<n,i,a,n>>, <<n,i,n>>}
MCVowels == {a, e, i, 15, 21, 22}
MCUnlikely == {}
MCNear == {<<l,n>>, <<n,l>>}
MCFallback == a :> <<a>> @@ i :> <<y,i>> @@ l :> <<l,e>> @@ n :> <<n,i>>
MCPreferred == n :> <<n,i>>
MCSeeds == <<6>> :> 9000

Word(syl, text, weight) == [syl |-> syl, text |-> text, weight |-> weight]
MCLexicon ==
  {Word(<<<<a>>>>, <<1>>, 9000), Word(<<<<a,n>>>>, <<2>>, 9500), Word(<<<<n,a>>>>, <<3>>, 10000),
   Word(<<<<n,a>>>>, <<4>>, 8000), Word(<<<<n,i>>>>, <<5>>, 12000), Word(<<<<n,i>>>>, <<6>>, 7000),
   Word(<<<<n,a,n>>>>, <<7>>, 9000), Word(<<<<n,i,a,n>>>>, <<8>>, 10500), Word(<<<<l,a>>>>, <<9>>, 8000),
   Word(<<<<l,i>>>>, <<10>>, 8500), Word(<<<<l,i>>>>, <<11>>, 8200), Word(<<<<l,i,a,n>>>>, <<12>>, 9800),
   Word(<<<<l,a,i>>>>, <<13>>, 9100), Word(<<<<l,i,n>>>>, <<14>>, 8800), Word(<<<<y,i>>>>, <<15>>, 11000),
   Word(<<<<l,e>>>>, <<16>>, 10100),
   Word(<<<<l,i>>, <<l,a>>>>, <<10,9>>, 6000), Word(<<<<a,n>>, <<l,a,i>>>>, <<2,13>>, 9000),
   Word(<<<<n,a>>, <<n,i>>>>, <<3,5>>, 4000), Word(<<<<n,i>>, <<l,a>>>>, <<5,9>>, 3000),
   Word(<<<<l,a>>, <<l,i>>>>, <<9,11>>, 2500), Word(<<<<a>>, <<n,a>>, <<n,i>>>>, <<1,3,5>>, 3500), Word(<<<<n,i>>, <<a,n>>>>, <<5,2>>, 2000), Word(<<<<a,n>>, <<a>>>>, <<2,1>>, 5100),
   Word(<<<<a>>, <<l,i>>>>, <<1,10>>, 1200), Word(<<<<a>>, <<l,i>>>>, <<1,11>>, 1100)}
\* every input of two letters and less, and what leads to some longer ones: a
\* syllable that is also two, syllables that meet in two ways, apostrophes,
\* leading syllables that stay, an abbreviation, a letter no syllable has
MCDrafts ==
  UNION {[1..k -> {a, i, l, n}] : k \in 1..2}
  \cup UNION {{SubSeq(t, 1, k) : k \in 0..Len(t)} :
              t \in {<<n,i,a,n,l,i>>, <<n,i,0,a,n>>, <<n,i,0,i>>, <<a,n,a,l,i>>, <<l,a,l,i,a,n>>, <<l,i,l>>, <<i,l,a,i>>}}
MCLearned == <<4>> :> 5000 @@ <<10,9>> :> 4000
=============================================================================
