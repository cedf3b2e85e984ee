------------------------ MODULE CandidateEngineProofs ------------------------
(***************************************************************************)
(* What holds of every answer of the candidate engine, for all inputs, any *)
(* table of syllables, any lexicon and all budgets and limits.             *)
(*                                                                         *)
(* The proof goes along the code.  A path is a sequence of syllables that  *)
(* tiles the input between its apostrophes, and so are the paths of a      *)
(* parse, of an incremental one, of an abbreviation and of a correction.   *)
(* From that, a row of any source uses some of its own segments as a       *)
(* whole.  The rows of one answer have different texts, because one is     *)
(* kept for each text and what orders, cuts, pages and completes the rows  *)
(* afterwards keeps them apart.  The invariant of the engine says this of  *)
(* the answer, that the incremental state holds a parse of some input, and *)
(* that input and preview are texts.                                       *)
(*                                                                         *)
(* The segments of a row are slices of the input with nothing but          *)
(* apostrophes between them, all of it but for a character of the first of *)
(* two initials.  So are those of an exact path and of the raw input: what *)
(* joins them, and then takes the letters as the user wrote them, spells   *)
(* the input.                                                              *)
(***************************************************************************)
EXTENDS CandidateEngine, SequenceLemmas

---------------------------------------------------------------------------
(* The caret in the input and in its preview *)

\* How many characters of the input the beginnings of a preview show.
Consumed(raw, in, p) ==
  /\ DOMAIN raw = 0..Len(p) /\ raw[0] = 0
  /\ \A k \in 0..Len(p) : raw[k] \in 0..Len(in)
  /\ \A k \in 1..Len(p) :
       raw[k] = raw[k - 1] + (IF raw[k - 1] < Len(in) /\ Consumes(p[k], in[raw[k - 1] + 1]) THEN 1 ELSE 0)

\* The places that the caret is translated through (raw_position, in
\* text_service.cpp) count what the beginnings of the preview show.
LEMMA RawIs ==
  ASSUME NEW in, Len(in) \in Nat, NEW p, Len(p) \in Nat
  PROVE  Consumed(Raw(in, p), in, p)
<1> DEFINE n == Len(p)
           l == Len(in)
           More(x, k) == IF x < l /\ Consumes(p[k], in[x + 1]) THEN 1 ELSE 0
           T == [k \in 0..n |-> 0..l]
           step == [q \in (0..l) \X (1..n) |-> q[1] + More(q[1], q[2])]
           raw == Raw(in, p)
<1>1. n \in Nat /\ l \in Nat
  OBVIOUS
<1>2. raw = CHOOSE f : f = [k \in 0..n |-> IF k = 0 THEN 0 ELSE f[k - 1] + More(f[k - 1], k)]
  BY DEF Raw
<1> HIDE DEF raw, n, l
<1>3. \A x \in 0..l, k \in 1..n : x + More(x, k) \in 0..l /\ More(x, k) \in 0..1
  BY <1>1
<1> HIDE DEF More
<1>4. \A k \in 1..n : \A x \in T[k - 1] : step[<<x, k>>] \in T[k]
  BY <1>1, <1>3
<1>5. 0 \in T[0]
  BY <1>1
<1>6. PICK g : Successive(g, n, 0, step) /\ \A k \in 0..n : g[k] \in T[k]
  <2> HIDE DEF T, step
  <2> QED BY <1>1, <1>4, <1>5, RecursionDefined
<1>7. \A k \in 1..n : step[<<g[k - 1], k>>] = g[k - 1] + More(g[k - 1], k)
  <2> SUFFICES ASSUME NEW k \in 1..n PROVE step[<<g[k - 1], k>>] = g[k - 1] + More(g[k - 1], k)
    OBVIOUS
  <2>1. k - 1 \in 0..n
    BY <1>1
  <2>2. g[k - 1] \in 0..l
    BY <1>6, <2>1
  <2> QED BY <2>2
<1>8. g = [k \in 0..n |-> IF k = 0 THEN 0 ELSE g[k - 1] + More(g[k - 1], k)]
  <2> HIDE DEF step
  <2>1. \A k \in 0..n : (IF k = 0 THEN 0 ELSE step[<<g[k - 1], k>>]) = IF k = 0 THEN 0 ELSE g[k - 1] + More(g[k - 1], k)
    BY <1>1, <1>7
  <2> QED BY <1>6, <2>1 DEF Successive
<1> HIDE DEF T, step
<1>9. raw = [k \in 0..n |-> IF k = 0 THEN 0 ELSE raw[k - 1] + More(raw[k - 1], k)]
  BY <1>2, <1>8, Zenon
<1>10. DOMAIN raw = 0..n /\ raw[0] = 0 /\ \A k \in 1..n : raw[k] = raw[k - 1] + More(raw[k - 1], k)
  BY <1>1, <1>9
<1> DEFINE A == {k \in 0..n : raw[k] \in 0..l}
<1>11. \A k \in 0..n : k \in A
  <2>1. 0 \in A
    BY <1>1, <1>10
  <2>2. \A k \in 1..n : k - 1 \in A => k \in A
    BY <1>1, <1>3, <1>10
  <2> HIDE DEF A
  <2> QED BY <1>1, <2>1, <2>2, UpTo
<1> QED BY <1>10, <1>11 DEF Consumed, More, raw, n, l

\* More of a preview shows no less of the input, and one character more shows
\* at most one character more.
LEMMA RawGrows ==
  ASSUME NEW in, Len(in) \in Nat, NEW p, Len(p) \in Nat, NEW raw, Consumed(raw, in, p)
  PROVE  /\ \A k \in 1..Len(p) : raw[k] \in {raw[k - 1], raw[k - 1] + 1} /\ k - 1 \in 0..Len(p)
         /\ \A i, j \in 0..Len(p) : i <= j => raw[i] <= raw[j]
<1> DEFINE n == Len(p)
<1> HIDE DEF n
<1>1. n \in Nat /\ \A k \in 0..n : raw[k] \in 0..Len(in)
  BY DEF Consumed, n
<1>2. \A k \in 1..n : raw[k] \in {raw[k - 1], raw[k - 1] + 1} /\ k - 1 \in 0..n
  BY <1>1 DEF Consumed, n
<1>3. ASSUME NEW i \in 0..n PROVE \A j \in 0..n : i <= j => raw[i] <= raw[j]
  <2> DEFINE A == {j \in 0..n : i <= j => raw[i] <= raw[j]}
  <2>1. 0 \in A
    BY <1>1
  <2>2. \A j \in 1..n : j - 1 \in A => j \in A
    <3> SUFFICES ASSUME NEW j \in 1..n, j - 1 \in A PROVE j \in A
      OBVIOUS
    <3>1. raw[j] \in {raw[j - 1], raw[j - 1] + 1} /\ j - 1 \in 0..n
      BY <1>2
    <3>2. CASE i = j
      BY <1>1, <3>2
    <3>3. CASE i # j
      BY <1>1, <3>1, <3>3
    <3> QED BY <3>2, <3>3
  <2> HIDE DEF A
  <2>3. \A j \in 0..n : j \in A
    BY <1>1, <2>1, <2>2, UpTo
  <2> QED BY <2>3 DEF A
<1> QED BY <1>2, <1>3 DEF n

\* The first place where so much of the input is shown shows just so much.
LEMMA RawReaches ==
  ASSUME NEW in, Len(in) \in Nat, NEW p, Len(p) \in Nat, NEW raw, Consumed(raw, in, p), NEW v \in 0..raw[Len(p)]
  PROVE  LET reach == {k \in DOMAIN raw : raw[k] >= v}
             at == Least(reach, Len(p))
         IN at \in 0..Len(p) /\ raw[at] = v /\ (v > 0 => at > 0 /\ raw[at - 1] = v - 1)
<1> DEFINE n == Len(p)
           reach == {k \in DOMAIN raw : raw[k] >= v}
           at == Least(reach, n)
<1>1. n \in Nat /\ DOMAIN raw = 0..n /\ raw[0] = 0 /\ \A k \in 0..n : raw[k] \in 0..Len(in)
  BY DEF Consumed
<1>2. \A k \in 1..n : raw[k] \in {raw[k - 1], raw[k - 1] + 1} /\ k - 1 \in 0..n
  BY RawGrows
<1>3. n \in reach /\ reach \subseteq Nat
  BY <1>1
<1>4. at \in reach /\ \A k \in reach : at <= k
  <2> HIDE DEF reach, n
  <2>1. reach # {} /\ reach \subseteq Nat
    BY <1>3
  <2>2. PICK m \in reach : \A k \in reach : ~ (k < m)
    BY <2>1, LeastNumber
  <2>3. \A k \in reach : m <= k
    BY <2>1, <2>2
  <2>4. at = CHOOSE k \in reach : \A l \in reach : k <= l
    BY <2>1 DEF Least
  <2> QED BY <2>3, <2>4
<1> HIDE DEF at, n
<1>5. at \in 0..n /\ raw[at] >= v /\ \A k \in 0..n : raw[k] >= v => at <= k
  BY <1>1, <1>4
<1>6. CASE at = 0
  <2>1. raw[at] = 0
    BY <1>1, <1>6
  <2> QED BY <1>5, <2>1 DEF at, n
<1>7. CASE at # 0
  <2>1. at \in 1..n /\ at - 1 \in 0..n /\ ~ (at <= at - 1)
    BY <1>1, <1>5, <1>7
  <2>2. ~ (raw[at - 1] >= v) /\ raw[at] \in {raw[at - 1], raw[at - 1] + 1}
    BY <1>2, <1>5, <2>1
  <2>3. raw[at - 1] \in Int /\ v \in Int
    BY <1>1, <2>1
  <2>4. raw[at] = v /\ raw[at - 1] = v - 1 /\ at > 0
    BY <1>5, <2>1, <2>2, <2>3
  <2> QED BY <1>5, <2>4 DEF at, n
<1> QED BY <1>6, <1>7

\* The caret placed through the preview is where it was.
LEMMA CaretReturns ==
  ASSUME NEW in, Len(in) \in Nat, NEW p, Len(p) \in Nat, Raw(in, p)[Len(p)] = Len(in), NEW caret \in 0..Len(in)
  PROVE  /\ PreviewIndex(in, p, caret) \in 0..Len(p) /\ Raw(in, p)[PreviewIndex(in, p, caret)] = caret
         /\ InputCaret(in, p, PreviewIndex(in, p, caret)) = caret
<1> DEFINE raw == Raw(in, p)
           at == PreviewIndex(in, p, caret)
<1>1. Consumed(raw, in, p)
  BY RawIs
<1>2. Lesser(caret, Len(in)) = caret
  BY DEF Lesser
<1>3. at = Least({k \in DOMAIN raw : raw[k] >= caret}, Len(p))
  BY <1>2 DEF PreviewIndex
<1>4. InputCaret(in, p, at) = raw[Lesser(at, Len(p))]
  BY DEF InputCaret
<1>5. caret \in 0..raw[Len(p)]
  OBVIOUS
<1> HIDE DEF raw, at
<1>6. at \in 0..Len(p) /\ raw[at] = caret
  BY <1>1, <1>3, <1>5, RawReaches
<1>7. Lesser(at, Len(p)) = at
  BY <1>6 DEF Lesser
<1> QED BY <1>4, <1>6, <1>7 DEF raw, at

\* A way to show all of an input by its characters and further apostrophes.
Shows(g, in, p) ==
  /\ g[0] = 0 /\ g[Len(p)] = Len(in)
  /\ \A k \in 0..Len(p) : g[k] \in Nat
  /\ \A k \in 1..Len(p) : \/ g[k] = g[k - 1] + 1 /\ g[k] <= Len(in) /\ p[k] = in[g[k]]
                          \/ g[k] = g[k - 1] /\ p[k] = Separator

\* If there is a way, the code's is one: it may show an apostrophe of the input
\* earlier, never anything later.
LEMMA ShowingSpells ==
  ASSUME NEW S, NEW in, Len(in) \in Nat, NEW p \in Seq(S), NEW g, Shows(g, in, p)
  PROVE  Spells(in, p)
<1> DEFINE raw == Raw(in, p)
           n == Len(p)
           l == Len(in)
           Ahead(k) == g[k] <= raw[k] /\ \A j \in g[k] + 1..raw[k] : in[j] = Separator
           Same(k) == p[k] = IF raw[k] > raw[k - 1] THEN in[raw[k]] ELSE Separator
           A == {k \in 0..n : Ahead(k) /\ (k > 0 => Same(k))}
<1>1. Len(p) \in Nat /\ DOMAIN p = 1..Len(p)
  BY LenProperties
<1>2. Consumed(raw, in, p)
  BY <1>1, RawIs
<1> HIDE DEF raw
<1>3. n \in Nat /\ l \in Nat /\ raw[0] = 0 /\ (\A k \in 0..n : raw[k] \in 0..l /\ g[k] \in Nat) /\ g[0] = 0 /\ g[n] = l
  BY <1>1, <1>2 DEF Consumed, Shows
<1>4. 0 \in A
  BY <1>3
<1>5. ASSUME NEW k \in 1..n, k - 1 \in A PROVE k \in A
  <2> DEFINE x == raw[k - 1]
             y == g[k - 1]
  <2>1. k \in 0..n /\ k - 1 \in 0..n
    BY <1>3
  <2>2. x \in 0..l /\ y \in Nat /\ y <= x /\ (\A j \in y + 1..x : in[j] = Separator) /\ raw[k] \in 0..l /\ g[k] \in Nat
    BY <1>3, <1>5, <2>1
  <2>3. raw[k] = x + (IF x < l /\ Consumes(p[k], in[x + 1]) THEN 1 ELSE 0)
    BY <1>2 DEF Consumed
  <2>4. \/ g[k] = y + 1 /\ g[k] <= l /\ p[k] = in[g[k]]
        \/ g[k] = y /\ p[k] = Separator
    BY DEF Shows
  <2> HIDE DEF x, y
  <2>5. CASE g[k] = y + 1 /\ g[k] <= l /\ p[k] = in[g[k]] /\ y = x
    <3>1. x < l /\ Consumes(p[k], in[x + 1])
      BY <2>2, <2>5 DEF Consumes
    <3>2. raw[k] = x + 1
      BY <2>3, <3>1
    <3>3. Ahead(k)
      BY <2>2, <2>5, <3>2
    <3>4. Same(k)
      BY <2>2, <2>5, <3>2 DEF x
    <3> QED BY <2>1, <3>3, <3>4
  <2>6. CASE p[k] = Separator /\ g[k] \in {y, y + 1} /\ g[k] <= x
    <3>1. CASE x < l /\ Consumes(p[k], in[x + 1])
      <4>1. raw[k] = x + 1 /\ in[x + 1] = Separator
        BY <2>3, <2>6, <3>1 DEF Consumes
      <4>2. Ahead(k)
        BY <2>2, <2>6, <4>1
      <4>3. Same(k)
        BY <2>2, <2>6, <4>1 DEF x
      <4> QED BY <2>1, <4>2, <4>3
    <3>2. CASE ~ (x < l /\ Consumes(p[k], in[x + 1]))
      <4>1. raw[k] = x
        BY <2>2, <2>3, <3>2
      <4>2. Ahead(k)
        BY <2>2, <2>6, <4>1
      <4>3. Same(k)
        BY <2>2, <2>6, <4>1 DEF x
      <4> QED BY <2>1, <4>2, <4>3
    <3> QED BY <3>1, <3>2
  <2>7. CASE g[k] = y + 1 /\ g[k] <= l /\ p[k] = in[g[k]] /\ y # x
    <3>1. y + 1 \in y + 1..x
      BY <2>2, <2>7
    <3>2. in[y + 1] = Separator
      BY <2>2, <3>1
    <3>3. p[k] = Separator /\ g[k] <= x
      BY <2>2, <2>7, <3>2
    <3> QED BY <2>6, <2>7, <3>3
  <2>8. CASE g[k] = y /\ p[k] = Separator
    BY <2>2, <2>6, <2>8
  <2> QED BY <2>4, <2>5, <2>7, <2>8
<1>6. \A k \in 0..n : k \in A
  <2> HIDE DEF A, n
  <2> QED BY <1>3, <1>4, <1>5, UpTo
<1>7. raw[n] = l
  <2>1. n \in A /\ n \in 0..n
    BY <1>3, <1>6
  <2>2. g[n] <= raw[n] /\ raw[n] <= l
    BY <1>3, <2>1
  <2> QED BY <1>3, <2>2
<1>8. \A k \in 1..n : Same(k)
  <2> SUFFICES ASSUME NEW k \in 1..n PROVE Same(k)
    OBVIOUS
  <2>1. k \in A /\ k > 0
    BY <1>3, <1>6
  <2> QED BY <2>1
<1> QED BY <1>1, <1>7, <1>8 DEF Spells, raw

\* A letter goes into the input and into its preview.
LEMMA InsertionSpells ==
  ASSUME NEW S, NEW in \in Seq(S), NEW p \in Seq(S), p # <<>>, Spells(in, p), NEW caret \in 0..Len(in), NEW c \in S
  PROVE  Spells(InsertAt(in, caret + 1, c), PreviewInserted(in, p, caret, c))
<1> DEFINE n == Len(p)
           l == Len(in)
           raw == Raw(in, p)
           at == PreviewIndex(in, p, caret)
           in2 == InsertAt(in, caret + 1, c)
           p2 == InsertAt(p, at + 1, c)
           g == [k \in 0..n + 1 |-> IF k <= at THEN raw[k] ELSE raw[k - 1] + 1]
<1>1. n \in Nat /\ l \in Nat /\ DOMAIN p = 1..n /\ caret \in 0..l
  BY LenProperties
<1>2. Consumed(raw, in, p)
  BY <1>1, RawIs
<1>3. raw[n] = l /\ \A k \in 1..n : p[k] = IF raw[k] > raw[k - 1] THEN in[raw[k]] ELSE Separator
  BY <1>1 DEF Spells
<1>4. at \in 0..n /\ raw[at] = caret
  BY <1>1, <1>3, CaretReturns
<1>5. PreviewInserted(in, p, caret, c) = p2
  BY DEF PreviewInserted
<1> HIDE DEF at
<1>6. /\ \A k \in 1..n : raw[k] \in {raw[k - 1], raw[k - 1] + 1} /\ k - 1 \in 0..n
      /\ \A i, j \in 0..n : i <= j => raw[i] <= raw[j]
  BY <1>1, <1>2, RawGrows
<1>7. \A k \in 0..n : raw[k] \in 0..l
  BY <1>2 DEF Consumed
<1>8. raw[0] = 0
  BY <1>2 DEF Consumed
<1> HIDE DEF raw
<1>9. /\ in2 \in Seq(S) /\ Len(in2) = l + 1
      /\ \A k \in 1..l + 1 : in2[k] = IF k < caret + 1 THEN in[k] ELSE IF k = caret + 1 THEN c ELSE in[k - 1]
  <2>1. caret + 1 \in 1..Len(in) + 1
    BY <1>1
  <2> QED BY <2>1, InsertedIs
<1>10. /\ p2 \in Seq(S) /\ Len(p2) = n + 1
       /\ \A k \in 1..n + 1 : p2[k] = IF k < at + 1 THEN p[k] ELSE IF k = at + 1 THEN c ELSE p[k - 1]
  <2> DEFINE j == at + 1
  <2>1. j \in 1..Len(p) + 1
    BY <1>1, <1>4
  <2> HIDE DEF j
  <2>2. /\ InsertAt(p, j, c) \in Seq(S) /\ Len(InsertAt(p, j, c)) = Len(p) + 1
        /\ \A k \in 1..Len(p) + 1 : InsertAt(p, j, c)[k] = IF k < j THEN p[k] ELSE IF k = j THEN c ELSE p[k - 1]
    BY <2>1, InsertedIs
  <2> QED BY <2>2 DEF j
<1> HIDE DEF in2, p2, n, l
<1>11. Shows(g, in2, p2)
  <2>1. g[0] = 0 /\ g[n + 1] = l + 1
    BY <1>1, <1>3, <1>4, <1>8
  <2>2. \A k \in 0..n + 1 : g[k] \in Nat
    BY <1>1, <1>4, <1>7
  <2>3. ASSUME NEW k \in 1..n + 1
        PROVE  \/ g[k] = g[k - 1] + 1 /\ g[k] <= l + 1 /\ p2[k] = in2[g[k]]
               \/ g[k] = g[k - 1] /\ p2[k] = Separator
    <3>1. CASE k <= at
      <4>1. k \in 1..n /\ k - 1 \in 0..n /\ k \in 0..n /\ k - 1 <= at
        BY <1>1, <1>4, <3>1
      <4>2. g[k] = raw[k] /\ g[k - 1] = raw[k - 1] /\ p2[k] = p[k]
        <5>1. k \in 0..n + 1 /\ k - 1 \in 0..n + 1 /\ k < at + 1
          BY <1>1, <1>4, <3>1
        <5>2. g[k] = raw[k]
          BY <3>1, <5>1
        <5>3. g[k - 1] = raw[k - 1]
          BY <4>1, <5>1
        <5>4. p2[k] = p[k]
          BY <1>10, <5>1
        <5> QED BY <5>2, <5>3, <5>4
      <4>3. raw[k] <= caret /\ raw[k] \in 0..l /\ raw[k - 1] \in 0..l
        BY <1>4, <1>6, <1>7, <3>1, <4>1
      <4>4. CASE raw[k] = raw[k - 1]
        BY <1>3, <4>1, <4>2, <4>3, <4>4
      <4>5. CASE raw[k] = raw[k - 1] + 1
        <5>1. raw[k] \in 1..l + 1 /\ raw[k] < caret + 1
          BY <1>1, <4>3, <4>5
        <5>2. in2[raw[k]] = in[raw[k]]
          BY <1>9, <5>1
        <5>3. p[k] = in[raw[k]]
          BY <1>3, <4>1, <4>3, <4>5
        <5> QED BY <4>2, <4>3, <4>5, <5>1, <5>2, <5>3
      <4> QED BY <1>6, <4>1, <4>4, <4>5
    <3>2. CASE k = at + 1
      <4>1. g[k] = caret + 1 /\ g[k - 1] = caret
        <5>1. k \in 0..n + 1 /\ k - 1 \in 0..n + 1 /\ k - 1 = at /\ ~ (k <= at)
          BY <1>1, <1>4, <3>2
        <5>2. g[k] = raw[k - 1] + 1
          BY <5>1
        <5>3. g[k - 1] = raw[k - 1]
          BY <5>1
        <5> QED BY <1>4, <5>1, <5>2, <5>3
      <4>2. p2[k] = c /\ caret + 1 \in 1..l + 1
        <5>1. k \in 1..n + 1 /\ ~ (k < at + 1)
          BY <1>4, <3>2
        <5>2. p2[k] = c
          BY <1>10, <3>2, <5>1
        <5> QED BY <1>1, <5>2
      <4>3. in2[caret + 1] = c
        BY <1>9, <4>2
      <4> QED BY <4>1, <4>2, <4>3
    <3>3. CASE k > at + 1
      <4>1. k - 1 \in 1..n /\ k - 2 \in 0..n /\ k - 1 \in 0..n /\ at <= k - 2 /\ k - 1 - 1 = k - 2
        BY <1>1, <1>4, <3>3
      <4>2. g[k] = raw[k - 1] + 1 /\ g[k - 1] = raw[k - 2] + 1 /\ p2[k] = p[k - 1]
        <5>1. k \in 0..n + 1 /\ k - 1 \in 0..n + 1 /\ ~ (k <= at) /\ ~ (k - 1 <= at) /\ ~ (k < at + 1) /\ k # at + 1
          BY <1>1, <1>4, <3>3
        <5>2. g[k] = raw[k - 1] + 1
          BY <5>1
        <5>3. g[k - 1] = raw[k - 1 - 1] + 1
          BY <5>1
        <5>4. p2[k] = p[k - 1]
          BY <1>10, <5>1
        <5> QED BY <4>1, <5>2, <5>3, <5>4
      <4>3. caret <= raw[k - 2] /\ raw[k - 1] \in 0..l /\ raw[k - 2] \in 0..l
        BY <1>4, <1>6, <1>7, <4>1
      <4>4. raw[k - 1] \in {raw[k - 2], raw[k - 2] + 1}
        BY <1>6, <4>1
      <4>5. p[k - 1] = IF raw[k - 1] > raw[k - 2] THEN in[raw[k - 1]] ELSE Separator
        BY <1>3, <4>1
      <4>6. CASE raw[k - 1] = raw[k - 2]
        BY <4>2, <4>3, <4>5, <4>6
      <4>7. CASE raw[k - 1] = raw[k - 2] + 1
        <5>1. raw[k - 1] + 1 \in 1..l + 1 /\ ~ (raw[k - 1] + 1 < caret + 1) /\ raw[k - 1] + 1 # caret + 1
          BY <1>1, <4>3, <4>7
        <5>2. in2[raw[k - 1] + 1] = in[raw[k - 1]]
          BY <1>9, <4>3, <5>1
        <5> QED BY <4>2, <4>3, <4>5, <4>7, <5>1, <5>2
      <4> QED BY <4>4, <4>6, <4>7
    <3> QED BY <1>1, <1>4, <3>1, <3>2, <3>3
  <2> HIDE DEF g
  <2> QED BY <1>9, <1>10, <2>1, <2>2, <2>3 DEF Shows
<1>12. Len(in2) \in Nat
  BY <1>1, <1>9
<1> HIDE DEF g
<1>13. Spells(in2, p2)
  BY <1>10, <1>11, <1>12, ShowingSpells
<1> QED BY <1>5, <1>13 DEF in2, p2

\* A letter is erased in the input and in its preview.
LEMMA ErasureSpells ==
  ASSUME NEW S, NEW in \in Seq(S), NEW p \in Seq(S), p # <<>>, Spells(in, p), NEW caret \in 1..Len(in)
  PROVE  Spells(RemoveAt(in, caret), PreviewErased(in, p, caret))
<1> DEFINE n == Len(p)
           l == Len(in)
           raw == Raw(in, p)
           places == {k \in 0..n - 1 : caret - 1 < l /\ raw[k] = caret - 1 /\ raw[k + 1] = caret - 1 + 1}
           at == PreviewCharacter(in, p, caret - 1)
           in2 == RemoveAt(in, caret)
           p2 == RemoveAt(p, at + 1)
           g == [k \in 0..n - 1 |-> IF k <= at THEN raw[k] ELSE raw[k + 1] - 1]
<1>1. n \in Nat /\ l \in Nat /\ DOMAIN p = 1..n /\ caret \in 1..l
  BY LenProperties
<1>2. Consumed(raw, in, p)
  BY <1>1, RawIs
<1>3. raw[n] = l /\ \A k \in 1..n : p[k] = IF raw[k] > raw[k - 1] THEN in[raw[k]] ELSE Separator
  BY <1>1 DEF Spells
<1>4. at = Least(places, n)
  BY DEF PreviewCharacter
<1>5. PreviewErased(in, p, caret) = IF p # <<>> /\ at < n THEN p2 ELSE p
  BY DEF PreviewErased
<1>6. /\ \A k \in 1..n : raw[k] \in {raw[k - 1], raw[k - 1] + 1} /\ k - 1 \in 0..n
      /\ \A i, j \in 0..n : i <= j => raw[i] <= raw[j]
  BY <1>1, <1>2, RawGrows
<1>7. raw[0] = 0 /\ \A k \in 0..n : raw[k] \in 0..l
  BY <1>2 DEF Consumed
<1>8. \E k \in 0..n - 1 : k \in places
  <2> DEFINE k == Least({k \in DOMAIN raw : raw[k] >= caret}, n)
  <2>1. caret \in 0..raw[n]
    BY <1>3
  <2>2. k \in 0..n /\ raw[k] = caret /\ k > 0 /\ raw[k - 1] = caret - 1
    <3> HIDE DEF raw
    <3> QED BY <1>1, <1>2, <2>1, RawReaches
  <2> HIDE DEF k, raw
  <2>3. k - 1 \in 0..n - 1 /\ (k - 1) + 1 = k /\ caret - 1 < l
    BY <1>1, <2>2
  <2>4. k - 1 \in places
    BY <2>2, <2>3
  <2> QED BY <2>3, <2>4
<1> HIDE DEF raw, at
<1>9. at \in places
  <2>1. places \subseteq Nat /\ places # {}
    <3>1. places \subseteq 0..n - 1
      OBVIOUS
    <3>2. 0..n - 1 \subseteq Nat
      BY <1>1
    <3>3. PICK k \in 0..n - 1 : k \in places
      BY <1>8
    <3>4. places # {}
      BY <3>3
    <3> HIDE DEF places
    <3> QED BY <3>1, <3>2, <3>4
  <2> HIDE DEF places
  <2>2. PICK m \in places : \A k \in places : ~ (k < m)
    BY <2>1, LeastNumber
  <2>3. \A k \in places : m <= k
    BY <2>1, <2>2
  <2>4. at = CHOOSE k \in places : \A j \in places : k <= j
    BY <1>4, <2>1 DEF Least
  <2> QED BY <2>3, <2>4
<1>10. at \in 0..n - 1 /\ raw[at] = caret - 1 /\ raw[at + 1] = caret /\ at < n
  BY <1>1, <1>9
<1>11. /\ in2 \in Seq(S) /\ Len(in2) = l - 1
       /\ \A k \in 1..l - 1 : in2[k] = IF k < caret THEN in[k] ELSE in[k + 1]
  BY RemovedIs
<1>12. /\ p2 \in Seq(S) /\ Len(p2) = n - 1
       /\ \A k \in 1..n - 1 : p2[k] = IF k < at + 1 THEN p[k] ELSE p[k + 1]
  <2>1. at + 1 \in 1..Len(p)
    BY <1>1, <1>10
  <2> QED BY <2>1, RemovedIs
<1> HIDE DEF in2, p2, n, l, places
<1>13. Shows(g, in2, p2)
  <2>1. g[0] = 0 /\ g[n - 1] = l - 1
    <3>1. 0 \in 0..n - 1 /\ n - 1 \in 0..n - 1
      BY <1>1, <1>10
    <3>2. g[0] = 0
      BY <1>7, <1>10, <3>1
    <3>3. CASE n - 1 <= at
      <4>1. n - 1 = at /\ at + 1 = n
        BY <1>1, <1>10, <3>3
      <4>2. caret = l
        BY <1>3, <1>10, <4>1
      <4>3. g[n - 1] = raw[at]
        BY <3>1, <3>3, <4>1
      <4> QED BY <1>10, <3>2, <4>2, <4>3
    <3>4. CASE ~ (n - 1 <= at)
      <4>1. g[n - 1] = raw[n - 1 + 1] - 1 /\ n - 1 + 1 = n
        BY <1>1, <3>1, <3>4
      <4> QED BY <1>3, <3>2, <4>1
    <3> QED BY <3>3, <3>4
  <2>2. ASSUME NEW k \in 0..n - 1 PROVE g[k] \in Nat /\ (k > at => g[k] = raw[k + 1] - 1) /\ (k <= at => g[k] = raw[k])
                                        /\ (k = at => g[k] = raw[k + 1] - 1)
    <3>1. k \in 0..n /\ k + 1 \in 0..n /\ at + 1 \in 0..n
      BY <1>1, <1>10
    <3>2. CASE k <= at
      BY <1>7, <1>10, <3>1, <3>2
    <3>3. CASE k > at
      <4>1. raw[at + 1] <= raw[k + 1] /\ raw[k + 1] \in 0..l /\ caret >= 1
        BY <1>1, <1>6, <1>7, <1>10, <3>1, <3>3
      <4>2. g[k] = raw[k + 1] - 1
        BY <1>10, <3>3
      <4> QED BY <1>1, <1>10, <3>3, <4>1, <4>2
    <3> QED BY <1>1, <1>10, <3>2, <3>3
  <2>3. ASSUME NEW k \in 1..n - 1
        PROVE  \/ g[k] = g[k - 1] + 1 /\ g[k] <= l - 1 /\ p2[k] = in2[g[k]]
               \/ g[k] = g[k - 1] /\ p2[k] = Separator
    <3> HIDE DEF g
    <3>1. k \in 0..n - 1 /\ k - 1 \in 0..n - 1 /\ k \in 1..n /\ k + 1 \in 1..n /\ k + 1 \in 0..n /\ k \in 0..n /\ k - 1 \in 0..n
          /\ k + 1 - 1 = k /\ k - 1 + 1 = k
      BY <1>1
    <3>2. CASE k <= at
      <4>1. g[k] = raw[k] /\ g[k - 1] = raw[k - 1] /\ p2[k] = p[k]
        BY <1>10, <1>12, <2>2, <3>1, <3>2
      <4>2. raw[k] <= caret - 1 /\ raw[k] \in 0..l /\ raw[k - 1] \in 0..l
        <5>1. raw[k] \in 0..l /\ raw[k - 1] \in 0..l
          BY <1>7, <3>1
        <5>2. at \in 0..n
          BY <1>1, <1>10
        <5>3. raw[k] <= raw[at]
          BY <1>6, <3>1, <3>2, <5>2
        <5> QED BY <1>10, <5>1, <5>3
      <4>3. p[k] = IF raw[k] > raw[k - 1] THEN in[raw[k]] ELSE Separator
        BY <1>3, <3>1
      <4>4. raw[k] \in {raw[k - 1], raw[k - 1] + 1}
        BY <1>6, <3>1
      <4>5. CASE raw[k] = raw[k - 1]
        BY <4>1, <4>2, <4>3, <4>5
      <4>6. CASE raw[k] = raw[k - 1] + 1
        <5>1. caret - 1 <= l - 1 /\ caret \in Nat
          BY <1>1
        <5>2. raw[k] \in 1..l - 1 /\ raw[k] < caret
          BY <1>1, <4>2, <4>6, <5>1
        <5>3. in2[raw[k]] = in[raw[k]]
          BY <1>11, <5>2
        <5> QED BY <4>1, <4>2, <4>3, <4>6, <5>2, <5>3
      <4> QED BY <4>4, <4>5, <4>6
    <3>3. CASE k > at
      <4>1. g[k] = raw[k + 1] - 1 /\ p2[k] = p[k + 1]
        BY <1>10, <1>12, <2>2, <3>1, <3>3
      <4>2. g[k - 1] = raw[k] - 1
        <5>1. k - 1 > at \/ k - 1 = at
          BY <1>10, <3>1, <3>3
        <5> QED BY <2>2, <3>1, <5>1
      <4>3. raw[at + 1] <= raw[k] /\ raw[k] \in 0..l /\ raw[k + 1] \in 0..l /\ at + 1 \in 0..n
        <5>1. at + 1 \in 0..n /\ at + 1 <= k
          BY <1>1, <1>10, <3>1, <3>3
        <5>2. raw[at + 1] <= raw[k]
          BY <1>6, <3>1, <5>1
        <5>3. raw[k] \in 0..l /\ raw[k + 1] \in 0..l
          BY <1>7, <3>1
        <5> QED BY <5>1, <5>2, <5>3
      <4>4. p[k + 1] = IF raw[k + 1] > raw[k] THEN in[raw[k + 1]] ELSE Separator
        BY <1>3, <3>1
      <4>5. raw[k + 1] \in {raw[k], raw[k] + 1}
        BY <1>6, <3>1
      <4>6. CASE raw[k + 1] = raw[k]
        BY <4>1, <4>2, <4>3, <4>4, <4>6
      <4>7. CASE raw[k + 1] = raw[k] + 1
        <5>1. raw[k + 1] - 1 \in 1..l - 1 /\ ~ (raw[k + 1] - 1 < caret) /\ raw[k + 1] - 1 + 1 = raw[k + 1]
          BY <1>1, <1>10, <4>3, <4>7
        <5>2. in2[raw[k + 1] - 1] = in[raw[k + 1]]
          BY <1>11, <5>1
        <5> QED BY <4>1, <4>2, <4>3, <4>4, <4>7, <5>1, <5>2
      <4> QED BY <4>5, <4>6, <4>7
    <3> QED BY <1>10, <3>1, <3>2, <3>3
  <2> HIDE DEF g
  <2> QED BY <1>11, <1>12, <2>1, <2>2, <2>3 DEF Shows
<1>14. Len(in2) \in Nat
  BY <1>11, LenProperties
<1> HIDE DEF g
<1>15. Spells(in2, p2)
  BY <1>12, <1>13, <1>14, ShowingSpells
<1>16. PreviewErased(in, p, caret) = p2
  BY <1>5, <1>10 DEF n, p2
<1> QED BY <1>15, <1>16 DEF in2, p2

\* While a preview spells the input, an edit at any caret changes both alike,
\* and the caret placed through the preview is where it was.
Kept(in, p) ==
  \A caret \in 0..Len(in) :
    /\ InputCaret(in, p, PreviewIndex(in, p, caret)) = caret
    /\ \A c \in DOMAIN Fallback : Spells(InsertAt(in, caret + 1, c), PreviewInserted(in, p, caret, c))
    /\ caret > 0 => Spells(RemoveAt(in, caret), PreviewErased(in, p, caret))
\* What spells an input still spells it after any edit, at any caret.
THEOREM EditsSpell ==
  ASSUME NEW in \in Seq(Nat), NEW p \in Seq(Nat), p # <<>>, Spells(in, p)
  PROVE  Kept(in, p)
<1>1. SUFFICES ASSUME NEW caret \in 0..Len(in)
               PROVE  /\ InputCaret(in, p, PreviewIndex(in, p, caret)) = caret
                      /\ \A c \in DOMAIN Fallback : Spells(InsertAt(in, caret + 1, c), PreviewInserted(in, p, caret, c))
                      /\ caret > 0 => Spells(RemoveAt(in, caret), PreviewErased(in, p, caret))
  BY DEF Kept
<1>2. InputCaret(in, p, PreviewIndex(in, p, caret)) = caret
  <2>1. Raw(in, p)[Len(p)] = Len(in)
    BY DEF Spells
  <2> QED BY <2>1, CaretReturns, LenProperties
<1>3. \A c \in DOMAIN Fallback : Spells(InsertAt(in, caret + 1, c), PreviewInserted(in, p, caret, c))
  BY InsertionSpells, SchemaConstants
<1>4. caret > 0 => Spells(RemoveAt(in, caret), PreviewErased(in, p, caret))
  <2>1. ASSUME caret > 0 PROVE Spells(RemoveAt(in, caret), PreviewErased(in, p, caret))
    <3>1. caret \in 1..Len(in)
      BY <2>1, LenProperties
    <3> QED BY <3>1, ErasureSpells
  <2> QED BY <2>1
<1> QED BY <1>2, <1>3, <1>4

---------------------------------------------------------------------------
(* The readings of an input: syllables one after the other, between         *)
(* apostrophes                                                              *)

Text == Seq(Nat)
Chars == DOMAIN Fallback \cup {Separator}
\* What is typed is text.
LEMMA CharsAre == Chars \subseteq Nat /\ Separator \in Nat /\ Seq(Chars) \subseteq Text
<1>1. Chars \subseteq Nat /\ Separator \in Nat
  BY SchemaConstants DEF Chars, Separator
<1>2. ASSUME NEW s \in Seq(Chars) PROVE s \in Seq(Nat)
  BY <1>1, <1>2, SeqMonotonic
<1> QED BY <1>1, <1>2 DEF Text

\* The lesser and the greater of two numbers.
LEMMA LesserIs ==
  ASSUME NEW m \in Int, NEW n \in Int
  PROVE  /\ Lesser(m, n) \in {m, n} /\ Lesser(m, n) <= m /\ Lesser(m, n) <= n
         /\ Greater(m, n) \in {m, n} /\ Greater(m, n) >= m /\ Greater(m, n) >= n
  BY DEF Lesser, Greater

\* The beginning of a sequence.
LEMMA TakeIs ==
  ASSUME NEW S, NEW s \in Seq(S), NEW n \in Int
  PROVE  /\ Take(s, n) \in Seq(S) /\ Len(Take(s, n)) \in Nat /\ Len(Take(s, n)) <= Len(s)
         /\ (n >= 0 => Len(Take(s, n)) = Lesser(n, Len(s)))
         /\ \A i \in 1..Len(Take(s, n)) : Take(s, n)[i] = s[i]
<1> DEFINE m == Lesser(n, Len(s))
<1>1. Len(s) \in Nat /\ m \in Int /\ m <= Len(s) /\ (n >= 0 => m >= 0)
  BY LenProperties, LesserIs
<1>2. Take(s, n) = SubSeq(s, 1, m)
  BY DEF Take
<1> HIDE DEF m
<1>3. /\ SubSeq(s, 1, m) \in Seq(S) /\ Len(SubSeq(s, 1, m)) = IF 1 <= m THEN m - 1 + 1 ELSE 0
      /\ \A i \in 1..m - 1 + 1 : SubSeq(s, 1, m)[i] = s[1 + i - 1]
  BY <1>1, PartIs
<1>4. \A i \in 1..Len(SubSeq(s, 1, m)) : SubSeq(s, 1, m)[i] = s[i]
  <2> SUFFICES ASSUME NEW i \in 1..Len(SubSeq(s, 1, m)) PROVE SubSeq(s, 1, m)[i] = s[i]
    OBVIOUS
  <2>1. i \in 1..m - 1 + 1 /\ 1 + i - 1 = i
    BY <1>1, <1>3
  <2> QED BY <1>3, <2>1
<1>5. Len(SubSeq(s, 1, m)) \in Nat /\ Len(SubSeq(s, 1, m)) <= Len(s) /\ (n >= 0 => Len(SubSeq(s, 1, m)) = m)
  BY <1>1, <1>3
<1> QED BY <1>2, <1>3, <1>4, <1>5 DEF m

\* The letters between two offsets.
LEMMA SliceIs ==
  ASSUME NEW S, NEW s \in Seq(S), NEW b \in Nat, NEW e \in 0..Len(s)
  PROVE  /\ Slice(s, b, e) \in Seq(S) /\ Len(Slice(s, b, e)) = IF b <= e THEN e - b ELSE 0
         /\ \A i \in 1..e - b : Slice(s, b, e)[i] = s[b + i]
<1>1. Len(s) \in Nat /\ e \in Int /\ e <= Len(s) /\ b + 1 \in Nat /\ b + 1 >= 1
  BY LenProperties
<1> DEFINE m == b + 1
<1>2. /\ SubSeq(s, m, e) \in Seq(S) /\ Len(SubSeq(s, m, e)) = IF m <= e THEN e - m + 1 ELSE 0
      /\ \A i \in 1..e - m + 1 : SubSeq(s, m, e)[i] = s[m + i - 1]
  <2> HIDE DEF m
  <2> QED BY <1>1, PartIs DEF m
<1>3. Slice(s, b, e) = SubSeq(s, m, e)
  BY DEF Slice
<1>4. ASSUME NEW i \in 1..e - b PROVE SubSeq(s, m, e)[i] = s[b + i]
  <2>1. i \in 1..e - m + 1 /\ m + i - 1 = b + i
    OBVIOUS
  <2> HIDE DEF m
  <2> QED BY <1>2, <2>1
<1>5. Len(SubSeq(s, m, e)) = IF b <= e THEN e - b ELSE 0
  BY <1>2
<1> QED BY <1>2, <1>3, <1>4, <1>5

\* A syllable that reads letters of an input; syllables that follow each other
\* from an offset to another; a path through all of it.
Syl(in) == [text : Text, from : 0..Len(in), to : 0..Len(in), complete : BOOLEAN]
Spans(in, y) == y.from < y.to /\ \A j \in y.from + 1..y.to : in[j] # Separator
Follows(in, a, b) == b = a \/ (b = a + 1 /\ in[b] = Separator)
Tiled(in, syl, a, b) ==
  /\ syl # <<>> /\ syl[1].from = a /\ syl[Len(syl)].to = b
  /\ \A k \in 1..Len(syl) : Spans(in, syl[k])
  /\ \A k \in 1..Len(syl) - 1 : Follows(in, syl[k].to, syl[k + 1].from)
Tilings(in, a, b) == {syl \in Seq(Syl(in)) : Tiled(in, syl, a, b)}
Rest(in, a, b) == IF a = b THEN {<<>>} ELSE Tilings(in, a, b)
Paths(in) == [syl : Tilings(in, 0, Len(in)), kind : Exact..Abbreviated, extra : Int]
\* Nothing between two offsets is an apostrophe.
Plain(in, a, b) == \A j \in a + 1..b : in[j] # Separator

\* A syllable alone tiles what it spans.
LEMMA OneTiles ==
  ASSUME NEW in, NEW y \in Syl(in), Spans(in, y)
  PROVE  <<y>> \in Tilings(in, y.from, y.to)
<1>1. <<y>> \in Seq(Syl(in)) /\ Len(<<y>>) = 1 /\ <<y>>[1] = y /\ <<y>> # <<>>
  OBVIOUS
<1> QED BY <1>1 DEF Tilings, Tiled

\* Two tilings make one when the second begins where the first ends, or after
\* the apostrophe there.
LEMMA TilingsJoin ==
  ASSUME NEW in, Len(in) \in Nat, NEW a, NEW b, NEW d, NEW e, NEW s \in Tilings(in, a, b), NEW t \in Tilings(in, d, e),
         Follows(in, b, d)
  PROVE  s \o t \in Tilings(in, a, e)
<1> DEFINE S == Syl(in)
           u == s \o t
           m == Len(s)
           n == Len(t)
<1>1. s \in Seq(S) /\ t \in Seq(S) /\ Tiled(in, s, a, b) /\ Tiled(in, t, d, e)
  BY DEF Tilings
<1>2. s # <<>> /\ t # <<>> /\ m \in Nat /\ n \in Nat /\ m >= 1 /\ n >= 1
  BY <1>1, EmptySeq, LenProperties DEF Tiled
<1>3. u \in Seq(S) /\ Len(u) = m + n /\ (\A i \in 1..m : u[i] = s[i]) /\ \A i \in 1..n : u[m + i] = t[i]
  <2> HIDE DEF S
  <2> QED BY <1>1, JoinedAt
<1>4. u # <<>>
  <2>1. Len(u) # 0
    BY <1>2, <1>3
  <2> HIDE DEF u
  <2> QED BY <2>1, EmptySeq
<1> HIDE DEF u, m, n
<1>5. u[1].from = a
  <2>1. 1 \in 1..m
    BY <1>2
  <2>2. u[1] = s[1]
    BY <1>3, <2>1
  <2> QED BY <1>1, <2>2 DEF Tiled
<1>6. u[Len(u)].to = e
  <2>1. n \in 1..n
    BY <1>2
  <2>2. u[m + n] = t[n]
    BY <1>3, <2>1
  <2> QED BY <1>1, <1>3, <2>2 DEF Tiled, n
<1>7. ASSUME NEW k \in 1..m + n PROVE Spans(in, u[k])
  <2>1. CASE k \in 1..m
    BY <1>1, <1>3, <2>1 DEF Tiled, m
  <2>2. CASE k \notin 1..m
    <3> DEFINE i == k - m
    <3>1. i \in 1..n /\ k = m + i
      BY <1>2, <2>2
    <3> HIDE DEF i
    <3>2. u[k] = t[i]
      BY <1>3, <3>1
    <3> QED BY <1>1, <3>1, <3>2 DEF Tiled, n
  <2> QED BY <2>1, <2>2
<1>8. ASSUME NEW k \in 1..m + n - 1 PROVE Follows(in, u[k].to, u[k + 1].from)
  <2>1. CASE k < m
    <3>1. k \in 1..m - 1 /\ k \in 1..m /\ k + 1 \in 1..m
      BY <1>2, <2>1
    <3>2. u[k] = s[k] /\ u[k + 1] = s[k + 1]
      BY <1>3, <3>1
    <3> QED BY <1>1, <3>1, <3>2 DEF Tiled, m
  <2>2. CASE k = m
    <3>1. m \in 1..m /\ 1 \in 1..n
      BY <1>2
    <3>2. u[m] = s[m] /\ u[m + 1] = t[1]
      BY <1>3, <3>1
    <3>3. s[m].to = b /\ t[1].from = d
      BY <1>1 DEF Tiled, m
    <3> QED BY <2>2, <3>2, <3>3
  <2>3. CASE k > m
    <3> DEFINE i == k - m
    <3>1. i \in 1..n - 1 /\ i \in 1..n /\ i + 1 \in 1..n /\ k = m + i /\ k + 1 = m + (i + 1)
      BY <1>2, <2>3
    <3> HIDE DEF i
    <3>2. u[k] = t[i] /\ u[k + 1] = t[i + 1]
      BY <1>3, <3>1
    <3> QED BY <1>1, <3>1, <3>2 DEF Tiled, n
  <2> QED BY <1>2, <2>1, <2>2, <2>3
<1>9. Tiled(in, u, a, e)
  <2>1. \A k \in 1..Len(u) : Spans(in, u[k])
    BY <1>3, <1>7
  <2>2. \A k \in 1..Len(u) - 1 : Follows(in, u[k].to, u[k + 1].from)
    <3> SUFFICES ASSUME NEW k \in 1..Len(u) - 1 PROVE Follows(in, u[k].to, u[k + 1].from)
      OBVIOUS
    <3>1. k \in 1..m + n - 1
      BY <1>2, <1>3
    <3> QED BY <1>8, <3>1
  <2> QED BY <1>4, <1>5, <1>6, <2>1, <2>2 DEF Tiled
<1> QED BY <1>3, <1>9 DEF Tilings, u

\* Where a tiling begins and ends.
LEMMA TilingSpan ==
  ASSUME NEW in, Len(in) \in Nat, NEW a, NEW b, NEW s \in Tilings(in, a, b)
  PROVE  /\ s \in Seq(Syl(in)) /\ Len(s) \in Nat /\ Len(s) >= 1 /\ s # <<>> /\ DOMAIN s = 1..Len(s)
         /\ \A k \in 1..Len(s) : s[k] \in Syl(in) /\ Spans(in, s[k])
         /\ a \in 0..Len(in) /\ b \in 0..Len(in)
<1>1. s \in Seq(Syl(in)) /\ Tiled(in, s, a, b)
  BY DEF Tilings
<1>2. s # <<>> /\ Len(s) \in Nat /\ Len(s) >= 1 /\ DOMAIN s = 1..Len(s)
  BY <1>1, EmptySeq, LenProperties DEF Tiled
<1>3. \A k \in 1..Len(s) : s[k] \in Syl(in)
  BY <1>1, ElementOfSeq
<1>4. 1 \in 1..Len(s) /\ Len(s) \in 1..Len(s)
  BY <1>2
<1>5. s[1] \in Syl(in) /\ s[Len(s)] \in Syl(in)
  BY <1>3, <1>4
<1>6. s[1].from = a /\ s[Len(s)].to = b /\ \A k \in 1..Len(s) : Spans(in, s[k])
  BY <1>1 DEF Tiled
<1> QED BY <1>1, <1>2, <1>3, <1>5, <1>6 DEF Syl

\* One syllable more in front of, or after, what may be nothing.
LEMMA HeadTiles ==
  ASSUME NEW in, Len(in) \in Nat, NEW b, NEW y \in Syl(in), Spans(in, y), NEW t \in Rest(in, y.to, b)
  PROVE  <<y>> \o t \in Tilings(in, y.from, b)
<1>1. <<y>> \in Tilings(in, y.from, y.to)
  BY OneTiles
<1>2. CASE y.to = b
  <2>1. t = <<>> /\ <<y>> \in Seq(Syl(in))
    BY <1>2 DEF Rest
  <2>2. <<y>> \o t = <<y>>
    BY <2>1, ConcatEmptySeq
  <2> QED BY <1>1, <1>2, <2>2
<1>3. CASE y.to # b
  <2>1. t \in Tilings(in, y.to, b) /\ Follows(in, y.to, y.to)
    BY <1>3 DEF Rest, Follows
  <2> QED BY <1>1, <2>1, TilingsJoin
<1> QED BY <1>2, <1>3

\* One more syllable at the end of a tiling makes a longer tiling.
LEMMA LastTiles ==
  ASSUME NEW in, Len(in) \in Nat, NEW a, NEW y \in Syl(in), Spans(in, y), NEW s \in Rest(in, a, y.from)
  PROVE  Append(s, y) \in Tilings(in, a, y.to)
<1>1. <<y>> \in Tilings(in, y.from, y.to)
  BY OneTiles
<1>2. CASE a = y.from
  <2>1. s = <<>>
    BY <1>2 DEF Rest
  <2>2. Append(s, y) = <<y>>
    BY <2>1
  <2> QED BY <1>1, <1>2, <2>2
<1>3. CASE a # y.from
  <2>1. s \in Tilings(in, a, y.from) /\ Follows(in, y.from, y.from)
    BY <1>3 DEF Rest, Follows
  <2>2. s \o <<y>> \in Tilings(in, a, y.to)
    BY <1>1, <2>1, TilingsJoin
  <2>3. Append(s, y) = s \o <<y>>
    BY <2>1, AppendIsConcat DEF Tilings
  <2> QED BY <2>2, <2>3
<1> QED BY <1>2, <1>3

---------------------------------------------------------------------------
(* Rows with different texts *)

\* No two rows of a sequence have the same text; the texts of some rows; rows
\* with different texts that are all among some texts.
Apart(q) == \A i, j \in DOMAIN q : q[i].text = q[j].text => i = j
NamesAt(q, I) == {q[i].text : i \in I}
Named(q, names) == Apart(q) /\ TextsOf(q) \subseteq names

\* Rows with the texts of some others, each once.
LEMMA NamedDrawn ==
  ASSUME NEW q, NEW t, NEW I, NEW f \in [DOMAIN t -> I],
         \A i, j \in I : q[i].text = q[j].text => i = j,
         \A i, j \in DOMAIN t : f[i] = f[j] => i = j,
         \A i \in DOMAIN t : t[i].text = q[f[i]].text
  PROVE  Named(t, NamesAt(q, I))
<1>1. \A i \in DOMAIN t : f[i] \in I
  OBVIOUS
<1>2. Apart(t)
  BY <1>1 DEF Apart
<1>3. TextsOf(t) \subseteq NamesAt(q, I)
  BY <1>1 DEF TextsOf, NamesAt
<1> QED BY <1>2, <1>3 DEF Named

\* Rows at different places have different texts.
LEMMA NamesApart ==
  ASSUME NEW q, Apart(q), NEW I, NEW J, I \subseteq DOMAIN q, J \subseteq DOMAIN q, I \cap J = {}
  PROVE  NamesAt(q, I) \cap NamesAt(q, J) = {}
BY DEF Apart, NamesAt

\* Rows at some places have texts that the sequence has.
LEMMA NamesAmong ==
  ASSUME NEW q, NEW I, I \subseteq DOMAIN q
  PROVE  NamesAt(q, I) \subseteq TextsOf(q)
BY DEF NamesAt, TextsOf

\* The rows at some places, if these have different texts.
LEMMA NamedSome ==
  ASSUME NEW S, NEW q \in Seq(S), NEW places \in SUBSET DOMAIN q,
         \A i, j \in places : q[i].text = q[j].text => i = j
  PROVE  Named(Those(q, places), NamesAt(q, places)) /\ NamesAt(q, places) \subseteq TextsOf(q)
<1> DEFINE n == Cardinality(places)
           t == Those(q, places)
           f == [k \in 1..n |-> Place(places, k)]
<1>1. IsFiniteSet(places) /\ n \in Nat /\ places \subseteq Int
  BY SomePlaces
<1>2. t = [k \in 1..n |-> q[Place(places, k)]]
  BY DEF Those
<1> HIDE DEF n, t
<1>3. \A k \in 1..n : Place(places, k) \in places /\ Cardinality({j \in places : j < Place(places, k)}) = k - 1
  BY <1>1, PlaceIn DEF n
<1>4. DOMAIN t = 1..n /\ \A k \in 1..n : t[k] = q[f[k]]
  BY <1>2
<1>5. f \in [DOMAIN t -> places]
  BY <1>3, <1>4
<1>6. \A i, j \in DOMAIN t : f[i] = f[j] => i = j
  <2> SUFFICES ASSUME NEW i \in 1..n, NEW j \in 1..n, Place(places, i) = Place(places, j) PROVE i = j
    BY <1>4
  <2> DEFINE c == Cardinality({p \in places : p < Place(places, i)})
  <2>1. c = i - 1 /\ c = j - 1
    BY <1>3
  <2> HIDE DEF c
  <2> QED BY <1>1, <2>1
<1> HIDE DEF f
<1>7. Named(t, NamesAt(q, places))
  BY <1>4, <1>5, <1>6, NamedDrawn
<1> QED BY <1>7, NamesAmong DEF t

\* The rows at some places of a sequence without repeated texts.
LEMMA NamedThose ==
  ASSUME NEW S, NEW q \in Seq(S), Apart(q), NEW places \in SUBSET DOMAIN q
  PROVE  Named(Those(q, places), NamesAt(q, places)) /\ NamesAt(q, places) \subseteq TextsOf(q)
<1>1. \A i, j \in places : q[i].text = q[j].text => i = j
  BY DEF Apart
<1> QED BY <1>1, NamedSome

\* Rows that follow each other.
LEMMA NamedPart ==
  ASSUME NEW S, NEW q \in Seq(S), Apart(q), NEW m \in Nat, m >= 1, NEW n \in Int, n <= Len(q)
  PROVE  /\ Named(SubSeq(q, m, n), NamesAt(q, m..n)) /\ m..n \subseteq DOMAIN q
         /\ NamesAt(q, m..n) \subseteq TextsOf(q)
<1> DEFINE t == SubSeq(q, m, n)
           f == [i \in DOMAIN t |-> m + i - 1]
           l == n - m + 1
<1>1. Len(t) = (IF m <= n THEN l ELSE 0) /\ \A i \in 1..l : t[i] = q[m + i - 1]
  BY PartIs
<1>2. DOMAIN t = 1..Len(t) /\ DOMAIN q = 1..Len(q) /\ Len(q) \in Nat
  BY PartIs, LenProperties
<1> HIDE DEF t
<1>3. \A i \in DOMAIN t : i \in 1..l /\ m + i - 1 \in m..n
  BY <1>1, <1>2
<1>4. m..n \subseteq DOMAIN q
  BY <1>2
<1>5. f \in [DOMAIN t -> m..n] /\ (\A i \in DOMAIN t : t[i] = q[f[i]]) /\ \A i, j \in DOMAIN t : f[i] = f[j] => i = j
  BY <1>1, <1>3
<1> HIDE DEF f
<1>6. Named(t, NamesAt(q, m..n))
  <2>1. \A i, j \in m..n : q[i].text = q[j].text => i = j
    BY <1>4 DEF Apart
  <2> QED BY <1>5, <2>1, NamedDrawn
<1> QED BY <1>4, <1>6, NamesAmong DEF t

\* The first rows.
LEMMA NamedTake ==
  ASSUME NEW S, NEW q \in Seq(S), NEW names, Named(q, names), NEW n \in Int
  PROVE  Named(Take(q, n), names)
<1> DEFINE m == 1
           l == Lesser(n, Len(q))
<1>1. Len(q) \in Nat
  BY LenProperties
<1>2. m \in Nat /\ m >= 1 /\ l \in Int /\ l <= Len(q)
  BY <1>1, LesserIs
<1>3. Take(q, n) = SubSeq(q, m, l)
  BY DEF Take
<1> HIDE DEF m, l
<1>4. Named(SubSeq(q, m, l), NamesAt(q, m..l)) /\ NamesAt(q, m..l) \subseteq TextsOf(q)
  BY <1>2, NamedPart DEF Named
<1> QED BY <1>3, <1>4 DEF Named

\* The first rows, and the rows after them.
LEMMA NamedCut ==
  ASSUME NEW S, NEW q \in Seq(S), Apart(q), NEW n \in Nat
  PROVE  \E A, B : /\ Named(Take(q, n), A) /\ Named(SubSeq(q, n + 1, Len(q)), B)
                   /\ A \cap B = {} /\ A \cup B \subseteq TextsOf(q)
<1> DEFINE m == 1
           k == n + 1
           l == Len(q)
           o == Lesser(n, l)
           A == NamesAt(q, m..o)
           B == NamesAt(q, k..l)
<1>1. Take(q, n) = SubSeq(q, m, o) /\ l \in Nat /\ DOMAIN q = 1..l
  BY LenProperties DEF Take
<1>2. m \in Nat /\ m >= 1 /\ k \in Nat /\ k >= 1 /\ l \in Int /\ l <= Len(q)
  BY <1>1
<1>3. o \in Int /\ o <= l /\ o <= n
  BY <1>1, LesserIs DEF Lesser
<1>4. (m..o) \cap (k..l) = {}
  <2> HIDE DEF o, l
  <2> QED BY <1>1, <1>3
<1> HIDE DEF m, k, l, o
<1>5. Named(SubSeq(q, m, o), A) /\ m..o \subseteq DOMAIN q /\ A \subseteq TextsOf(q)
  <2>1. o <= Len(q)
    BY <1>3 DEF l
  <2> QED BY <1>2, <1>3, <2>1, NamedPart
<1>6. Named(SubSeq(q, k, l), B) /\ k..l \subseteq DOMAIN q /\ B \subseteq TextsOf(q)
  BY <1>2, NamedPart
<1>7. A \cap B = {}
  BY <1>4, <1>5, <1>6, NamesApart
<1> QED BY <1>1, <1>5, <1>6, <1>7 DEF k, l

\* The first rows, the next ones and the last ones.
Parted(q, x, y, z) ==
  \E A, B, C : /\ Named(x, A) /\ Named(y, B) /\ Named(z, C)
               /\ A \cap B = {} /\ A \cap C = {} /\ B \cap C = {}
               /\ A \subseteq TextsOf(q) /\ B \subseteq TextsOf(q) /\ C \subseteq TextsOf(q)
\* The three parts of a sequence cut at two places.
LEMMA NamedCutTwice ==
  ASSUME NEW S, NEW q \in Seq(S), Apart(q), NEW k \in Nat, NEW m \in Nat, k + m <= Len(q)
  PROVE  Parted(q, Take(q, k), SubSeq(q, k + 1, k + m), SubSeq(q, k + m + 1, Len(q)))
<1> DEFINE one == 1
           b == k + 1
           c == k + m
           d == k + m + 1
           l == Len(q)
           A == NamesAt(q, one..k)
           B == NamesAt(q, b..c)
           C == NamesAt(q, d..l)
<1>1. Take(q, k) = SubSeq(q, one, k) /\ l \in Nat
  <2>1. Len(q) \in Nat
    BY LenProperties
  <2>2. Lesser(k, Len(q)) = k
    BY <2>1 DEF Lesser
  <2> QED BY <2>1, <2>2 DEF Take
<1>2. /\ one \in Nat /\ one >= 1 /\ k \in Int /\ k <= Len(q)
      /\ b \in Nat /\ b >= 1 /\ c \in Int /\ c <= Len(q)
      /\ d \in Nat /\ d >= 1 /\ l \in Int /\ l <= Len(q)
  BY <1>1
<1>3. (one..k) \cap (b..c) = {} /\ (one..k) \cap (d..l) = {} /\ (b..c) \cap (d..l) = {}
  BY <1>1
<1> HIDE DEF one, b, c, d, l
<1>4. Named(SubSeq(q, one, k), A) /\ one..k \subseteq DOMAIN q /\ A \subseteq TextsOf(q)
  BY <1>2, NamedPart
<1>5. Named(SubSeq(q, b, c), B) /\ b..c \subseteq DOMAIN q /\ B \subseteq TextsOf(q)
  BY <1>2, NamedPart
<1>6. Named(SubSeq(q, d, l), C) /\ d..l \subseteq DOMAIN q /\ C \subseteq TextsOf(q)
  BY <1>2, NamedPart
<1>7. A \cap B = {} /\ A \cap C = {} /\ B \cap C = {}
  BY <1>3, <1>4, <1>5, <1>6, NamesApart
<1> HIDE DEF A, B, C
<1>8. Parted(q, SubSeq(q, one, k), SubSeq(q, b, c), SubSeq(q, d, l))
  BY <1>4, <1>5, <1>6, <1>7 DEF Parted
<1> QED BY <1>1, <1>8 DEF b, c, d, l

\* The rows in another order.
LEMMA NamedSorted ==
  ASSUME NEW S, NEW q \in Seq(S), NEW names, Named(q, names), NEW before
  PROVE  Named(SortedBy(q, before), names)
<1> DEFINE t == SortedBy(q, before)
           I == DOMAIN q
<1>1. PICK c : Rearranges(t, q, c)
  BY SortedIs
<1> HIDE DEF t
<1>2. DOMAIN t = I /\ c \in [DOMAIN t -> I] /\ (\A i, j \in DOMAIN t : c[i] = c[j] => i = j)
      /\ \A i \in DOMAIN t : t[i].text = q[c[i]].text
  BY <1>1 DEF Rearranges
<1>3. \A i, j \in I : q[i].text = q[j].text => i = j
  BY DEF Named, Apart
<1>4. NamesAt(q, I) \subseteq TextsOf(q)
  BY NamesAmong
<1> HIDE DEF I
<1>5. Named(t, NamesAt(q, I))
  BY <1>2, <1>3, NamedDrawn
<1> QED BY <1>4, <1>5 DEF Named, t

\* The rows with other scores.
LEMMA NamedAlike ==
  ASSUME NEW q, NEW names, Named(q, names), NEW t, DOMAIN t = DOMAIN q, \A i \in DOMAIN q : t[i].text = q[i].text
  PROVE  Named(t, names)
BY DEF Named, Apart, TextsOf

\* Rows that follow others with other texts.
LEMMA NamedJoined ==
  ASSUME NEW S, NEW a \in Seq(S), NEW b \in Seq(S), NEW A, NEW B, Named(a, A), Named(b, B), A \cap B = {}
  PROVE  a \o b \in Seq(S) /\ Named(a \o b, A \cup B)
<1> DEFINE t == a \o b
           l == Len(a)
           n == Len(b)
<1>1. /\ t \in Seq(S) /\ Len(t) = l + n /\ l \in Nat /\ n \in Nat
      /\ (\A i \in 1..l : t[i] = a[i]) /\ \A i \in 1..n : t[l + i] = b[i]
  BY JoinedAt
<1>2. DOMAIN a = 1..l /\ DOMAIN b = 1..n
  BY LenProperties
<1> HIDE DEF t, l, n
<1>3. DOMAIN t = 1..l + n
  BY <1>1, LenProperties
<1>4. \A i \in DOMAIN t : \/ i \in DOMAIN a /\ t[i] = a[i]
                          \/ i - l \in DOMAIN b /\ t[i] = b[i - l] /\ i \in Int
  <2> SUFFICES ASSUME NEW i \in DOMAIN t PROVE \/ i \in DOMAIN a /\ t[i] = a[i]
                                               \/ i - l \in DOMAIN b /\ t[i] = b[i - l] /\ i \in Int
    OBVIOUS
  <2>1. CASE i <= l
    BY <1>1, <1>2, <1>3, <2>1
  <2>2. CASE ~ (i <= l)
    <3> DEFINE j == i - l
    <3>1. j \in 1..n /\ i = l + j /\ i \in Int
      BY <1>1, <1>3, <2>2
    <3> HIDE DEF j
    <3>2. t[i] = b[j]
      BY <1>1, <3>1
    <3> QED BY <1>2, <3>1, <3>2 DEF j
  <2> QED BY <2>1, <2>2
<1>5. \A i \in DOMAIN a : a[i].text \in A /\ a[i].text \notin B
  BY DEF Named, TextsOf
<1>6. \A i \in DOMAIN b : b[i].text \in B /\ b[i].text \notin A
  BY DEF Named, TextsOf
<1>7. Apart(t)
  <2> SUFFICES ASSUME NEW i \in DOMAIN t, NEW j \in DOMAIN t, t[i].text = t[j].text PROVE i = j
    BY DEF Apart
  <2>1. CASE i \in DOMAIN a /\ t[i] = a[i] /\ j \in DOMAIN a /\ t[j] = a[j]
    BY <2>1 DEF Named, Apart
  <2>2. CASE i - l \in DOMAIN b /\ t[i] = b[i - l] /\ j - l \in DOMAIN b /\ t[j] = b[j - l]
    <3>1. i - l = j - l
      BY <2>2 DEF Named, Apart
    <3> QED BY <1>1, <1>3, <3>1
  <2>3. CASE i \in DOMAIN a /\ t[i] = a[i] /\ j - l \in DOMAIN b /\ t[j] = b[j - l]
    BY <1>5, <1>6, <2>3
  <2>4. CASE i - l \in DOMAIN b /\ t[i] = b[i - l] /\ j \in DOMAIN a /\ t[j] = a[j]
    BY <1>5, <1>6, <2>4
  <2> QED BY <1>4, <2>1, <2>2, <2>3, <2>4
<1>8. TextsOf(t) \subseteq A \cup B
  BY <1>4, <1>5, <1>6 DEF TextsOf
<1> QED BY <1>1, <1>7, <1>8 DEF Named, t

\* No rows, and one.
LEMMA NamedNone ==
  ASSUME NEW names
  PROVE  Named(<<>>, names)
BY DEF Named, Apart, TextsOf

\* A row alone.
LEMMA NamedOne ==
  ASSUME NEW x
  PROVE  Named(<<x>>, {x.text})
BY DEF Named, Apart, TextsOf

---------------------------------------------------------------------------
(* One chunk between apostrophes *)

FoundIn(in, from, to) == [syl : Rest(in, from, to), incomplete : BOOLEAN, node : Nat]
NodesIn(in, from, to) == [nodes : Nat, found : Seq(FoundIn(in, from, to))]

\* The ends that the search tries from an offset lie after it.
LEMMA EndsAre ==
  ASSUME NEW in, NEW from \in Nat, NEW to \in Nat, from <= to
  PROVE  Ends(in, from, to) \in Seq(from + 1..to)
<1> DEFINE most == Lesser(6, to - from)
           v(k) == from + most + 1 - k
           s == [k \in 1..most |-> v(k)]
<1>1. most \in Nat /\ most <= to - from
  BY LesserIs
<1>2. Ends(in, from, to) = Those(s, {i \in DOMAIN s : IsComplete(Slice(in, from, s[i]))})
  BY DEF Ends, Selected
<1> HIDE DEF most
<1>3. \A k \in 1..most : v(k) \in from + 1..to
  BY <1>1
<1>4. s \in Seq(from + 1..to)
  <2> HIDE DEF v
  <2> QED BY <1>1, <1>3, IsASeq
<1> HIDE DEF s
<1>5. {i \in DOMAIN s : IsComplete(Slice(in, from, s[i]))} \in SUBSET DOMAIN s
  OBVIOUS
<1> QED BY <1>2, <1>4, <1>5, ThoseAre

\* What one node of the search finds, from what it finds behind each end.
LEMMA BelowIs ==
  ASSUME NEW in \in Seq(Chars), NEW from \in 0..Len(in), NEW to \in from + 1..Len(in), Plain(in, from, to),
         NEW ends \in Seq(from + 1..to), NEW sub, \A k \in 1..Len(ends) : sub[k] \in NodesIn(in, ends[k], to)
  PROVE  Below(in, from, to, ends, sub) \in NodesIn(in, from, to)
<1> DEFINE First(k) == 1 + Total([j \in 1..k - 1 |-> sub[j].nodes])
           head(k) == Syllable(Slice(in, from, ends[k]), from, ends[k], TRUE)
           With(p, k) == [p EXCEPT !.syl = <<head(k)>> \o @, !.node = First(k) + @]
           found(k) == [i \in DOMAIN sub[k].found |-> With(sub[k].found[i], k)]
           rest == Slice(in, from, to)
           last == [syl |-> <<Syllable(rest, from, to, FALSE)>>, incomplete |-> TRUE, node |-> 0]
           F == FoundIn(in, from, to)
           n == Len(ends)
           all == [k \in DOMAIN ends |-> found(k)]
           tail == IF IsUnfinished(rest) THEN <<last>> ELSE <<>>
<1>1. /\ Len(in) \in Nat /\ from \in Nat /\ to \in Nat /\ to <= Len(in) /\ from < to
      /\ n \in Nat /\ DOMAIN ends = 1..n /\ \A k \in 1..n : ends[k] \in from + 1..to
  BY LenProperties, ElementOfSeq
<1>2. Below(in, from, to, ends, sub) = [nodes |-> First(n + 1), found |-> FlattenSeq(all) \o tail]
  BY DEF Below, MapSeq
<1> HIDE DEF n
<1>3. ASSUME NEW k \in 1..n + 1 PROVE First(k) \in Nat
  <2> DEFINE v(j) == sub[j].nodes
  <2>1. \A j \in 1..k - 1 : j \in 1..n
    BY <1>1
  <2>2. \A j \in 1..k - 1 : v(j) \in Nat
    BY <2>1 DEF NodesIn, n
  <2>3. k - 1 \in Nat
    BY <1>1
  <2>4. [j \in 1..k - 1 |-> v(j)] \in Seq(Nat)
    <3> HIDE DEF v
    <3> QED BY <2>2, <2>3, IsASeq
  <2>5. Total([j \in 1..k - 1 |-> v(j)]) \in Nat
    <3> HIDE DEF v
    <3> QED BY <2>4, TotalIs
  <2> QED BY <2>5
<1> HIDE DEF First
<1>4. ASSUME NEW e \in from + 1..to, NEW complete \in BOOLEAN
      PROVE  /\ Syllable(Slice(in, from, e), from, e, complete) \in Syl(in)
             /\ Spans(in, Syllable(Slice(in, from, e), from, e, complete))
  <2>1. e \in 0..Len(in) /\ from < e /\ \A j \in from + 1..e : in[j] # Separator
    BY <1>1 DEF Plain
  <2>2. Slice(in, from, e) \in Seq(Chars)
    BY <1>1, <2>1, SliceIs
  <2>3. Slice(in, from, e) \in Text
    BY <2>2, CharsAre
  <2> QED BY <2>1, <2>3 DEF Syl, Spans, Syllable
<1>5. ASSUME NEW k \in 1..n PROVE found(k) \in Seq(F)
  <2> DEFINE s == sub[k].found
             e == ends[k]
  <2>1. s \in Seq(FoundIn(in, e, to)) /\ e \in from + 1..to /\ e \in Nat
    BY <1>1 DEF NodesIn, n
  <2>2. head(k) \in Syl(in) /\ Spans(in, head(k))
    BY <1>4, <2>1
  <2>3. head(k).from = from /\ head(k).to = e
    BY DEF Syllable
  <2>4. First(k) \in Nat
    BY <1>3, <1>1
  <2> HIDE DEF s, e, head
  <2>5. ASSUME NEW p \in FoundIn(in, e, to) PROVE With(p, k) \in F
    <3>1. <<head(k)>> \o p.syl \in Tilings(in, from, to)
      <4>1. p.syl \in Rest(in, e, to)
        BY DEF FoundIn
      <4> QED BY <1>1, <2>2, <2>3, <4>1, HeadTiles
    <3>2. <<head(k)>> \o p.syl \in Rest(in, from, to)
      BY <1>1, <3>1 DEF Rest
    <3>3. First(k) + p.node \in Nat
      BY <2>4 DEF FoundIn
    <3> DEFINE x == <<head(k)>> \o p.syl
               y == First(k) + p.node
    <3>4. With(p, k) = [p EXCEPT !.syl = x, !.node = y]
      OBVIOUS
    <3> DEFINE A == Rest(in, from, to)
               E == Rest(in, e, to)
    <3>5. p \in [syl : E, incomplete : BOOLEAN, node : Nat] /\ x \in A /\ y \in Nat
      BY <3>2, <3>3 DEF FoundIn
    <3> HIDE DEF x, y, With, A, E
    <3>6. [p EXCEPT !.syl = x, !.node = y] \in [syl : A, incomplete : BOOLEAN, node : Nat]
      BY <3>5
    <3> QED BY <3>4, <3>6 DEF A, FoundIn
  <2> HIDE DEF With
  <2>6. \A i \in DOMAIN s : s[i] \in FoundIn(in, e, to)
    BY <2>1, LenProperties
  <2>7. [i \in DOMAIN s |-> With(s[i], k)] \in [DOMAIN s -> F]
    BY <2>5, <2>6
  <2>8. [i \in DOMAIN s |-> With(s[i], k)] \in Seq(F)
    BY <2>1, <2>7, MapsTo
  <2> QED BY <2>8 DEF s
<1> HIDE DEF found
<1>6. all \in Seq(Seq(F))
  <2>1. all \in [DOMAIN ends -> Seq(F)]
    BY <1>1, <1>5
  <2> HIDE DEF all
  <2> QED BY <2>1, MapsTo
<1>7. tail \in Seq(F)
  <2>1. to \in from + 1..to /\ FALSE \in BOOLEAN
    BY <1>1
  <2> DEFINE y == Syllable(rest, from, to, FALSE)
  <2>2. y \in Syl(in) /\ Spans(in, y) /\ y.from = from /\ y.to = to
    BY <1>4, <2>1 DEF Syllable
  <2> HIDE DEF y
  <2>3. <<y>> \in Tilings(in, from, to)
    BY <2>2, OneTiles
  <2>4. <<y>> \in Rest(in, from, to)
    BY <1>1, <2>3 DEF Rest
  <2>5. [syl |-> <<y>>, incomplete |-> TRUE, node |-> 0] \in F
    BY <2>4 DEF FoundIn
  <2>6. last \in F
    BY <2>5 DEF y
  <2> HIDE DEF last, F
  <2>7. <<last>> \in Seq(F) /\ <<>> \in Seq(F)
    BY <2>6, EmptySeq
  <2> QED BY <2>7
<1> HIDE DEF all, tail, F
<1>8. FlattenSeq(all) \o tail \in Seq(F)
  BY <1>6, <1>7, FlattenIs, ConcatProperties
<1>9. First(n + 1) \in Nat
  BY <1>1, <1>3
<1> QED BY <1>2, <1>8, <1>9 DEF NodesIn, F

\* The depth-first search over a chunk: what it finds below a node are readings
\* of the letters from there to the end of the chunk.
LEMMA VisitIs ==
  ASSUME NEW in \in Seq(Chars), NEW start \in 0..Len(in), NEW to \in start..Len(in), Plain(in, start, to)
  PROVE  Visit(in, start, to) \in NodesIn(in, start, to)
<1> DEFINE Empty == [nodes |-> 1, found |-> <<[syl |-> <<>>, incomplete |-> FALSE, node |-> 0]>>]
           Body(f, x) == IF x = to THEN Empty
                         ELSE Below(in, x, to, Ends(in, x, to), [k \in DOMAIN Ends(in, x, to) |-> f[Ends(in, x, to)[k]]])
           T == [x \in start..to |-> NodesIn(in, x, to)]
           V == UNION {NodesIn(in, x, to) : x \in start..to}
           H == UNION {[x + 1..to -> V] : x \in start..to}
           step == [p \in (start..to) \X H |-> Body(p[2], p[1])]
           F == CHOOSE f : f = [x \in start..to |-> Body(f, x)]
<1>1. Len(in) \in Nat /\ start \in Nat /\ to \in Nat /\ start <= to /\ to <= Len(in)
  BY LenProperties
<1>2. Visit(in, start, to) = F[start]
  BY DEF Visit
<1>3. Empty \in NodesIn(in, to, to)
  <2>1. [syl |-> <<>>, incomplete |-> FALSE, node |-> 0] \in FoundIn(in, to, to)
    BY DEF FoundIn, Rest
  <2> DEFINE z == [syl |-> <<>>, incomplete |-> FALSE, node |-> 0]
             Z == FoundIn(in, to, to)
  <2>2. z \in Z
    BY <2>1
  <2> HIDE DEF z, Z
  <2>3. <<z>> \in Seq(Z)
    BY <2>2
  <2> QED BY <2>3 DEF z, Z, NodesIn
<1> HIDE DEF Empty
<1>4. ASSUME NEW x \in start..to PROVE x \in Nat /\ x <= to /\ Ends(in, x, to) \in Seq(x + 1..to)
                                      /\ DOMAIN Ends(in, x, to) = 1..Len(Ends(in, x, to))
                                      /\ \A k \in DOMAIN Ends(in, x, to) : Ends(in, x, to)[k] \in x + 1..to
  <2>1. x \in Nat /\ x <= to
    BY <1>1
  <2>2. Ends(in, x, to) \in Seq(x + 1..to)
    BY <1>1, <2>1, EndsAre
  <2> DEFINE e == Ends(in, x, to)
             S == x + 1..to
  <2> HIDE DEF e, S
  <2>3. e \in Seq(S)
    BY <2>2 DEF e, S
  <2>4. DOMAIN e = 1..Len(e) /\ \A k \in DOMAIN e : e[k] \in S
    BY <2>3, LenProperties, ElementOfSeq
  <2> QED BY <2>1, <2>2, <2>4 DEF e, S
<1>5. ASSUME NEW x \in start..to, NEW f, \A y \in x + 1..to : f[y] \in NodesIn(in, y, to)
      PROVE  Body(f, x) \in NodesIn(in, x, to)
  <2>1. CASE x = to
    BY <1>3, <2>1
  <2>2. CASE x # to
    <3> DEFINE e == Ends(in, x, to)
               sub == [k \in DOMAIN e |-> f[e[k]]]
    <3>1. x \in 0..Len(in) /\ to \in x + 1..Len(in) /\ Plain(in, x, to)
      BY <1>1, <1>4, <2>2 DEF Plain
    <3>2. e \in Seq(x + 1..to) /\ DOMAIN e = 1..Len(e) /\ \A k \in DOMAIN e : e[k] \in x + 1..to
      BY <1>4
    <3> HIDE DEF e
    <3>3. \A k \in 1..Len(e) : sub[k] \in NodesIn(in, e[k], to)
      BY <1>5, <3>2
    <3> HIDE DEF sub
    <3>4. Below(in, x, to, e, sub) \in NodesIn(in, x, to)
      BY <3>1, <3>2, <3>3, BelowIs
    <3> QED BY <2>2, <3>4 DEF e, sub
  <2> QED BY <2>1, <2>2
<1>6. ASSUME NEW x \in start..to, NEW f, NEW h, \A y \in x + 1..to : f[y] = h[y]
      PROVE  Body(f, x) = Body(h, x)
  <2> DEFINE e == Ends(in, x, to)
  <2>1. \A k \in DOMAIN e : e[k] \in x + 1..to
    BY <1>4
  <2> HIDE DEF e
  <2>2. [k \in DOMAIN e |-> f[e[k]]] = [k \in DOMAIN e |-> h[e[k]]]
    BY <1>6, <2>1
  <2> QED BY <2>2 DEF e
<1> HIDE DEF Body
<1>7. \A x \in start..to : \A h : DOMAIN h = x + 1..to /\ h = [y \in x + 1..to |-> h[y]] /\ (\A y \in x + 1..to : h[y] \in T[y])
                                    => step[<<x, h>>] \in T[x] /\ step[<<x, h>>] = Body(h, x)
  <2> SUFFICES ASSUME NEW x \in start..to, NEW h, h = [y \in x + 1..to |-> h[y]], \A y \in x + 1..to : h[y] \in T[y]
               PROVE  step[<<x, h>>] \in T[x] /\ step[<<x, h>>] = Body(h, x)
    OBVIOUS
  <2>1. \A y \in x + 1..to : y \in start..to
    BY <1>1
  <2>2. \A y \in x + 1..to : h[y] \in NodesIn(in, y, to)
    BY <2>1
  <2>3. \A y \in x + 1..to : h[y] \in V
    BY <2>1, <2>2
  <2>4. h \in H
    <3> HIDE DEF V
    <3>1. h \in [x + 1..to -> V]
      BY <2>3
    <3> QED BY <3>1
  <2> HIDE DEF H, V
  <2>5. step[<<x, h>>] = Body(h, x)
    BY <2>4
  <2> HIDE DEF step
  <2>6. Body(h, x) \in NodesIn(in, x, to)
    BY <1>5, <2>2
  <2> QED BY <2>5, <2>6
<1>8. PICK g : Regressive(g, start, to, step) /\ \A x \in start..to : g[x] \in T[x]
  <2> HIDE DEF T, step
  <2> QED BY <1>1, <1>7, DownwardDefined
<1>9. ASSUME NEW x \in start..to PROVE g[x] = Body(g, x)
  <2> DEFINE h == [y \in x + 1..to |-> g[y]]
  <2>1. g[x] = step[<<x, h>>]
    BY <1>8 DEF Regressive
  <2>2. \A y \in x + 1..to : y \in start..to
    BY <1>1
  <2>3. DOMAIN h = x + 1..to /\ h = [y \in x + 1..to |-> h[y]] /\ \A y \in x + 1..to : h[y] \in T[y]
    BY <1>8, <2>2
  <2> HIDE DEF step, T
  <2>4. step[<<x, h>>] = Body(h, x)
    <3> HIDE DEF h
    <3> QED BY <1>7, <2>3
  <2>5. \A y \in x + 1..to : g[y] = h[y]
    OBVIOUS
  <2>6. Body(g, x) = Body(h, x)
    <3> HIDE DEF h
    <3> QED BY <1>6, <2>5
  <2> QED BY <2>1, <2>4, <2>6
<1>10. g = [x \in start..to |-> Body(g, x)]
  <2>1. g = [x \in start..to |-> g[x]]
    BY <1>8 DEF Regressive
  <2> QED BY <1>9, <2>1
<1>11. F = [x \in start..to |-> Body(F, x)]
  BY <1>10, Zenon
<1> HIDE DEF F
<1>12. \A x \in start..to : F[x] = Body(F, x)
  BY <1>11, Zenon
<1> DEFINE A == {x \in start..to : F[x] \in NodesIn(in, x, to)}
<1>13. \A x \in start..to : x \in A
  <2>1. ASSUME NEW x \in start..to, \A y \in x + 1..to : y \in A PROVE x \in A
    <3>1. Body(F, x) \in NodesIn(in, x, to)
      BY <1>5, <2>1
    <3> QED BY <1>12, <3>1
  <2> HIDE DEF A
  <2> QED BY <1>1, <2>1, DownTo
<1>14. start \in A
  BY <1>1, <1>13
<1> QED BY <1>2, <1>14

\* A chunk ends at an apostrophe or at the end of the input.
LEMMA ChunkEndIs ==
  ASSUME NEW in \in Seq(Chars), NEW from \in 0..Len(in)
  PROVE  /\ ChunkEnd(in, from) \in from..Len(in) /\ Plain(in, from, ChunkEnd(in, from))
         /\ ChunkEnd(in, from) # Len(in) => in[ChunkEnd(in, from) + 1] = Separator
<1> DEFINE marks == {k \in from..Len(in) - 1 : in[k + 1] = Separator}
           to == ChunkEnd(in, from)
<1>1. Len(in) \in Nat /\ from \in Nat /\ from <= Len(in)
  BY LenProperties
<1>2. to = IF marks = {} THEN Len(in) ELSE CHOOSE k \in marks : \A l \in marks : k <= l
  BY DEF ChunkEnd
<1> HIDE DEF to
<1>3. ASSUME NEW t \in from..Len(in), \A k \in marks : t <= k PROVE Plain(in, from, t)
  <2> SUFFICES ASSUME NEW j \in from + 1..t, in[j] = Separator PROVE FALSE
    BY DEF Plain
  <2>1. j - 1 \in from..Len(in) - 1 /\ j - 1 + 1 = j /\ ~ (t <= j - 1)
    BY <1>1
  <2>2. j - 1 \in marks
    BY <2>1
  <2> HIDE DEF marks
  <2> QED BY <1>3, <2>1, <2>2
<1>4. CASE marks = {}
  <2>1. to = Len(in)
    BY <1>2, <1>4
  <2> HIDE DEF marks
  <2>2. Len(in) \in from..Len(in) /\ \A k \in marks : Len(in) <= k
    <3>1. Len(in) \in from..Len(in)
      BY <1>1
    <3> QED BY <1>4, <3>1
  <2>3. Plain(in, from, Len(in))
    BY <1>3, <2>2
  <2> QED BY <2>1, <2>2, <2>3 DEF to
<1>5. CASE marks # {}
  <2>1. marks \subseteq Nat
    BY <1>1
  <2>2. \A k \in marks : k \in from..Len(in) /\ in[k + 1] = Separator
    BY <1>1
  <2> HIDE DEF marks
  <2>3. PICK m \in marks : \A k \in marks : ~ (k < m)
    BY <1>5, <2>1, LeastNumber
  <2>4. \A k \in marks : m <= k
    BY <2>1, <2>3
  <2>5. to \in marks /\ \A k \in marks : to <= k
    BY <1>2, <1>5, <2>4, Zenon
  <2>6. Plain(in, from, to)
    BY <1>3, <2>2, <2>5
  <2> QED BY <2>2, <2>5, <2>6 DEF to
<1> QED BY <1>4, <1>5

\* The readings of a chunk.
LEMMA ChunkPathsAre ==
  ASSUME NEW in \in Seq(Chars), NEW from \in 0..Len(in), NEW to \in from..Len(in), Plain(in, from, to),
         NEW budget \in Nat, NEW cut
  PROVE  ChunkPaths(in, from, to, budget, cut) \in Seq(FoundIn(in, from, to))
<1> DEFINE F == FoundIn(in, from, to)
           all == Visit(in, from, to).found
           limit == IF to - from >= LongInput THEN WideBudget ELSE budget
           uncut == Those(all, {i \in DOMAIN all : all[i].node < cut})
           found == Take(uncut, limit)
           shortest == Shortest(found, to - from)
           less == {p \in (DOMAIN shortest) \X (DOMAIN shortest) : ChunkLess(shortest[p[1]], shortest[p[2]])}
<1>1. ChunkPaths(in, from, to, budget, cut) = Take(SortedBy(shortest, less), budget)
  BY DEF ChunkPaths, Sorted, Selected
<1>2. all \in Seq(F)
  BY VisitIs DEF NodesIn
<1>3. limit \in Int /\ budget \in Int
  BY SchemaConstants
<1> HIDE DEF F, all, limit
<1>4. uncut \in Seq(F)
  <2>1. {i \in DOMAIN all : all[i].node < cut} \in SUBSET DOMAIN all
    OBVIOUS
  <2> QED BY <1>2, <2>1, ThoseAre
<1> HIDE DEF uncut
<1>5. found \in Seq(F)
  BY <1>3, <1>4, TakeIs
<1> HIDE DEF found
<1>6. shortest \in Seq(F)
  <2> DEFINE sizes == {Len(p.syl) : p \in {q \in ToSet(found) : ~q.incomplete}}
             fewest == Fewest(sizes)
             letters == to - from
             kept == Those(found, {i \in DOMAIN found : Len(found[i].syl) <= fewest
                                                        /\ ~ (fewest = 1 /\ letters > 1 /\ found[i].incomplete)})
  <2>1. shortest = IF sizes = {} THEN found ELSE kept
    BY DEF Shortest, NoLonger, Selected
  <2> HIDE DEF fewest
  <2>2. kept \in Seq(F)
    <3>1. {i \in DOMAIN found : Len(found[i].syl) <= fewest /\ ~ (fewest = 1 /\ letters > 1 /\ found[i].incomplete)}
            \in SUBSET DOMAIN found
      OBVIOUS
    <3> QED BY <1>5, <3>1, ThoseAre
  <2> HIDE DEF kept, sizes
  <2> QED BY <1>5, <2>1, <2>2
<1> HIDE DEF shortest
<1>7. SortedBy(shortest, less) \in Seq(F)
  <2> HIDE DEF less
  <2> QED BY <1>6, SortedIs
<1> HIDE DEF less
<1>8. Take(SortedBy(shortest, less), budget) \in Seq(F)
  BY <1>3, <1>7, TakeIs
<1> QED BY <1>1, <1>8 DEF F

---------------------------------------------------------------------------
(* The paths through an input *)

\* A well-formed input neither begins nor ends with an apostrophe, and has no
\* two in a row.
LEMMA WellFormedIs ==
  ASSUME NEW in \in Seq(Chars), WellFormed(in)
  PROVE  /\ Len(in) \in Nat /\ Len(in) >= 1 /\ in[1] # Separator /\ in[Len(in)] # Separator
         /\ \A k \in 1..Len(in) - 1 : ~ (in[k] = Separator /\ in[k + 1] = Separator)
<1>1. in # <<>> /\ Len(in) \in Nat
  BY LenProperties DEF WellFormed
<1>2. Len(in) >= 1
  BY <1>1, EmptySeq
<1> QED BY <1>1, <1>2 DEF WellFormed, Last

\* The segmentations of a well-formed input are tilings of it.
LEMMA SegmentationsAre ==
  ASSUME NEW in \in Seq(Chars), WellFormed(in), NEW budget \in Nat, NEW cut
  PROVE  Segmentations(in, budget, cut) \in Seq(Tilings(in, 0, Len(in)))
<1> DEFINE n == Len(in)
           Chunk(x) == ChunkPaths(in, x, ChunkEnd(in, x), budget, cut)
           Alone(x) == [i \in DOMAIN Chunk(x) |-> Chunk(x)[i].syl]
           Body(f, x) == IF ChunkEnd(in, x) = n THEN Alone(x)
                         ELSE Take(Combined(Finished(Chunk(x)), f[ChunkEnd(in, x) + 1]), budget)
           Begins(x) == x < n /\ in[x + 1] # Separator
           W(x) == IF Begins(x) THEN Tilings(in, x, n) ELSE Seq(Syl(in))
           T == [x \in 0..n |-> Seq(W(x))]
           V == UNION {Seq(W(x)) : x \in 0..n}
           H == UNION {[x + 1..n -> V] : x \in 0..n}
           step == [p \in (0..n) \X H |-> Body(p[2], p[1])]
           F == CHOOSE f : f = [x \in 0..n |-> Body(f, x)]
<1>1. n \in Nat /\ n >= 1 /\ in[1] # Separator /\ in[n] # Separator
      /\ \A k \in 1..n - 1 : ~ (in[k] = Separator /\ in[k + 1] = Separator)
  BY WellFormedIs
<1>2. Segmentations(in, budget, cut) = F[0]
  BY DEF Segmentations, MapSeq
<1> HIDE DEF F
<1>3. ASSUME NEW x \in 0..n
      PROVE  /\ ChunkEnd(in, x) \in x..n /\ (ChunkEnd(in, x) # n => in[ChunkEnd(in, x) + 1] = Separator)
             /\ (Begins(x) => ChunkEnd(in, x) > x)
             /\ Chunk(x) \in Seq(FoundIn(in, x, ChunkEnd(in, x)))
  <2> DEFINE to == ChunkEnd(in, x)
  <2>1. to \in x..n /\ Plain(in, x, to) /\ (to # n => in[to + 1] = Separator)
    BY ChunkEndIs
  <2>2. Chunk(x) \in Seq(FoundIn(in, x, to))
    BY <2>1, ChunkPathsAre
  <2> HIDE DEF to
  <2>3. Begins(x) => to > x
    BY <1>1, <2>1
  <2> QED BY <2>1, <2>2, <2>3 DEF to
<1> HIDE DEF Chunk
<1>4. ASSUME NEW x \in 0..n, NEW y PROVE Rest(in, x, y) \subseteq Seq(Syl(in))
  BY EmptySeq DEF Rest, Tilings
<1>5. ASSUME NEW x \in 0..n, NEW f, \A y \in x + 1..n : f[y] \in Seq(W(y))
      PROVE  Body(f, x) \in Seq(W(x))
  <2> DEFINE to == ChunkEnd(in, x)
             c == Chunk(x)
             R == Rest(in, x, to)
  <2>1. c \in Seq(FoundIn(in, x, to)) /\ to \in x..n /\ to \in Nat
    BY <1>1, <1>3
  <2> HIDE DEF c, to
  <2>2. Begins(x) => R = Tilings(in, x, to)
    <3>1. Begins(x) => to > x
      BY <1>3 DEF to
    <3> HIDE DEF Begins
    <3>2. to > x => to # x
      BY <1>1, <2>1
    <3> QED BY <3>1, <3>2 DEF Rest
  <2>3. R \subseteq Seq(Syl(in))
    BY <1>4
  <2>4. CASE to = n
    <3>1. R \subseteq W(x)
      BY <2>2, <2>3, <2>4
    <3> HIDE DEF R, W
    <3>2. \A i \in DOMAIN c : c[i].syl \in R
      <4>1. \A i \in DOMAIN c : c[i] \in FoundIn(in, x, to)
        BY <2>1, LenProperties
      <4> QED BY <4>1 DEF FoundIn, R
    <3>3. [i \in DOMAIN c |-> c[i].syl] \in [DOMAIN c -> W(x)]
      BY <3>1, <3>2
    <3>4. [i \in DOMAIN c |-> c[i].syl] \in Seq(W(x))
      BY <2>1, <3>3, MapsTo
    <3> QED BY <2>4, <3>4 DEF to, c
  <2>5. CASE to # n
    <3> DEFINE rest == f[to + 1]
               done == Finished(c)
               Made(p) == [j \in DOMAIN rest |-> p.syl \o rest[j]]
               all == [i \in DOMAIN done |-> Made(done[i])]
    <3>1. to + 1 \in x + 1..n /\ to + 1 \in 0..n /\ in[to + 1] = Separator
      <4>1. in[to + 1] = Separator
        BY <1>3, <2>5 DEF to
      <4> HIDE DEF n
      <4>2. to + 1 \in x + 1..n /\ to + 1 \in 0..n
        BY <1>1, <2>1, <2>5
      <4> QED BY <4>1, <4>2
    <3>2. Begins(to + 1)
      BY <1>1, <3>1
    <3>3. rest \in Seq(Tilings(in, to + 1, n))
      BY <1>5, <3>1, <3>2
    <3> HIDE DEF rest
    <3>4. done \in Seq(FoundIn(in, x, to))
      <4>1. {i \in DOMAIN c : ~ c[i].incomplete} \in SUBSET DOMAIN c
        OBVIOUS
      <4>2. Those(c, {i \in DOMAIN c : ~ c[i].incomplete}) \in Seq(FoundIn(in, x, to))
        BY <2>1, <4>1, ThoseAre
      <4> QED BY <2>1, <4>2 DEF Finished, Selected
    <3> HIDE DEF done
    <3>5. ASSUME NEW p \in FoundIn(in, x, to), NEW r \in Tilings(in, to + 1, n) PROVE p.syl \o r \in W(x)
      <4>1. p.syl \in R /\ r \in Seq(Syl(in))
        BY DEF FoundIn, Tilings
      <4>2. CASE Begins(x)
        <5>1. p.syl \in Tilings(in, x, to)
          BY <2>2, <4>1, <4>2
        <5>2. Follows(in, to, to + 1)
          BY <3>1 DEF Follows
        <5> QED BY <1>1, <4>2, <5>1, <5>2, TilingsJoin
      <4>3. CASE ~ Begins(x)
        <5>1. p.syl \in Seq(Syl(in))
          BY <2>3, <4>1
        <5> QED BY <4>1, <4>3, <5>1, ConcatProperties
      <4> QED BY <4>2, <4>3
    <3> HIDE DEF W
    <3>6. ASSUME NEW p \in FoundIn(in, x, to) PROVE Made(p) \in Seq(W(x))
      <4>1. \A j \in DOMAIN rest : rest[j] \in Tilings(in, to + 1, n)
        BY <3>3, LenProperties
      <4>2. Made(p) \in [DOMAIN rest -> W(x)]
        BY <3>5, <4>1
      <4> HIDE DEF Made
      <4> QED BY <3>3, <4>2, MapsTo
    <3> HIDE DEF Made
    <3>7. all \in Seq(Seq(W(x)))
      <4>1. \A i \in DOMAIN done : done[i] \in FoundIn(in, x, to)
        BY <3>4, LenProperties
      <4>2. all \in [DOMAIN done -> Seq(W(x))]
        BY <3>6, <4>1
      <4> HIDE DEF all
      <4> QED BY <3>4, <4>2, MapsTo
    <3>8. FlattenSeq(all) \in Seq(W(x))
      <4> HIDE DEF all
      <4> QED BY <3>7, FlattenIs
    <3>9. Take(FlattenSeq(all), budget) \in Seq(W(x))
      <4> HIDE DEF all
      <4>1. budget \in Int
        OBVIOUS
      <4> QED BY <3>8, <4>1, TakeIs
    <3>10. Combined(done, rest) = FlattenSeq(all)
      BY DEF Combined, MapSeq, Made
    <3>11. Take(Combined(done, rest), budget) \in Seq(W(x))
      <4> HIDE DEF all
      <4> QED BY <3>9, <3>10
    <3> QED BY <2>5, <3>11 DEF to, c, done, rest
  <2> QED BY <2>4, <2>5
<1>6. ASSUME NEW x \in 0..n, NEW f, NEW h, \A y \in x + 1..n : f[y] = h[y]
      PROVE  Body(f, x) = Body(h, x)
  <2> DEFINE to == ChunkEnd(in, x)
  <2>1. to \in x..n /\ to \in Nat
    BY <1>1, <1>3
  <2>2. to # n => to + 1 \in x + 1..n
    BY <1>1, <2>1
  <2> HIDE DEF to
  <2>3. to # n => f[to + 1] = h[to + 1]
    BY <1>6, <2>2
  <2> QED BY <2>3 DEF to
<1> HIDE DEF Body, W, n
<1>7. \A x \in 0..n : \A h : DOMAIN h = x + 1..n /\ h = [y \in x + 1..n |-> h[y]] /\ (\A y \in x + 1..n : h[y] \in T[y])
                                    => step[<<x, h>>] \in T[x] /\ step[<<x, h>>] = Body(h, x)
  <2> SUFFICES ASSUME NEW x \in 0..n, NEW h, h = [y \in x + 1..n |-> h[y]], \A y \in x + 1..n : h[y] \in T[y]
               PROVE  step[<<x, h>>] \in T[x] /\ step[<<x, h>>] = Body(h, x)
    OBVIOUS
  <2>1. \A y \in x + 1..n : y \in 0..n
    BY <1>1
  <2>2. \A y \in x + 1..n : h[y] \in Seq(W(y))
    BY <2>1
  <2>3. \A y \in x + 1..n : h[y] \in V
    BY <2>1, <2>2
  <2>4. h \in H
    <3> HIDE DEF V
    <3>1. h \in [x + 1..n -> V]
      BY <2>3
    <3> QED BY <3>1
  <2> HIDE DEF H, V
  <2>5. step[<<x, h>>] = Body(h, x)
    BY <2>4
  <2> HIDE DEF step
  <2>6. Body(h, x) \in Seq(W(x))
    BY <1>5, <2>2
  <2> QED BY <2>5, <2>6
<1>8. PICK g : Regressive(g, 0, n, step) /\ \A x \in 0..n : g[x] \in T[x]
  <2> HIDE DEF T, step
  <2> QED BY <1>1, <1>7, DownwardDefined
<1>9. ASSUME NEW x \in 0..n PROVE g[x] = Body(g, x)
  <2> DEFINE h == [y \in x + 1..n |-> g[y]]
  <2>1. g[x] = step[<<x, h>>]
    BY <1>8 DEF Regressive
  <2>2. \A y \in x + 1..n : y \in 0..n
    BY <1>1
  <2>3. DOMAIN h = x + 1..n /\ h = [y \in x + 1..n |-> h[y]] /\ \A y \in x + 1..n : h[y] \in T[y]
    BY <1>8, <2>2
  <2> HIDE DEF step, T
  <2>4. step[<<x, h>>] = Body(h, x)
    <3> HIDE DEF h
    <3> QED BY <1>7, <2>3
  <2>5. \A y \in x + 1..n : g[y] = h[y]
    OBVIOUS
  <2>6. Body(g, x) = Body(h, x)
    <3> HIDE DEF h
    <3> QED BY <1>6, <2>5
  <2> QED BY <2>1, <2>4, <2>6
<1>10. g = [x \in 0..n |-> Body(g, x)]
  <2>1. g = [x \in 0..n |-> g[x]]
    BY <1>8 DEF Regressive
  <2> QED BY <1>9, <2>1
<1>11. F = [x \in 0..n |-> Body(F, x)]
  BY <1>10, Zenon DEF F
<1>12. \A x \in 0..n : F[x] = Body(F, x)
  BY <1>11, Zenon
<1> DEFINE A == {x \in 0..n : F[x] \in Seq(W(x))}
<1>13. \A x \in 0..n : x \in A
  <2>1. ASSUME NEW x \in 0..n, \A y \in x + 1..n : y \in A PROVE x \in A
    <3>1. \A y \in x + 1..n : F[y] \in Seq(W(y))
      BY <2>1
    <3>2. Body(F, x) \in Seq(W(x))
      BY <1>5, <3>1
    <3> QED BY <1>12, <3>2
  <2> HIDE DEF A
  <2>2. 0 \in Nat
    OBVIOUS
  <2> QED BY <1>1, <2>1, <2>2, DownTo
<1>14. 0 \in A
  BY <1>1, <1>13
<1>15. F[0] \in Seq(W(0))
  BY <1>14
<1>16. W(0) = Tilings(in, 0, n)
  BY <1>1 DEF W
<1> QED BY <1>2, <1>15, <1>16 DEF n

---------------------------------------------------------------------------
(* Completions *)

\* The table of syllables is a finite set of texts.
LEMMA SyllablesAre == IsFiniteSet(Syllables) /\ Syllables \subseteq Text
<1>1. ASSUME NEW y \in Syllables PROVE y \in Seq(Nat)
  <2>1. y \in Seq(Nat \ {Separator})
    BY SchemaConstants
  <2>2. Nat \ {Separator} \subseteq Nat
    OBVIOUS
  <2> HIDE DEF Separator
  <2> QED BY <2>1, <2>2, SeqMonotonic
<1> QED BY <1>1, SchemaConstants DEF Text

\* What a table of ordered syllables has for a key.
LEMMA EntriesAre ==
  ASSUME NEW S, IsFiniteSet(S), NEW table, \A key \in DOMAIN table : \E P \in SUBSET S : \E before : table[key] = InOrder(P, before),
         NEW key
  PROVE  Entries(table, key) \in Seq(S)
<1>1. CASE key \in DOMAIN table
  <2>1. PICK P \in SUBSET S : \E before : table[key] = InOrder(P, before)
    BY <1>1
  <2>2. PICK before : table[key] = InOrder(P, before)
    BY <2>1
  <2>3. IsFiniteSet(P)
    BY FS_Subset
  <2>4. InOrder(P, before) \in Seq(P)
    BY <2>3, InOrderIs
  <2>5. InOrder(P, before) \in Seq(S)
    BY <2>4, SeqMonotonic
  <2> QED BY <1>1, <2>2, <2>5 DEF Entries
<1>2. CASE key \notin DOMAIN table
  BY <1>2, EmptySeq DEF Entries
<1> QED BY <1>1, <1>2

\* The syllables that complete a prefix.
LEMMA CompletingIs ==
  ASSUME NEW prefix
  PROVE  Completing(prefix) \in Seq(Syllables)
<1> DEFINE Of(key) == {y \in Syllables : IsPrefix(key, y)}
           before(key) == {p \in Of(key) \X Of(key) : TextLess(p[1], p[2])}
           D == UNION {{SubSeq(y, 1, n) : n \in DOMAIN y} : y \in Syllables}
           table == [key \in D |-> InOrder(Of(key), before(key))]
<1>1. Completing(prefix) = Entries(table, prefix)
  BY DEF Completing, CompletionTable, OrderedBy
<1>2. \A key : Of(key) \in SUBSET Syllables
  OBVIOUS
<1> HIDE DEF Of, D
<1>3. \A key \in DOMAIN table : table[key] = InOrder(Of(key), before(key))
  OBVIOUS
<1> HIDE DEF before, table
<1>4. \A key \in DOMAIN table : \E P \in SUBSET Syllables : \E b : table[key] = InOrder(P, b)
  BY <1>2, <1>3
<1> QED BY <1>1, <1>4, EntriesAre, SyllablesAre

\* The syllables that a typed token may stand for.
LEMMA TokensAre ==
  ASSUME NEW source, NEW corrected
  PROVE  Tokens(source, corrected) \in Seq(Syllables)
<1> DEFINE Of(key) == {y \in Syllables : key \in Mistyped(y)}
           before(key) == {p \in Of(key) \X Of(key) : TextLess(p[1], p[2])}
           D == UNION {Mistyped(y) : y \in Syllables} \ {<<>>}
           table == [key \in D |-> InOrder(Of(key), before(key))]
<1>1. TokenTable = table
  BY DEF TokenTable, OrderedBy
<1>2. \A key : Of(key) \in SUBSET Syllables
  OBVIOUS
<1> HIDE DEF Of, D
<1>3. \A key \in DOMAIN table : table[key] = InOrder(Of(key), before(key))
  OBVIOUS
<1> HIDE DEF before, table
<1>4. \A key \in DOMAIN table : \E P \in SUBSET Syllables : \E b : table[key] = InOrder(P, b)
  BY <1>2, <1>3
<1>5. Entries(table, source) \in Seq(Syllables)
  BY <1>4, EntriesAre, SyllablesAre
<1>6. <<>> \in Seq(Syllables) /\ (IsComplete(source) => <<source>> \in Seq(Syllables))
  BY EmptySeq DEF IsComplete
<1> QED BY <1>1, <1>5, <1>6 DEF Tokens

\* A syllable for another that reads the same letters.
LEMMA ChangedTiles ==
  ASSUME NEW in, Len(in) \in Nat, NEW a, NEW b, NEW s \in Tilings(in, a, b), NEW i \in 1..Len(s),
         NEW y \in Syl(in), y.from = s[i].from, y.to = s[i].to
  PROVE  [s EXCEPT ![i] = y] \in Tilings(in, a, b) /\ Len([s EXCEPT ![i] = y]) = Len(s)
<1> DEFINE t == [s EXCEPT ![i] = y]
           S == Syl(in)
<1>1. s \in Seq(S) /\ Tiled(in, s, a, b) /\ Len(s) \in Nat /\ Len(s) >= 1
  BY TilingSpan DEF Tilings
<1>2. t \in Seq(S) /\ Len(t) = Len(s) /\ \A j \in 1..Len(s) : t[j] = IF j = i THEN y ELSE s[j]
  <2> HIDE DEF S
  <2>1. y \in S
    BY DEF S
  <2> QED BY <1>1, <2>1, ExceptSeq
<1> HIDE DEF t
<1>3. \A j \in 1..Len(s) : t[j].from = s[j].from /\ t[j].to = s[j].to
  BY <1>2
<1>4. t # <<>>
  BY <1>1, <1>2, EmptySeq
<1>5. t[1].from = a /\ t[Len(t)].to = b
  <2>1. 1 \in 1..Len(s) /\ Len(s) \in 1..Len(s)
    BY <1>1
  <2> QED BY <1>1, <1>2, <1>3, <2>1 DEF Tiled
<1>6. \A j \in 1..Len(t) : Spans(in, t[j])
  BY <1>1, <1>2, <1>3 DEF Tiled, Spans
<1>7. \A j \in 1..Len(t) - 1 : Follows(in, t[j].to, t[j + 1].from)
  <2> SUFFICES ASSUME NEW j \in 1..Len(t) - 1 PROVE Follows(in, t[j].to, t[j + 1].from)
    OBVIOUS
  <2>1. j \in 1..Len(s) /\ j + 1 \in 1..Len(s) /\ j \in 1..Len(s) - 1
    BY <1>1, <1>2
  <2>2. Follows(in, s[j].to, s[j + 1].from)
    BY <1>1, <2>1 DEF Tiled
  <2> QED BY <1>3, <2>1, <2>2
<1>8. Tiled(in, t, a, b)
  BY <1>4, <1>5, <1>6, <1>7 DEF Tiled
<1> QED BY <1>2, <1>8 DEF Tilings, t

PathsOf(in, n) == {p \in Paths(in) : Len(p.syl) = n}

\* Completing one syllable of a path leaves it a path of as many syllables.
LEMMA CompletedIs ==
  ASSUME NEW in \in Seq(Chars), NEW n, NEW path \in PathsOf(in, n), NEW i \in 1..n
  PROVE  Completed(path, i) \in Seq(PathsOf(in, n))
<1> DEFINE prefix == path.syl[i].text
           all == Completing(prefix)
           some == Those(all, {j \in DOMAIN all : all[j] # prefix})
           z(y) == [path.syl[i] EXCEPT !.text = y, !.complete = TRUE]
           With(y) == [path EXCEPT !.syl[i].text = y, !.syl[i].complete = TRUE, !.extra = @ + Len(y) - Len(prefix)]
           made == [j \in DOMAIN some |-> With(some[j])]
           P == PathsOf(in, n)
<1>1. path \in [syl : Tilings(in, 0, Len(in)), kind : Exact..Abbreviated, extra : Int] /\ Len(path.syl) = n /\ Len(in) \in Nat
  BY LenProperties DEF PathsOf, Paths
<1>2. /\ path.syl \in Tilings(in, 0, Len(in)) /\ path.extra \in Int /\ i \in 1..Len(path.syl)
      /\ DOMAIN path.syl = 1..Len(path.syl) /\ path.syl[i] \in Syl(in)
  <2>1. path.syl \in Tilings(in, 0, Len(in)) /\ path.extra \in Int /\ i \in 1..Len(path.syl)
    BY <1>1
  <2> QED BY <1>1, <2>1, TilingSpan
<1>3. prefix \in Text
  BY <1>2 DEF Syl
<1>4. some \in Seq(Syllables)
  <2>1. {j \in DOMAIN all : all[j] # prefix} \in SUBSET DOMAIN all
    OBVIOUS
  <2> QED BY <2>1, CompletingIs, ThoseAre
<1>5. Completed(path, i) = IF path.syl[i].complete THEN <<path>> ELSE made
  BY DEF Completed, Selected, MapSeq
<1> HIDE DEF some, prefix
<1>6. ASSUME NEW y \in Syllables PROVE With(y) \in P
  <2>1. y \in Text /\ Len(y) \in Nat /\ Len(prefix) \in Nat
    BY <1>3, SyllablesAre, LenProperties DEF Text
  <2>2. z(y) \in Syl(in) /\ z(y).from = path.syl[i].from /\ z(y).to = path.syl[i].to
    BY <1>2, <2>1 DEF Syl
  <2> DEFINE s == [path.syl EXCEPT ![i] = z(y)]
             x == path.extra + Len(y) - Len(prefix)
  <2>3. s \in Tilings(in, 0, Len(in)) /\ Len(s) = Len(path.syl)
    <3> HIDE DEF z
    <3> QED BY <1>1, <1>2, <2>2, ChangedTiles
  <2>4. x \in Int
    BY <1>2, <2>1
  <2>5. [path.syl EXCEPT ![i].text = y, ![i].complete = TRUE] = s
    BY <1>2
  <2>6. With(y) = [path EXCEPT !.syl = s, !.extra = x]
    BY <1>1, <1>2
  <2> DEFINE S == Tilings(in, 0, Len(in))
             K == Exact..Abbreviated
  <2> HIDE DEF s, x, With, z, S, K
  <2>7. path \in [syl : S, kind : K, extra : Int] /\ s \in S
    BY <1>1, <2>3 DEF S, K
  <2>8. [path EXCEPT !.syl = s, !.extra = x] \in [syl : S, kind : K, extra : Int] /\ [path EXCEPT !.syl = s, !.extra = x].syl = s
    BY <2>4, <2>7
  <2> QED BY <1>1, <2>3, <2>6, <2>8 DEF PathsOf, Paths, S, K
<1> HIDE DEF With, P
<1>7. made \in Seq(P)
  <2>1. \A j \in DOMAIN some : some[j] \in Syllables
    BY <1>4, LenProperties
  <2>2. made \in [DOMAIN some -> P]
    BY <1>6, <2>1
  <2> HIDE DEF made
  <2> QED BY <1>4, <2>2, MapsTo
<1>8. <<path>> \in Seq(P)
  BY DEF P
<1> QED BY <1>5, <1>7, <1>8 DEF P

\* All completions of a path.
LEMMA SpellIs ==
  ASSUME NEW in \in Seq(Chars), NEW path \in Paths(in)
  PROVE  Spell(path) \in Seq(Paths(in))
<1> DEFINE n == Len(path.syl)
           P == PathsOf(in, n)
           Further(ps, i) == FlattenSeq([k \in DOMAIN ps |-> Completed(ps[k], i)])
           T == [k \in 0..n |-> Seq(P)]
           step == [p \in Seq(P) \X (1..n) |-> Further(p[1], p[2])]
           F == CHOOSE f : f = [i \in 0..n |-> IF i = 0 THEN <<path>> ELSE Further(f[i - 1], i)]
<1>1. Len(in) \in Nat /\ path.syl \in Tilings(in, 0, Len(in))
  BY LenProperties DEF Paths
<1>2. n \in Nat
  BY <1>1, TilingSpan
<1>3. Spell(path) = F[n]
  BY DEF Spell, MapSeq
<1>4. path \in P
  BY DEF PathsOf
<1> HIDE DEF n
<1>5. ASSUME NEW i \in 1..n, NEW ps \in Seq(P) PROVE Further(ps, i) \in Seq(P)
  <2> DEFINE all == [k \in DOMAIN ps |-> Completed(ps[k], i)]
  <2>1. \A k \in DOMAIN ps : ps[k] \in P
    BY LenProperties
  <2>2. \A k \in DOMAIN ps : Completed(ps[k], i) \in Seq(P)
    BY <2>1, CompletedIs
  <2> HIDE DEF P
  <2>3. all \in [DOMAIN ps -> Seq(P)]
    BY <2>2
  <2> HIDE DEF all
  <2>4. all \in Seq(Seq(P))
    BY <2>3, MapsTo
  <2>5. FlattenSeq(all) \in Seq(P)
    BY <2>4, FlattenIs
  <2> QED BY <2>5 DEF all
<1> HIDE DEF Further, P
<1>6. \A k \in 1..n : \A ps \in T[k - 1] : step[<<ps, k>>] \in T[k]
  <2> SUFFICES ASSUME NEW k \in 1..n, NEW ps \in T[k - 1] PROVE step[<<ps, k>>] \in T[k]
    OBVIOUS
  <2>1. k \in 0..n /\ k - 1 \in 0..n
    BY <1>2
  <2>2. ps \in Seq(P)
    BY <2>1
  <2>3. step[<<ps, k>>] = Further(ps, k)
    BY <2>2
  <2> QED BY <1>5, <2>1, <2>2, <2>3
<1>7. <<path>> \in T[0] /\ <<path>> \in Seq(P)
  <2>1. 0 \in 0..n /\ <<path>> \in Seq(P)
    BY <1>2, <1>4
  <2> QED BY <2>1
<1>8. PICK g : Successive(g, n, <<path>>, step) /\ \A k \in 0..n : g[k] \in T[k]
  <2> HIDE DEF T, step
  <2> QED BY <1>2, <1>6, <1>7, RecursionDefined
<1>9. ASSUME NEW i \in 0..n PROVE g[i] = IF i = 0 THEN <<path>> ELSE Further(g[i - 1], i)
  <2>1. i # 0 => i - 1 \in 0..n /\ i \in 1..n
    BY <1>2
  <2>2. g[i] = IF i = 0 THEN <<path>> ELSE step[<<g[i - 1], i>>]
    BY <1>8 DEF Successive
  <2>3. i # 0 => g[i - 1] \in Seq(P)
    BY <1>8, <2>1
  <2>4. i # 0 => step[<<g[i - 1], i>>] = Further(g[i - 1], i)
    BY <2>1, <2>3
  <2> HIDE DEF step
  <2> QED BY <2>2, <2>4
<1>10. g = [i \in 0..n |-> IF i = 0 THEN <<path>> ELSE Further(g[i - 1], i)]
  <2>1. g = [i \in 0..n |-> g[i]]
    BY <1>8 DEF Successive
  <2> QED BY <1>9, <2>1
<1>11. F = [i \in 0..n |-> IF i = 0 THEN <<path>> ELSE Further(F[i - 1], i)]
  BY <1>10, Zenon
<1> HIDE DEF F
<1>12. \A i \in 0..n : F[i] = IF i = 0 THEN <<path>> ELSE Further(F[i - 1], i)
  BY <1>11, Zenon
<1> DEFINE A == {i \in 0..n : F[i] \in Seq(P)}
<1>13. \A i \in 0..n : i \in A
  <2>1. 0 \in A
    <3>1. 0 \in 0..n
      BY <1>2
    <3>2. F[0] = <<path>>
      BY <1>12, <3>1
    <3> QED BY <1>7, <3>1, <3>2
  <2>2. ASSUME NEW k \in 1..n, k - 1 \in A PROVE k \in A
    <3>1. k \in 0..n /\ k # 0 /\ F[k - 1] \in Seq(P)
      BY <1>2, <2>2
    <3>2. F[k] = Further(F[k - 1], k)
      BY <1>12, <3>1
    <3> QED BY <1>5, <3>1, <3>2
  <2> HIDE DEF A
  <2> QED BY <1>2, <2>1, <2>2, UpTo
<1>14. F[n] \in Seq(P)
  <2>1. n \in A
    BY <1>2, <1>13
  <2> QED BY <2>1
<1>15. P \subseteq Paths(in)
  BY DEF P, PathsOf
<1> QED BY <1>3, <1>14, <1>15, SeqMonotonic

\* The completions of some paths.
LEMMA CompletionsAre ==
  ASSUME NEW in \in Seq(Chars), NEW base \in Seq(Paths(in)), NEW budget \in Nat, NEW most
  PROVE  Completions(base, budget, most) \in Seq(Paths(in))
<1> DEFINE P == Paths(in)
           open == Those(base, {i \in DOMAIN base : Len(base[i].syl) <= most /\ ~ AllComplete(base[i])})
           As(p) == [p EXCEPT !.kind = Completion, !.extra = 0]
           spelled == [i \in DOMAIN open |-> Spell(As(open[i]))]
           all == Take(FlattenSeq(spelled), budget)
           less == {p \in (DOMAIN all) \X (DOMAIN all) : AssistLess(all[p[1]], all[p[2]])}
<1>1. Completions(base, budget, most) = SortedBy(all, less)
  BY DEF Completions, Selected, MapSeq, Sorted
<1>2. open \in Seq(P)
  <2>1. {i \in DOMAIN base : Len(base[i].syl) <= most /\ ~ AllComplete(base[i])} \in SUBSET DOMAIN base
    OBVIOUS
  <2> QED BY <2>1, ThoseAre
<1> HIDE DEF open
<1>3. ASSUME NEW p \in P PROVE As(p) \in P
  <2> DEFINE S == Tilings(in, 0, Len(in))
             K == Exact..Abbreviated
             c == Completion
             z == 0
  <2>1. p \in [syl : S, kind : K, extra : Int] /\ As(p) = [p EXCEPT !.kind = c, !.extra = z]
    BY DEF Paths
  <2>2. c \in K /\ z \in Int
    BY DEF Completion, Exact, Abbreviated
  <2> HIDE DEF S, K, c, z, As
  <2>3. [p EXCEPT !.kind = c, !.extra = z] \in [syl : S, kind : K, extra : Int]
    BY <2>1, <2>2
  <2> QED BY <2>1, <2>3 DEF S, K, Paths
<1> HIDE DEF As
<1>4. \A i \in DOMAIN open : Spell(As(open[i])) \in Seq(P)
  <2>1. \A i \in DOMAIN open : open[i] \in P
    BY <1>2, LenProperties
  <2> QED BY <1>3, <2>1, SpellIs
<1> HIDE DEF P
<1>5. spelled \in Seq(Seq(P))
  <2>1. spelled \in [DOMAIN open -> Seq(P)]
    BY <1>4
  <2> HIDE DEF spelled
  <2> QED BY <1>2, <2>1, MapsTo
<1> HIDE DEF spelled
<1>6. all \in Seq(P)
  <2>1. budget \in Int /\ FlattenSeq(spelled) \in Seq(P)
    BY <1>5, FlattenIs
  <2> QED BY <2>1, TakeIs
<1> HIDE DEF all
<1>7. SortedBy(all, less) \in Seq(P)
  <2> HIDE DEF less
  <2> QED BY <1>6, SortedIs
<1> QED BY <1>1, <1>7 DEF P

---------------------------------------------------------------------------
(* Charts: the states at each offset of the letters *)

\* Columns of states, the state of the column for an offset in the set for it.
Cols(St, n, k) ==
  {c \in Seq(Seq(UNION {St[j] : j \in 0..n})) : Len(c) = k + 1 /\ \A j \in 0..k : c[j + 1] \in Seq(St[j])}

\* A sequence of one element.
LEMMA SingleIs ==
  ASSUME NEW S, NEW x \in S
  PROVE  <<x>> \in Seq(S) /\ Len(<<x>>) = 1 /\ <<x>>[1] = x
  OBVIOUS

\* A chart begins with one state at the first offset.
LEMMA ColsBegin ==
  ASSUME NEW n \in Nat, NEW St, NEW x \in St[0]
  PROVE  <<<<x>>>> \in Cols(St, n, 0)
<1> DEFINE X == UNION {St[j] : j \in 0..n}
<1>1. x \in X
  <2>1. 0 \in 0..n
    OBVIOUS
  <2> QED BY <2>1
<1> HIDE DEF X
<1>2. <<<<x>>>> \in Seq(Seq(X)) /\ Len(<<<<x>>>>) = 0 + 1 /\ <<<<x>>>>[0 + 1] = <<x>>
  <2> DEFINE Y == Seq(X)
             q == <<x>>
  <2>1. q \in Y
    BY <1>1
  <2> HIDE DEF Y, q
  <2>2. <<q>> \in Seq(Y) /\ Len(<<q>>) = 1 /\ <<q>>[1] = q
    BY <2>1, SingleIs
  <2>3. 0 + 1 = 1
    OBVIOUS
  <2>4. <<q>>[0 + 1] = q /\ Len(<<q>>) = 0 + 1
    BY <2>2, <2>3
  <2> QED BY <2>2, <2>4 DEF Y, q
<1>3. <<x>> \in Seq(St[0])
  <2> DEFINE Y == St[0]
  <2>1. x \in Y
    OBVIOUS
  <2> HIDE DEF Y
  <2>2. <<x>> \in Seq(Y)
    BY <2>1, SingleIs
  <2> QED BY <2>2 DEF Y
<1>4. \A j \in 0..0 : <<<<x>>>>[j + 1] \in Seq(St[j])
  <2> SUFFICES ASSUME NEW j \in 0..0 PROVE <<<<x>>>>[j + 1] \in Seq(St[j])
    OBVIOUS
  <2>1. j = 0
    OBVIOUS
  <2> QED BY <1>2, <1>3, <2>1
<1> QED BY <1>2, <1>4 DEF Cols, X

\* A chart with the states of one more offset.
LEMMA ColsGrow ==
  ASSUME NEW n \in Nat, NEW St, NEW k \in 1..n, NEW c \in Cols(St, n, k - 1), NEW q \in Seq(St[k])
  PROVE  Append(c, q) \in Cols(St, n, k)
<1> DEFINE X == UNION {St[j] : j \in 0..n}
           d == Append(c, q)
<1>1. c \in Seq(Seq(X)) /\ Len(c) = k /\ \A j \in 0..k - 1 : c[j + 1] \in Seq(St[j])
  BY DEF Cols
<1>2. St[k] \subseteq X
  OBVIOUS
<1> HIDE DEF X
<1>3. q \in Seq(X)
  BY <1>2, SeqMonotonic
<1>4. d \in Seq(Seq(X)) /\ Len(d) = k + 1 /\ (\A i \in 1..k : d[i] = c[i]) /\ d[k + 1] = q
  <2> DEFINE Y == Seq(X)
  <2> HIDE DEF Y
  <2>1. c \in Seq(Y) /\ q \in Y
    BY <1>1, <1>3 DEF Y
  <2>2. d \in Seq(Y) /\ Len(d) = Len(c) + 1 /\ (\A i \in 1..Len(c) : d[i] = c[i]) /\ d[Len(c) + 1] = q
    BY <2>1, AppendProperties
  <2> HIDE DEF d
  <2> QED BY <1>1, <2>2 DEF Y
<1> HIDE DEF d
<1>5. ASSUME NEW j \in 0..k PROVE d[j + 1] \in Seq(St[j])
  <2>1. CASE j = k
    BY <1>4, <2>1
  <2>2. CASE j # k
    <3>1. j \in 0..k - 1 /\ j + 1 \in 1..k
      BY <2>2
    <3>2. d[j + 1] = c[j + 1]
      BY <1>4, <3>1
    <3> QED BY <1>1, <3>1, <3>2
  <2> QED BY <2>1, <2>2
<1> QED BY <1>4, <1>5 DEF Cols, X, d

\* What is collected from the columns before an offset.
LEMMA Gathered ==
  ASSUME NEW S, NEW first \in Nat, NEW to \in Nat, NEW f, \A from \in first..to - 1 : f[from] \in Seq(S)
  PROVE  FlattenSeq([k \in 1..to - first |-> f[first + k - 1]]) \in Seq(S)
<1> DEFINE v(k) == f[first + k - 1]
           m == to - first
<1>1. \A k \in 1..m : v(k) \in Seq(S)
  <2> SUFFICES ASSUME NEW k \in 1..m PROVE v(k) \in Seq(S)
    OBVIOUS
  <2>1. first + k - 1 \in first..to - 1
    OBVIOUS
  <2> QED BY <2>1
<1>2. [k \in 1..m |-> v(k)] \in Seq(Seq(S))
  <2>1. CASE m \in Nat
    <3> DEFINE Y == Seq(S)
    <3> HIDE DEF Y, v, m
    <3>1. [k \in 1..m |-> v(k)] \in Seq(Y)
      BY <1>1, <2>1, IsASeq DEF Y
    <3> QED BY <3>1 DEF Y
  <2>2. CASE m \notin Nat
    <3>1. 1..m = {} /\ 1..0 = {}
      BY <2>2
    <3>2. [k \in 1..m |-> v(k)] = [k \in 1..0 |-> v(k)]
      BY <3>1
    <3>3. [k \in 1..0 |-> v(k)] \in Seq(Seq(S))
      <4>1. \A k \in 1..0 : v(k) \in Seq(S)
        BY <3>1
      <4> HIDE DEF v
      <4> DEFINE Y == Seq(S)
      <4> HIDE DEF Y
      <4>2. [k \in 1..0 |-> v(k)] \in Seq(Y)
        BY <4>1, IsASeq DEF Y
      <4> QED BY <4>2 DEF Y
    <3> QED BY <3>2, <3>3
  <2> QED BY <2>1, <2>2
<1> HIDE DEF v, m
<1>3. FlattenSeq([k \in 1..m |-> v(k)]) \in Seq(S)
  BY <1>2, FlattenIs
<1> QED BY <1>3 DEF v, m

---------------------------------------------------------------------------
(* Abbreviations and corrections *)

\* A path up to an offset, of which nothing may be read yet.
Opens(in, k) == [syl : Rest(in, 0, k), kind : Exact..Abbreviated, extra : Int]

\* The orders in which assisted paths are kept.
LEMMA PruneIs ==
  ASSUME NEW S, NEW q \in Seq(S), NEW limit \in Nat
  PROVE  Prune(q, limit) \in Seq(S) /\ PruneDistinct(q, limit) \in Seq(S)
<1> DEFINE less == {p \in (DOMAIN q) \X (DOMAIN q) : AssistLess(q[p[1]], q[p[2]])}
           sorted == SortedBy(q, less)
           first == {i \in DOMAIN sorted : ~\E j \in 1..i - 1 : SameReading(sorted[i], sorted[j])}
<1>1. Prune(q, limit) = Take(sorted, limit) /\ PruneDistinct(q, limit) = Take(Those(sorted, first), limit)
  BY DEF Prune, PruneDistinct, FirstReadings, Sorted
<1>2. limit \in Int /\ sorted \in Seq(S)
  <2> HIDE DEF less
  <2> QED BY SortedIs
<1> HIDE DEF sorted
<1>3. Take(sorted, limit) \in Seq(S)
  BY <1>2, TakeIs
<1>4. first \in SUBSET DOMAIN sorted
  OBVIOUS
<1> HIDE DEF first
<1>5. Those(sorted, first) \in Seq(S)
  BY <1>2, <1>4, ThoseAre
<1>6. Take(Those(sorted, first), limit) \in Seq(S)
  BY <1>2, <1>5, TakeIs
<1> QED BY <1>1, <1>3, <1>6

\* One syllable more.
LEMMA OneMore ==
  ASSUME NEW in \in Seq(Chars), Plain(in, 0, Len(in)), NEW from \in 0..Len(in), NEW to \in from + 1..Len(in),
         NEW y \in Text, NEW syl \in Rest(in, 0, from)
  PROVE  Append(syl, Syllable(y, from, to, TRUE)) \in Rest(in, 0, to)
<1> DEFINE r == Syllable(y, from, to, TRUE)
<1>1. Len(in) \in Nat /\ to \in 0..Len(in) /\ from < to /\ to # 0
  <2>1. Len(in) \in Nat
    BY LenProperties
  <2> QED BY <2>1
<1>2. r \in Syl(in) /\ r.from = from /\ r.to = to
  BY <1>1 DEF Syl, Syllable
<1>3. Spans(in, r)
  <2>1. \A j \in from + 1..to : in[j] # Separator
    <3>1. \A j \in from + 1..to : j \in 0 + 1..Len(in)
      BY <1>1
    <3> QED BY <3>1 DEF Plain
  <2> HIDE DEF r
  <2> QED BY <1>1, <1>2, <2>1 DEF Spans
<1> HIDE DEF r
<1>4. Append(syl, r) \in Tilings(in, 0, to)
  BY <1>1, <1>2, <1>3, LastTiles
<1> QED BY <1>1, <1>4 DEF Rest, r

\* An input without apostrophes is plain from end to end.
LEMMA PlainInput ==
  ASSUME NEW in \in Seq(Chars), ~ Contains(in, Separator)
  PROVE  Plain(in, 0, Len(in))
<1>1. \A j \in 0 + 1..Len(in) : in[j] # Separator
  BY LenProperties DEF Contains
<1> QED BY <1>1 DEF Plain

\* What is abbreviated reads all of the letters.
LEMMA AbbreviationsAre ==
  ASSUME NEW in \in Seq(Chars), NEW budget \in Nat
  PROVE  Abbreviations(in, budget) \in Seq(Paths(in))
<1> DEFINE n == Len(in)
           St == [k \in 0..n |-> Opens(in, k)]
           More(p, y, from, to) == [p EXCEPT !.syl = Append(@, Syllable(y, from, to, TRUE)),
                                             !.extra = @ + Len(y) - (to - from)]
           Step(p, from, to) == [i \in DOMAIN Completing(Slice(in, from, to)) |->
                                   More(p, Completing(Slice(in, from, to))[i], from, to)]
           Keep(paths) == Prune(paths, AssistBeam)
           columns == Chart(in, Path(<<>>, Abbreviated, 0), Step, Keep, 6)
           column == columns[n + 1]
           some == {i \in DOMAIN column : Len(column[i].syl) >= 2 /\ column[i].extra > 0}
           begin == Path(<<>>, Abbreviated, 0)
           six == 6
<1>1. Abbreviations(in, budget) = IF n < 2 \/ Contains(in, Separator) THEN <<>> ELSE PruneDistinct(Those(column, some), budget)
  BY DEF Abbreviations, Selected, MapSeq
<1>2. SUFFICES ASSUME ~ (n < 2 \/ Contains(in, Separator))
               PROVE  PruneDistinct(Those(column, some), budget) \in Seq(Paths(in))
  BY <1>1, EmptySeq
<1>3. n \in Nat /\ n >= 2 /\ Plain(in, 0, n)
  BY <1>2, LenProperties, PlainInput
<1>4. ASSUME NEW from \in 0..n, NEW to \in from + 1..n, NEW p \in St[from] PROVE Step(p, from, to) \in Seq(St[to])
  <2> DEFINE q == Completing(Slice(in, from, to))
             S == Rest(in, 0, from)
             T == Rest(in, 0, to)
             K == Exact..Abbreviated
             by(y) == Len(y) - (to - from)
             new(y) == Append(p.syl, Syllable(y, from, to, TRUE))
  <2>1. p \in [syl : S, kind : K, extra : Int] /\ to \in 0..n /\ from \in Nat /\ to \in Nat
    BY <1>3 DEF Opens
  <2>2. q \in Seq(Syllables)
    BY CompletingIs
  <2>3. ASSUME NEW y \in Syllables PROVE More(p, y, from, to) \in St[to]
    <3>1. y \in Text
      BY SyllablesAre
    <3>2. Len(y) \in Nat
      BY <3>1, LenProperties DEF Text
    <3>3. by(y) \in Int
      BY <2>1, <3>2
    <3>4. new(y) \in T
      BY <1>3, <2>1, <3>1, OneMore
    <3>5. More(p, y, from, to) = [p EXCEPT !.syl = new(y), !.extra = @ + Len(y) - (to - from)]
      OBVIOUS
    <3> DEFINE v == new(y)
               w == p.extra + Len(y) - (to - from)
    <3>6. More(p, y, from, to) = [p EXCEPT !.syl = v, !.extra = w]
      BY <2>1
    <3>7. w \in Int
      BY <2>1, <3>2
    <3> HIDE DEF v, w, S, T, K, More
    <3>8. [p EXCEPT !.syl = v, !.extra = w] \in [syl : T, kind : K, extra : Int]
      BY <2>1, <3>4, <3>7 DEF v
    <3>9. [syl : T, kind : K, extra : Int] = St[to]
      BY <2>1 DEF T, K, Opens
    <3> QED BY <3>6, <3>8, <3>9
  <2> DEFINE V == St[to]
  <2> HIDE DEF More, q, V
  <2>4. [i \in DOMAIN q |-> More(p, q[i], from, to)] \in Seq(V)
    <3>1. \A i \in DOMAIN q : q[i] \in Syllables
      BY <2>2, LenProperties
    <3>2. [i \in DOMAIN q |-> More(p, q[i], from, to)] \in [DOMAIN q -> V]
      BY <2>3, <3>1 DEF V
    <3> QED BY <2>2, <3>2, MapsTo
  <2> QED BY <2>4 DEF q, V
<1>5. ASSUME NEW to \in 1..n, NEW q \in Seq(St[to]) PROVE Keep(q) \in Seq(St[to])
  <2> DEFINE V == St[to]
  <2>1. q \in Seq(V) /\ AssistBeam \in Nat
    BY SchemaConstants
  <2> HIDE DEF V
  <2>2. Prune(q, AssistBeam) \in Seq(V)
    BY <2>1, PruneIs
  <2> QED BY <2>2 DEF V
<1>6. begin \in St[0]
  <2>1. 0 \in 0..n
    BY <1>3
  <2>2. begin \in Opens(in, 0)
    BY DEF Opens, Path, Rest, Abbreviated, Exact
  <2> QED BY <2>1, <2>2
<1>7. six \in Int
  OBVIOUS
<1>8. n + 1 = n + 1 /\ columns = Chart(in, begin, Step, Keep, six)
  OBVIOUS
<1>9. ASSUME NEW p \in St[n] PROVE p \in Paths(in)
  <2>1. n \in 0..n /\ n # 0
    BY <1>3
  <2>2. p \in Opens(in, n) /\ Rest(in, 0, n) = Tilings(in, 0, n)
    BY <2>1 DEF Rest
  <2> QED BY <2>2 DEF Opens, Paths
<1> HIDE DEF St, Step, Keep, begin, six
<1> DEFINE From(c, from, to) == FlattenSeq([i \in DOMAIN c[from + 1] |-> Step(c[from + 1][i], from, to)])
           Reached(c, to) == FlattenSeq([k \in 1..to - Greater(0, to - six) |-> From(c, Greater(0, to - six) + k - 1, to)])
           Body(c, to) == Append(c, Keep(Reached(c, to)))
           F == CHOOSE f : f = [to \in 0..n |-> IF to = 0 THEN <<<<begin>>>> ELSE Body(f[to - 1], to)]
           W(k) == Cols(St, n, k)
<1>10. Chart(in, begin, Step, Keep, six) = F[n]
  BY DEF Chart, MapSeq, n
<1> HIDE DEF F, n
<1>11. ASSUME NEW to \in 1..n, NEW c \in W(to - 1) PROVE Body(c, to) \in W(to)
  <2> DEFINE first == Greater(0, to - six)
             g == [from \in 0..to - 1 |-> From(c, from, to)]
  <2>1. first \in Nat /\ to \in Nat
    BY <1>3, <1>7, LesserIs DEF Greater
  <2>2. ASSUME NEW from \in 0..to - 1 PROVE From(c, from, to) \in Seq(St[to])
    <3> DEFINE q == c[from + 1]
               S == St[from]
               T == St[to]
    <3>1. q \in Seq(S)
      BY DEF Cols
    <3>2. ASSUME NEW x \in S PROVE Step(x, from, to) \in Seq(T)
      <4>1. from \in 0..n /\ to \in from + 1..n
        BY <1>3
      <4> QED BY <1>4, <4>1
    <3> HIDE DEF q, S, T
    <3>3. \A i \in DOMAIN q : q[i] \in S
      BY <3>1, LenProperties
    <3>4. [i \in DOMAIN q |-> Step(q[i], from, to)] \in [DOMAIN q -> Seq(T)]
      BY <3>2, <3>3
    <3>5. FlattenSeq([i \in DOMAIN q |-> Step(q[i], from, to)]) \in Seq(T)
      <4> DEFINE h == [i \in DOMAIN q |-> Step(q[i], from, to)]
      <4> HIDE DEF h
      <4>1. h \in [DOMAIN q -> Seq(T)]
        BY <3>4 DEF h
      <4>2. FlattenSeq(h) \in Seq(T)
        BY <3>1, <4>1, FlatMap
      <4> QED BY <4>2 DEF h
    <3> QED BY <3>5 DEF q, T
  <2> HIDE DEF From
  <2>3. \A from \in first..to - 1 : from \in 0..to - 1
    BY <2>1
  <2>4. \A from \in first..to - 1 : g[from] \in Seq(St[to])
    BY <2>2, <2>3
  <2>5. FlattenSeq([k \in 1..to - first |-> g[first + k - 1]]) \in Seq(St[to])
    <3> DEFINE T == St[to]
    <3>1. \A from \in first..to - 1 : g[from] \in Seq(T)
      BY <2>4
    <3> HIDE DEF g, T, first
    <3>2. FlattenSeq([k \in 1..to - first |-> g[first + k - 1]]) \in Seq(T)
      BY <2>1, <3>1, Gathered
    <3> QED BY <3>2 DEF T
  <2>6. [k \in 1..to - first |-> From(c, first + k - 1, to)] = [k \in 1..to - first |-> g[first + k - 1]]
    <3>1. \A k \in 1..to - first : first + k - 1 \in 0..to - 1
      BY <2>1
    <3> HIDE DEF first
    <3>2. \A k \in 1..to - first : From(c, first + k - 1, to) = g[first + k - 1]
      BY <3>1
    <3> HIDE DEF g
    <3> QED BY <3>2, Zenon
  <2>7. Reached(c, to) \in Seq(St[to])
    <3> HIDE DEF g
    <3> QED BY <2>5, <2>6 DEF first
  <2> HIDE DEF Reached
  <2>8. Keep(Reached(c, to)) \in Seq(St[to])
    BY <1>5, <2>7
  <2> DEFINE q == Keep(Reached(c, to))
  <2> HIDE DEF q
  <2>9. q \in Seq(St[to])
    BY <2>8 DEF q
  <2>10. Append(c, q) \in Cols(St, n, to)
    BY <1>3, <2>9, ColsGrow
  <2> QED BY <2>10 DEF q
<1>12. <<<<begin>>>> \in W(0)
  BY <1>3, <1>6, ColsBegin
<1> DEFINE T == [k \in 0..n |-> W(k)]
           U == UNION {W(k) : k \in 0..n}
           step == [p \in U \X (1..n) |-> Body(p[1], p[2])]
<1> HIDE DEF Body, W
<1>13. \A k \in 1..n : \A x \in T[k - 1] : step[<<x, k>>] \in T[k] /\ step[<<x, k>>] = Body(x, k)
  <2> SUFFICES ASSUME NEW k \in 1..n, NEW x \in T[k - 1] PROVE step[<<x, k>>] \in T[k] /\ step[<<x, k>>] = Body(x, k)
    OBVIOUS
  <2>1. k \in 0..n /\ k - 1 \in 0..n
    BY <1>3
  <2>2. x \in W(k - 1) /\ x \in U
    BY <2>1
  <2>3. step[<<x, k>>] = Body(x, k)
    BY <2>2
  <2>4. Body(x, k) \in W(k)
    BY <1>11, <2>2
  <2> HIDE DEF step
  <2> QED BY <2>1, <2>3, <2>4
<1>14. 0 \in 0..n /\ <<<<begin>>>> \in T[0]
  <2>1. 0 \in 0..n
    BY <1>3
  <2> QED BY <1>12, <2>1
<1> HIDE DEF step, U
<1>15. PICK g : Successive(g, n, <<<<begin>>>>, step) /\ \A k \in 0..n : g[k] \in T[k]
  <2> HIDE DEF T
  <2> QED BY <1>3, <1>13, <1>14, RecursionDefined
<1>16. ASSUME NEW k \in 0..n PROVE g[k] = IF k = 0 THEN <<<<begin>>>> ELSE Body(g[k - 1], k)
  <2>1. k # 0 => k - 1 \in 0..n /\ k \in 1..n
    BY <1>3
  <2>2. g[k] = IF k = 0 THEN <<<<begin>>>> ELSE step[<<g[k - 1], k>>]
    BY <1>15 DEF Successive
  <2>3. k # 0 => g[k - 1] \in T[k - 1]
    BY <1>15, <2>1
  <2> HIDE DEF T
  <2>4. k # 0 => step[<<g[k - 1], k>>] = Body(g[k - 1], k)
    BY <1>13, <2>1, <2>3
  <2> QED BY <2>2, <2>4
<1>17. g = [k \in 0..n |-> IF k = 0 THEN <<<<begin>>>> ELSE Body(g[k - 1], k)]
  <2>1. g = [k \in 0..n |-> g[k]]
    BY <1>15 DEF Successive
  <2> QED BY <1>16, <2>1
<1>18. F = [k \in 0..n |-> IF k = 0 THEN <<<<begin>>>> ELSE Body(F[k - 1], k)]
  BY <1>17, Zenon DEF F
<1>19. \A k \in 0..n : F[k] = IF k = 0 THEN <<<<begin>>>> ELSE Body(F[k - 1], k)
  BY <1>18, Zenon
<1> DEFINE A == {k \in 0..n : F[k] \in W(k)}
<1>20. \A k \in 0..n : k \in A
  <2>1. 0 \in A
    <3>1. F[0] = <<<<begin>>>>
      BY <1>14, <1>19
    <3> QED BY <1>12, <1>14, <3>1
  <2>2. ASSUME NEW k \in 1..n, k - 1 \in A PROVE k \in A
    <3>1. k \in 0..n /\ k # 0 /\ F[k - 1] \in W(k - 1)
      BY <1>3, <2>2
    <3>2. F[k] = Body(F[k - 1], k)
      BY <1>19, <3>1
    <3> QED BY <1>11, <3>1, <3>2
  <2> HIDE DEF A
  <2> QED BY <1>3, <2>1, <2>2, UpTo
<1>21. \A k \in 0..n : F[k] \in W(k)
  BY <1>20
<1>22. F[n] \in Cols(St, n, n)
  BY <1>3, <1>21 DEF W
<1>23. column \in Seq(St[n])
  <2> HIDE DEF columns
  <2>1. columns \in Cols(St, n, n)
    BY <1>8, <1>10, <1>22 DEF n
  <2>2. n \in 0..n
    BY <1>3
  <2> QED BY <2>1, <2>2 DEF Cols
<1>24. column \in Seq(Paths(in))
  <2> DEFINE Old == St[n]
             All == Paths(in)
  <2>1. Old \subseteq All
    BY <1>9
  <2>2. column \in Seq(Old)
    BY <1>23
  <2> HIDE DEF Old, All, column
  <2>3. column \in Seq(All)
    BY <2>1, <2>2, SeqMonotonic
  <2> QED BY <2>3 DEF All
<1>25. some \in SUBSET DOMAIN column
  OBVIOUS
<1> HIDE DEF some, column
<1>26. Those(column, some) \in Seq(Paths(in))
  BY <1>24, <1>25, ThoseAre
<1> QED BY <1>26, PruneIs

\* What was corrected reads all of the letters.
Edits(in, k) == [path : Opens(in, k), edited : BOOLEAN]
\* Corrections are paths through the input as it was typed.
LEMMA CorrectionsAre ==
  ASSUME NEW in \in Seq(Chars), NEW budget \in Nat
  PROVE  Corrections(in, budget) \in Seq(Paths(in))
<1> DEFINE n == Len(in)
           St == [k \in 0..n |-> Edits(in, k)]
           More(p, y, from, to) == [p EXCEPT !.syl = Append(@, Syllable(y, from, to, TRUE))]
           As(p, y, from, to, edited) == [path |-> More(p, y, from, to), edited |-> edited]
           Reading(s, from, to, corrected) ==
             [i \in DOMAIN Tokens(Slice(in, from, to), corrected) |->
                As(s.path, Tokens(Slice(in, from, to), corrected)[i], from, to, corrected \/ s.edited)]
           Ways(s) == IF s.edited THEN <<FALSE>> ELSE <<FALSE, TRUE>>
           Step(s, from, to) == FlattenSeq([i \in DOMAIN Ways(s) |-> Reading(s, from, to, Ways(s)[i])])
           Less(s, t) == \/ Len(s.path.syl) < Len(t.path.syl)
                         \/ Len(s.path.syl) = Len(t.path.syl) /\ TextLess(Key(s.path), Key(t.path))
           Same(s, t) == s.edited = t.edited /\ SameReading(s.path, t.path)
           Beams(states) == Take(Those(states, {i \in DOMAIN states : states[i].edited}), AssistBeam)
                            \o Take(Those(states, {i \in DOMAIN states : ~ states[i].edited}), AssistBeam)
           Once(q) == Those(q, {i \in DOMAIN q : ~\E j \in 1..i - 1 : Same(q[i], q[j])})
           Keep(q) == Beams(Once(SortedBy(q, {p \in (DOMAIN q) \X (DOMAIN q) : Less(q[p[1]], q[p[2]])})))
           begin == [path |-> Path(<<>>, Corrected, 0), edited |-> FALSE]
           seven == 7
           columns == Chart(in, begin, Step, Keep, seven)
           column == columns[n + 1]
           some == {i \in DOMAIN column : column[i].edited}
           done == Those(column, some)
<1>1. Corrections(in, budget) = IF n < 3 \/ Contains(in, Separator) THEN <<>>
                                ELSE Take([i \in DOMAIN done |-> done[i].path], budget)
  BY DEF Corrections, Selected, MapSeq, Sorted, FirstReadings
<1>2. SUFFICES ASSUME ~ (n < 3 \/ Contains(in, Separator))
               PROVE  Take([i \in DOMAIN done |-> done[i].path], budget) \in Seq(Paths(in))
  BY <1>1, EmptySeq
<1>3. n \in Nat /\ n >= 3 /\ Plain(in, 0, n)
  BY <1>2, LenProperties, PlainInput
<1>4. ASSUME NEW from \in 0..n, NEW to \in from + 1..n, NEW s \in St[from] PROVE Step(s, from, to) \in Seq(St[to])
  <2> DEFINE S == Rest(in, 0, from)
             T == Rest(in, 0, to)
             K == Exact..Abbreviated
             V == St[to]
  <2>1. s \in Edits(in, from) /\ V = Edits(in, to) /\ to \in 0..n /\ from \in Nat /\ to \in Nat
    BY <1>3
  <2>2. s.path \in [syl : S, kind : K, extra : Int] /\ s.path.syl \in S
    BY <2>1 DEF Edits, Opens
  <2>3. ASSUME NEW y \in Syllables PROVE More(s.path, y, from, to) \in Opens(in, to)
    <3> DEFINE v == Append(s.path.syl, Syllable(y, from, to, TRUE))
               p == s.path
    <3>1. y \in Text
      BY SyllablesAre
    <3>2. v \in T
      BY <1>3, <2>2, <3>1, OneMore
    <3>3. More(p, y, from, to) = [p EXCEPT !.syl = v]
      OBVIOUS
    <3>4. p \in [syl : S, kind : K, extra : Int]
      BY <2>2
    <3> HIDE DEF v, p, S, T, K, More
    <3>5. [p EXCEPT !.syl = v] \in [syl : T, kind : K, extra : Int]
      BY <3>2, <3>4
    <3> QED BY <3>3, <3>5 DEF T, K, Opens, p
  <2> HIDE DEF More
  <2>4. ASSUME NEW y \in Syllables, NEW e \in BOOLEAN PROVE As(s.path, y, from, to, e) \in V
    BY <2>1, <2>3 DEF Edits
  <2> HIDE DEF As, V
  <2>5. ASSUME NEW c \in BOOLEAN PROVE Reading(s, from, to, c) \in Seq(V)
    <3> DEFINE q == Tokens(Slice(in, from, to), c)
               e == c \/ s.edited
               p == s.path
    <3>1. q \in Seq(Syllables)
      BY TokensAre
    <3>2. e \in BOOLEAN
      BY Zenon
    <3>3. Reading(s, from, to, c) = [i \in DOMAIN q |-> As(p, q[i], from, to, e)]
      OBVIOUS
    <3> HIDE DEF q, e
    <3>4. [i \in DOMAIN q |-> As(p, q[i], from, to, e)] \in Seq(V)
      <4>1. \A i \in DOMAIN q : q[i] \in Syllables
        BY <3>1, LenProperties
      <4>2. [i \in DOMAIN q |-> As(p, q[i], from, to, e)] \in [DOMAIN q -> V]
        BY <2>4, <3>2, <4>1
      <4> QED BY <3>1, <4>2, MapsTo
    <3> QED BY <3>3, <3>4
  <2> HIDE DEF Reading
  <2>6. Ways(s) \in Seq(BOOLEAN)
    <3>1. <<FALSE>> \in Seq(BOOLEAN) /\ <<FALSE, TRUE>> \in Seq(BOOLEAN)
      <4>1. ASSUME NEW B, NEW x \in B, NEW y \in B PROVE <<x>> \in Seq(B) /\ <<x, y>> \in Seq(B)
        OBVIOUS
      <4> DEFINE B == BOOLEAN
                 x == FALSE
                 y == TRUE
      <4>2. x \in B /\ y \in B
        OBVIOUS
      <4> HIDE DEF B, x, y
      <4>3. <<x>> \in Seq(B) /\ <<x, y>> \in Seq(B)
        BY <4>2
      <4> QED BY <4>3 DEF B, x, y
    <3> QED BY <3>1
  <2> DEFINE w == Ways(s)
             g == [i \in DOMAIN w |-> Reading(s, from, to, w[i])]
  <2> HIDE DEF w
  <2>7. w \in Seq(BOOLEAN)
    BY <2>6 DEF w
  <2>8. \A i \in DOMAIN w : w[i] \in BOOLEAN
    <3> DEFINE B == BOOLEAN
    <3>1. w \in Seq(B)
      BY <2>7
    <3> HIDE DEF B
    <3>2. \A i \in DOMAIN w : w[i] \in B
      BY <3>1, LenProperties
    <3> QED BY <3>2, Zenon DEF B
  <2>9. g \in [DOMAIN w -> Seq(V)]
    BY <2>5, <2>8, Zenon
  <2> HIDE DEF g
  <2>10. FlattenSeq(g) \in Seq(V)
    BY <2>7, <2>9, FlatMap
  <2> QED BY <2>10 DEF g, w, V
<1>5. ASSUME NEW to \in 1..n, NEW q \in Seq(St[to]) PROVE Keep(q) \in Seq(St[to])
  <2> DEFINE V == St[to]
             less == {p \in (DOMAIN q) \X (DOMAIN q) : Less(q[p[1]], q[p[2]])}
             sorted == SortedBy(q, less)
             once == {i \in DOMAIN sorted : ~\E j \in 1..i - 1 : Same(sorted[i], sorted[j])}
             part == Those(sorted, once)
             yes == {i \in DOMAIN part : part[i].edited}
             no == {i \in DOMAIN part : ~ part[i].edited}
  <2>1. q \in Seq(V) /\ AssistBeam \in Int
    BY SchemaConstants
  <2> HIDE DEF V
  <2>2. sorted \in Seq(V)
    <3> HIDE DEF less
    <3> QED BY <2>1, SortedIs
  <2>3. Keep(q) = Take(Those(part, yes), AssistBeam) \o Take(Those(part, no), AssistBeam)
    OBVIOUS
  <2> HIDE DEF sorted, Keep
  <2>4. once \in SUBSET DOMAIN sorted
    OBVIOUS
  <2> HIDE DEF once
  <2>5. part \in Seq(V)
    BY <2>2, <2>4, ThoseAre
  <2> HIDE DEF part
  <2>6. yes \in SUBSET DOMAIN part /\ no \in SUBSET DOMAIN part
    OBVIOUS
  <2> HIDE DEF yes, no
  <2>7. Those(part, yes) \in Seq(V) /\ Those(part, no) \in Seq(V)
    BY <2>5, <2>6, ThoseAre
  <2>8. Take(Those(part, yes), AssistBeam) \in Seq(V) /\ Take(Those(part, no), AssistBeam) \in Seq(V)
    BY <2>1, <2>7, TakeIs
  <2>9. Take(Those(part, yes), AssistBeam) \o Take(Those(part, no), AssistBeam) \in Seq(V)
    BY <2>8, ConcatProperties
  <2> QED BY <2>3, <2>9 DEF V
<1>6. begin \in St[0]
  <2>1. 0 \in 0..n
    BY <1>3
  <2>2. Path(<<>>, Corrected, 0) \in Opens(in, 0)
    BY DEF Opens, Path, Rest, Corrected, Abbreviated, Exact
  <2>3. begin \in Edits(in, 0)
    BY <2>2 DEF Edits
  <2> QED BY <2>1, <2>3
<1>7. seven \in Int
  OBVIOUS
<1>8. columns = Chart(in, begin, Step, Keep, seven)
  OBVIOUS
<1>9. ASSUME NEW s \in St[n] PROVE s.path \in Paths(in)
  <2>1. n \in 0..n /\ n # 0
    BY <1>3
  <2>2. s.path \in Opens(in, n) /\ Rest(in, 0, n) = Tilings(in, 0, n)
    BY <2>1 DEF Rest, Edits
  <2> QED BY <2>2 DEF Opens, Paths
<1> HIDE DEF St, Step, Keep, begin, seven
<1> DEFINE From(c, from, to) == FlattenSeq([i \in DOMAIN c[from + 1] |-> Step(c[from + 1][i], from, to)])
           Reached(c, to) == FlattenSeq([k \in 1..to - Greater(0, to - seven) |-> From(c, Greater(0, to - seven) + k - 1, to)])
           Body(c, to) == Append(c, Keep(Reached(c, to)))
           F == CHOOSE f : f = [to \in 0..n |-> IF to = 0 THEN <<<<begin>>>> ELSE Body(f[to - 1], to)]
           W(k) == Cols(St, n, k)
<1>10. Chart(in, begin, Step, Keep, seven) = F[n]
  BY DEF Chart, MapSeq, n
<1> HIDE DEF F, n
<1>11. ASSUME NEW to \in 1..n, NEW c \in W(to - 1) PROVE Body(c, to) \in W(to)
  <2> DEFINE first == Greater(0, to - seven)
             g == [from \in 0..to - 1 |-> From(c, from, to)]
  <2>1. first \in Nat /\ to \in Nat
    BY <1>3, <1>7, LesserIs DEF Greater
  <2>2. ASSUME NEW from \in 0..to - 1 PROVE From(c, from, to) \in Seq(St[to])
    <3> DEFINE q == c[from + 1]
               S == St[from]
               T == St[to]
    <3>1. q \in Seq(S)
      BY DEF Cols
    <3>2. ASSUME NEW x \in S PROVE Step(x, from, to) \in Seq(T)
      <4>1. from \in 0..n /\ to \in from + 1..n
        BY <1>3
      <4> QED BY <1>4, <4>1
    <3> HIDE DEF q, S, T
    <3>3. \A i \in DOMAIN q : q[i] \in S
      BY <3>1, LenProperties
    <3>4. [i \in DOMAIN q |-> Step(q[i], from, to)] \in [DOMAIN q -> Seq(T)]
      BY <3>2, <3>3
    <3>5. FlattenSeq([i \in DOMAIN q |-> Step(q[i], from, to)]) \in Seq(T)
      <4> DEFINE h == [i \in DOMAIN q |-> Step(q[i], from, to)]
      <4> HIDE DEF h
      <4>1. h \in [DOMAIN q -> Seq(T)]
        BY <3>4 DEF h
      <4>2. FlattenSeq(h) \in Seq(T)
        BY <3>1, <4>1, FlatMap
      <4> QED BY <4>2 DEF h
    <3> QED BY <3>5 DEF q, T
  <2> HIDE DEF From
  <2>3. \A from \in first..to - 1 : from \in 0..to - 1
    BY <2>1
  <2>4. \A from \in first..to - 1 : g[from] \in Seq(St[to])
    BY <2>2, <2>3
  <2>5. FlattenSeq([k \in 1..to - first |-> g[first + k - 1]]) \in Seq(St[to])
    <3> DEFINE T == St[to]
    <3>1. \A from \in first..to - 1 : g[from] \in Seq(T)
      BY <2>4
    <3> HIDE DEF g, T, first
    <3>2. FlattenSeq([k \in 1..to - first |-> g[first + k - 1]]) \in Seq(T)
      BY <2>1, <3>1, Gathered
    <3> QED BY <3>2 DEF T
  <2>6. [k \in 1..to - first |-> From(c, first + k - 1, to)] = [k \in 1..to - first |-> g[first + k - 1]]
    <3>1. \A k \in 1..to - first : first + k - 1 \in 0..to - 1
      BY <2>1
    <3> HIDE DEF first
    <3>2. \A k \in 1..to - first : From(c, first + k - 1, to) = g[first + k - 1]
      BY <3>1
    <3> HIDE DEF g
    <3> QED BY <3>2, Zenon
  <2>7. Reached(c, to) \in Seq(St[to])
    <3> HIDE DEF g
    <3> QED BY <2>5, <2>6 DEF first
  <2> HIDE DEF Reached
  <2>8. Keep(Reached(c, to)) \in Seq(St[to])
    BY <1>5, <2>7
  <2> DEFINE q == Keep(Reached(c, to))
  <2> HIDE DEF q
  <2>9. q \in Seq(St[to])
    BY <2>8 DEF q
  <2>10. Append(c, q) \in Cols(St, n, to)
    BY <1>3, <2>9, ColsGrow
  <2> QED BY <2>10 DEF q
<1>12. <<<<begin>>>> \in W(0)
  BY <1>3, <1>6, ColsBegin
<1> DEFINE T == [k \in 0..n |-> W(k)]
           U == UNION {W(k) : k \in 0..n}
           step == [p \in U \X (1..n) |-> Body(p[1], p[2])]
<1> HIDE DEF Body, W
<1>13. \A k \in 1..n : \A x \in T[k - 1] : step[<<x, k>>] \in T[k] /\ step[<<x, k>>] = Body(x, k)
  <2> SUFFICES ASSUME NEW k \in 1..n, NEW x \in T[k - 1] PROVE step[<<x, k>>] \in T[k] /\ step[<<x, k>>] = Body(x, k)
    OBVIOUS
  <2>1. k \in 0..n /\ k - 1 \in 0..n
    BY <1>3
  <2>2. x \in W(k - 1) /\ x \in U
    BY <2>1
  <2>3. step[<<x, k>>] = Body(x, k)
    BY <2>2
  <2>4. Body(x, k) \in W(k)
    BY <1>11, <2>2
  <2> HIDE DEF step
  <2> QED BY <2>1, <2>3, <2>4
<1>14. 0 \in 0..n /\ <<<<begin>>>> \in T[0]
  <2>1. 0 \in 0..n
    BY <1>3
  <2> QED BY <1>12, <2>1
<1> HIDE DEF step, U
<1>15. PICK g : Successive(g, n, <<<<begin>>>>, step) /\ \A k \in 0..n : g[k] \in T[k]
  <2> HIDE DEF T
  <2> QED BY <1>3, <1>13, <1>14, RecursionDefined
<1>16. ASSUME NEW k \in 0..n PROVE g[k] = IF k = 0 THEN <<<<begin>>>> ELSE Body(g[k - 1], k)
  <2>1. k # 0 => k - 1 \in 0..n /\ k \in 1..n
    BY <1>3
  <2>2. g[k] = IF k = 0 THEN <<<<begin>>>> ELSE step[<<g[k - 1], k>>]
    BY <1>15 DEF Successive
  <2>3. k # 0 => g[k - 1] \in T[k - 1]
    BY <1>15, <2>1
  <2> HIDE DEF T
  <2>4. k # 0 => step[<<g[k - 1], k>>] = Body(g[k - 1], k)
    BY <1>13, <2>1, <2>3
  <2> QED BY <2>2, <2>4
<1>17. g = [k \in 0..n |-> IF k = 0 THEN <<<<begin>>>> ELSE Body(g[k - 1], k)]
  <2>1. g = [k \in 0..n |-> g[k]]
    BY <1>15 DEF Successive
  <2> QED BY <1>16, <2>1
<1>18. F = [k \in 0..n |-> IF k = 0 THEN <<<<begin>>>> ELSE Body(F[k - 1], k)]
  BY <1>17, Zenon DEF F
<1>19. \A k \in 0..n : F[k] = IF k = 0 THEN <<<<begin>>>> ELSE Body(F[k - 1], k)
  BY <1>18, Zenon
<1> DEFINE A == {k \in 0..n : F[k] \in W(k)}
<1>20. \A k \in 0..n : k \in A
  <2>1. 0 \in A
    <3>1. F[0] = <<<<begin>>>>
      BY <1>14, <1>19
    <3> QED BY <1>12, <1>14, <3>1
  <2>2. ASSUME NEW k \in 1..n, k - 1 \in A PROVE k \in A
    <3>1. k \in 0..n /\ k # 0 /\ F[k - 1] \in W(k - 1)
      BY <1>3, <2>2
    <3>2. F[k] = Body(F[k - 1], k)
      BY <1>19, <3>1
    <3> QED BY <1>11, <3>1, <3>2
  <2> HIDE DEF A
  <2> QED BY <1>3, <2>1, <2>2, UpTo
<1>21. \A k \in 0..n : F[k] \in W(k)
  BY <1>20
<1>22. F[n] \in Cols(St, n, n)
  BY <1>3, <1>21 DEF W
<1>23. column \in Seq(St[n])
  <2> HIDE DEF columns
  <2>1. columns \in Cols(St, n, n)
    BY <1>8, <1>10, <1>22 DEF n
  <2>2. n \in 0..n
    BY <1>3
  <2> QED BY <2>1, <2>2 DEF Cols
<1>24. some \in SUBSET DOMAIN column
  OBVIOUS
<1> DEFINE V == St[n]
           P == Paths(in)
<1> HIDE DEF some, column, V, P
<1>25. done \in Seq(V)
  BY <1>23, <1>24, ThoseAre DEF V
<1> HIDE DEF done
<1>26. ASSUME NEW s \in V PROVE s.path \in P
  BY <1>9 DEF V, P
<1>27. [i \in DOMAIN done |-> done[i].path] \in Seq(P)
  <2>1. \A i \in DOMAIN done : done[i] \in V
    BY <1>25, LenProperties
  <2>2. [i \in DOMAIN done |-> done[i].path] \in [DOMAIN done -> P]
    BY <1>26, <2>1
  <2> QED BY <1>25, <2>2, MapsTo
<1>28. Take([i \in DOMAIN done |-> done[i].path], budget) \in Seq(P)
  <2> DEFINE q == [i \in DOMAIN done |-> done[i].path]
  <2>1. q \in Seq(P) /\ budget \in Int
    BY <1>27
  <2> HIDE DEF q
  <2>2. Take(q, budget) \in Seq(P)
    BY <2>1, TakeIs
  <2> QED BY <2>2 DEF q
<1> QED BY <1>28 DEF P

---------------------------------------------------------------------------
(* The parse of an input *)

\* Of last resort each letter is read.
LEMMA LastResortIs ==
  ASSUME NEW in \in Seq(Chars), in # <<>>
  PROVE  LastResort(in) \in Seq(Paths(in))
<1> DEFINE n == Len(in)
           Letter(k, text, complete) == Syllable(text, k - 1, k, complete)
           initials == [k \in DOMAIN in |-> Letter(k, <<in[k]>>, FALSE)]
           readings == [k \in DOMAIN in |-> Letter(k, Fallback[in[k]], TRUE)]
           extra == Len(FlattenSeq(Texts(readings))) - n
           zero == 0
<1>1. LastResort(in) = IF Contains(in, Separator) THEN <<>>
                       ELSE IF ToSet(in) \cap Vowels = {} THEN <<Path(initials, Abbreviated, zero)>>
                       ELSE IF n < 2 THEN <<>>
                       ELSE <<Path(readings, Abbreviated, extra)>>
  BY DEF LastResort
<1>2. SUFFICES ASSUME ~ Contains(in, Separator)
               PROVE  <<Path(initials, Abbreviated, zero)>> \in Seq(Paths(in)) /\ <<Path(readings, Abbreviated, extra)>> \in Seq(Paths(in))
  BY <1>1, EmptySeq
<1>3. n \in Nat /\ n >= 1 /\ DOMAIN in = 1..n /\ Plain(in, 0, n)
  <2>1. n \in Nat /\ DOMAIN in = 1..n /\ Plain(in, 0, n)
    BY <1>2, LenProperties, PlainInput
  <2>2. n # 0
    BY EmptySeq
  <2> QED BY <2>1, <2>2
<1>4. ASSUME NEW k \in 1..n PROVE in[k] \in Nat /\ in[k] \in DOMAIN Fallback
  <2>1. in[k] \in Chars /\ in[k] # Separator
    BY <1>3 DEF Plain
  <2> QED BY <2>1, CharsAre DEF Chars
<1>5. ASSUME NEW k \in 1..n PROVE <<in[k]>> \in Text /\ Fallback[in[k]] \in Text
  <2>1. <<in[k]>> \in Text
    <3> DEFINE c == in[k]
    <3>1. c \in Nat
      BY <1>4
    <3> HIDE DEF c
    <3>2. <<c>> \in Seq(Nat)
      BY <3>1
    <3> QED BY <3>2 DEF Text, c
  <2>2. Fallback[in[k]] \in Seq(Nat \ {Separator})
    BY <1>4, SchemaConstants
  <2>3. Nat \ {Separator} \subseteq Nat
    OBVIOUS
  <2>4. Fallback[in[k]] \in Seq(Nat)
    <3> DEFINE A == Nat \ {Separator}
               x == Fallback[in[k]]
    <3>1. x \in Seq(A) /\ A \subseteq Nat
      BY <2>2, <2>3
    <3> HIDE DEF A, x
    <3>2. x \in Seq(Nat)
      BY <3>1, SeqMonotonic
    <3> QED BY <3>2 DEF x
  <2> QED BY <2>1, <2>4 DEF Text
<1>6. ASSUME NEW g \in Seq(Syl(in)), Len(g) = n, \A k \in 1..n : g[k].from = k - 1 /\ g[k].to = k
      PROVE  g \in Tilings(in, 0, n)
  <2>1. g # <<>>
    BY <1>3, <1>6, EmptySeq
  <2>2. 1 \in 1..n /\ n \in 1..n
    BY <1>3
  <2>3. g[1].from = 0 /\ g[n].to = n
    BY <1>6, <2>2
  <2>4. ASSUME NEW k \in 1..n PROVE Spans(in, g[k])
    <3>1. \A j \in k - 1 + 1..k : in[j] # Separator
      BY <1>3 DEF Plain
    <3>2. k - 1 < k
      OBVIOUS
    <3> QED BY <1>6, <3>1, <3>2 DEF Spans
  <2>5. ASSUME NEW k \in 1..n - 1 PROVE Follows(in, g[k].to, g[k + 1].from)
    <3>1. k \in 1..n /\ k + 1 \in 1..n /\ k + 1 - 1 = k
      BY <1>3
    <3>2. g[k].to = k /\ g[k + 1].from = k
      BY <1>6, <3>1
    <3> QED BY <3>2 DEF Follows
  <2> HIDE DEF n
  <2> QED BY <1>6, <2>1, <2>3, <2>4, <2>5 DEF Tilings, Tiled
<1>7. ASSUME NEW k \in 1..n, NEW text \in Text, NEW c \in BOOLEAN
      PROVE  Letter(k, text, c) \in Syl(in) /\ Letter(k, text, c).from = k - 1 /\ Letter(k, text, c).to = k
  <2>1. k - 1 \in 0..n /\ k \in 0..n
    BY <1>3
  <2> QED BY <2>1 DEF Syl, Syllable
<1>8. initials \in Tilings(in, 0, n)
  <2>1. \A k \in DOMAIN in : initials[k] \in Syl(in) /\ initials[k].from = k - 1 /\ initials[k].to = k
    <3>1. FALSE \in BOOLEAN
      OBVIOUS
    <3> HIDE DEF Letter
    <3> QED BY <1>3, <1>5, <1>7, <3>1
  <2>2. initials \in [DOMAIN in -> Syl(in)]
    <3> HIDE DEF Letter
    <3>1. \A k \in DOMAIN in : Letter(k, <<in[k]>>, FALSE) \in Syl(in)
      BY <2>1
    <3> QED BY <3>1, Zenon
  <2> HIDE DEF initials
  <2>3. initials \in Seq(Syl(in)) /\ Len(initials) = n
    BY <2>2, MapsTo
  <2> QED BY <1>3, <1>6, <2>1, <2>3
<1>9. readings \in Tilings(in, 0, n) /\ Texts(readings) \in Seq(Text)
  <2>1. \A k \in DOMAIN in : readings[k] \in Syl(in) /\ readings[k].from = k - 1 /\ readings[k].to = k
    <3>1. TRUE \in BOOLEAN
      OBVIOUS
    <3> HIDE DEF Letter
    <3> QED BY <1>3, <1>5, <1>7, <3>1
  <2>2. readings \in [DOMAIN in -> Syl(in)]
    <3> HIDE DEF Letter
    <3>1. \A k \in DOMAIN in : Letter(k, Fallback[in[k]], TRUE) \in Syl(in)
      BY <2>1
    <3> QED BY <3>1, Zenon
  <2> HIDE DEF readings
  <2>3. readings \in Seq(Syl(in)) /\ Len(readings) = n
    BY <2>2, MapsTo
  <2>4. readings \in Tilings(in, 0, n)
    BY <1>3, <1>6, <2>1, <2>3
  <2>5. Texts(readings) = [i \in DOMAIN readings |-> readings[i].text]
    BY DEF Texts, MapSeq
  <2>6. ASSUME NEW y \in Syl(in) PROVE y.text \in Text
    BY DEF Syl
  <2>7. [i \in DOMAIN readings |-> readings[i].text] \in Seq(Text)
    <3>1. \A i \in DOMAIN readings : readings[i] \in Syl(in)
      BY <2>3, LenProperties
    <3>2. [i \in DOMAIN readings |-> readings[i].text] \in [DOMAIN readings -> Text]
      BY <2>6, <3>1
    <3> QED BY <2>3, <3>2, MapsTo
  <2> QED BY <2>4, <2>5, <2>7
<1>10. extra \in Int
  <2> DEFINE t == Texts(readings)
             f == FlattenSeq(t)
  <2>1. t \in Seq(Seq(Nat))
    BY <1>9 DEF Text
  <2> HIDE DEF t
  <2>2. f \in Seq(Nat)
    BY <2>1, FlattenIs
  <2> HIDE DEF f
  <2>3. Len(f) \in Nat
    BY <2>2, LenProperties
  <2> QED BY <1>3, <2>3 DEF f, t
<1>11. ASSUME NEW syl \in Tilings(in, 0, n), NEW more \in Int PROVE <<Path(syl, Abbreviated, more)>> \in Seq(Paths(in))
  <2> DEFINE p == Path(syl, Abbreviated, more)
             P == Paths(in)
  <2>1. p \in P
    BY DEF Path, Paths, Abbreviated, Exact
  <2> HIDE DEF p, P
  <2>2. <<p>> \in Seq(P)
    BY <2>1
  <2> QED BY <2>2 DEF p, P
<1>12. zero \in Int
  OBVIOUS
<1> HIDE DEF initials, readings, extra, zero
<1> QED BY <1>8, <1>9, <1>10, <1>11, <1>12

\* Readings that are not spelled out make room for corrections.
LEMMA DisplacingIs ==
  ASSUME NEW S, NEW base \in Seq(S), NEW short \in Seq(S), NEW fixed \in Seq(S), NEW budget \in Nat
  PROVE  Displacing(base, short, fixed, budget) \in Seq(S)
<1> DEFINE one == 1
           first == Take(base, one)
           reserve == Lesser(8, Lesser(Len(fixed), budget - Len(first)))
           room == budget - reserve - Len(first)
           kept == Lesser(Len(short), Greater(0, room))
           part == SubSeq(short, kept + 1, Len(short))
           other == SubSeq(base, 2, Len(base))
<1>1. first \in Seq(S) /\ Len(first) \in Nat /\ Len(fixed) \in Nat /\ Len(short) \in Nat /\ Len(base) \in Nat
  <2>1. one \in Int
    OBVIOUS
  <2> HIDE DEF one
  <2> QED BY <2>1, TakeIs, LenProperties
<1> HIDE DEF first, one
<1>2. reserve \in Int
  <2> DEFINE left == budget - Len(first)
             r == Lesser(Len(fixed), left)
             eight == 8
  <2>1. left \in Int /\ Len(fixed) \in Int /\ eight \in Int
    BY <1>1
  <2> HIDE DEF left, eight
  <2>2. r \in Int
    BY <2>1 DEF Lesser
  <2> HIDE DEF r
  <2>3. Lesser(eight, r) \in Int
    BY <2>1, <2>2 DEF Lesser
  <2> QED BY <2>3 DEF r, left, eight
<1> HIDE DEF reserve
<1>3. room \in Int
  BY <1>1, <1>2
<1> HIDE DEF room
<1>4. kept \in Nat /\ kept + 1 \in Nat /\ kept + 1 >= 1
  BY <1>1, <1>3 DEF Lesser, Greater
<1> HIDE DEF kept
<1>5. part \in Seq(S)
  <2> DEFINE m == kept + 1
             e == Len(short)
  <2>1. m \in Nat /\ m >= 1 /\ e \in Int /\ e <= Len(short)
    BY <1>1, <1>4
  <2>2. part = SubSeq(short, m, e)
    OBVIOUS
  <2> HIDE DEF m, e, part
  <2>3. SubSeq(short, m, e) \in Seq(S)
    BY <2>1, PartIs
  <2> QED BY <2>2, <2>3
<1>6. other \in Seq(S)
  <2> DEFINE m == 2
             e == Len(base)
  <2>1. m \in Nat /\ m >= 1 /\ e \in Int /\ e <= Len(base)
    BY <1>1
  <2>2. other = SubSeq(base, m, e)
    OBVIOUS
  <2> HIDE DEF m, e, other
  <2>3. SubSeq(base, m, e) \in Seq(S)
    BY <2>1, PartIs
  <2> QED BY <2>2, <2>3
<1>7. Take(short, kept) \in Seq(S)
  <2>1. kept \in Int
    BY <1>4
  <2> QED BY <2>1, TakeIs
<1>8. Displacing(base, short, fixed, budget) = Take(first \o Take(short, kept) \o fixed \o part \o other, budget)
  BY DEF Displacing, first, kept, reserve, room, one
<1> HIDE DEF part, other
<1> DEFINE q == first \o Take(short, kept) \o fixed \o part \o other
<1>9. q \in Seq(S)
  <2>1. first \o Take(short, kept) \in Seq(S)
    BY <1>1, <1>7, ConcatProperties
  <2>2. (first \o Take(short, kept)) \o fixed \in Seq(S)
    BY <2>1, ConcatProperties
  <2>3. ((first \o Take(short, kept)) \o fixed) \o part \in Seq(S)
    BY <1>5, <2>2, ConcatProperties
  <2> QED BY <1>6, <2>3, ConcatProperties
<1> HIDE DEF q
<1>10. Take(q, budget) \in Seq(S)
  <2>1. budget \in Int
    OBVIOUS
  <2> QED BY <1>9, <2>1, TakeIs
<1> QED BY <1>8, <1>10 DEF q

\* The paths with abbreviations and corrections added to them.
LEMMA AssistedIs ==
  ASSUME NEW in \in Seq(Chars), NEW base \in Seq(Paths(in)), NEW budget \in Nat, NEW correct
  PROVE  /\ Assisted(in, base, budget, correct) \in Seq(Paths(in))
         /\ WithAssistance(in, base, budget, correct) \in Seq(Paths(in))
<1> DEFINE P == Paths(in)
           stable == StableTrailingPrefix(in, base)
           short == Completions(base, budget, Never) \o (IF stable THEN <<>> ELSE Abbreviations(in, budget))
           fixed == IF correct /\ ~ stable THEN Corrections(in, budget) ELSE <<>>
           kept == PruneDistinct(short, budget)
           whole == {Len(p.syl) : p \in {q \in ToSet(base) : AllComplete(q)}}
<1>1. Completions(base, budget, Never) \in Seq(P) /\ Completions(base, budget, Fewest(whole)) \in Seq(P)
  BY CompletionsAre
<1>2. Abbreviations(in, budget) \in Seq(P) /\ Corrections(in, budget) \in Seq(P) /\ <<>> \in Seq(P)
  BY AbbreviationsAre, CorrectionsAre, EmptySeq
<1>3. (IF stable THEN <<>> ELSE Abbreviations(in, budget)) \in Seq(P) /\ fixed \in Seq(P)
  BY <1>2
<1> HIDE DEF P
<1>4. short \in Seq(P)
  BY <1>1, <1>3, ConcatProperties
<1> HIDE DEF short, fixed
<1>5. kept \in Seq(P)
  BY <1>4, PruneIs
<1> HIDE DEF kept
<1>6. Displacing(base, kept, fixed, budget) \in Seq(P)
  <2>1. base \in Seq(P)
    BY DEF P
  <2> QED BY <1>3, <1>5, <2>1, DisplacingIs
<1>7. Assisted(in, base, budget, correct) = Displacing(base, kept, fixed, budget)
  BY DEF Assisted, kept, fixed, short
<1>8. Take(base \o Completions(base, budget, Fewest(whole)), budget) \in Seq(P)
  <2> DEFINE c == Completions(base, budget, Fewest(whole))
             q == base \o c
  <2>1. c \in Seq(P) /\ base \in Seq(P) /\ budget \in Int
    BY <1>1 DEF P
  <2> HIDE DEF c
  <2>2. q \in Seq(P)
    BY <2>1, ConcatProperties
  <2> HIDE DEF q
  <2>3. Take(q, budget) \in Seq(P)
    BY <2>1, <2>2, TakeIs
  <2> QED BY <2>3 DEF q, c
<1> QED BY <1>6, <1>7, <1>8 DEF P, WithAssistance

\* What a parse of an input is.
ParsesOf(in) == {r \in [valid : BOOLEAN, in : {in}, paths : Seq(Paths(in))] : r.valid => r.paths # <<>>}

\* A failed parse is a parse without paths.
LEMMA InvalidIs ==
  ASSUME NEW in
  PROVE  Invalid(in) \in ParsesOf(in)
  BY EmptySeq DEF Invalid, ParsesOf

\* The paths of a parse read all letters of its input, each once and in order.
LEMMA ParseIs ==
  ASSUME NEW in \in Seq(Chars), NEW budget \in Nat, NEW correct, NEW cut
  PROVE  Parse(in, budget, correct, cut) \in ParsesOf(in)
<1> DEFINE P == Paths(in)
           n == Len(in)
           seg == Segmentations(in, budget, cut)
           base == [i \in DOMAIN seg |-> Path(seg[i], Exact, 0)]
           with == WithAssistance(in, base, budget, correct)
           paths == IF with # <<>> THEN with ELSE LastResort(in)
<1>1. Parse(in, budget, correct, cut) = IF ~ WellFormed(in) \/ cut < 0 THEN Invalid(in)
                                        ELSE [valid |-> paths # <<>>, in |-> in, paths |-> paths]
  BY DEF Parse, ParsedOr, Parsed, MapSeq
<1>2. SUFFICES ASSUME WellFormed(in) PROVE [valid |-> paths # <<>>, in |-> in, paths |-> paths] \in ParsesOf(in)
  BY <1>1, InvalidIs
<1>3. seg \in Seq(Tilings(in, 0, n))
  BY <1>2, SegmentationsAre
<1>4. ASSUME NEW syl \in Tilings(in, 0, n) PROVE Path(syl, Exact, 0) \in P
  BY DEF Path, Paths, Exact, Abbreviated
<1> DEFINE T == Tilings(in, 0, n)
<1> HIDE DEF seg, P, n, T
<1>5. [i \in DOMAIN seg |-> Path(seg[i], Exact, 0)] \in Seq(P)
  <2>1. \A i \in DOMAIN seg : seg[i] \in T
    BY <1>3, LenProperties DEF T
  <2>2. [i \in DOMAIN seg |-> Path(seg[i], Exact, 0)] \in [DOMAIN seg -> P]
    BY <1>4, <2>1 DEF T
  <2> QED BY <1>3, <2>2, MapsTo
<1>6. with \in Seq(P)
  <2>1. base \in Seq(Paths(in))
    BY <1>5 DEF P
  <2> HIDE DEF base
  <2> QED BY <2>1, AssistedIs DEF P
<1>7. LastResort(in) \in Seq(P)
  BY <1>2, LastResortIs DEF P, WellFormed
<1> HIDE DEF with
<1>8. paths \in Seq(P)
  BY <1>6, <1>7
<1> HIDE DEF paths
<1>9. (paths # <<>>) \in BOOLEAN
  BY Zenon
<1> DEFINE v == paths # <<>>
<1>10. v \in BOOLEAN /\ (v => paths # <<>>)
  BY <1>9
<1> HIDE DEF v
<1>11. [valid |-> v, in |-> in, paths |-> paths] \in [valid : BOOLEAN, in : {in}, paths : Seq(P)]
  BY <1>8, <1>10, Zenon
<1>12. [valid |-> v, in |-> in, paths |-> paths] \in ParsesOf(in)
  BY <1>10, <1>11 DEF ParsesOf, P
<1> QED BY <1>12 DEF v

---------------------------------------------------------------------------
(* The incremental parse *)

\* The leading syllables of a reading.
LEMMA PrefixTiles ==
  ASSUME NEW in, Len(in) \in Nat, NEW a, NEW b, NEW s \in Tilings(in, a, b), NEW k \in 1..Len(s)
  PROVE  SubSeq(s, 1, k) \in Tilings(in, a, s[k].to) /\ Last(SubSeq(s, 1, k)) = s[k]
<1> DEFINE S == Syl(in)
           t == SubSeq(s, 1, k)
           one == 1
<1>1. s \in Seq(S) /\ Len(s) \in Nat /\ k \in Nat /\ k >= 1 /\ k <= Len(s) /\ Tiled(in, s, a, b)
  BY TilingSpan DEF Tilings
<1>2. t \in Seq(S) /\ Len(t) = k /\ \A i \in 1..k : t[i] = s[i]
  <2>1. one \in Nat /\ one >= 1 /\ k \in Int
    BY <1>1
  <2> HIDE DEF S, one
  <2>2. /\ SubSeq(s, one, k) \in Seq(S) /\ Len(SubSeq(s, one, k)) = IF one <= k THEN k - one + 1 ELSE 0
        /\ \A i \in 1..k - one + 1 : SubSeq(s, one, k)[i] = s[one + i - 1]
    BY <1>1, <2>1, PartIs
  <2>3. k - one + 1 = k /\ one <= k
    BY <1>1 DEF one
  <2>4. \A i \in 1..k : one + i - 1 = i
    BY DEF one
  <2> QED BY <2>2, <2>3, <2>4 DEF one
<1> HIDE DEF t, S
<1>3. t # <<>>
  BY <1>1, <1>2, EmptySeq
<1>4. 1 \in 1..k /\ k \in 1..k
  BY <1>1
<1>5. t[1].from = a /\ t[Len(t)].to = s[k].to /\ t[Len(t)] = s[k]
  BY <1>1, <1>2, <1>4 DEF Tiled
<1>6. \A i \in 1..Len(t) : Spans(in, t[i])
  <2>1. \A i \in 1..k : i \in 1..Len(s)
    BY <1>1
  <2> QED BY <1>1, <1>2, <2>1 DEF Tiled
<1>7. \A i \in 1..Len(t) - 1 : Follows(in, t[i].to, t[i + 1].from)
  <2> SUFFICES ASSUME NEW i \in 1..k - 1 PROVE Follows(in, t[i].to, t[i + 1].from)
    BY <1>2
  <2>1. i \in 1..Len(s) - 1 /\ i \in 1..k /\ i + 1 \in 1..k
    BY <1>1
  <2>2. t[i] = s[i] /\ t[i + 1] = s[i + 1]
    BY <1>2, <2>1
  <2> QED BY <1>1, <2>1, <2>2 DEF Tiled
<1>8. Tiled(in, t, a, s[k].to)
  BY <1>3, <1>5, <1>6, <1>7 DEF Tiled
<1>9. Last(t) = s[k]
  BY <1>5 DEF Last
<1> QED BY <1>2, <1>8, <1>9 DEF t, S, Tilings

\* A reading stays one when letters follow.
LEMMA LongerTiles ==
  ASSUME NEW in \in Seq(Chars), NEW more \in Seq(Chars), IsPrefix(in, more), NEW a, NEW b, NEW s \in Tilings(in, a, b)
  PROVE  s \in Tilings(more, a, b)
<1> DEFINE n == Len(in)
           m == Len(more)
<1>1. n \in Nat /\ m \in Nat /\ n <= m
  BY LenProperties DEF IsPrefix
<1>2. \A j \in 1..n : in[j] = more[j]
  <2> DEFINE one == 1
  <2>1. SubSeq(in, one, n) = SubSeq(more, one, n) /\ one \in Nat /\ one >= 1 /\ n \in Int
    BY <1>1 DEF IsPrefix
  <2> HIDE DEF n, one
  <2>2. \A i \in 1..n - one + 1 : SubSeq(in, one, n)[i] = in[one + i - 1] /\ SubSeq(more, one, n)[i] = more[one + i - 1]
    <3>1. \A i \in 1..n - one + 1 : SubSeq(in, one, n)[i] = in[one + i - 1]
      BY <1>1, <2>1, PartIs DEF n
    <3>2. \A i \in 1..n - one + 1 : SubSeq(more, one, n)[i] = more[one + i - 1]
      BY <1>1, <2>1, PartIs DEF n
    <3> QED BY <3>1, <3>2
  <2>3. \A i \in 1..n : i \in 1..n - one + 1 /\ one + i - 1 = i
    BY <1>1 DEF one
  <2>4. \A i \in 1..n - one + 1 : in[one + i - 1] = more[one + i - 1]
    BY <2>1, <2>2
  <2> QED BY <2>3, <2>4
<1>3. s \in Seq(Syl(in)) /\ Tiled(in, s, a, b) /\ \A k \in 1..Len(s) : s[k] \in Syl(in)
  BY <1>1, TilingSpan DEF Tilings
<1> HIDE DEF n, m
<1>4. Syl(in) \subseteq Syl(more)
  <2>1. 0..n \subseteq 0..m
    BY <1>1
  <2> QED BY <2>1 DEF Syl, n, m
<1>5. s \in Seq(Syl(more))
  <2> DEFINE A1 == Syl(in)
             B1 == Syl(more)
  <2>1. s \in Seq(A1) /\ A1 \subseteq B1
    BY <1>3, <1>4
  <2> HIDE DEF A1, B1
  <2>2. s \in Seq(B1)
    BY <2>1, SeqMonotonic
  <2> QED BY <2>2 DEF B1
<1>6. ASSUME NEW y \in Syl(in), Spans(in, y) PROVE Spans(more, y)
  <2>1. y.from \in 0..n /\ y.to \in 0..n
    BY DEF Syl, n
  <2>2. \A j \in y.from + 1..y.to : j \in 1..n
    BY <1>1, <2>1
  <2> QED BY <1>2, <1>6, <2>2 DEF Spans
<1>7. ASSUME NEW x \in 0..n, NEW y \in 0..n, Follows(in, x, y) PROVE Follows(more, x, y)
  <2>1. y = x \/ (y = x + 1 /\ in[y] = Separator)
    BY <1>7 DEF Follows
  <2>2. y = x + 1 => y \in 1..n
    BY <1>1
  <2> QED BY <1>2, <2>1, <2>2 DEF Follows
<1>8. \A k \in 1..Len(s) : Spans(more, s[k])
  BY <1>3, <1>6 DEF Tiled
<1>9. \A k \in 1..Len(s) - 1 : Follows(more, s[k].to, s[k + 1].from)
  <2> SUFFICES ASSUME NEW k \in 1..Len(s) - 1 PROVE Follows(more, s[k].to, s[k + 1].from)
    OBVIOUS
  <2>1. Len(s) \in Nat
    BY <1>3, LenProperties
  <2>2. k \in 1..Len(s) /\ k + 1 \in 1..Len(s)
    BY <2>1
  <2>3. s[k].to \in 0..n /\ s[k + 1].from \in 0..n
    BY <1>3, <2>2 DEF Syl, n
  <2>4. Follows(in, s[k].to, s[k + 1].from)
    BY <1>3 DEF Tiled
  <2> QED BY <1>7, <2>3, <2>4
<1> QED BY <1>3, <1>5, <1>8, <1>9 DEF Tilings, Tiled

\* The readings of the end of an input, at their place in it.
LEMMA ShiftedTiles ==
  ASSUME NEW in \in Seq(Chars), NEW b \in 0..Len(in), NEW s \in Tilings(Slice(in, b, Len(in)), 0, Len(Slice(in, b, Len(in))))
  PROVE  [k \in DOMAIN s |-> Shifted(s[k], b)] \in Tilings(in, b, Len(in))
<1> DEFINE n == Len(in)
           end == Slice(in, b, n)
           g == [k \in DOMAIN s |-> Shifted(s[k], b)]
<1>1. n \in Nat /\ b \in Nat /\ b <= n /\ Len(end) = n - b /\ \A i \in 1..n - b : end[i] = in[b + i]
  <2>1. n \in Nat /\ b \in Nat /\ b <= n /\ n \in 0..Len(in)
    BY LenProperties
  <2>2. Len(end) = (IF b <= n THEN n - b ELSE 0) /\ \A i \in 1..n - b : end[i] = in[b + i]
    <3> HIDE DEF n
    <3> QED BY <2>1, SliceIs
  <2> QED BY <2>1, <2>2
<1> HIDE DEF end
<1>2. /\ s \in Seq(Syl(end)) /\ Len(s) \in Nat /\ Len(s) >= 1 /\ DOMAIN s = 1..Len(s) /\ Tiled(end, s, 0, n - b)
      /\ \A k \in 1..Len(s) : s[k] \in Syl(end) /\ Spans(end, s[k])
  <2>1. s \in Tilings(end, 0, Len(end)) /\ Len(end) \in Nat
    BY <1>1 DEF end
  <2> QED BY <1>1, <2>1, TilingSpan DEF Tilings
<1>3. ASSUME NEW y \in Syl(end), Spans(end, y)
      PROVE  Shifted(y, b) \in Syl(in) /\ Spans(in, Shifted(y, b)) /\ Shifted(y, b).from = y.from + b /\ Shifted(y, b).to = y.to + b
  <2> DEFINE A1 == 0..Len(end)
             A2 == 0..Len(in)
             f == y.from + b
             t == y.to + b
  <2>1. y \in [text : Text, from : A1, to : A1, complete : BOOLEAN]
    BY DEF Syl
  <2>2. y.from \in 0..n - b /\ y.to \in 0..n - b /\ f \in A2 /\ t \in A2
    BY <1>1, <2>1 DEF n
  <2>3. Shifted(y, b) = [y EXCEPT !.from = f, !.to = t]
    BY DEF Shifted
  <2> HIDE DEF A1, A2, f, t
  <2>4. [y EXCEPT !.from = f, !.to = t] \in [text : Text, from : A2, to : A2, complete : BOOLEAN]
    BY <2>1, <2>2
  <2>5. Shifted(y, b) \in Syl(in)
    BY <2>3, <2>4 DEF Syl, A2
  <2>6. Shifted(y, b).from = f /\ Shifted(y, b).to = t
    BY <2>1, <2>3
  <2>7. f < t
    BY <1>1, <1>3, <2>2 DEF f, t, Spans
  <2>8. \A j \in f + 1..t : in[j] # Separator
    <3> SUFFICES ASSUME NEW j \in f + 1..t PROVE in[j] # Separator
      OBVIOUS
    <3> DEFINE i == j - b
    <3>1. i \in y.from + 1..y.to /\ i \in 1..n - b /\ b + i = j
      BY <1>1, <2>2 DEF f, t
    <3> HIDE DEF i
    <3>2. end[i] # Separator /\ end[i] = in[b + i]
      BY <1>1, <1>3, <3>1 DEF Spans
    <3> QED BY <3>1, <3>2
  <2> QED BY <2>5, <2>6, <2>7, <2>8 DEF Spans, f, t
<1>4. g \in Seq(Syl(in)) /\ Len(g) = Len(s) /\ \A k \in 1..Len(s) : g[k] = Shifted(s[k], b)
  <2>1. \A k \in DOMAIN s : Shifted(s[k], b) \in Syl(in)
    BY <1>2, <1>3
  <2>2. g \in [DOMAIN s -> Syl(in)]
    BY <2>1
  <2>3. \A k \in 1..Len(s) : g[k] = Shifted(s[k], b)
    BY <1>2
  <2> HIDE DEF g
  <2>4. g \in Seq(Syl(in)) /\ Len(g) = Len(s)
    BY <1>2, <2>2, MapsTo
  <2> QED BY <2>3, <2>4
<1> HIDE DEF g
<1>5. g # <<>>
  BY <1>2, <1>4, EmptySeq
<1>6. \A k \in 1..Len(s) : Spans(in, g[k]) /\ g[k].from = s[k].from + b /\ g[k].to = s[k].to + b
  BY <1>2, <1>3, <1>4
<1>7. g[1].from = b /\ g[Len(g)].to = n
  <2>1. 1 \in 1..Len(s) /\ Len(s) \in 1..Len(s)
    BY <1>2
  <2>2. s[1].from = 0 /\ s[Len(s)].to = n - b
    BY <1>2 DEF Tiled
  <2>3. g[1].from = 0 + b /\ g[Len(g)].to = n - b + b
    BY <1>4, <1>6, <2>1, <2>2
  <2> QED BY <1>1, <2>3
<1>8. \A k \in 1..Len(g) - 1 : Follows(in, g[k].to, g[k + 1].from)
  <2> SUFFICES ASSUME NEW k \in 1..Len(s) - 1 PROVE Follows(in, g[k].to, g[k + 1].from)
    BY <1>4
  <2>1. k \in 1..Len(s) /\ k + 1 \in 1..Len(s)
    BY <1>2
  <2> DEFINE x == s[k].to
             y == s[k + 1].from
  <2>2. g[k].to = x + b /\ g[k + 1].from = y + b /\ x \in 0..n - b /\ y \in 0..n - b
    BY <1>1, <1>2, <1>6, <2>1 DEF Syl
  <2>3. Follows(end, x, y)
    BY <1>2 DEF Tiled
  <2> HIDE DEF x, y
  <2>4. CASE y = x
    BY <2>2, <2>4 DEF Follows
  <2>5. CASE y # x
    <3>1. y = x + 1 /\ end[y] = Separator
      BY <2>3, <2>5 DEF Follows
    <3>2. y \in 1..n - b /\ b + y = y + b /\ y + b = x + b + 1
      BY <1>1, <2>2, <3>1
    <3>3. in[y + b] = Separator
      BY <1>1, <3>1, <3>2
    <3> QED BY <2>2, <3>2, <3>3 DEF Follows
  <2> QED BY <2>4, <2>5
<1> QED BY <1>4, <1>5, <1>6, <1>7, <1>8 DEF Tilings, Tiled, g, n

\* The syllables that stay are leading ones of a reading of the longer input.
LEMMA StablePrefixIs ==
  ASSUME NEW in \in Seq(Chars), NEW old \in Seq(Chars), NEW previous \in ParsesOf(old), Extends(in, previous)
  PROVE  StablePrefix(previous) # <<>> =>
           /\ StablePrefix(previous) \in Tilings(in, 0, Last(StablePrefix(previous)).to)
           /\ Last(StablePrefix(previous)).to \in 0..Len(in)
<1> DEFINE first == previous.paths[1]
           syl == first.syl
           Common(k) ==
             /\ syl[k].complete /\ syl[k].to < Len(previous.in)
             /\ \A i \in DOMAIN previous.paths : k <= Len(previous.paths[i].syl) /\ previous.paths[i].syl[k] = syl[k]
           unstable == {k \in DOMAIN syl : ~ Common(k)}
           least == CHOOSE k \in unstable : \A l \in unstable : k <= l
           n == Len(old)
<1>1. StablePrefix(previous) = IF unstable = {} THEN syl ELSE SubSeq(syl, 1, least - 1)
  BY DEF StablePrefix
<1>2. previous.in = old /\ previous.paths \in Seq(Paths(old)) /\ previous.paths # <<>> /\ IsPrefix(old, in)
      /\ n \in Nat /\ Len(in) \in Nat /\ Len(in) = n + 1
  BY LenProperties DEF ParsesOf, Extends
<1>3. first \in Paths(old)
  <2>1. Len(previous.paths) \in Nat /\ Len(previous.paths) # 0
    BY <1>2, LenProperties, EmptySeq
  <2>2. 1 \in 1..Len(previous.paths)
    BY <2>1
  <2> QED BY <1>2, <2>2, ElementOfSeq
<1> HIDE DEF first
<1>4. syl \in Tilings(old, 0, n)
  BY <1>3 DEF Paths
<1> HIDE DEF syl
<1>5. syl # <<>> /\ Len(syl) \in Nat /\ Len(syl) >= 1 /\ DOMAIN syl = 1..Len(syl) /\ \A k \in 1..Len(syl) : syl[k] \in Syl(old)
  BY <1>2, <1>4, TilingSpan
<1>6. \A k \in 1..Len(syl) : syl[k].to \in 0..Len(in)
  <2>1. 0..n \subseteq 0..Len(in)
    BY <1>2
  <2> QED BY <1>5, <2>1 DEF Syl
<1>7. CASE unstable = {}
  <2>1. Last(syl).to = n
    BY <1>4 DEF Tilings, Tiled, Last
  <2>2. syl \in Tilings(in, 0, n)
    BY <1>2, <1>4, LongerTiles
  <2>3. n \in 0..Len(in)
    BY <1>2
  <2> HIDE DEF unstable
  <2> QED BY <1>1, <1>7, <2>1, <2>2, <2>3
<1>8. CASE unstable # {}
  <2> DEFINE k == least - 1
  <2>1. unstable \subseteq Nat
    BY <1>5
  <2>2. \E m \in unstable : \A l \in unstable : m <= l
    <3>1. \E m \in unstable : \A l \in unstable : ~ (l < m)
      <4> HIDE DEF unstable
      <4> QED BY <1>8, <2>1, LeastNumber
    <3> QED BY <2>1, <3>1
  <2>3. least \in unstable
    <3> HIDE DEF unstable
    <3> QED BY <2>2
  <2>4. least \in 1..Len(syl)
    BY <1>5, <2>3
  <2> HIDE DEF least, unstable
  <2>5. CASE k = 0
    <3>1. SubSeq(syl, 1, 0) = <<>>
      BY <1>5, SubSeqEmpty
    <3> QED BY <1>1, <1>8, <2>5, <3>1
  <2>6. CASE k # 0
    <3>1. k \in 1..Len(syl)
      BY <1>5, <2>4, <2>6
    <3> HIDE DEF k
    <3>2. SubSeq(syl, 1, k) \in Tilings(old, 0, syl[k].to) /\ Last(SubSeq(syl, 1, k)) = syl[k]
      BY <1>2, <1>4, <3>1, PrefixTiles
    <3>3. SubSeq(syl, 1, k) \in Tilings(in, 0, syl[k].to)
      BY <1>2, <3>2, LongerTiles
    <3>4. StablePrefix(previous) = SubSeq(syl, 1, k)
      BY <1>1, <1>8 DEF k
    <3> QED BY <1>6, <3>1, <3>2, <3>3, <3>4
  <2> QED BY <2>5, <2>6
<1> QED BY <1>7, <1>8

\* A parse that keeps some syllables is a parse of the whole input.
LEMMA AfterPrefixIs ==
  ASSUME NEW in \in Seq(Chars), NEW budget \in Nat, NEW cut, NEW prefix,
         prefix # <<>> => prefix \in Tilings(in, 0, Last(prefix).to) /\ Last(prefix).to \in 0..Len(in)
  PROVE  AfterPrefix(in, budget, prefix, cut) \in ParsesOf(in)
<1> DEFINE n == Len(in)
           boundary == IF prefix = <<>> THEN 0 ELSE Last(prefix).to
           end == Slice(in, boundary, n)
           suffix == Parse(end, budget, FALSE, cut)
           whole == Parse(in, budget, FALSE, IF cut = Never THEN Never ELSE -1)
           Moved(p) == [k \in DOMAIN p.syl |-> Shifted(p.syl[k], Last(prefix).to)]
           With(p) == [p EXCEPT !.syl = prefix \o Moved(p)]
           paths == [i \in DOMAIN suffix.paths |-> With(suffix.paths[i])]
<1>1. AfterPrefix(in, budget, prefix, cut) =
        IF prefix = <<>> THEN suffix
        ELSE IF suffix.valid THEN [valid |-> TRUE, in |-> in, paths |-> paths] ELSE whole
  BY DEF AfterPrefix, Prefixed, MapSeq
<1>2. n \in Nat /\ n \in 0..n /\ boundary \in Nat
  <2>1. n \in Nat
    BY LenProperties
  <2> QED BY <2>1
<1>3. end \in Seq(Chars)
  <2> HIDE DEF boundary
  <2>1. n \in 0..Len(in)
    BY <1>2
  <2> HIDE DEF n
  <2> QED BY <1>2, <2>1, SliceIs
<1>4. whole \in ParsesOf(in)
  BY ParseIs
<1>5. suffix \in ParsesOf(end)
  <2> HIDE DEF end
  <2> QED BY <1>3, ParseIs
<1> HIDE DEF suffix, whole
<1>6. CASE prefix = <<>>
  <2>1. end = in
    <3>1. end = SubSeq(in, 1, Len(in))
      BY <1>6 DEF Slice
    <3>2. SubSeq(in, 1, Len(in)) = in
      BY SubSeqFull
    <3> QED BY <3>1, <3>2
  <2> QED BY <1>1, <1>5, <1>6, <2>1
<1>7. CASE prefix # <<>> /\ suffix.valid
  <2> DEFINE b == Last(prefix).to
             T == Tilings(end, 0, Len(end))
             V == Tilings(in, 0, n)
             K == Exact..Abbreviated
             P == Paths(in)
             S == Paths(end)
             ps == suffix.paths
  <2>1. b \in 0..n /\ prefix \in Tilings(in, 0, b) /\ boundary = b
    BY <1>7
  <2>2. ps \in Seq(S) /\ ps # <<>>
    BY <1>5, <1>7 DEF ParsesOf
  <2>3. ASSUME NEW p \in S PROVE With(p) \in P
    <3> DEFINE v == prefix \o Moved(p)
    <3>1. p \in [syl : T, kind : K, extra : Int] /\ p.syl \in T
      BY DEF Paths
    <3>2. p.syl \in Tilings(Slice(in, b, Len(in)), 0, Len(Slice(in, b, Len(in))))
      BY <2>1, <3>1
    <3>3. [k \in DOMAIN p.syl |-> Shifted(p.syl[k], b)] \in Tilings(in, b, Len(in))
      <4> DEFINE s == p.syl
                 bb == b
      <4>1. s \in Tilings(Slice(in, bb, Len(in)), 0, Len(Slice(in, bb, Len(in)))) /\ bb \in 0..Len(in)
        BY <2>1, <3>2
      <4> HIDE DEF s, bb
      <4>2. [k \in DOMAIN s |-> Shifted(s[k], bb)] \in Tilings(in, bb, Len(in))
        BY <4>1, ShiftedTiles
      <4> QED BY <4>2 DEF s, bb
    <3>4. Moved(p) \in Tilings(in, b, n)
      BY <3>3
    <3>5. v \in V
      <4> DEFINE q == Moved(p)
                 bb == b
      <4>1. q \in Tilings(in, bb, n) /\ prefix \in Tilings(in, 0, bb) /\ Follows(in, bb, bb) /\ Len(in) \in Nat
        BY <1>2, <2>1, <3>4 DEF Follows
      <4> HIDE DEF q, bb, n
      <4>2. prefix \o q \in Tilings(in, 0, n)
        BY <4>1, TilingsJoin
      <4> QED BY <4>2 DEF q
    <3>6. With(p) = [p EXCEPT !.syl = v]
      OBVIOUS
    <3> HIDE DEF v, T, V, K, With
    <3>7. [p EXCEPT !.syl = v] \in [syl : V, kind : K, extra : Int]
      BY <3>1, <3>5
    <3> QED BY <3>6, <3>7 DEF V, K, n, Paths
  <2> HIDE DEF With, ps, P, S
  <2>4. [i \in DOMAIN ps |-> With(ps[i])] \in Seq(P)
    <3>1. \A i \in DOMAIN ps : ps[i] \in S
      BY <2>2, LenProperties
    <3>2. [i \in DOMAIN ps |-> With(ps[i])] \in [DOMAIN ps -> P]
      BY <2>3, <3>1
    <3> QED BY <2>2, <3>2, MapsTo
  <2>5. paths = [i \in DOMAIN ps |-> With(ps[i])]
    BY DEF ps
  <2>6. paths # <<>>
    <3> DEFINE g == [i \in DOMAIN ps |-> With(ps[i])]
    <3>1. Len(ps) # 0 /\ DOMAIN ps = 1..Len(ps) /\ Len(ps) \in Nat
      BY <2>2, LenProperties, EmptySeq
    <3>2. 1 \in DOMAIN g
      BY <3>1
    <3>3. g \in Seq(P)
      BY <2>4
    <3> HIDE DEF g
    <3>4. g # <<>>
      BY <3>2, <3>3, LenProperties, EmptySeq
    <3> QED BY <2>5, <3>4 DEF g
  <2> HIDE DEF paths
  <2>7. paths \in Seq(P)
    BY <2>4, <2>5
  <2>8. [valid |-> TRUE, in |-> in, paths |-> paths] \in ParsesOf(in)
    BY <2>6, <2>7 DEF ParsesOf, P
  <2> QED BY <1>1, <1>7, <2>8
<1> HIDE DEF paths
<1> QED BY <1>1, <1>4, <1>6, <1>7

\* So is an incremental parse, whatever was parsed before it.
THEOREM IncrementalParses ==
  ASSUME NEW in \in Seq(Chars), NEW budget \in Nat, NEW old \in Seq(Chars), NEW previous \in ParsesOf(old), NEW cut
  PROVE  ParseIncremental(in, budget, previous, cut) \in ParsesOf(in)
<1> DEFINE prefix == IF Extends(in, previous) THEN StablePrefix(previous) ELSE <<>>
           kept == IF prefix = <<>> \/ Crossed(in, Last(prefix).to) THEN <<>> ELSE prefix
<1>1. ParseIncremental(in, budget, previous, cut) = AfterPrefix(in, budget, kept, cut)
  BY DEF ParseIncremental
<1>2. kept # <<>> => Extends(in, previous) /\ kept = StablePrefix(previous)
  OBVIOUS
<1> HIDE DEF kept
<1>3. kept # <<>> => kept \in Tilings(in, 0, Last(kept).to) /\ Last(kept).to \in 0..Len(in)
  BY <1>2, StablePrefixIs
<1> QED BY <1>1, <1>3, AfterPrefixIs

---------------------------------------------------------------------------
(* The words of the lexicon *)

\* What an entry of the lexicon is made of.
LEMMA EntryIs ==
  ASSUME NEW e \in Lexicon
  PROVE  /\ e.syl \in Seq(Text) /\ Len(e.syl) \in Nat /\ Len(e.syl) >= 1
         /\ e.text \in Text /\ Len(e.text) \in Nat /\ e.weight \in Int
         /\ \A k \in 1..Len(e.syl) : e.syl[k] \in Text /\ Len(e.syl[k]) \in Nat
<1>1. e.syl \in Seq(Text) /\ e.syl # <<>> /\ e.text \in Text /\ e.weight \in Int
  BY LexiconConstants DEF Text
<1>2. Len(e.syl) \in Nat /\ Len(e.syl) >= 1 /\ \A k \in 1..Len(e.syl) : e.syl[k] \in Text
  BY <1>1, LenProperties, EmptySeq, ElementOfSeq
<1>3. \A t \in Text : Len(t) \in Nat
  BY LenProperties DEF Text
<1> QED BY <1>1, <1>2, <1>3

\* The longest reading of the lexicon has a length.
LEMMA LongestIs == LongestReading \in Nat
<1> DEFINE f == [e \in Lexicon |-> Len(e.syl)]
           D == {f[e] : e \in Lexicon}
<1>1. LongestReading = Max(D)
  <2>1. D = {Len(e.syl) : e \in Lexicon}
    OBVIOUS
  <2> QED BY <2>1 DEF LongestReading
<1>2. \A e \in Lexicon : f[e] \in Nat
  BY EntryIs
<1> HIDE DEF f
<1>3. IsFiniteSet(Lexicon) /\ Lexicon # {}
  BY LexiconConstants
<1>4. IsFiniteSet(D) /\ D # {} /\ D \subseteq Int /\ D \subseteq Nat
  BY <1>2, <1>3, ImageFinite
<1> HIDE DEF D
<1>5. Max(D) \in D
  BY <1>4, LargestOf
<1> QED BY <1>1, <1>4, <1>5

\* What was learned about a text is a score.
LEMMA LearnedIs ==
  ASSUME NEW text
  PROVE  LearnedScore(text) \in Int
  BY LexiconConstants DEF LearnedScore

\* The look-ups give words.
LEMMA LookupIs ==
  ASSUME NEW reading
  PROVE  Lookup(reading) \in Seq(Lexicon)
<1> DEFINE Of(r) == {e \in Lexicon : e.syl = r}
           before(r) == {p \in Of(r) \X Of(r) : EntryLess(p[1], p[2])}
           D == {e.syl : e \in Lexicon}
           table == [r \in D |-> InOrder(Of(r), before(r))]
<1>1. Lookup(reading) = Entries(table, reading)
  BY DEF Lookup, ReadingTable, OrderedBy
<1>2. \A key : Of(key) \in SUBSET Lexicon
  OBVIOUS
<1> HIDE DEF Of, D
<1>3. \A key \in DOMAIN table : table[key] = InOrder(Of(key), before(key))
  OBVIOUS
<1> HIDE DEF before, table
<1>4. \A key \in DOMAIN table : \E P \in SUBSET Lexicon : \E b : table[key] = InOrder(P, b)
  BY <1>2, <1>3
<1>5. IsFiniteSet(Lexicon)
  BY LexiconConstants
<1> QED BY <1>1, <1>4, <1>5, EntriesAre

\* The entries for one letter.
LEMMA LookupInitialIs ==
  ASSUME NEW letter
  PROVE  LookupInitial(letter) \in Seq(Lexicon)
<1> DEFINE Of(r) == {e \in Lexicon : Len(e.syl) = 1 /\ e.syl[1][1] = r}
           before(r) == {p \in Of(r) \X Of(r) : InitialLess(p[1], p[2])}
           D == {e.syl[1][1] : e \in Lexicon}
           table == [r \in D |-> InOrder(Of(r), before(r))]
<1>1. LookupInitial(letter) = Entries(table, letter)
  BY DEF LookupInitial, InitialTable, OrderedBy
<1>2. \A key : Of(key) \in SUBSET Lexicon
  OBVIOUS
<1> HIDE DEF Of, D
<1>3. \A key \in DOMAIN table : table[key] = InOrder(Of(key), before(key))
  OBVIOUS
<1> HIDE DEF before, table
<1>4. \A key \in DOMAIN table : \E P \in SUBSET Lexicon : \E b : table[key] = InOrder(P, b)
  BY <1>2, <1>3
<1>5. IsFiniteSet(Lexicon)
  BY LexiconConstants
<1> QED BY <1>1, <1>4, <1>5, EntriesAre

\* The most frequent entries among some.
LEMMA FrequentIs ==
  ASSUME NEW q \in Seq(Lexicon), NEW limit \in Int
  PROVE  Frequent(q, limit) \in Seq(Lexicon)
<1> DEFINE less == {p \in (DOMAIN q) \X (DOMAIN q) : MoreFrequent(q[p[1]], q[p[2]])}
           sorted == SortedBy(q, less)
<1>1. Frequent(q, limit) = IF Len(q) <= limit THEN q ELSE Take(sorted, limit)
  BY DEF Frequent, Sorted
<1>2. sorted \in Seq(Lexicon)
  <2> HIDE DEF less
  <2> QED BY SortedIs
<1> HIDE DEF sorted
<1>3. Take(sorted, limit) \in Seq(Lexicon)
  BY <1>2, TakeIs
<1> QED BY <1>1, <1>3

---------------------------------------------------------------------------
(* The segments of a row and the letters it uses *)

\* A row uses some of its segments as a whole, and the apostrophes between them.
Uses(in, segs, used) ==
  \E n \in DOMAIN segs : used = Len(FlattenSeq(Take(segs, n))) + Cardinality({k \in Marks(in) : k < used})

\* A sequence to a place, and to the next.
LEMMA TakeNext ==
  ASSUME NEW S, NEW s \in Seq(S), NEW n \in 1..Len(s) - 1
  PROVE  Take(s, n) \in Seq(S) /\ s[n + 1] \in S /\ Take(s, n + 1) = Append(Take(s, n), s[n + 1])
<1> DEFINE m == n + 1
           t == Take(s, n)
           u == Take(s, m)
           w == Append(t, s[m])
<1>1. Len(s) \in Nat /\ n \in Nat /\ n >= 1 /\ n <= Len(s) /\ m \in 1..Len(s) /\ m \in Int /\ n \in Int /\ m >= 0 /\ n >= 0
  BY LenProperties
<1>2. s[m] \in S
  <2> HIDE DEF m
  <2> QED BY <1>1, ElementOfSeq
<1>3. Lesser(n, Len(s)) = n /\ Lesser(m, Len(s)) = m
  BY <1>1 DEF Lesser
<1>4. t \in Seq(S) /\ Len(t) = n /\ \A i \in 1..n : t[i] = s[i]
  BY <1>1, <1>3, TakeIs
<1>5. u \in Seq(S) /\ Len(u) = m /\ \A i \in 1..m : u[i] = s[i]
  <2> HIDE DEF m
  <2> QED BY <1>1, <1>3, TakeIs
<1> DEFINE x == s[m]
<1> HIDE DEF t, u, x
<1>6. w \in Seq(S) /\ Len(w) = Len(t) + 1 /\ (\A i \in 1..Len(t) : w[i] = t[i]) /\ w[Len(t) + 1] = x
  BY <1>2, <1>4, AppendProperties DEF x
<1> HIDE DEF w
<1>7. \A i \in 1..m : u[i] = w[i]
  <2> SUFFICES ASSUME NEW i \in 1..m PROVE u[i] = w[i]
    OBVIOUS
  <2>1. i \in 1..n \/ i = n + 1
    BY <1>1
  <2> QED BY <1>4, <1>5, <1>6, <2>1 DEF x
<1>8. u = w
  <2>1. Len(u) = Len(w)
    BY <1>4, <1>5, <1>6
  <2> HIDE DEF m
  <2> QED BY <1>5, <1>6, <1>7, <2>1, SeqEqual
<1> QED BY <1>2, <1>4, <1>8 DEF t, u, w, x

\* The first element of a sequence, alone.
LEMMA TakeOne ==
  ASSUME NEW S, NEW s \in Seq(S), Len(s) >= 1
  PROVE  s[1] \in S /\ Take(s, 1) = <<s[1]>>
<1> DEFINE one == 1
           x == s[1]
           t == Take(s, one)
<1>1. Len(s) \in Nat /\ one \in 1..Len(s) /\ one \in Int /\ one >= 0 /\ Lesser(one, Len(s)) = 1
  <2>1. Len(s) \in Nat
    BY LenProperties
  <2> DEFINE l == Len(s)
  <2>2. l \in Nat /\ l >= 1
    BY <2>1
  <2> HIDE DEF l
  <2>3. Lesser(1, l) = 1
    BY <2>2 DEF Lesser
  <2>4. 1 \in 1..l
    BY <2>2
  <2> QED BY <2>1, <2>3, <2>4 DEF l
<1>2. x \in S
  BY <1>1, ElementOfSeq
<1> HIDE DEF one
<1>3. t \in Seq(S) /\ Len(t) = 1 /\ \A i \in 1..1 : t[i] = s[i]
  <2>1. /\ t \in Seq(S) /\ Len(t) = Lesser(one, Len(s))
        /\ \A i \in 1..Len(t) : t[i] = s[i]
    BY <1>1, TakeIs
  <2> HIDE DEF t
  <2> QED BY <1>1, <2>1
<1>4. t[1] = x
  BY <1>3
<1> HIDE DEF t, x
<1>5. <<x>> \in Seq(S) /\ Len(<<x>>) = 1 /\ <<x>>[1] = x
  BY <1>2, SingleIs
<1>6. \A i \in 1..1 : t[i] = <<x>>[i]
  <2> SUFFICES ASSUME NEW i \in 1..1 PROVE t[i] = <<x>>[i]
    OBVIOUS
  <2>1. i = 1
    OBVIOUS
  <2> QED BY <1>4, <1>5, <2>1
<1>7. t = <<x>>
  <2> DEFINE u == <<x>>
  <2>1. u \in Seq(S) /\ Len(u) = 1 /\ \A i \in 1..1 : t[i] = u[i]
    BY <1>5, <1>6
  <2> HIDE DEF u
  <2>2. Len(t) = Len(u) /\ \A i \in 1..Len(t) : t[i] = u[i]
    BY <1>3, <2>1
  <2>3. t = u
    BY <1>3, <2>1, <2>2, SeqEqual
  <2> QED BY <2>3 DEF u
<1> QED BY <1>2, <1>7 DEF x, t, one

\* One sequence put together with nothing else.
LEMMA FlattenOne ==
  ASSUME NEW T, NEW t \in Seq(T)
  PROVE  FlattenSeq(<<t>>) = t
<1> DEFINE e == <<>>
           U == Seq(T)
<1>1. e \in Seq(Seq(T)) /\ Append(e, t) = <<t>> /\ FlattenSeq(e) = <<>>
  <2>1. e \in Seq(Seq(T))
    BY EmptySeq
  <2>2. Append(e, t) = <<t>>
    OBVIOUS
  <2>3. FlattenSeq(e) = <<>>
    BY DEF FlattenSeq
  <2> QED BY <2>1, <2>2, <2>3
<1> HIDE DEF e
<1>2. FlattenSeq(Append(e, t)) = FlattenSeq(e) \o t
  BY <1>1, FlattenMore
<1>3. <<>> \o t = t
  BY ConcatEmptySeq
<1> QED BY <1>1, <1>2, <1>3

\* The segments of a reading up to one of its syllables are the letters up to
\* the end of that syllable, without the apostrophes.
LEMMA SegmentsReach ==
  ASSUME NEW in \in Seq(Chars), NEW b, NEW s \in Tilings(in, 0, b)
  PROVE  LET segs == [i \in DOMAIN s |-> Slice(in, s[i].from, s[i].to)]
         IN  /\ segs \in Seq(Text) /\ Len(segs) = Len(s) /\ DOMAIN segs = 1..Len(s)
             /\ \A n \in 1..Len(s) : Uses(in, segs, s[n].to)
<1> DEFINE l == Len(in)
           m == Len(s)
           segs == [i \in DOMAIN s |-> Slice(in, s[i].from, s[i].to)]
           Mk(x) == {k \in Marks(in) : k < x}
           Flat(n) == FlattenSeq(Take(segs, n))
           Reached(n) == s[n].to = Len(Flat(n)) + Cardinality(Mk(s[n].to))
<1>1. /\ l \in Nat /\ m \in Nat /\ m >= 1 /\ DOMAIN s = 1..m /\ Tiled(in, s, 0, b) /\ s \in Seq(Syl(in))
      /\ \A k \in 1..m : s[k].from \in 0..l /\ s[k].to \in 0..l /\ Spans(in, s[k])
  <2>1. l \in Nat
    BY LenProperties
  <2> QED BY <2>1, TilingSpan DEF Tilings, Syl
<1>2. \A k \in 1..m : s[k].from < s[k].to /\ \A j \in s[k].from + 1..s[k].to : in[j] # Separator
  BY <1>1 DEF Spans
<1>3. ASSUME NEW k \in 1..m
      PROVE  Slice(in, s[k].from, s[k].to) \in Text /\ Len(Slice(in, s[k].from, s[k].to)) = s[k].to - s[k].from
  <2> DEFINE f == s[k].from
             t == s[k].to
  <2>1. f \in Nat /\ t \in 0..l /\ f < t /\ t \in Nat
    BY <1>1, <1>2
  <2> HIDE DEF f, t
  <2>2. Slice(in, f, t) \in Seq(Chars) /\ Len(Slice(in, f, t)) = IF f <= t THEN t - f ELSE 0
    BY <2>1, SliceIs
  <2>3. Slice(in, f, t) \in Text
    BY <2>2, CharsAre
  <2>4. Len(Slice(in, f, t)) = t - f
    BY <2>1, <2>2
  <2> QED BY <2>3, <2>4 DEF f, t
<1>4. segs \in Seq(Text) /\ Len(segs) = m /\ DOMAIN segs = 1..m
  <2>1. segs \in [DOMAIN s -> Text]
    BY <1>1, <1>3
  <2> HIDE DEF segs
  <2>2. segs \in Seq(Text) /\ Len(segs) = Len(s)
    BY <1>1, <2>1, MapsTo
  <2> QED BY <2>2, LenProperties
<1>5. \A k \in 1..m : segs[k] \in Text /\ Len(segs[k]) = s[k].to - s[k].from
  BY <1>1, <1>3
<1> HIDE DEF segs, l, m
<1>6. Marks(in) \subseteq 1..l /\ \A x : IsFiniteSet(Mk(x))
  <2>1. Marks(in) \subseteq 1..l
    BY LenProperties DEF Marks, l
  <2>2. IsFiniteSet(1..l)
    BY <1>1, FirstNumbers
  <2>3. \A x : Mk(x) \in SUBSET (1..l)
    BY <2>1
  <2> HIDE DEF Mk
  <2> QED BY <2>1, <2>2, <2>3, FS_Subset
<1>7. ASSUME NEW k \in 1..l, k \in Marks(in) PROVE in[k] = Separator
  BY <1>7 DEF Marks
<1>8. Reached(1)
  <2>1. 1 \in 1..m
    BY <1>1
  <2>2. Flat(1) = segs[1]
    <3>1. segs[1] \in Seq(Nat) /\ Take(segs, 1) = <<segs[1]>>
      <4>1. Len(segs) >= 1
        BY <1>1, <1>4
      <4>2. Take(segs, 1) = <<segs[1]>>
        BY <1>4, <4>1, TakeOne
      <4> QED BY <1>5, <2>1, <4>2 DEF Text
    <3> DEFINE x == segs[1]
    <3>2. x \in Seq(Nat)
      BY <3>1
    <3> HIDE DEF x
    <3>3. FlattenSeq(<<x>>) = x
      BY <3>2, FlattenOne
    <3> QED BY <3>1, <3>3 DEF x
  <2>3. s[1].from = 0
    BY <1>1 DEF Tiled
  <2>4. Len(segs[1]) = s[1].to /\ s[1].to \in Nat
    BY <1>1, <1>5, <2>1, <2>3
  <2>5. Mk(s[1].to) = {}
    <3> SUFFICES ASSUME NEW k \in Mk(s[1].to) PROVE FALSE
      OBVIOUS
    <3>1. k \in 1..l /\ k \in Marks(in) /\ k < s[1].to
      BY <1>6
    <3>2. k \in s[1].from + 1..s[1].to
      BY <2>3, <2>4, <3>1
    <3> QED BY <1>2, <1>7, <2>1, <3>1, <3>2
  <2>6. Cardinality({}) = 0
    BY FS_EmptySet
  <2> HIDE DEF Flat, Mk
  <2> QED BY <2>2, <2>4, <2>5, <2>6
<1>9. ASSUME NEW n \in 1..m - 1, Reached(n) PROVE Reached(n + 1)
  <2> DEFINE o == n + 1
             t == s[n].to
             f == s[o].from
             u == s[o].to
  <2>1. n \in 1..m /\ o \in 1..m
    BY <1>1
  <2>2. t \in 0..l /\ f \in 0..l /\ u \in 0..l /\ s[n].from \in 0..l /\ s[n].from < t /\ f < u
    BY <1>1, <1>2, <2>1
  <2>3. f = t \/ (f = t + 1 /\ in[f] = Separator)
    <3>1. Follows(in, t, f)
      BY <1>1 DEF Tiled, m
    <3> QED BY <3>1 DEF Follows
  <2>4. in[t] # Separator /\ \A j \in f + 1..u : in[j] # Separator
    <3>1. t \in s[n].from + 1..s[n].to
      BY <1>1, <2>2
    <3>2. in[t] # Separator
      BY <1>2, <2>1, <3>1
    <3> QED BY <1>2, <2>1, <3>2
  <2>5. Flat(n) \in Seq(Nat) /\ Flat(o) = Flat(n) \o segs[o]
    <3>1. Take(segs, n) \in Seq(Text) /\ Take(segs, o) = Append(Take(segs, n), segs[o])
      <4>1. n \in 1..Len(segs) - 1
        BY <1>4
      <4> QED BY <1>4, <4>1, TakeNext
    <3> DEFINE q == Take(segs, n)
               x == segs[o]
    <3>2. q \in Seq(Seq(Nat)) /\ x \in Seq(Nat)
      BY <1>5, <2>1, <3>1 DEF Text
    <3> HIDE DEF q, x
    <3>3. FlattenSeq(q) \in Seq(Nat) /\ FlattenSeq(Append(q, x)) = FlattenSeq(q) \o x
      BY <3>2, FlattenIs, FlattenMore
    <3> QED BY <3>1, <3>3 DEF q, x
  <2>6. Len(Flat(o)) = Len(Flat(n)) + (u - f) /\ Len(Flat(n)) \in Nat
    <3> DEFINE p == Flat(n)
               x == segs[o]
    <3>1. p \in Seq(Nat) /\ x \in Seq(Nat) /\ Len(x) = u - f
      BY <1>5, <2>1, <2>5 DEF Text
    <3> HIDE DEF p, x
    <3>2. Len(p \o x) = Len(p) + Len(x) /\ Len(p) \in Nat
      BY <3>1, JoinedAt
    <3> QED BY <2>5, <3>1, <3>2 DEF p, x
  <2> HIDE DEF Flat
  <2>7. t = Len(Flat(n)) + Cardinality(Mk(t)) /\ Cardinality(Mk(t)) \in Nat
    BY <1>6, <1>9, FS_CardinalityType
  <2> DEFINE p0 == Len(Flat(n))
             c0 == Cardinality(Mk(t))
             p1 == Len(Flat(o))
             c1 == Cardinality(Mk(u))
  <2>8. t \in Nat /\ f \in Nat /\ u \in Nat /\ p0 \in Nat /\ c0 \in Nat /\ t = p0 + c0 /\ p1 = p0 + (u - f)
    <3>1. t \in Nat /\ f \in Nat /\ u \in Nat
      <4> HIDE DEF t, f, u
      <4> QED BY <1>1, <2>2
    <3>2. p0 \in Nat /\ p1 = p0 + (u - f)
      <4> HIDE DEF t, f, u, o
      <4> QED BY <2>6
    <3>3. c0 \in Nat /\ t = p0 + c0
      <4> HIDE DEF t, Mk
      <4> QED BY <2>7
    <3> QED BY <3>1, <3>2, <3>3
  <2>9. CASE f = t
    <3>1. Mk(u) = Mk(t)
      <4>1. ASSUME NEW k \in 1..l, k \in Marks(in), k < u PROVE k < t
        <5>1. in[k] = Separator
          BY <1>7, <4>1
        <5>2. k # t /\ k \notin f + 1..u
          BY <2>4, <5>1
        <5> HIDE DEF f, t, u
        <5> QED BY <1>1, <2>2, <2>9, <4>1, <5>2
      <4>2. \A k \in 1..l : k < t => k < u
        BY <1>1, <2>2, <2>9
      <4> QED BY <1>6, <4>1, <4>2
    <3> HIDE DEF Mk, f, t, u
    <3>2. c1 = c0
      BY <3>1
    <3> HIDE DEF p0, p1, c0, c1
    <3>3. u = p1 + c1
      BY <2>9, <2>8, <3>2
    <3> QED BY <3>3 DEF u, o, p1, c1
  <2>10. CASE f # t
    <3>1. f = t + 1 /\ in[f] = Separator /\ f \in 1..l
      BY <1>1, <2>2, <2>3, <2>10
    <3>2. f \in Marks(in)
      <4>1. DOMAIN in = 1..l
        BY LenProperties DEF l
      <4> QED BY <3>1, <4>1 DEF Marks
    <3>3. Mk(u) = Mk(t) \cup {f}
      <4>1. ASSUME NEW k \in 1..l, k \in Marks(in), k < u PROVE k < t \/ k = f
        <5>1. in[k] = Separator
          BY <1>7, <4>1
        <5>2. k # t /\ k \notin f + 1..u
          BY <2>4, <5>1
        <5> HIDE DEF f, t, u
        <5> QED BY <1>1, <2>2, <3>1, <4>1, <5>2
      <4>2. \A k \in 1..l : k < t => k < u
        BY <1>1, <2>2, <3>1
      <4>3. f < u
        BY <2>2
      <4> QED BY <1>6, <3>2, <4>1, <4>2, <4>3
    <3>4. f \notin Mk(t)
      BY <1>1, <2>2, <3>1
    <3> HIDE DEF Mk, f, t, u
    <3>5. c1 = c0 + 1
      BY <1>6, <3>3, <3>4, FS_AddElement
    <3> HIDE DEF p0, p1, c0, c1
    <3>6. u = p1 + c1
      BY <2>8, <3>1, <3>5
    <3> QED BY <3>6 DEF u, o, p1, c1
  <2> QED BY <2>9, <2>10
<1> DEFINE C == {n \in 0..m : n = 0 \/ Reached(n)}
<1>10. \A n \in 0..m : n \in C
  <2> HIDE DEF Reached
  <2>1. 0 \in C
    BY <1>1
  <2>2. ASSUME NEW k \in 1..m, k - 1 \in C PROVE k \in C
    <3>1. CASE k = 1
      BY <1>1, <1>8, <3>1
    <3>2. CASE k # 1
      <4> DEFINE n == k - 1
      <4>1. n \in 1..m - 1 /\ n # 0 /\ n + 1 = k /\ k \in 0..m
        BY <1>1, <3>2
      <4>2. Reached(n)
        BY <2>2, <4>1
      <4> HIDE DEF n
      <4>3. Reached(n + 1)
        BY <1>9, <4>1, <4>2
      <4> QED BY <4>1, <4>3
    <3> QED BY <3>1, <3>2
  <2> HIDE DEF C
  <2> QED BY <1>1, <2>1, <2>2, UpTo
<1>11. \A n \in 1..m : Uses(in, segs, s[n].to)
  <2> SUFFICES ASSUME NEW n \in 1..m PROVE Uses(in, segs, s[n].to)
    OBVIOUS
  <2>1. n \in 0..m /\ n # 0
    BY <1>1
  <2>2. Reached(n)
    BY <1>10, <2>1
  <2> QED BY <1>4, <2>2 DEF Uses
<1> QED BY <1>4, <1>11 DEF segs, m

\* Segments read all of an input: each is what stands between two offsets, and
\* only an apostrophe of the input stands between one and the next.
Reads(in, segs, a, b) ==
  /\ a[1] = 0 /\ b[Len(segs)] = Len(in)
  /\ \A k \in 1..Len(segs) : a[k] \in Nat /\ b[k] \in a[k]..Len(in) /\ segs[k] = Slice(in, a[k], b[k])
  /\ \A k \in 1..Len(segs) - 1 : Follows(in, b[k], a[k + 1])
Covers(in, segs) == segs \in Seq(Text) /\ segs # <<>> /\ \E a, b : Reads(in, segs, a, b)

\* The segments of a path read its input.
LEMMA TilingCovers ==
  ASSUME NEW in \in Seq(Chars), NEW s \in Tilings(in, 0, Len(in))
  PROVE  Covers(in, [i \in DOMAIN s |-> Slice(in, s[i].from, s[i].to)])
<1> DEFINE segs == [i \in DOMAIN s |-> Slice(in, s[i].from, s[i].to)]
           a == [k \in DOMAIN s |-> s[k].from]
           b == [k \in DOMAIN s |-> s[k].to]
           m == Len(s)
           l == Len(in)
<1>1. segs \in Seq(Text) /\ Len(segs) = m /\ DOMAIN segs = 1..m
  BY SegmentsReach
<1>2. /\ l \in Nat /\ m \in Nat /\ m >= 1 /\ DOMAIN s = 1..m /\ Tiled(in, s, 0, l)
      /\ \A k \in 1..m : s[k].from \in 0..l /\ s[k].to \in 0..l /\ Spans(in, s[k])
  <2>1. l \in Nat
    BY LenProperties
  <2> QED BY <2>1, TilingSpan DEF Tilings, Syl
<1>3. \A k \in 1..m : s[k].from < s[k].to
  BY <1>2 DEF Spans
<1>4. \A k \in 1..m : segs[k] = Slice(in, s[k].from, s[k].to) /\ a[k] = s[k].from /\ b[k] = s[k].to
  BY <1>2
<1>5. s[1].from = 0 /\ s[m].to = l /\ \A k \in 1..m - 1 : Follows(in, s[k].to, s[k + 1].from)
  BY <1>2 DEF Tiled
<1> HIDE DEF segs, a, b, m, l
<1>6. 1 \in 1..m /\ m \in 1..m /\ \A k \in 1..m - 1 : k \in 1..m /\ k + 1 \in 1..m
  BY <1>2
<1>7. a[1] = 0 /\ b[m] = l
  BY <1>4, <1>5, <1>6
<1>8. \A k \in 1..m : a[k] \in Nat /\ b[k] \in a[k]..l /\ segs[k] = Slice(in, a[k], b[k])
  <2> SUFFICES ASSUME NEW k \in 1..m PROVE a[k] \in Nat /\ b[k] \in a[k]..l /\ segs[k] = Slice(in, a[k], b[k])
    OBVIOUS
  <2> DEFINE x == s[k].from
             y == s[k].to
  <2>1. x \in 0..l /\ y \in 0..l /\ x < y /\ a[k] = x /\ b[k] = y /\ segs[k] = Slice(in, x, y)
    BY <1>2, <1>3, <1>4
  <2> HIDE DEF x, y
  <2> QED BY <1>2, <2>1
<1>9. \A k \in 1..m - 1 : Follows(in, b[k], a[k + 1])
  BY <1>4, <1>5, <1>6
<1>10. Reads(in, segs, a, b)
  BY <1>1, <1>7, <1>8, <1>9 DEF Reads, l
<1>11. segs # <<>>
  BY <1>1, <1>2, EmptySeq
<1> QED BY <1>1, <1>10, <1>11 DEF Covers, segs

\* So do its letters one by one.
LEMMA LettersCover ==
  ASSUME NEW in \in Seq(Chars), in # <<>>
  PROVE  Covers(in, [k \in DOMAIN in |-> <<in[k]>>])
<1> DEFINE l == Len(in)
           segs == [k \in DOMAIN in |-> <<in[k]>>]
           a == [k \in 1..l |-> k - 1]
           b == [k \in 1..l |-> k]
<1>1. l \in Nat /\ DOMAIN in = 1..l /\ l # 0
  BY LenProperties, EmptySeq
<1>2. ASSUME NEW k \in 1..l PROVE <<in[k]>> \in Text /\ <<in[k]>> = Slice(in, k - 1, k)
  <2> DEFINE x == in[k]
             t == <<x>>
             j == k - 1
             u == Slice(in, j, k)
  <2>1. x \in Chars
    BY ElementOfSeq
  <2> HIDE DEF x
  <2>2. t \in Seq(Chars) /\ Len(t) = 1 /\ t[1] = x
    BY <2>1, SingleIs
  <2> HIDE DEF t
  <2>3. j \in Nat /\ k \in 0..Len(in) /\ j + 1 = k /\ k - j = 1 /\ j <= k
    BY <1>1
  <2> HIDE DEF j
  <2>4. u \in Seq(Chars) /\ Len(u) = 1 /\ \A i \in 1..k - j : u[i] = in[j + i]
    BY <2>3, SliceIs
  <2> HIDE DEF u
  <2>5. u[1] = x
    BY <2>3, <2>4 DEF x
  <2>6. \A i \in 1..Len(t) : t[i] = u[i]
    <3> SUFFICES ASSUME NEW i \in 1..1 PROVE t[i] = u[i]
      BY <2>2
    <3>1. i = 1
      OBVIOUS
    <3> QED BY <2>2, <2>5, <3>1
  <2>7. t = u
    BY <2>2, <2>4, <2>6, SeqEqual
  <2>8. t \in Text
    BY <2>2, CharsAre
  <2> QED BY <2>7, <2>8 DEF t, u, j, x
<1>3. segs \in Seq(Text) /\ Len(segs) = l /\ \A k \in 1..l : segs[k] = <<in[k]>>
  <2>1. segs \in [DOMAIN in -> Text]
    BY <1>1, <1>2
  <2>2. \A k \in 1..l : segs[k] = <<in[k]>>
    BY <1>1
  <2> HIDE DEF segs
  <2> QED BY <2>1, <2>2, MapsTo
<1> HIDE DEF segs
<1>4. segs # <<>>
  BY <1>1, <1>3, EmptySeq
<1>5. a[1] = 0 /\ b[l] = l
  BY <1>1
<1>6. ASSUME NEW k \in 1..l PROVE a[k] \in Nat /\ b[k] \in a[k]..l /\ segs[k] = Slice(in, a[k], b[k])
  <2>1. a[k] = k - 1 /\ b[k] = k
    OBVIOUS
  <2> HIDE DEF a, b
  <2>2. segs[k] = Slice(in, k - 1, k)
    BY <1>2, <1>3
  <2>3. k - 1 \in Nat /\ k \in k - 1..l
    BY <1>1
  <2> QED BY <2>1, <2>2, <2>3
<1>7. \A k \in 1..l - 1 : Follows(in, b[k], a[k + 1])
  <2> SUFFICES ASSUME NEW k \in 1..l - 1 PROVE Follows(in, b[k], a[k + 1])
    OBVIOUS
  <2>1. b[k] = k /\ a[k + 1] = k
    BY <1>1
  <2> QED BY <2>1 DEF Follows
<1> HIDE DEF a, b, l
<1>8. Reads(in, segs, a, b)
  BY <1>3, <1>5, <1>6, <1>7 DEF Reads, l
<1> QED BY <1>3, <1>4, <1>8 DEF Covers, segs

\* What FlattenSeq puts together grows by each of the sequences.
LEMMA FlatGrows ==
  ASSUME NEW T, NEW ss \in Seq(Seq(T))
  PROVE  /\ FlattenSeq(Take(ss, 0)) = <<>> /\ FlattenSeq(Take(ss, Len(ss))) = FlattenSeq(ss)
         /\ \A k \in 0..Len(ss) : FlattenSeq(Take(ss, k)) \in Seq(T)
         /\ \A k \in 0..Len(ss) - 1 : FlattenSeq(Take(ss, k + 1)) = FlattenSeq(Take(ss, k)) \o ss[k + 1]
<1> DEFINE n == Len(ss)
           U == Seq(T)
           F(k) == FlattenSeq(Take(ss, k))
<1>1. n \in Nat /\ ss \in Seq(U)
  BY LenProperties
<1>2. ASSUME NEW k \in 0..n PROVE Take(ss, k) \in Seq(U) /\ Len(Take(ss, k)) = k /\ \A i \in 1..k : Take(ss, k)[i] = ss[i]
  <2>1. k \in Int /\ k >= 0 /\ k <= n /\ n \in Int
    BY <1>1
  <2>2. Lesser(k, n) = k
    <3> HIDE DEF n
    <3> QED BY <2>1 DEF Lesser
  <2> HIDE DEF U
  <2> QED BY <1>1, <2>1, <2>2, TakeIs
<1>3. ASSUME NEW k \in 0..n PROVE F(k) \in U
  <2> DEFINE w == Take(ss, k)
  <2>1. w \in Seq(Seq(T))
    BY <1>2
  <2> HIDE DEF w
  <2>2. FlattenSeq(w) \in Seq(T)
    BY <2>1, FlattenIs
  <2> QED BY <2>2 DEF w
<1>4. Take(ss, 0) = <<>>
  <2> DEFINE w == Take(ss, 0)
  <2>1. 0 \in 0..n
    BY <1>1
  <2>2. w \in Seq(U) /\ Len(w) = 0
    BY <1>2, <2>1
  <2> HIDE DEF w
  <2>3. w = <<>>
    BY <2>2, EmptySeq
  <2> QED BY <2>3 DEF w
<1>5. F(0) = <<>>
  BY <1>4 DEF FlattenSeq
<1>6. Take(ss, n) = ss
  <2> DEFINE w == Take(ss, n)
  <2>1. n \in 0..n
    BY <1>1
  <2>2. w \in Seq(U) /\ Len(w) = n /\ \A i \in 1..n : w[i] = ss[i]
    BY <1>2, <2>1
  <2> HIDE DEF w
  <2>3. w = ss
    <3> HIDE DEF U
    <3> QED BY <1>1, <2>2, SeqEqual DEF n
  <2> QED BY <2>3 DEF w
<1>7. ASSUME NEW k \in 0..n - 1 PROVE F(k + 1) = F(k) \o ss[k + 1]
  <2> DEFINE w == Take(ss, k)
             j == k + 1
             x == ss[j]
  <2>1. j \in 1..n /\ k \in 0..n
    BY <1>1
  <2>2. x \in U
    <3> HIDE DEF j, U
    <3> QED BY <1>1, <2>1, ElementOfSeq
  <2>3. Take(ss, j) = Append(w, x)
    <3>1. CASE k = 0
      <4>1. Take(ss, 1) = <<ss[1]>>
        <5>1. Len(ss) >= 1
          BY <1>1, <2>1
        <5> QED BY <5>1, TakeOne
      <4>2. Append(<<>>, x) = <<x>>
        OBVIOUS
      <4>3. j = 1 /\ x = ss[1] /\ w = <<>>
        BY <1>4, <3>1
      <4> HIDE DEF w, x, j
      <4> QED BY <4>1, <4>2, <4>3
    <3>2. CASE k # 0
      <4>1. k \in 1..Len(ss) - 1
        BY <1>1, <3>2
      <4> QED BY <4>1, TakeNext
    <3> QED BY <3>1, <3>2
  <2>4. w \in Seq(Seq(T))
    BY <1>2, <2>1
  <2> HIDE DEF w, x
  <2>5. FlattenSeq(Append(w, x)) = FlattenSeq(w) \o x
    BY <2>2, <2>4, FlattenMore
  <2> QED BY <2>3, <2>5 DEF w, x
<1> QED BY <1>3, <1>5, <1>6, <1>7

\* So do segments that make up the input.
LEMMA SplitCovers ==
  ASSUME NEW in \in Seq(Chars), NEW segs \in Seq(Text), Len(segs) >= 1, FlattenSeq(segs) = in
  PROVE  Covers(in, segs)
<1> DEFINE n == Len(segs)
           l == Len(in)
           F(k) == FlattenSeq(Take(segs, k))
           e(k) == Len(F(k))
           a == [k \in 1..n |-> e(k - 1)]
           b == [k \in 1..n |-> e(k)]
<1>1. n \in Nat /\ n >= 1 /\ l \in Nat /\ \A k \in 1..n : segs[k] \in Text /\ Len(segs[k]) \in Nat
  <2>1. n \in Nat /\ l \in Nat /\ \A k \in 1..n : segs[k] \in Text
    BY LenProperties
  <2>2. \A t \in Text : Len(t) \in Nat
    BY LenProperties DEF Text
  <2> QED BY <2>1, <2>2
<1>2. /\ F(0) = <<>> /\ F(n) = in
      /\ \A k \in 0..n : F(k) \in Seq(Nat)
      /\ \A k \in 0..n - 1 : F(k + 1) = F(k) \o segs[k + 1]
  <2> DEFINE N == Nat
  <2>1. segs \in Seq(Seq(N))
    BY DEF Text
  <2> HIDE DEF N
  <2>2. /\ F(0) = <<>> /\ F(n) = FlattenSeq(segs)
        /\ \A k \in 0..n : F(k) \in Seq(N)
        /\ \A k \in 0..n - 1 : F(k + 1) = F(k) \o segs[k + 1]
    BY <2>1, FlatGrows
  <2> HIDE DEF F, n
  <2> QED BY <2>2 DEF N
<1> HIDE DEF F
<1>3. e(0) = 0 /\ e(n) = l /\ \A k \in 0..n : e(k) \in Nat
  <2>1. Len(<<>>) = 0
    OBVIOUS
  <2>2. \A k \in 0..n : Len(F(k)) \in Nat
    BY <1>2, LenProperties
  <2> QED BY <1>2, <2>1, <2>2
<1>4. ASSUME NEW k \in 1..n
      PROVE  /\ e(k) = e(k - 1) + Len(segs[k])
             /\ \A i \in 1..e(k - 1) : F(k)[i] = F(k - 1)[i]
             /\ \A i \in 1..Len(segs[k]) : F(k)[e(k - 1) + i] = segs[k][i]
  <2> DEFINE j == k - 1
             p == F(j)
             x == segs[k]
             N == Nat
  <2>1. j \in 0..n - 1 /\ j + 1 = k /\ j \in 0..n
    BY <1>1
  <2>2. F(j + 1) = F(j) \o segs[j + 1]
    BY <1>2, <2>1
  <2>3. F(k) = p \o x
    <3> HIDE DEF F, j
    <3> QED BY <2>1, <2>2
  <2>4. p \in Seq(N) /\ x \in Seq(N)
    BY <1>1, <1>2, <2>1 DEF Text
  <2> HIDE DEF p, x, N
  <2>5. /\ Len(p \o x) = Len(p) + Len(x)
        /\ \A i \in 1..Len(p) : (p \o x)[i] = p[i]
        /\ \A i \in 1..Len(x) : (p \o x)[Len(p) + i] = x[i]
    BY <2>4, JoinedAt
  <2> QED BY <2>3, <2>5 DEF p, x
<1> DEFINE Prefix(k) == e(k) <= l /\ \A i \in 1..e(k) : in[i] = F(k)[i]
           A == {k \in 0..n : Prefix(k)}
<1>5. \A k \in 0..n : k \in A
  <2>1. ASSUME NEW k \in 0..n, \A y \in k + 1..n : y \in A PROVE k \in A
    <3>1. CASE k = n
      <4>1. Prefix(n)
        BY <1>1, <1>2, <1>3
      <4> HIDE DEF Prefix
      <4> QED BY <3>1, <4>1
    <3>2. CASE k # n
      <4> DEFINE j == k + 1
      <4>1. j \in k + 1..n /\ j \in 1..n /\ j - 1 = k /\ j \in 0..n
        BY <1>1, <3>2
      <4>2. Prefix(j)
        BY <2>1, <4>1
      <4> DEFINE u == e(k)
                 v == e(j)
                 t == segs[j]
      <4>3. v = u + Len(t) /\ \A i \in 1..u : F(j)[i] = F(k)[i]
        <5> HIDE DEF j, e
        <5>1. e(j) = e(j - 1) + Len(segs[j]) /\ \A i \in 1..e(j - 1) : F(j)[i] = F(j - 1)[i]
          BY <1>4, <4>1
        <5> QED BY <4>1, <5>1
      <4>4. Len(t) \in Nat /\ u \in Nat /\ v \in Nat
        BY <1>1, <1>3, <4>1
      <4>5. v <= l /\ \A i \in 1..v : in[i] = F(j)[i]
        BY <4>2
      <4> HIDE DEF u, v, t, j
      <4>6. u <= l /\ \A i \in 1..u : i \in 1..v
        BY <1>1, <4>3, <4>4, <4>5
      <4>7. \A i \in 1..u : in[i] = F(k)[i]
        BY <4>3, <4>5, <4>6
      <4>8. Prefix(k)
        BY <4>6, <4>7 DEF u
      <4> HIDE DEF Prefix
      <4> QED BY <4>8
    <3> QED BY <3>1, <3>2
  <2> DEFINE z == 0
  <2>2. z \in Nat
    OBVIOUS
  <2>3. \A k \in z..n : (\A y \in k + 1..n : y \in A) => k \in A
    BY <2>1
  <2> HIDE DEF A, z, n
  <2>4. \A k \in z..n : k \in A
    BY <1>1, <2>2, <2>3, DownTo
  <2> QED BY <2>4 DEF z
<1> HIDE DEF e
<1>6. ASSUME NEW k \in 1..n
      PROVE  a[k] \in Nat /\ b[k] \in a[k]..l /\ segs[k] = Slice(in, a[k], b[k]) /\ a[k] = e(k - 1) /\ b[k] = e(k)
  <2> DEFINE u == e(k - 1)
             v == e(k)
             t == segs[k]
             w == Slice(in, u, v)
  <2>1. k \in 0..n /\ k - 1 \in 0..n
    BY <1>1
  <2>2. u \in Nat /\ v \in Nat /\ t \in Text /\ Len(t) \in Nat
    BY <1>1, <1>3, <2>1
  <2>3. v = u + Len(t) /\ \A i \in 1..Len(t) : F(k)[u + i] = t[i]
    BY <1>4 DEF e
  <2>4. v <= l /\ \A i \in 1..v : in[i] = F(k)[i]
    BY <1>5, <2>1 DEF e
  <2>5. a[k] = u /\ b[k] = v
    OBVIOUS
  <2> HIDE DEF u, v, t, a, b
  <2>6. v \in u..l /\ v \in 0..Len(in) /\ u <= v /\ v - u = Len(t)
    BY <1>1, <2>2, <2>3, <2>4
  <2>7. w \in Seq(Chars) /\ Len(w) = v - u /\ \A i \in 1..v - u : w[i] = in[u + i]
    BY <2>2, <2>6, SliceIs
  <2>8. \A i \in 1..Len(t) : u + i \in 1..v
    BY <2>2, <2>3
  <2> HIDE DEF w
  <2>9. \A i \in 1..Len(t) : t[i] = w[i]
    <3> SUFFICES ASSUME NEW i \in 1..Len(t) PROVE t[i] = w[i]
      OBVIOUS
    <3>1. F(k)[u + i] = t[i] /\ in[u + i] = F(k)[u + i] /\ w[i] = in[u + i]
      BY <2>3, <2>4, <2>6, <2>7, <2>8
    <3> QED BY <3>1
  <2>10. t = w
    <3>1. w \in Seq(Nat) /\ t \in Seq(Nat)
      BY <2>2, <2>7, CharsAre DEF Text
    <3>2. Len(w) = Len(t)
      BY <2>6, <2>7
    <3> QED BY <2>9, <3>1, <3>2, SeqEqual
  <2>11. a[k] \in Nat /\ b[k] \in a[k]..l
    BY <2>2, <2>5, <2>6
  <2> QED BY <2>5, <2>10, <2>11 DEF u, v, t, w
<1> HIDE DEF a, b
<1>7. a[1] = 0 /\ b[n] = l
  <2>1. 1 \in 1..n /\ n \in 1..n /\ 1 - 1 = 0
    BY <1>1
  <2>2. a[1] = e(1 - 1) /\ b[n] = e(n)
    BY <1>6, <2>1
  <2> QED BY <1>3, <2>1, <2>2
<1>8. \A k \in 1..n - 1 : Follows(in, b[k], a[k + 1])
  <2> SUFFICES ASSUME NEW k \in 1..n - 1 PROVE Follows(in, b[k], a[k + 1])
    OBVIOUS
  <2> DEFINE j == k + 1
  <2>1. k \in 1..n /\ j \in 1..n /\ j - 1 = k
    BY <1>1
  <2> HIDE DEF j
  <2>2. a[j] = e(j - 1) /\ b[k] = e(k)
    BY <1>6, <2>1
  <2>3. a[j] = b[k]
    BY <2>1, <2>2
  <2> QED BY <2>3 DEF Follows, j
<1> HIDE DEF n, l
<1>9. \A k \in 1..n : a[k] \in Nat /\ b[k] \in a[k]..l /\ segs[k] = Slice(in, a[k], b[k])
  BY <1>6
<1>10. Reads(in, segs, a, b)
  BY <1>7, <1>8, <1>9 DEF Reads, n, l
<1>11. segs # <<>>
  BY <1>1, EmptySeq DEF n
<1> QED BY <1>10, <1>11 DEF Covers

---------------------------------------------------------------------------
(* Rows and sentences *)

\* The segments of a row cover the input, of which it uses the first ones; only a
\* character for the first of two consonants has no more than that one.
Fits(in, segs, used) == Uses(in, segs, used) /\ (Covers(in, segs) \/ (IsDoubleInitial(in) /\ used # 2))
\* The rows that an input can have.
RowSet(in) ==
  {r \in [text : Text, syl : Seq(Text), score : Int, kind : Exact..Abbreviated, segs : Seq(Text), used : Nat, count : Nat,
          lengths : Seq(Nat), coherence : Int, hidden : BOOLEAN] : Fits(in, r.segs, r.used)}

\* A row with these parts, whose segments fit the input.
LEMMA RowIs ==
  ASSUME NEW in, NEW text \in Text, NEW syl \in Seq(Text), NEW score \in Int, NEW kind \in Exact..Abbreviated,
         NEW segs \in Seq(Text), NEW used \in Nat, NEW count \in Nat, NEW lengths \in Seq(Nat), Fits(in, segs, used)
  PROVE  Row(text, syl, score, kind, segs, used, count, lengths) \in RowSet(in)
<1> DEFINE K == Exact..Abbreviated
           more == score + LearnedScore(text)
           zero == 0
           no == FALSE
           A1 == Seq(Text)
           A2 == Seq(Nat)
<1>1. more \in Int /\ zero \in Int
  BY LearnedIs
<1>2. kind \in K /\ no \in BOOLEAN /\ syl \in A1 /\ segs \in A1 /\ lengths \in A2
  OBVIOUS
<1> DEFINE r == [text |-> text, syl |-> syl, score |-> more, kind |-> kind, segs |-> segs, used |-> used, count |-> count,
                 lengths |-> lengths, coherence |-> zero, hidden |-> no]
<1>3. r = Row(text, syl, score, kind, segs, used, count, lengths)
  BY DEF Row
<1> HIDE DEF more, zero, K, no, A1, A2
<1>4. r \in [text : Text, syl : A1, score : Int, kind : K, segs : A1, used : Nat, count : Nat,
             lengths : A2, coherence : Int, hidden : BOOLEAN]
  BY <1>1, <1>2
<1>5. r.segs = segs /\ r.used = used
  OBVIOUS
<1> HIDE DEF r
<1> QED BY <1>3, <1>4, <1>5 DEF RowSet, K, A1, A2

\* What a sentence is made of so far.
Sentences == [text : Text, syl : Seq(Text), score : Int, count : Nat, lengths : Seq(Nat)]

\* A sentence begins empty, with a score.
LEMMA StartIs ==
  ASSUME NEW score \in Int
  PROVE  Start(score) \in Sentences
<1>1. <<>> \in Text /\ <<>> \in Seq(Text) /\ <<>> \in Seq(Nat) /\ 0 \in Nat
  BY EmptySeq DEF Text
<1> DEFINE A1 == Seq(Text)
           A2 == Seq(Nat)
           e == <<>>
           z == 0
<1>2. e \in Text /\ e \in A1 /\ e \in A2 /\ z \in Nat
  BY <1>1
<1>3. Start(score) = [text |-> e, syl |-> e, score |-> score, count |-> z, lengths |-> e]
  BY DEF Start
<1> HIDE DEF A1, A2, e, z
<1>4. [text |-> e, syl |-> e, score |-> score, count |-> z, lengths |-> e]
        \in [text : Text, syl : A1, score : Int, count : Nat, lengths : A2]
  BY <1>2
<1> QED BY <1>3, <1>4 DEF Sentences, A1, A2

\* A sentence with one more entry.
LEMMA FollowedIs ==
  ASSUME NEW s \in Sentences, NEW e \in Lexicon, NEW extra \in Int
  PROVE  Followed(s, e, extra) \in Sentences
<1> DEFINE text == s.text \o e.text
           syl == s.syl \o e.syl
           score == s.score + e.weight + extra - (IF s.text = <<>> THEN 0 ELSE SegmentPenalty)
           count == s.count + 1
           lengths == Append(s.lengths, Len(e.syl))
           A1 == Seq(Text)
           A2 == Seq(Nat)
<1>1. s \in [text : Text, syl : A1, score : Int, count : Nat, lengths : A2]
  BY DEF Sentences
<1>2. s.text \in Text /\ s.syl \in A1 /\ s.score \in Int /\ s.count \in Nat /\ s.lengths \in A2
  <2> HIDE DEF A1, A2
  <2> QED BY <1>1
<1>3. e.text \in Text /\ e.syl \in A1 /\ e.weight \in Int /\ Len(e.syl) \in Nat
  BY EntryIs
<1>4. text \in Text
  <2>1. s.text \in Seq(Nat) /\ e.text \in Seq(Nat)
    BY <1>2, <1>3 DEF Text
  <2>2. s.text \o e.text \in Seq(Nat)
    BY <2>1, ConcatProperties
  <2> QED BY <2>2 DEF Text
<1>5. syl \in A1
  <2>1. s.syl \in Seq(Text) /\ e.syl \in Seq(Text)
    BY <1>2, <1>3
  <2> HIDE DEF A1
  <2>2. s.syl \o e.syl \in Seq(Text)
    BY <2>1, ConcatProperties
  <2> QED BY <2>2 DEF A1
<1>6. score \in Int
  <2> DEFINE c == IF s.text = <<>> THEN 0 ELSE SegmentPenalty
  <2>1. c \in Int
    BY DEF SegmentPenalty
  <2> HIDE DEF c
  <2>2. s.score + e.weight + extra - c \in Int
    BY <1>2, <1>3, <2>1
  <2> QED BY <2>2 DEF c
<1>7. count \in Nat
  BY <1>2
<1>8. lengths \in A2
  <2> DEFINE q == s.lengths
             x == Len(e.syl)
  <2>1. q \in Seq(Nat) /\ x \in Nat
    BY <1>2, <1>3
  <2> HIDE DEF q, x
  <2>2. Append(q, x) \in Seq(Nat)
    BY <2>1, AppendProperties
  <2> QED BY <2>2 DEF q, x
<1>9. Followed(s, e, extra) = [text |-> text, syl |-> syl, score |-> score, count |-> count, lengths |-> lengths]
  BY DEF Followed
<1> HIDE DEF text, syl, score, count, lengths, A1, A2
<1>10. [text |-> text, syl |-> syl, score |-> score, count |-> count, lengths |-> lengths]
         \in [text : Text, syl : A1, score : Int, count : Nat, lengths : A2]
  BY <1>4, <1>5, <1>6, <1>7, <1>8
<1> QED BY <1>9, <1>10 DEF Sentences, A1, A2

\* What the rows of a path are scored by.
LEMMA PenaltyIs ==
  ASSUME NEW in, Len(in) \in Nat, NEW path \in Paths(in)
  PROVE  /\ path.kind \in Exact..Abbreviated /\ path.extra \in Int /\ path.syl \in Tilings(in, 0, Len(in))
         /\ MatchPenalty(path) \in Int /\ InitialBonus(in, path) \in Int
         /\ Texts(path.syl) \in Seq(Text) /\ Len(Texts(path.syl)) = Len(path.syl)
<1>1. path.kind \in Exact..Abbreviated /\ path.extra \in Int /\ path.syl \in Tilings(in, 0, Len(in))
  BY DEF Paths
<1>2. MatchPenalty(path) \in Int
  <2> DEFINE k == path.kind
             x == path.extra
  <2>1. k \in 0..3 /\ x \in Int
    BY <1>1 DEF Exact, Abbreviated
  <2>2. k = 0 => MatchPenalty(path) = 0
    BY DEF MatchPenalty, Exact, Completion, Corrected, Abbreviated
  <2>3. k = 1 => MatchPenalty(path) = 1500 + 750 * x
    BY DEF MatchPenalty, Exact, Completion, Corrected, Abbreviated, CharacterPenalty
  <2>4. k = 2 => MatchPenalty(path) = 6000
    BY DEF MatchPenalty, Exact, Completion, Corrected, Abbreviated
  <2>5. k = 3 => MatchPenalty(path) = 8000 + 750 * x
    BY DEF MatchPenalty, Exact, Completion, Corrected, Abbreviated, CharacterPenalty, AbbreviationPenalty
  <2> HIDE DEF k, x
  <2>6. 1500 + 750 * x \in Int /\ 8000 + 750 * x \in Int
    BY <2>1
  <2>7. k = 0 \/ k = 1 \/ k = 2 \/ k = 3
    BY <2>1
  <2> QED BY <2>2, <2>3, <2>4, <2>5, <2>6, <2>7
<1> DEFINE s == path.syl
           b(y) == IF y.to = y.from + 1 THEN PreferredBonus(in[y.to], y.text) ELSE 0
           q == [i \in DOMAIN s |-> b(s[i])]
<1>3. s \in Seq(Syl(in))
  BY <1>1, TilingSpan
<1>4. InitialBonus(in, path) = Total(q)
  BY DEF InitialBonus, MapSeq
<1>5. Total(q) \in Int
  <2>1. ASSUME NEW y \in Syl(in) PROVE b(y) \in Int
    BY DEF PreferredBonus
  <2> HIDE DEF s, b
  <2>2. [i \in DOMAIN s |-> b(s[i])] \in Seq(Int)
    <3>1. \A i \in DOMAIN s : s[i] \in Syl(in)
      BY <1>3, LenProperties
    <3>2. [i \in DOMAIN s |-> b(s[i])] \in [DOMAIN s -> Int]
      BY <2>1, <3>1
    <3> QED BY <1>3, <3>2, MapsTo
  <2>3. q \in Seq(Int)
    BY <2>2
  <2> HIDE DEF q
  <2> DEFINE N == Int
  <2>4. N \in {Nat, Int} /\ q \in Seq(N)
    BY <2>3
  <2> HIDE DEF N
  <2>5. Total(q) \in N
    BY <2>4, TotalIs
  <2> QED BY <2>5 DEF N
<1>6. Texts(path.syl) \in Seq(Text) /\ Len(Texts(path.syl)) = Len(path.syl)
  <2>1. Texts(s) = [i \in DOMAIN s |-> s[i].text]
    BY DEF Texts, MapSeq
  <2> HIDE DEF s
  <2>2. \A i \in DOMAIN s : s[i] \in Syl(in)
    BY <1>3, LenProperties
  <2>3. \A i \in DOMAIN s : s[i].text \in Text
    BY <2>2 DEF Syl
  <2> DEFINE g == [i \in DOMAIN s |-> s[i].text]
  <2>4. g \in [DOMAIN s -> Text]
    BY <2>3
  <2> HIDE DEF g
  <2>5. g \in Seq(Text) /\ Len(g) = Len(s)
    BY <1>3, <2>4, MapsTo
  <2> QED BY <2>1, <2>5 DEF g, s
<1> QED BY <1>1, <1>2, <1>4, <1>5, <1>6

\* The sentences that the beam keeps.
LEMMA PruneStatesIs ==
  ASSUME NEW S, NEW q \in Seq(S)
  PROVE  PruneStates(q) \in Seq(S)
<1> DEFINE less == {p \in (DOMAIN q) \X (DOMAIN q) : StateLess(q[p[1]], q[p[2]])}
           sorted == SortedBy(q, less)
<1>1. PruneStates(q) = Take(sorted, BeamWidth)
  BY DEF PruneStates, Sorted
<1>2. sorted \in Seq(S) /\ BeamWidth \in Int
  <2> HIDE DEF less
  <2> QED BY SortedIs, LexiconConstants
<1> HIDE DEF sorted
<1> QED BY <1>1, <1>2, TakeIs

\* The sentences that the chart of a path ends with.
LEMMA SentenceStatesAre ==
  ASSUME NEW in \in Seq(Chars), NEW path \in Paths(in)
  PROVE  SentenceStates(in, path) \in Seq(Sentences)
<1> DEFINE reading == Texts(path.syl)
           n == Len(reading)
           St == [k \in 0..n |-> Sentences]
           Words(from, to) == Frequent(Lookup(Slice(reading, from, to)), BeamWidth)
           Step(s, from, to) == [i \in DOMAIN Words(from, to) |-> Followed(s, Words(from, to)[i], 0)]
           Keep(q) == PruneStates(q)
           begin == Start(InitialBonus(in, path) - MatchPenalty(path))
           longest == LongestReading
           columns == Chart(reading, begin, Step, Keep, longest)
           column == columns[n + 1]
<1>1. SentenceStates(in, path) = column
  BY DEF SentenceStates, MapSeq, Chart
<1>2. Len(in) \in Nat
  BY LenProperties
<1>3. n \in Nat /\ InitialBonus(in, path) - MatchPenalty(path) \in Int
  <2>1. reading \in Seq(Text) /\ InitialBonus(in, path) \in Int /\ MatchPenalty(path) \in Int
    BY <1>2, PenaltyIs
  <2> QED BY <2>1, LenProperties
<1>4. ASSUME NEW from \in 0..n, NEW to \in from + 1..n, NEW s \in St[from] PROVE Step(s, from, to) \in Seq(St[to])
  <2> DEFINE q == Words(from, to)
             S == Sentences
             z == 0
  <2>1. s \in S /\ St[to] = S
    <3>1. to \in 0..n
      BY <1>3
    <3> QED BY <3>1
  <2>2. q \in Seq(Lexicon) /\ z \in Int
    BY LookupIs, FrequentIs, LexiconConstants
  <2>3. ASSUME NEW e \in Lexicon PROVE Followed(s, e, z) \in S
    BY <2>1, <2>2, FollowedIs
  <2> HIDE DEF q, S, z
  <2>4. [i \in DOMAIN q |-> Followed(s, q[i], z)] \in Seq(S)
    <3>1. \A i \in DOMAIN q : q[i] \in Lexicon
      BY <2>2, LenProperties
    <3>2. [i \in DOMAIN q |-> Followed(s, q[i], z)] \in [DOMAIN q -> S]
      BY <2>3, <3>1
    <3> QED BY <2>2, <3>2, MapsTo
  <2> QED BY <2>1, <2>4 DEF q, z
<1>5. ASSUME NEW to \in 1..n, NEW q \in Seq(St[to]) PROVE Keep(q) \in Seq(St[to])
  <2> DEFINE V == St[to]
  <2>1. q \in Seq(V)
    OBVIOUS
  <2> HIDE DEF V
  <2>2. PruneStates(q) \in Seq(V)
    BY <2>1, PruneStatesIs
  <2> QED BY <2>2 DEF V
<1>6. begin \in St[0]
  <2>1. 0 \in 0..n
    BY <1>3
  <2>2. begin \in Sentences
    BY <1>3, StartIs
  <2> QED BY <2>1, <2>2
<1>7. longest \in Int
  BY LongestIs
<1>8. columns = Chart(reading, begin, Step, Keep, longest)
  OBVIOUS
<1>9. St[n] = Sentences
  <2>1. n \in 0..n
    BY <1>3
  <2> QED BY <2>1
<1> HIDE DEF St, Step, Keep, begin, longest
<1> DEFINE From(c, from, to) == FlattenSeq([i \in DOMAIN c[from + 1] |-> Step(c[from + 1][i], from, to)])
           Reached(c, to) == FlattenSeq([k \in 1..to - Greater(0, to - longest) |-> From(c, Greater(0, to - longest) + k - 1, to)])
           Body(c, to) == Append(c, Keep(Reached(c, to)))
           F == CHOOSE f : f = [to \in 0..n |-> IF to = 0 THEN <<<<begin>>>> ELSE Body(f[to - 1], to)]
           W(k) == Cols(St, n, k)
<1>10. Chart(reading, begin, Step, Keep, longest) = F[n]
  BY DEF Chart, MapSeq, n
<1> HIDE DEF F, n
<1>11. ASSUME NEW to \in 1..n, NEW c \in W(to - 1) PROVE Body(c, to) \in W(to)
  <2> DEFINE first == Greater(0, to - longest)
             g == [from \in 0..to - 1 |-> From(c, from, to)]
  <2>1. first \in Nat /\ to \in Nat
    BY <1>3, <1>7, LesserIs DEF Greater
  <2>2. ASSUME NEW from \in 0..to - 1 PROVE From(c, from, to) \in Seq(St[to])
    <3> DEFINE q == c[from + 1]
               S == St[from]
               T == St[to]
    <3>1. q \in Seq(S)
      BY DEF Cols
    <3>2. ASSUME NEW x \in S PROVE Step(x, from, to) \in Seq(T)
      <4>1. from \in 0..n /\ to \in from + 1..n
        BY <1>3
      <4> QED BY <1>4, <4>1
    <3> HIDE DEF q, S, T
    <3>3. \A i \in DOMAIN q : q[i] \in S
      BY <3>1, LenProperties
    <3>4. [i \in DOMAIN q |-> Step(q[i], from, to)] \in [DOMAIN q -> Seq(T)]
      BY <3>2, <3>3
    <3>5. FlattenSeq([i \in DOMAIN q |-> Step(q[i], from, to)]) \in Seq(T)
      <4> DEFINE h == [i \in DOMAIN q |-> Step(q[i], from, to)]
      <4> HIDE DEF h
      <4>1. h \in [DOMAIN q -> Seq(T)]
        BY <3>4 DEF h
      <4>2. FlattenSeq(h) \in Seq(T)
        BY <3>1, <4>1, FlatMap
      <4> QED BY <4>2 DEF h
    <3> QED BY <3>5 DEF q, T
  <2> HIDE DEF From
  <2>3. \A from \in first..to - 1 : from \in 0..to - 1
    BY <2>1
  <2>4. \A from \in first..to - 1 : g[from] \in Seq(St[to])
    BY <2>2, <2>3
  <2>5. FlattenSeq([k \in 1..to - first |-> g[first + k - 1]]) \in Seq(St[to])
    <3> DEFINE T == St[to]
    <3>1. \A from \in first..to - 1 : g[from] \in Seq(T)
      BY <2>4
    <3> HIDE DEF g, T, first
    <3>2. FlattenSeq([k \in 1..to - first |-> g[first + k - 1]]) \in Seq(T)
      BY <2>1, <3>1, Gathered
    <3> QED BY <3>2 DEF T
  <2>6. [k \in 1..to - first |-> From(c, first + k - 1, to)] = [k \in 1..to - first |-> g[first + k - 1]]
    <3>1. \A k \in 1..to - first : first + k - 1 \in 0..to - 1
      BY <2>1
    <3> HIDE DEF first
    <3>2. \A k \in 1..to - first : From(c, first + k - 1, to) = g[first + k - 1]
      BY <3>1
    <3> HIDE DEF g
    <3> QED BY <3>2, Zenon
  <2>7. Reached(c, to) \in Seq(St[to])
    <3> HIDE DEF g
    <3> QED BY <2>5, <2>6 DEF first
  <2> HIDE DEF Reached
  <2>8. Keep(Reached(c, to)) \in Seq(St[to])
    BY <1>5, <2>7
  <2> DEFINE q == Keep(Reached(c, to))
  <2> HIDE DEF q
  <2>9. q \in Seq(St[to])
    BY <2>8 DEF q
  <2>10. Append(c, q) \in Cols(St, n, to)
    BY <1>3, <2>9, ColsGrow
  <2> QED BY <2>10 DEF q
<1>12. <<<<begin>>>> \in W(0)
  BY <1>3, <1>6, ColsBegin
<1> DEFINE T == [k \in 0..n |-> W(k)]
           U == UNION {W(k) : k \in 0..n}
           step == [p \in U \X (1..n) |-> Body(p[1], p[2])]
<1> HIDE DEF Body, W
<1>13. \A k \in 1..n : \A x \in T[k - 1] : step[<<x, k>>] \in T[k] /\ step[<<x, k>>] = Body(x, k)
  <2> SUFFICES ASSUME NEW k \in 1..n, NEW x \in T[k - 1] PROVE step[<<x, k>>] \in T[k] /\ step[<<x, k>>] = Body(x, k)
    OBVIOUS
  <2>1. k \in 0..n /\ k - 1 \in 0..n
    BY <1>3
  <2>2. x \in W(k - 1) /\ x \in U
    BY <2>1
  <2>3. step[<<x, k>>] = Body(x, k)
    BY <2>2
  <2>4. Body(x, k) \in W(k)
    BY <1>11, <2>2
  <2> HIDE DEF step
  <2> QED BY <2>1, <2>3, <2>4
<1>14. 0 \in 0..n /\ <<<<begin>>>> \in T[0]
  <2>1. 0 \in 0..n
    BY <1>3
  <2> QED BY <1>12, <2>1
<1> HIDE DEF step, U
<1>15. PICK g : Successive(g, n, <<<<begin>>>>, step) /\ \A k \in 0..n : g[k] \in T[k]
  <2> HIDE DEF T
  <2> QED BY <1>3, <1>13, <1>14, RecursionDefined
<1>16. ASSUME NEW k \in 0..n PROVE g[k] = IF k = 0 THEN <<<<begin>>>> ELSE Body(g[k - 1], k)
  <2>1. k # 0 => k - 1 \in 0..n /\ k \in 1..n
    BY <1>3
  <2>2. g[k] = IF k = 0 THEN <<<<begin>>>> ELSE step[<<g[k - 1], k>>]
    BY <1>15 DEF Successive
  <2>3. k # 0 => g[k - 1] \in T[k - 1]
    BY <1>15, <2>1
  <2> HIDE DEF T
  <2>4. k # 0 => step[<<g[k - 1], k>>] = Body(g[k - 1], k)
    BY <1>13, <2>1, <2>3
  <2> QED BY <2>2, <2>4
<1>17. g = [k \in 0..n |-> IF k = 0 THEN <<<<begin>>>> ELSE Body(g[k - 1], k)]
  <2>1. g = [k \in 0..n |-> g[k]]
    BY <1>15 DEF Successive
  <2> QED BY <1>16, <2>1
<1>18. F = [k \in 0..n |-> IF k = 0 THEN <<<<begin>>>> ELSE Body(F[k - 1], k)]
  BY <1>17, Zenon DEF F
<1>19. \A k \in 0..n : F[k] = IF k = 0 THEN <<<<begin>>>> ELSE Body(F[k - 1], k)
  BY <1>18, Zenon
<1> DEFINE A == {k \in 0..n : F[k] \in W(k)}
<1>20. \A k \in 0..n : k \in A
  <2>1. 0 \in A
    <3>1. F[0] = <<<<begin>>>>
      BY <1>14, <1>19
    <3> QED BY <1>12, <1>14, <3>1
  <2>2. ASSUME NEW k \in 1..n, k - 1 \in A PROVE k \in A
    <3>1. k \in 0..n /\ k # 0 /\ F[k - 1] \in W(k - 1)
      BY <1>3, <2>2
    <3>2. F[k] = Body(F[k - 1], k)
      BY <1>19, <3>1
    <3> QED BY <1>11, <3>1, <3>2
  <2> HIDE DEF A
  <2> QED BY <1>3, <2>1, <2>2, UpTo
<1>21. \A k \in 0..n : F[k] \in W(k)
  BY <1>20
<1>22. F[n] \in Cols(St, n, n)
  BY <1>3, <1>21 DEF W
<1>23. column \in Seq(St[n])
  <2> HIDE DEF columns
  <2>1. columns \in Cols(St, n, n)
    BY <1>8, <1>10, <1>22 DEF n
  <2>2. n \in 0..n
    BY <1>3
  <2> QED BY <2>1, <2>2 DEF Cols
<1> QED BY <1>1, <1>9, <1>23

---------------------------------------------------------------------------
(* The rows of paths *)

\* The segments of a path, and what its syllables use.
LEMMA SourceSegmentsAre ==
  ASSUME NEW in \in Seq(Chars), NEW path \in Paths(in)
  PROVE  /\ SourceSegments(in, path) \in Seq(Text) /\ Len(SourceSegments(in, path)) = Len(path.syl)
         /\ \A n \in 1..Len(path.syl) : path.syl[n].to \in Nat /\ Fits(in, SourceSegments(in, path), path.syl[n].to)
         /\ Covers(in, SourceSegments(in, path))
<1> DEFINE s == path.syl
           b == Len(in)
           segs == [i \in DOMAIN s |-> Slice(in, s[i].from, s[i].to)]
<1>1. s \in Tilings(in, 0, b) /\ b \in Nat
  BY LenProperties DEF Paths
<1>2. SourceSegments(in, path) = segs
  BY DEF SourceSegments, MapSeq
<1> HIDE DEF s
<1>3. segs \in Seq(Text) /\ Len(segs) = Len(s) /\ \A n \in 1..Len(s) : Uses(in, segs, s[n].to)
  <2> HIDE DEF b
  <2> QED BY <1>1, SegmentsReach
<1>4. Covers(in, segs)
  BY <1>1, TilingCovers
<1>5. \A n \in 1..Len(s) : s[n].to \in Nat
  <2>1. \A n \in 1..Len(s) : s[n] \in Syl(in)
    BY <1>1, TilingSpan
  <2> QED BY <1>1, <2>1 DEF Syl
<1> HIDE DEF segs
<1>6. \A n \in 1..Len(s) : Fits(in, segs, s[n].to)
  BY <1>3, <1>4 DEF Fits
<1> QED BY <1>2, <1>3, <1>5, <1>4, <1>6 DEF s

\* The rows of a path use its syllables.
LEMMA PathRowsAre ==
  ASSUME NEW in \in Seq(Chars), NEW path \in Paths(in), NEW limit \in Int
  PROVE  PathRows(in, path, limit).whole \in Seq(RowSet(in)) /\ PathRows(in, path, limit).all \in Seq(RowSet(in))
<1> DEFINE R == RowSet(in)
           segs == SourceSegments(in, path)
           l == Len(path.syl)
           last == path.syl[l].to
           states == SentenceStates(in, path)
           Of(s) == Row(s.text, s.syl, s.score, path.kind, segs, last, s.count, s.lengths)
           whole == [i \in DOMAIN states |-> Of(states[i])]
           score == InitialBonus(in, path) - MatchPenalty(path)
           one == 1
           none == <<>>
           Led(e, n) == Row(e.text, e.syl, e.weight + score, path.kind, segs, path.syl[n].to, one, none)
           Words(n) == Frequent(Lookup(Take(Texts(path.syl), n)), limit)
           Leading(n) == [i \in DOMAIN Words(n) |-> Led(Words(n)[i], n)]
           most == Lesser(l - 1, LongestReading)
           led == [n \in 1..most |-> Leading(n)]
<1>1. PathRows(in, path, limit) = [whole |-> whole, all |-> whole \o FlattenSeq(led)]
  BY DEF PathRows, MapSeq
<1>2. /\ path.kind \in Exact..Abbreviated /\ score \in Int /\ l \in Nat /\ l >= 1
      /\ segs \in Seq(Text) /\ \A n \in 1..l : path.syl[n].to \in Nat /\ Fits(in, segs, path.syl[n].to)
  <2>1. Len(in) \in Nat
    BY LenProperties
  <2>2. path.kind \in Exact..Abbreviated /\ score \in Int /\ path.syl \in Tilings(in, 0, Len(in))
    BY <2>1, PenaltyIs
  <2>3. l \in Nat /\ l >= 1
    BY <2>1, <2>2, TilingSpan
  <2> HIDE DEF score, segs
  <2> QED BY <2>2, <2>3, SourceSegmentsAre DEF segs
<1> HIDE DEF segs, score
<1>3. ASSUME NEW s \in Sentences PROVE Of(s) \in R
  <2> DEFINE A1 == Seq(Text)
             A2 == Seq(Nat)
  <2>1. s \in [text : Text, syl : A1, score : Int, count : Nat, lengths : A2]
    BY DEF Sentences
  <2>2. s.text \in Text /\ s.syl \in A1 /\ s.score \in Int /\ s.count \in Nat /\ s.lengths \in A2
    <3> HIDE DEF A1, A2
    <3> QED BY <2>1
  <2>3. l \in 1..l
    BY <1>2
  <2>4. last \in Nat /\ Fits(in, segs, last)
    BY <1>2, <2>3
  <2> DEFINE text == s.text
             syl == s.syl
             sc == s.score
             kind == path.kind
             count == s.count
             lengths == s.lengths
  <2>5. /\ text \in Text /\ syl \in Seq(Text) /\ sc \in Int /\ kind \in Exact..Abbreviated /\ segs \in Seq(Text)
        /\ count \in Nat /\ lengths \in Seq(Nat)
    BY <1>2, <2>2
  <2> HIDE DEF text, syl, sc, kind, count, lengths, last
  <2>6. Row(text, syl, sc, kind, segs, last, count, lengths) \in RowSet(in)
    BY <2>4, <2>5, RowIs
  <2> QED BY <2>6 DEF text, syl, sc, kind, count, lengths, last
<1>4. ASSUME NEW n \in 1..l, NEW e \in Lexicon PROVE Led(e, n) \in R
  <2> DEFINE text == e.text
             syl == e.syl
             sc == e.weight + score
             kind == path.kind
             used == path.syl[n].to
  <2>1. e.text \in Text /\ e.syl \in Seq(Text) /\ e.weight \in Int
    BY EntryIs
  <2>2. sc \in Int /\ one \in Nat /\ none \in Seq(Nat)
    BY <1>2, <2>1, EmptySeq
  <2>3. /\ text \in Text /\ syl \in Seq(Text) /\ kind \in Exact..Abbreviated /\ segs \in Seq(Text)
        /\ used \in Nat /\ Fits(in, segs, used)
    BY <1>2, <2>1
  <2> HIDE DEF text, syl, sc, kind, used, one, none
  <2>4. Row(text, syl, sc, kind, segs, used, one, none) \in RowSet(in)
    BY <2>2, <2>3, RowIs
  <2> QED BY <2>4 DEF text, syl, sc, kind, used
<1> HIDE DEF Of, Led, R
<1>5. whole \in Seq(R)
  <2>1. states \in Seq(Sentences)
    BY SentenceStatesAre
  <2> HIDE DEF states
  <2>2. [i \in DOMAIN states |-> Of(states[i])] \in Seq(R)
    <3>1. \A i \in DOMAIN states : states[i] \in Sentences
      BY <2>1, LenProperties
    <3>2. [i \in DOMAIN states |-> Of(states[i])] \in [DOMAIN states -> R]
      BY <1>3, <3>1
    <3> QED BY <2>1, <3>2, MapsTo
  <2> QED BY <2>2
<1> HIDE DEF whole
<1>6. most \in Nat /\ \A n \in 1..most : n \in 1..l
  <2>1. most \in Nat /\ most <= l - 1
    BY <1>2, LongestIs DEF Lesser
  <2> HIDE DEF most
  <2> QED BY <1>2, <2>1
<1> HIDE DEF most
<1>7. ASSUME NEW n \in 1..most PROVE Leading(n) \in Seq(R)
  <2> DEFINE q == Words(n)
  <2>1. n \in 1..l
    BY <1>6
  <2>2. q \in Seq(Lexicon)
    BY LookupIs, FrequentIs
  <2> HIDE DEF q
  <2>3. [i \in DOMAIN q |-> Led(q[i], n)] \in Seq(R)
    <3>1. \A i \in DOMAIN q : q[i] \in Lexicon
      BY <2>2, LenProperties
    <3>2. [i \in DOMAIN q |-> Led(q[i], n)] \in [DOMAIN q -> R]
      BY <1>4, <2>1, <3>1
    <3> QED BY <2>2, <3>2, MapsTo
  <2> QED BY <2>3 DEF q
<1> HIDE DEF Leading
<1>8. FlattenSeq(led) \in Seq(R)
  <2> DEFINE U == Seq(R)
  <2>1. \A n \in 1..most : Leading(n) \in U
    BY <1>7
  <2> HIDE DEF U
  <2>2. led \in Seq(U)
    BY <1>6, <2>1, IsASeq
  <2> HIDE DEF led
  <2> QED BY <2>2, FlattenIs DEF U
<1> HIDE DEF led
<1>9. whole \o FlattenSeq(led) \in Seq(R)
  BY <1>5, <1>8, ConcatProperties
<1> QED BY <1>1, <1>5, <1>9 DEF R

\* For each text one row stays.
LEMMA BestPerTextIs ==
  ASSUME NEW S, NEW q \in Seq(S)
  PROVE  BestPerText(q) \in Seq(S) /\ Named(BestPerText(q), TextsOf(q))
<1> DEFINE Beaten(i) == \E j \in DOMAIN q :
                          /\ q[j].text = q[i].text
                          /\ (RowBetter(q[j], q[i]) \/ (j < i /\ ~ RowBetter(q[i], q[j])))
           P == {i \in DOMAIN q : ~ Beaten(i)}
<1>1. BestPerText(q) = Those(q, P)
  BY DEF BestPerText
<1>2. P \in SUBSET DOMAIN q
  OBVIOUS
<1>3. ASSUME NEW i \in P, NEW j \in P, q[i].text = q[j].text PROVE i = j
  <2>1. i \in Int /\ j \in Int /\ i \in DOMAIN q /\ j \in DOMAIN q /\ ~Beaten(i) /\ ~Beaten(j)
    BY LenProperties
  <2>2. ASSUME NEW k \in DOMAIN q, NEW l \in DOMAIN q, k < l, q[k].text = q[l].text, ~Beaten(k), ~Beaten(l) PROVE FALSE
    <3>1. RowBetter(q[k], q[l]) \/ ~RowBetter(q[l], q[k]) => Beaten(l)
      BY <2>2
    <3>2. RowBetter(q[l], q[k]) => Beaten(k)
      BY <2>2
    <3> QED BY <2>2, <3>1, <3>2
  <2> HIDE DEF Beaten
  <2>3. ~ (i < j) /\ ~ (j < i)
    BY <1>3, <2>1, <2>2
  <2> QED BY <2>1, <2>3
<1> HIDE DEF P
<1>4. Named(Those(q, P), NamesAt(q, P)) /\ NamesAt(q, P) \subseteq TextsOf(q)
  BY <1>2, <1>3, NamedSome
<1> QED BY <1>1, <1>2, <1>4, ThoseAre DEF Named

\* The paths in the order in which they are looked at.
LEMMA OrderedPathsAre ==
  ASSUME NEW S, NEW parsed, parsed.paths \in Seq(S)
  PROVE  OrderedPaths(parsed) \in Seq(S)
<1> DEFINE q == parsed.paths
           yes == {i \in DOMAIN q : q[i].kind = Exact}
           no == {i \in DOMAIN q : q[i].kind # Exact}
           exact == Those(q, yes)
           rest == Those(q, no)
           less == {p \in (DOMAIN rest) \X (DOMAIN rest) : PathLess(rest[p[1]], rest[p[2]])}
           sorted == SortedBy(rest, less)
           one == 1
           first == IF IsLong(parsed.in) THEN exact ELSE Take(exact, one)
<1>1. OrderedPaths(parsed) = first \o sorted
  BY DEF OrderedPaths, Selected, Sorted
<1>2. yes \in SUBSET DOMAIN q /\ no \in SUBSET DOMAIN q /\ q \in Seq(S) /\ one \in Int
  OBVIOUS
<1> HIDE DEF yes, no, q, one
<1>3. exact \in Seq(S) /\ rest \in Seq(S)
  BY <1>2, ThoseAre
<1> HIDE DEF exact, rest
<1>4. sorted \in Seq(S)
  <2> HIDE DEF less
  <2> QED BY <1>3, SortedIs
<1>5. first \in Seq(S)
  BY <1>2, <1>3, TakeIs
<1> HIDE DEF first, sorted
<1> QED BY <1>1, <1>4, <1>5, ConcatProperties

---------------------------------------------------------------------------
(* The rows of all paths *)

\* What has been collected from some paths.
Collections(in) ==
  [rows : Seq(RowSet(in)), tried : [Exact..Abbreviated -> Nat], exact : BOOLEAN, done : BOOLEAN]

\* One path more.
LEMMA CollectedIs ==
  ASSUME NEW in \in Seq(Chars), NEW acc \in Collections(in), NEW path \in Paths(in), NEW paths \in Nat, NEW limit \in Int
  PROVE  Collected(acc, path, PathRows(in, path, limit), paths, limit) \in Collections(in)
<1> DEFINE K == Exact..Abbreviated
           R == RowSet(in)
           A1 == Seq(R)
           A2 == [K -> Nat]
           B == BOOLEAN
           more == PathRows(in, path, limit)
           kind == path.kind
           tried == [acc.tried EXCEPT ![kind] = @ + 1]
           exact == acc.exact \/ (kind = Exact /\ more.whole # <<>>)
           all == acc.rows \o more.all
           enough == Cardinality(TextsOf(all)) >= limit
           done == enough /\ (kind = Completion \/ (exact /\ tried[Exact] >= paths))
<1>1. Collected(acc, path, more, paths, limit) = [rows |-> all, tried |-> tried, exact |-> exact, done |-> done]
  BY DEF Collected
<1>2. acc \in [rows : A1, tried : A2, exact : B, done : B]
  BY DEF Collections
<1>3. acc.rows \in A1 /\ acc.tried \in A2
  <2> HIDE DEF A1, A2, B
  <2> QED BY <1>2
<1>4. all \in A1
  <2> DEFINE q == acc.rows
             t == more.all
  <2>1. q \in Seq(R) /\ t \in Seq(R)
    BY <1>3, PathRowsAre
  <2> HIDE DEF q, t, R
  <2>2. q \o t \in Seq(R)
    BY <2>1, ConcatProperties
  <2> QED BY <2>2 DEF q, t
<1>5. tried \in A2
  <2> DEFINE f == acc.tried
  <2>1. f \in [K -> Nat] /\ kind \in K
    <3>1. kind \in Exact..Abbreviated
      BY DEF Paths
    <3> QED BY <1>3, <3>1
  <2> HIDE DEF f, K, kind
  <2>2. [f EXCEPT ![kind] = f[kind] + 1] \in [K -> Nat]
    BY <2>1
  <2> QED BY <2>2 DEF f
<1>6. exact \in B /\ done \in B
  BY Zenon
<1> HIDE DEF all, tried, exact, done, A1, A2, B, more
<1>7. [rows |-> all, tried |-> tried, exact |-> exact, done |-> done] \in [rows : A1, tried : A2, exact : B, done : B]
  BY <1>4, <1>5, <1>6
<1> QED BY <1>1, <1>7 DEF Collections, A1, A2, B, R, K, more

\* The rows of paths that are looked at one after the other.
LEMMA EvaluatedRowsAre ==
  ASSUME NEW in \in Seq(Chars), NEW paths \in Seq(Paths(in)), NEW limit \in Int
  PROVE  EvaluatedRows(in, paths, limit).rows \in Seq(RowSet(in))
<1> DEFINE n == Len(paths)
           C == Collections(in)
           exactPaths == Cardinality({i \in DOMAIN paths : paths[i].kind = Exact})
           Skips(acc, path) ==
             \/ acc.done \/ ~AllComplete(path)
             \/ path.kind = Corrected /\ acc.exact
             \/ path.kind # Exact /\ acc.tried[path.kind] >= KindBudget
           Evaluate(acc, path) ==
             IF Skips(acc, path) THEN acc ELSE Collected(acc, path, PathRows(in, path, limit), exactPaths, limit)
           Body(acc, k) == Evaluate(acc, paths[k])
           W(k) == C
           d == [rows |-> <<>>, tried |-> [k \in Exact..Abbreviated |-> 0], exact |-> FALSE, done |-> FALSE]
           F == CHOOSE f : f = [k \in 0..n |-> IF k = 0 THEN d ELSE Body(f[k - 1], k)]
<1>1. EvaluatedRows(in, paths, limit) = F[n]
  BY DEF EvaluatedRows
<1>2. n \in Nat
  BY LenProperties
<1>3. exactPaths \in Nat
  <2> DEFINE places == {i \in DOMAIN paths : paths[i].kind = Exact}
  <2>1. places \in SUBSET DOMAIN paths
    OBVIOUS
  <2> HIDE DEF places
  <2>2. Cardinality(places) \in Nat
    BY <2>1, SomePlaces
  <2> QED BY <2>2 DEF places
<1>4. ASSUME NEW k \in 1..n, NEW acc \in W(k - 1) PROVE Body(acc, k) \in W(k)
  <2> DEFINE path == paths[k]
  <2>1. path \in Paths(in)
    BY <1>2, ElementOfSeq
  <2>2. acc \in Collections(in)
    OBVIOUS
  <2> HIDE DEF path, exactPaths
  <2>3. Collected(acc, path, PathRows(in, path, limit), exactPaths, limit) \in Collections(in)
    BY <1>3, <2>1, <2>2, CollectedIs
  <2> DEFINE x == Collected(acc, path, PathRows(in, path, limit), exactPaths, limit)
  <2> HIDE DEF x, Skips
  <2>4. (IF Skips(acc, path) THEN acc ELSE x) \in Collections(in)
    BY <2>2, <2>3 DEF x
  <2> QED BY <2>4 DEF path, x
<1>5. d \in W(0)
  <2> DEFINE A1 == Seq(RowSet(in))
             A2 == [Exact..Abbreviated -> Nat]
             B == BOOLEAN
             e == <<>>
             t == [k \in Exact..Abbreviated |-> 0]
             no == FALSE
  <2>1. e \in A1
    BY EmptySeq
  <2>2. t \in A2 /\ no \in B
    OBVIOUS
  <2> HIDE DEF A1, A2, B, e, t, no
  <2>3. [rows |-> e, tried |-> t, exact |-> no, done |-> no] \in [rows : A1, tried : A2, exact : B, done : B]
    BY <2>1, <2>2
  <2> QED BY <2>3 DEF A1, A2, B, e, t, no, Collections
<1> HIDE DEF F, d, exactPaths, n
<1> DEFINE T == [k \in 0..n |-> W(k)]
           U == UNION {W(k) : k \in 0..n}
           step == [p \in U \X (1..n) |-> Body(p[1], p[2])]
<1> HIDE DEF Body, W
<1>6. \A k \in 1..n : \A x \in T[k - 1] : step[<<x, k>>] \in T[k] /\ step[<<x, k>>] = Body(x, k)
  <2> SUFFICES ASSUME NEW k \in 1..n, NEW x \in T[k - 1] PROVE step[<<x, k>>] \in T[k] /\ step[<<x, k>>] = Body(x, k)
    OBVIOUS
  <2>1. k \in 0..n /\ k - 1 \in 0..n
    BY <1>2
  <2>2. x \in W(k - 1) /\ x \in U
    BY <2>1
  <2>3. step[<<x, k>>] = Body(x, k)
    BY <2>2
  <2>4. Body(x, k) \in W(k)
    BY <1>4, <2>2
  <2> HIDE DEF step
  <2> QED BY <2>1, <2>3, <2>4
<1>7. 0 \in 0..n /\ d \in T[0]
  <2>1. 0 \in 0..n
    BY <1>2
  <2> QED BY <1>5, <2>1
<1> HIDE DEF step, U
<1>8. PICK g : Successive(g, n, d, step) /\ \A k \in 0..n : g[k] \in T[k]
  <2> HIDE DEF T
  <2> QED BY <1>2, <1>6, <1>7, RecursionDefined
<1>9. ASSUME NEW k \in 0..n PROVE g[k] = IF k = 0 THEN d ELSE Body(g[k - 1], k)
  <2>1. k # 0 => k - 1 \in 0..n /\ k \in 1..n
    BY <1>2
  <2>2. g[k] = IF k = 0 THEN d ELSE step[<<g[k - 1], k>>]
    BY <1>8 DEF Successive
  <2>3. k # 0 => g[k - 1] \in T[k - 1]
    BY <1>8, <2>1
  <2> HIDE DEF T
  <2>4. k # 0 => step[<<g[k - 1], k>>] = Body(g[k - 1], k)
    BY <1>6, <2>1, <2>3
  <2> QED BY <2>2, <2>4
<1>10. g = [k \in 0..n |-> IF k = 0 THEN d ELSE Body(g[k - 1], k)]
  <2>1. g = [k \in 0..n |-> g[k]]
    BY <1>8 DEF Successive
  <2> QED BY <1>9, <2>1
<1>11. F = [k \in 0..n |-> IF k = 0 THEN d ELSE Body(F[k - 1], k)]
  BY <1>10, Zenon DEF F
<1>12. \A k \in 0..n : F[k] = IF k = 0 THEN d ELSE Body(F[k - 1], k)
  BY <1>11, Zenon
<1> DEFINE A == {k \in 0..n : F[k] \in W(k)}
<1>13. \A k \in 0..n : k \in A
  <2>1. 0 \in A
    <3>1. F[0] = d
      BY <1>7, <1>12
    <3> QED BY <1>5, <1>7, <3>1
  <2>2. ASSUME NEW k \in 1..n, k - 1 \in A PROVE k \in A
    <3>1. k \in 0..n /\ k # 0 /\ F[k - 1] \in W(k - 1)
      BY <1>2, <2>2
    <3>2. F[k] = Body(F[k - 1], k)
      BY <1>12, <3>1
    <3> QED BY <1>4, <3>1, <3>2
  <2> HIDE DEF A
  <2> QED BY <1>2, <2>1, <2>2, UpTo
<1>14. \A k \in 0..n : F[k] \in W(k)
  BY <1>13
<1>15. F[n] \in C
  <2>1. n \in 0..n
    BY <1>2
  <2>2. F[n] \in W(n)
    BY <1>14, <2>1
  <2> QED BY <2>2 DEF W
<1> DEFINE x == F[n]
<1> HIDE DEF C
<1>16. x \in C
  BY <1>15
<1> HIDE DEF x
<1>17. x.rows \in Seq(RowSet(in))
  <2> DEFINE A1 == Seq(RowSet(in))
             A2 == [Exact..Abbreviated -> Nat]
  <2>1. x \in [rows : A1, tried : A2, exact : BOOLEAN, done : BOOLEAN]
    BY <1>16 DEF C, Collections
  <2> HIDE DEF A1, A2
  <2>2. x.rows \in A1
    BY <2>1
  <2> QED BY <2>2 DEF A1
<1> QED BY <1>1, <1>17 DEF x

\* The rows of all paths of a parse.
LEMMA SentenceRowsAre ==
  ASSUME NEW in \in Seq(Chars), NEW parsed \in ParsesOf(in), NEW limit \in Int
  PROVE  SentenceRows(parsed, limit).rows \in Seq(RowSet(in))
<1>1. parsed.in = in /\ parsed.paths \in Seq(Paths(in))
  BY DEF ParsesOf
<1> DEFINE S == Paths(in)
           paths == OrderedPaths(parsed)
<1>2. paths \in Seq(Paths(in))
  <2>1. parsed.paths \in Seq(S)
    BY <1>1
  <2> HIDE DEF S
  <2>2. paths \in Seq(S)
    BY <2>1, OrderedPathsAre
  <2> QED BY <2>2 DEF S
<1>3. SentenceRows(parsed, limit) = EvaluatedRows(in, paths, limit)
  BY <1>1 DEF SentenceRows
<1> HIDE DEF paths
<1>4. EvaluatedRows(in, paths, limit).rows \in Seq(RowSet(in))
  BY <1>2, EvaluatedRowsAre
<1> QED BY <1>3, <1>4

---------------------------------------------------------------------------
(* Initials *)

\* The letters of an input without apostrophes are segments of it, and so many
\* of them use so many letters.
LEMMA LettersReach ==
  ASSUME NEW in \in Seq(Chars), in # <<>>, ~ Contains(in, Separator)
  PROVE  /\ [k \in DOMAIN in |-> <<in[k]>>] \in Seq(Text)
         /\ \A n \in DOMAIN in : Uses(in, [k \in DOMAIN in |-> <<in[k]>>], n)
<1> DEFINE n == Len(in)
           segs == [k \in DOMAIN in |-> <<in[k]>>]
           y(k) == Syllable(<<in[k]>>, k - 1, k, FALSE)
           s == [k \in DOMAIN in |-> y(k)]
<1>1. n \in Nat /\ n >= 1 /\ DOMAIN in = 1..n /\ Plain(in, 0, n)
  <2>1. n \in Nat /\ DOMAIN in = 1..n /\ Plain(in, 0, n)
    BY LenProperties, PlainInput
  <2>2. n # 0
    BY EmptySeq
  <2> QED BY <2>1, <2>2
<1>2. ASSUME NEW k \in 1..n PROVE <<in[k]>> \in Text /\ in[k] \in Nat
  <2> DEFINE c == in[k]
  <2>1. c \in Nat
    BY <1>1, ElementOfSeq, CharsAre
  <2> HIDE DEF c
  <2>2. <<c>> \in Seq(Nat)
    BY <2>1
  <2> QED BY <2>1, <2>2 DEF Text, c
<1>3. ASSUME NEW k \in 1..n PROVE y(k) \in Syl(in) /\ y(k).from = k - 1 /\ y(k).to = k
  <2>1. k - 1 \in 0..n /\ k \in 0..n
    BY <1>1
  <2> QED BY <1>2, <2>1 DEF Syl, Syllable
<1>4. ASSUME NEW k \in 1..n PROVE Slice(in, k - 1, k) = <<in[k]>>
  <2> DEFINE m == k - 1
             t == Slice(in, m, k)
             c == in[k]
  <2>1. m \in Nat /\ k \in 0..Len(in) /\ k - m = 1 /\ m <= k /\ m + 1 = k
    BY <1>1
  <2> HIDE DEF m
  <2>2. t \in Seq(Chars) /\ Len(t) = 1 /\ \A i \in 1..1 : t[i] = in[m + i]
    <3>1. t \in Seq(Chars) /\ Len(t) = (IF m <= k THEN k - m ELSE 0) /\ \A i \in 1..k - m : t[i] = in[m + i]
      BY <2>1, SliceIs
    <3> HIDE DEF t
    <3> QED BY <2>1, <3>1
  <2>3. t[1] = c
    BY <2>1, <2>2
  <2>4. c \in Chars
    BY <1>1, ElementOfSeq
  <2> HIDE DEF t, c
  <2> DEFINE u == <<c>>
  <2>5. u \in Seq(Chars) /\ Len(u) = 1 /\ u[1] = c
    BY <2>4, SingleIs
  <2> HIDE DEF u
  <2>6. \A i \in 1..1 : t[i] = u[i]
    <3> SUFFICES ASSUME NEW i \in 1..1 PROVE t[i] = u[i]
      OBVIOUS
    <3>1. i = 1
      OBVIOUS
    <3> QED BY <2>3, <2>5, <3>1
  <2>7. Len(t) = Len(u) /\ \A i \in 1..Len(t) : t[i] = u[i]
    BY <2>2, <2>5, <2>6
  <2>8. t = u
    BY <2>2, <2>5, <2>7, SeqEqual
  <2> QED BY <2>8 DEF t, u, m, c
<1> HIDE DEF y
<1>5. s \in Seq(Syl(in)) /\ Len(s) = n /\ DOMAIN s = 1..n /\ \A k \in 1..n : s[k] = y(k)
  <2>1. s \in [DOMAIN in -> Syl(in)]
    BY <1>1, <1>3
  <2>2. \A k \in 1..n : s[k] = y(k)
    BY <1>1
  <2> HIDE DEF s
  <2>3. s \in Seq(Syl(in)) /\ Len(s) = n
    BY <2>1, MapsTo
  <2> QED BY <2>2, <2>3, LenProperties
<1> HIDE DEF s, n
<1>6. s \in Tilings(in, 0, n)
  <2>1. s # <<>>
    BY <1>1, <1>5, EmptySeq
  <2>2. 1 \in 1..n /\ n \in 1..n
    BY <1>1
  <2>3. s[1].from = 0 /\ s[n].to = n
    BY <1>3, <1>5, <2>2
  <2>4. ASSUME NEW k \in 1..n PROVE Spans(in, s[k])
    <3>1. \A j \in k - 1 + 1..k : in[j] # Separator
      BY <1>1 DEF Plain
    <3>2. k - 1 < k
      OBVIOUS
    <3> QED BY <1>3, <1>5, <3>1, <3>2 DEF Spans
  <2>5. ASSUME NEW k \in 1..n - 1 PROVE Follows(in, s[k].to, s[k + 1].from)
    <3>1. k \in 1..n /\ k + 1 \in 1..n /\ k + 1 - 1 = k
      BY <1>1
    <3>2. s[k].to = k /\ s[k + 1].from = k
      BY <1>3, <1>5, <3>1
    <3> QED BY <3>2 DEF Follows
  <2> QED BY <1>5, <2>1, <2>3, <2>4, <2>5 DEF Tilings, Tiled
<1> DEFINE parts == [i \in DOMAIN s |-> Slice(in, s[i].from, s[i].to)]
<1>7. parts \in Seq(Text) /\ \A k \in 1..n : Uses(in, parts, s[k].to)
  BY <1>5, <1>6, SegmentsReach
<1>8. parts = segs
  <2>1. \A k \in 1..n : Slice(in, s[k].from, s[k].to) = <<in[k]>>
    BY <1>3, <1>4, <1>5
  <2> QED BY <1>1, <1>5, <2>1
<1>9. \A k \in 1..n : s[k].to = k
  BY <1>3, <1>5
<1> HIDE DEF parts, segs
<1>10. segs \in Seq(Text) /\ \A k \in DOMAIN in : Uses(in, segs, k)
  BY <1>1, <1>7, <1>8, <1>9
<1> QED BY <1>10 DEF segs

\* The rows of the initials of an input.
LEMMA InitialRowsAre ==
  ASSUME NEW in \in Seq(Chars)
  PROVE  InitialRows(in) \in Seq(RowSet(in))
<1> DEFINE n == Len(in)
           St == [k \in 0..n |-> Sentences]
           Words(to) == Take(LookupInitial(in[to]), BeamWidth)
           Extra(e, to) == PreferredBonus(in[to], e.syl[1]) - CharacterPenalty * (Len(e.syl[1]) - 1)
           Step(s, from, to) == [i \in DOMAIN Words(to) |-> Followed(s, Words(to)[i], Extra(Words(to)[i], to))]
           Keep(q) == PruneStates(q)
           begin == Start(-AbbreviationPenalty)
           one == 1
           columns == Chart(in, begin, Step, Keep, one)
           segs == [k \in DOMAIN in |-> <<in[k]>>]
           none == <<>>
           Of(s, m) == Row(s.text, s.syl, s.score, Abbreviated, segs, m, one, none)
           Rows(m) == [i \in DOMAIN columns[m + 1] |-> Of(columns[m + 1][i], m)]
           rows == [m \in DOMAIN in |-> Rows(m)]
<1>1. InitialRows(in) = IF AllConsonants(in) THEN FlattenSeq(rows) ELSE <<>>
  BY DEF InitialRows, MapSeq, Chart
<1>2. SUFFICES ASSUME AllConsonants(in) PROVE FlattenSeq(rows) \in Seq(RowSet(in))
  BY <1>1, EmptySeq
<1>3. n \in Nat /\ n >= 2 /\ DOMAIN in = 1..n /\ in # <<>> /\ ~ Contains(in, Separator)
  <2>1. n \in Nat /\ n >= 2 /\ DOMAIN in = 1..n
    BY <1>2, LenProperties DEF AllConsonants
  <2>2. in # <<>>
    BY <2>1, EmptySeq
  <2>3. ~ Contains(in, Separator)
    <3> SUFFICES ASSUME Contains(in, Separator) PROVE FALSE
      OBVIOUS
    <3>1. PICK i \in DOMAIN in : in[i] = Separator
      BY <2>1 DEF Contains
    <3>2. in[i] \in ToSet(in)
      BY DEF ToSet
    <3>3. Separator \in ToSet(in) \cap (Vowels \cup {Separator})
      BY <3>1, <3>2
    <3> QED BY <1>2, <3>3 DEF AllConsonants
  <2> QED BY <2>1, <2>2, <2>3
<1>4. segs \in Seq(Text) /\ \A m \in DOMAIN in : Fits(in, segs, m)
  <2>1. segs \in Seq(Text) /\ \A m \in DOMAIN in : Uses(in, segs, m)
    BY <1>3, LettersReach
  <2>2. Covers(in, segs)
    BY <1>3, LettersCover
  <2> HIDE DEF segs
  <2> QED BY <2>1, <2>2 DEF Fits
<1>5. ASSUME NEW to \in 1..n, NEW e \in Lexicon PROVE Extra(e, to) \in Int
  <2>1. Len(e.syl[1]) \in Nat
    <3>1. 1 \in 1..Len(e.syl)
      BY EntryIs
    <3> QED BY <3>1, EntryIs
  <2>2. PreferredBonus(in[to], e.syl[1]) \in Int
    BY DEF PreferredBonus
  <2> QED BY <2>1, <2>2 DEF CharacterPenalty
<1> HIDE DEF segs, Extra
<1>6. ASSUME NEW from \in 0..n, NEW to \in from + 1..n, NEW s \in St[from] PROVE Step(s, from, to) \in Seq(St[to])
  <2> DEFINE q == Words(to)
             S == Sentences
  <2>1. s \in S /\ St[to] = S /\ to \in 1..n
    <3>1. to \in 0..n /\ to \in 1..n
      BY <1>3
    <3> QED BY <3>1
  <2>2. q \in Seq(Lexicon)
    <3> DEFINE t == LookupInitial(in[to])
    <3>1. t \in Seq(Lexicon) /\ BeamWidth \in Int
      BY LookupInitialIs, LexiconConstants
    <3> HIDE DEF t
    <3>2. Take(t, BeamWidth) \in Seq(Lexicon)
      BY <3>1, TakeIs
    <3> QED BY <3>2 DEF t
  <2>3. ASSUME NEW e \in Lexicon PROVE Followed(s, e, Extra(e, to)) \in S
    <3> DEFINE z == Extra(e, to)
    <3>1. z \in Int
      BY <1>5, <2>1
    <3> HIDE DEF z
    <3>2. Followed(s, e, z) \in Sentences
      BY <2>1, <3>1, FollowedIs
    <3> QED BY <3>2 DEF z
  <2> HIDE DEF q, S
  <2>4. [i \in DOMAIN q |-> Followed(s, q[i], Extra(q[i], to))] \in Seq(S)
    <3>1. \A i \in DOMAIN q : q[i] \in Lexicon
      BY <2>2, LenProperties
    <3>2. [i \in DOMAIN q |-> Followed(s, q[i], Extra(q[i], to))] \in [DOMAIN q -> S]
      BY <2>3, <3>1
    <3> QED BY <2>2, <3>2, MapsTo
  <2> QED BY <2>1, <2>4 DEF q
<1>7. ASSUME NEW to \in 1..n, NEW q \in Seq(St[to]) PROVE Keep(q) \in Seq(St[to])
  <2> DEFINE V == St[to]
  <2>1. q \in Seq(V)
    OBVIOUS
  <2> HIDE DEF V
  <2>2. PruneStates(q) \in Seq(V)
    BY <2>1, PruneStatesIs
  <2> QED BY <2>2 DEF V
<1>8. begin \in St[0]
  <2> DEFINE z == -AbbreviationPenalty
  <2>1. 0 \in 0..n /\ z \in Int
    BY <1>3 DEF AbbreviationPenalty
  <2> HIDE DEF z
  <2>2. Start(z) \in Sentences
    BY <2>1, StartIs
  <2> QED BY <2>1, <2>2 DEF z
<1>9. one \in Int
  OBVIOUS
<1>10. \A m \in 0..n : St[m] = Sentences
  OBVIOUS
<1>11. columns = Chart(in, begin, Step, Keep, one)
  OBVIOUS
<1>12. ASSUME NEW s \in Sentences, NEW m \in DOMAIN in PROVE Of(s, m) \in RowSet(in)
  <2> DEFINE A1 == Seq(Text)
             A2 == Seq(Nat)
  <2>1. s \in [text : Text, syl : A1, score : Int, count : Nat, lengths : A2]
    BY DEF Sentences
  <2>2. s.text \in Text /\ s.syl \in A1 /\ s.score \in Int
    <3> HIDE DEF A1, A2
    <3> QED BY <2>1
  <2> DEFINE text == s.text
             syl == s.syl
             sc == s.score
             kind == Abbreviated
  <2>3. /\ text \in Text /\ syl \in Seq(Text) /\ sc \in Int /\ kind \in Exact..Abbreviated /\ segs \in Seq(Text)
        /\ one \in Nat /\ none \in Seq(Nat) /\ m \in Nat /\ Fits(in, segs, m)
    <3>1. kind \in Exact..Abbreviated
      BY DEF Exact, Abbreviated
    <3>2. m \in Nat
      BY <1>3
    <3> QED BY <1>4, <2>2, <3>1, <3>2, EmptySeq
  <2> HIDE DEF text, syl, sc, kind, one, none
  <2>4. Row(text, syl, sc, kind, segs, m, one, none) \in RowSet(in)
    BY <2>3, RowIs
  <2> QED BY <2>4 DEF text, syl, sc, kind
<1> HIDE DEF St, Step, Keep, begin, one, Of
<1> DEFINE From(c, from, to) == FlattenSeq([i \in DOMAIN c[from + 1] |-> Step(c[from + 1][i], from, to)])
           Reached(c, to) == FlattenSeq([k \in 1..to - Greater(0, to - one) |-> From(c, Greater(0, to - one) + k - 1, to)])
           Body(c, to) == Append(c, Keep(Reached(c, to)))
           F == CHOOSE f : f = [to \in 0..n |-> IF to = 0 THEN <<<<begin>>>> ELSE Body(f[to - 1], to)]
           W(k) == Cols(St, n, k)
<1>13. Chart(in, begin, Step, Keep, one) = F[n]
  BY DEF Chart, MapSeq, n
<1> HIDE DEF F, n
<1>14. ASSUME NEW to \in 1..n, NEW c \in W(to - 1) PROVE Body(c, to) \in W(to)
  <2> DEFINE first == Greater(0, to - one)
             g == [from \in 0..to - 1 |-> From(c, from, to)]
  <2>1. first \in Nat /\ to \in Nat
    BY <1>3, <1>9, LesserIs DEF Greater
  <2>2. ASSUME NEW from \in 0..to - 1 PROVE From(c, from, to) \in Seq(St[to])
    <3> DEFINE q == c[from + 1]
               S == St[from]
               T == St[to]
    <3>1. q \in Seq(S)
      BY DEF Cols
    <3>2. ASSUME NEW x \in S PROVE Step(x, from, to) \in Seq(T)
      <4>1. from \in 0..n /\ to \in from + 1..n
        BY <1>3
      <4> QED BY <1>6, <4>1
    <3> HIDE DEF q, S, T
    <3>3. \A i \in DOMAIN q : q[i] \in S
      BY <3>1, LenProperties
    <3>4. [i \in DOMAIN q |-> Step(q[i], from, to)] \in [DOMAIN q -> Seq(T)]
      BY <3>2, <3>3
    <3>5. FlattenSeq([i \in DOMAIN q |-> Step(q[i], from, to)]) \in Seq(T)
      <4> DEFINE h == [i \in DOMAIN q |-> Step(q[i], from, to)]
      <4> HIDE DEF h
      <4>1. h \in [DOMAIN q -> Seq(T)]
        BY <3>4 DEF h
      <4>2. FlattenSeq(h) \in Seq(T)
        BY <3>1, <4>1, FlatMap
      <4> QED BY <4>2 DEF h
    <3> QED BY <3>5 DEF q, T
  <2> HIDE DEF From
  <2>3. \A from \in first..to - 1 : from \in 0..to - 1
    BY <2>1
  <2>4. \A from \in first..to - 1 : g[from] \in Seq(St[to])
    BY <2>2, <2>3
  <2>5. FlattenSeq([k \in 1..to - first |-> g[first + k - 1]]) \in Seq(St[to])
    <3> DEFINE T == St[to]
    <3>1. \A from \in first..to - 1 : g[from] \in Seq(T)
      BY <2>4
    <3> HIDE DEF g, T, first
    <3>2. FlattenSeq([k \in 1..to - first |-> g[first + k - 1]]) \in Seq(T)
      BY <2>1, <3>1, Gathered
    <3> QED BY <3>2 DEF T
  <2>6. [k \in 1..to - first |-> From(c, first + k - 1, to)] = [k \in 1..to - first |-> g[first + k - 1]]
    <3>1. \A k \in 1..to - first : first + k - 1 \in 0..to - 1
      BY <2>1
    <3> HIDE DEF first
    <3>2. \A k \in 1..to - first : From(c, first + k - 1, to) = g[first + k - 1]
      BY <3>1
    <3> HIDE DEF g
    <3> QED BY <3>2, Zenon
  <2>7. Reached(c, to) \in Seq(St[to])
    <3> HIDE DEF g
    <3> QED BY <2>5, <2>6 DEF first
  <2> HIDE DEF Reached
  <2>8. Keep(Reached(c, to)) \in Seq(St[to])
    BY <1>7, <2>7
  <2> DEFINE q == Keep(Reached(c, to))
  <2> HIDE DEF q
  <2>9. q \in Seq(St[to])
    BY <2>8 DEF q
  <2>10. Append(c, q) \in Cols(St, n, to)
    BY <1>3, <2>9, ColsGrow
  <2> QED BY <2>10 DEF q
<1>15. <<<<begin>>>> \in W(0)
  BY <1>3, <1>8, ColsBegin
<1> DEFINE T == [k \in 0..n |-> W(k)]
           U == UNION {W(k) : k \in 0..n}
           step == [p \in U \X (1..n) |-> Body(p[1], p[2])]
<1> HIDE DEF Body, W
<1>16. \A k \in 1..n : \A x \in T[k - 1] : step[<<x, k>>] \in T[k] /\ step[<<x, k>>] = Body(x, k)
  <2> SUFFICES ASSUME NEW k \in 1..n, NEW x \in T[k - 1] PROVE step[<<x, k>>] \in T[k] /\ step[<<x, k>>] = Body(x, k)
    OBVIOUS
  <2>1. k \in 0..n /\ k - 1 \in 0..n
    BY <1>3
  <2>2. x \in W(k - 1) /\ x \in U
    BY <2>1
  <2>3. step[<<x, k>>] = Body(x, k)
    BY <2>2
  <2>4. Body(x, k) \in W(k)
    BY <1>14, <2>2
  <2> HIDE DEF step
  <2> QED BY <2>1, <2>3, <2>4
<1>17. 0 \in 0..n /\ <<<<begin>>>> \in T[0]
  <2>1. 0 \in 0..n
    BY <1>3
  <2> QED BY <1>15, <2>1
<1> HIDE DEF step, U
<1>18. PICK g : Successive(g, n, <<<<begin>>>>, step) /\ \A k \in 0..n : g[k] \in T[k]
  <2> HIDE DEF T
  <2> QED BY <1>3, <1>16, <1>17, RecursionDefined
<1>19. ASSUME NEW k \in 0..n PROVE g[k] = IF k = 0 THEN <<<<begin>>>> ELSE Body(g[k - 1], k)
  <2>1. k # 0 => k - 1 \in 0..n /\ k \in 1..n
    BY <1>3
  <2>2. g[k] = IF k = 0 THEN <<<<begin>>>> ELSE step[<<g[k - 1], k>>]
    BY <1>18 DEF Successive
  <2>3. k # 0 => g[k - 1] \in T[k - 1]
    BY <1>18, <2>1
  <2> HIDE DEF T
  <2>4. k # 0 => step[<<g[k - 1], k>>] = Body(g[k - 1], k)
    BY <1>16, <2>1, <2>3
  <2> QED BY <2>2, <2>4
<1>20. g = [k \in 0..n |-> IF k = 0 THEN <<<<begin>>>> ELSE Body(g[k - 1], k)]
  <2>1. g = [k \in 0..n |-> g[k]]
    BY <1>18 DEF Successive
  <2> QED BY <1>19, <2>1
<1>21. F = [k \in 0..n |-> IF k = 0 THEN <<<<begin>>>> ELSE Body(F[k - 1], k)]
  BY <1>20, Zenon DEF F
<1>22. \A k \in 0..n : F[k] = IF k = 0 THEN <<<<begin>>>> ELSE Body(F[k - 1], k)
  BY <1>21, Zenon
<1> DEFINE A == {k \in 0..n : F[k] \in W(k)}
<1>23. \A k \in 0..n : k \in A
  <2>1. 0 \in A
    <3>1. F[0] = <<<<begin>>>>
      BY <1>17, <1>22
    <3> QED BY <1>15, <1>17, <3>1
  <2>2. ASSUME NEW k \in 1..n, k - 1 \in A PROVE k \in A
    <3>1. k \in 0..n /\ k # 0 /\ F[k - 1] \in W(k - 1)
      BY <1>3, <2>2
    <3>2. F[k] = Body(F[k - 1], k)
      BY <1>22, <3>1
    <3> QED BY <1>14, <3>1, <3>2
  <2> HIDE DEF A
  <2> QED BY <1>3, <2>1, <2>2, UpTo
<1>24. \A k \in 0..n : F[k] \in W(k)
  BY <1>23
<1>25. F[n] \in Cols(St, n, n)
  BY <1>3, <1>24 DEF W
<1> HIDE DEF columns
<1>26. ASSUME NEW m \in DOMAIN in PROVE columns[m + 1] \in Seq(Sentences)
  <2>1. columns \in Cols(St, n, n)
    BY <1>11, <1>13, <1>25 DEF n
  <2>2. m \in 0..n
    BY <1>3
  <2>3. columns[m + 1] \in Seq(St[m])
    BY <2>1, <2>2 DEF Cols
  <2> QED BY <1>10, <2>2, <2>3
<1> DEFINE R == RowSet(in)
<1>27. ASSUME NEW m \in DOMAIN in PROVE Rows(m) \in Seq(R)
  <2> DEFINE q == columns[m + 1]
             S == Sentences
  <2>1. q \in Seq(S)
    BY <1>26
  <2>2. ASSUME NEW x \in S PROVE Of(x, m) \in R
    BY <1>12
  <2> HIDE DEF q, S, R
  <2>3. [i \in DOMAIN q |-> Of(q[i], m)] \in Seq(R)
    <3>1. \A i \in DOMAIN q : q[i] \in S
      BY <2>1, LenProperties
    <3>2. [i \in DOMAIN q |-> Of(q[i], m)] \in [DOMAIN q -> R]
      BY <2>2, <3>1
    <3> QED BY <2>1, <3>2, MapsTo
  <2> QED BY <2>3 DEF q
<1> HIDE DEF Rows, R
<1>28. FlattenSeq(rows) \in Seq(R)
  <2>1. rows \in [DOMAIN in -> Seq(R)]
    BY <1>27
  <2> HIDE DEF rows
  <2> QED BY <2>1, FlatMap
<1> QED BY <1>28 DEF R

---------------------------------------------------------------------------
(* Words that are abbreviated *)

\* The ways to cut an input into segments.
Splittings(in) == {segs \in Seq(Text) : Len(segs) >= 1 /\ FlattenSeq(segs) = in}
Matches(in) == [entry : Lexicon, segs : Splittings(in)]

\* Two elements.
LEMMA PairIs ==
  ASSUME NEW S, NEW x \in S, NEW y \in S
  PROVE  /\ <<x, y>> \in Seq(S) /\ Len(<<x, y>>) = 2
         /\ <<x>> \o <<y>> = <<x, y>> /\ Append(<<x>>, y) = <<x, y>>
<1> DEFINE s == <<x>>
           u == Append(s, y)
           w == <<x, y>>
<1>1. w \in Seq(S) /\ Len(w) = 2 /\ w[1] = x /\ w[2] = y
  OBVIOUS
<1>2. s \in Seq(S) /\ Len(s) = 1 /\ s[1] = x
  BY SingleIs
<1> HIDE DEF s, w
<1>3. u \in Seq(S) /\ Len(u) = 2 /\ u[1] = x /\ u[2] = y
  <2>1. s \in Seq(S) /\ y \in S
    BY <1>2
  <2>2. u \in Seq(S) /\ Len(u) = Len(s) + 1
    BY <2>1
  <2>3. (\A i \in 1..Len(s) : u[i] = s[i]) /\ u[Len(s) + 1] = y
    BY <2>1, AppendProperties
  <2>4. u \in Seq(S) /\ Len(u) = Len(s) + 1 /\ (\A i \in 1..Len(s) : u[i] = s[i]) /\ u[Len(s) + 1] = y
    BY <2>2, <2>3
  <2> HIDE DEF u
  <2>5. u \in Seq(S) /\ Len(u) = 2 /\ 1 \in 1..Len(s) /\ Len(s) + 1 = 2
    BY <1>2, <2>4
  <2>6. u[1] = x
    BY <1>2, <2>4, <2>5
  <2>7. u[2] = y
    BY <2>4, <2>5
  <2> QED BY <2>5, <2>6, <2>7
<1> HIDE DEF u
<1>4. \A i \in 1..Len(u) : u[i] = w[i]
  <2> SUFFICES ASSUME NEW i \in 1..Len(u) PROVE u[i] = w[i]
    OBVIOUS
  <2>1. i = 1 \/ i = 2
    BY <1>3
  <2> QED BY <1>1, <1>3, <2>1
<1>5. u = w
  <2>1. Len(u) = Len(w)
    BY <1>1, <1>3
  <2> QED BY <1>1, <1>3, <1>4, <2>1, SeqEqual
<1>6. Append(s, y) = s \o <<y>>
  BY <1>2, AppendIsConcat
<1> QED BY <1>1, <1>5, <1>6 DEF s, u, w

\* The ways to split an abbreviated reading along the input.
LEMMA SplitsAre ==
  ASSUME NEW syl \in Seq(Text), Len(syl) >= 1, NEW in
  PROVE  IsFiniteSet(Splits(syl, in)) /\ Splits(syl, in) \subseteq Splittings(in)
<1> DEFINE D == [DOMAIN syl -> 1..6]
           Cut(n) == [k \in DOMAIN syl |-> Take(syl[k], n[k])]
           f == [n \in D |-> Cut(n)]
           All == {f[n] : n \in D}
<1>1. Splits(syl, in) = {segs \in All : segs[1] = syl[1] /\ segs # syl /\ FlattenSeq(segs) = in}
  <2>1. All = {Cut(n) : n \in D}
    OBVIOUS
  <2> QED BY <2>1 DEF Splits
<1>2. IsFiniteSet(D)
  <2>1. IsFiniteSet(DOMAIN syl)
    <3>1. DOMAIN syl = 1..Len(syl) /\ Len(syl) \in Nat
      BY LenProperties
    <3> QED BY <3>1, FirstNumbers
  <2>2. IsFiniteSet(1..6)
    <3> DEFINE six == 6
    <3>1. six \in Nat
      OBVIOUS
    <3> HIDE DEF six
    <3>2. IsFiniteSet(1..six)
      BY <3>1, FirstNumbers
    <3> QED BY <3>2 DEF six
  <2> QED BY <2>1, <2>2, FunctionsFinite
<1>3. ASSUME NEW n \in D PROVE f[n] \in Seq(Text) /\ Len(f[n]) = Len(syl)
  <2> DEFINE g == Cut(n)
  <2>1. ASSUME NEW k \in DOMAIN syl PROVE Take(syl[k], n[k]) \in Text
    <3> DEFINE t == syl[k]
               m == n[k]
    <3>1. t \in Seq(Nat) /\ m \in Int
      <4>1. t \in Text
        BY LenProperties
      <4>2. m \in 1..6
        OBVIOUS
      <4> QED BY <4>1, <4>2 DEF Text
    <3> HIDE DEF t, m
    <3>2. Take(t, m) \in Seq(Nat)
      BY <3>1, TakeIs
    <3> QED BY <3>2 DEF t, m, Text
  <2>2. g \in [DOMAIN syl -> Text]
    BY <2>1
  <2> HIDE DEF g
  <2>3. g \in Seq(Text) /\ Len(g) = Len(syl)
    BY <2>2, MapsTo
  <2> QED BY <2>3 DEF g
<1> HIDE DEF f, D
<1>4. IsFiniteSet(All)
  BY <1>2, ImageFinite
<1>5. \A segs \in All : segs \in Seq(Text) /\ Len(segs) >= 1
  BY <1>3
<1> HIDE DEF All
<1>6. IsFiniteSet(Splits(syl, in))
  <2> DEFINE S == Splits(syl, in)
  <2>1. S \in SUBSET All
    BY <1>1
  <2> HIDE DEF S
  <2>2. IsFiniteSet(S)
    BY <1>4, <2>1, FS_Subset
  <2> QED BY <2>2 DEF S
<1>7. Splits(syl, in) \subseteq Splittings(in)
  BY <1>1, <1>5 DEF Splittings
<1> QED BY <1>6, <1>7

\* What a word matches of an input is a way to cut it.
LEMMA MatchesOfAre ==
  ASSUME NEW e \in Lexicon, NEW in \in Seq(Chars), Len(in) >= 2, MatchesOf(e, in) # <<>>
  PROVE  MatchesOf(e, in)[1] \in Splittings(in)
<1>1. Len(in) \in Nat /\ DOMAIN in = 1..Len(in)
  BY LenProperties
<1>2. CASE Len(in) > 2
  <2> DEFINE S == Splits(e.syl, in)
             Earlier(s, t) == \E k \in DOMAIN s : Len(s[k]) > Len(t[k]) /\ \A j \in 1..k - 1 : s[j] = t[j]
             before == {p \in S \X S : Earlier(p[1], p[2])}
             q == InOrder(S, before)
  <2>1. MatchesOf(e, in) = q
    BY <1>2 DEF MatchesOf, MixedSegments, OrderedBy
  <2>2. IsFiniteSet(S) /\ S \subseteq Splittings(in)
    <3> DEFINE y == e.syl
    <3>1. y \in Seq(Text) /\ Len(y) >= 1
      BY EntryIs
    <3> HIDE DEF y
    <3>2. IsFiniteSet(Splits(y, in)) /\ Splits(y, in) \subseteq Splittings(in)
      BY <3>1, SplitsAre
    <3> QED BY <3>2 DEF y
  <2>3. q \in Seq(S)
    <3> HIDE DEF S, before
    <3> QED BY <2>2, InOrderIs
  <2> HIDE DEF q, S
  <2>4. q # <<>>
    BY <2>1
  <2>5. Len(q) \in Nat /\ 1 \in 1..Len(q)
    BY <2>3, <2>4, EmptySeq, LenProperties
  <2>6. q[1] \in S
    BY <2>3, <2>5, ElementOfSeq
  <2> QED BY <2>1, <2>2, <2>6
<1>3. CASE Len(in) = 2
  <2> DEFINE a == in[1]
             b == in[2]
             s == <<a>>
             t == <<b>>
             segs == <<s, t>>
  <2>1. MatchesOf(e, in) = <<segs>>
    BY <1>3 DEF MatchesOf
  <2>2. a \in Nat /\ b \in Nat
    <3>1. 1 \in 1..Len(in) /\ 2 \in 1..Len(in)
      BY <1>3
    <3> QED BY <3>1, ElementOfSeq, CharsAre
  <2>3. s \in Seq(Nat) /\ t \in Seq(Nat) /\ s \o t = <<a, b>>
    <3> HIDE DEF a, b
    <3> QED BY <2>2, SingleIs, PairIs
  <2>4. in = <<a, b>>
    <3>1. in = [i \in 1..2 |-> in[i]]
      <4>1. in = [i \in DOMAIN in |-> in[i]]
        OBVIOUS
      <4> QED BY <1>1, <1>3, <4>1
    <3> QED BY <3>1
  <2> HIDE DEF s, t
  <2> DEFINE ss == <<s>>
  <2>5. ss \in Seq(Seq(Nat)) /\ Append(ss, t) = segs /\ segs \in Seq(Seq(Nat)) /\ Len(segs) = 2
    <3> DEFINE A == Seq(Nat)
    <3>1. s \in A /\ t \in A
      BY <2>3
    <3> HIDE DEF A
    <3>2. ss \in Seq(A) /\ Append(ss, t) = segs /\ segs \in Seq(A) /\ Len(segs) = 2
      BY <3>1, SingleIs, PairIs
    <3> QED BY <3>2 DEF A
  <2>6. FlattenSeq(ss) = s
    BY <2>3, FlattenOne
  <2> HIDE DEF ss
  <2>7. FlattenSeq(Append(ss, t)) = FlattenSeq(ss) \o t
    BY <2>3, <2>5, FlattenMore
  <2>8. FlattenSeq(segs) = in
    BY <2>3, <2>4, <2>5, <2>6, <2>7
  <2> HIDE DEF segs
  <2>9. segs \in Splittings(in)
    BY <2>5, <2>8 DEF Splittings, Text
  <2> QED BY <2>1, <2>9
<1> QED BY <1>1, <1>2, <1>3

\* The words that an input abbreviates.
LEMMA LookupMixedIs ==
  ASSUME NEW in \in Seq(Chars)
  PROVE  LookupMixed(in) \in Seq(Matches(in))
<1> DEFINE buckets == MixedBuckets
           keys == {key \in DOMAIN buckets : IF Len(in) = 2 THEN Initials(key, in) ELSE Beginning(key, in)}
           words == UNION {buckets[key] : key \in keys}
           Some == {e \in words : MatchesOf(e, in) # <<>>}
           f == [e \in Some |-> [entry |-> e, segs |-> MatchesOf(e, in)[1]]]
           M == {f[e] : e \in Some}
           before == {p \in M \X M : MatchLess(p[1], p[2])}
           matches == {[m EXCEPT !.segs = m.segs[1]] : m \in {m \in MatchedIn(buckets, in) : m.segs # <<>>}}
<1>1. MatchedIn(buckets, in) = {[entry |-> e, segs |-> MatchesOf(e, in)] : e \in words}
  BY DEF MatchedIn
<1>2. matches = M
  <2>1. \A e : [[entry |-> e, segs |-> MatchesOf(e, in)] EXCEPT !.segs = MatchesOf(e, in)[1]]
               = [entry |-> e, segs |-> MatchesOf(e, in)[1]]
    OBVIOUS
  <2>2. matches = {[m EXCEPT !.segs = m.segs[1]] : m \in {[entry |-> e, segs |-> MatchesOf(e, in)] : e \in Some}}
    <3>1. {m \in MatchedIn(buckets, in) : m.segs # <<>>} = {[entry |-> e, segs |-> MatchesOf(e, in)] : e \in Some}
      <4> HIDE DEF words
      <4> QED BY <1>1
    <3> HIDE DEF Some
    <3> QED BY <3>1
  <2>3. matches = {[entry |-> e, segs |-> MatchesOf(e, in)[1]] : e \in Some}
    <3> HIDE DEF Some
    <3> DEFINE p(e) == [entry |-> e, segs |-> MatchesOf(e, in)]
               r(e) == [entry |-> e, segs |-> MatchesOf(e, in)[1]]
               u(m) == [m EXCEPT !.segs = m.segs[1]]
    <3>1. \A e : u(p(e)) = r(e)
      BY <2>1
    <3>2. matches = {u(m) : m \in {p(e) : e \in Some}}
      BY <2>2
    <3> HIDE DEF u, p, r, matches
    <3>3. {u(m) : m \in {p(e) : e \in Some}} = {r(e) : e \in Some}
      BY <3>1
    <3> QED BY <3>2, <3>3 DEF r
  <2>4. M = {[entry |-> e, segs |-> MatchesOf(e, in)[1]] : e \in Some}
    <3> HIDE DEF Some
    <3> QED OBVIOUS
  <2> QED BY <2>3, <2>4
<1>3. LookupMixed(in) = IF Len(in) < 2 \/ Contains(in, Separator) THEN <<>> ELSE InOrder(M, before)
  <2>1. LookupMixed(in) = IF Len(in) < 2 \/ Contains(in, Separator) THEN <<>>
                          ELSE InOrder(matches, {p \in matches \X matches : MatchLess(p[1], p[2])})
    BY DEF LookupMixed, OrderedBy
  <2> HIDE DEF M, matches
  <2> QED BY <1>2, <2>1
<1>4. SUFFICES ASSUME Len(in) >= 2 PROVE InOrder(M, before) \in Seq(Matches(in))
  <2>1. Len(in) \in Nat
    BY LenProperties
  <2> HIDE DEF M, before
  <2> QED BY <1>3, <2>1, EmptySeq
<1>5. Some \in SUBSET Lexicon
  <2>1. \A key \in DOMAIN buckets : buckets[key] \subseteq Lexicon
    BY DEF MixedBuckets
  <2> HIDE DEF buckets
  <2> QED BY <2>1
<1>6. IsFiniteSet(Some)
  <2> HIDE DEF Some
  <2> QED BY <1>5, FS_Subset, LexiconConstants
<1> HIDE DEF Some
<1>7. \A e \in Some : f[e] \in Matches(in)
  <2> SUFFICES ASSUME NEW e \in Some PROVE f[e] \in Matches(in)
    OBVIOUS
  <2> DEFINE x == MatchesOf(e, in)[1]
  <2>1. e \in Lexicon /\ MatchesOf(e, in) # <<>>
    BY <1>5 DEF Some
  <2>2. x \in Splittings(in)
    BY <1>4, <2>1, MatchesOfAre
  <2>3. f[e] = [entry |-> e, segs |-> x]
    OBVIOUS
  <2> HIDE DEF x, f
  <2> QED BY <2>1, <2>2, <2>3 DEF Matches
<1> HIDE DEF f
<1>8. IsFiniteSet(M) /\ M \subseteq Matches(in)
  BY <1>6, <1>7, ImageFinite
<1> DEFINE q == InOrder(M, before)
<1>9. q \in Seq(M)
  <2> HIDE DEF M, before
  <2> QED BY <1>8, InOrderIs
<1> HIDE DEF q, M
<1>10. q \in Seq(Matches(in))
  BY <1>8, <1>9, SeqMonotonic
<1> QED BY <1>10 DEF q

---------------------------------------------------------------------------
(* Rows of initials and of abbreviated words *)

\* Without apostrophes segments use as many letters as they have.
LEMMA FlattenedReach ==
  ASSUME NEW in \in Seq(Chars), ~ Contains(in, Separator), NEW segs \in Seq(Text), Len(segs) >= 1
  PROVE  Uses(in, segs, Len(FlattenSeq(segs))) /\ Len(FlattenSeq(segs)) \in Nat
<1> DEFINE n == Len(segs)
           used == Len(FlattenSeq(segs))
<1>1. n \in Nat /\ n \in DOMAIN segs /\ n \in Int /\ n >= 0
  BY LenProperties
<1>2. used \in Nat
  <2> DEFINE f == FlattenSeq(segs)
  <2>1. f \in Seq(Nat)
    BY FlattenIs DEF Text
  <2> HIDE DEF f
  <2> QED BY <2>1, LenProperties DEF f
<1>3. Take(segs, n) = segs
  <2> DEFINE t == Take(segs, n)
  <2>1. Lesser(n, n) = n
    BY <1>1 DEF Lesser
  <2>2. t \in Seq(Text) /\ Len(t) = Lesser(n, Len(segs)) /\ \A i \in 1..Len(t) : t[i] = segs[i]
    BY <1>1, TakeIs
  <2> HIDE DEF t
  <2>3. t = segs
    BY <2>1, <2>2, SeqEqual
  <2> QED BY <2>3 DEF t
<1>4. Marks(in) = {}
  <2> SUFFICES ASSUME NEW k \in DOMAIN in, in[k] = Separator PROVE FALSE
    BY DEF Marks
  <2>1. k \in 1..Len(in)
    BY LenProperties
  <2>2. Plain(in, 0, Len(in))
    BY PlainInput
  <2> QED BY <2>1, <2>2 DEF Plain
<1>5. Cardinality({k \in Marks(in) : k < used}) = 0
  <2>1. {k \in Marks(in) : k < used} = {}
    BY <1>4
  <2> QED BY <2>1, FS_EmptySet
<1> HIDE DEF n
<1>6. used = Len(FlattenSeq(Take(segs, n))) + Cardinality({k \in Marks(in) : k < used})
  BY <1>2, <1>3, <1>5
<1> HIDE DEF used
<1>7. Uses(in, segs, used)
  BY <1>1, <1>6 DEF Uses
<1> QED BY <1>2, <1>7 DEF used

\* Consonants are no apostrophes.
LEMMA ConsonantsOnly ==
  ASSUME NEW in \in Seq(Chars), ToSet(in) \cap (Vowels \cup {Separator}) = {}
  PROVE  ~ Contains(in, Separator)
<1> SUFFICES ASSUME Contains(in, Separator) PROVE FALSE
  OBVIOUS
<1>1. PICK i \in DOMAIN in : in[i] = Separator
  BY LenProperties DEF Contains
<1>2. in[i] \in ToSet(in)
  BY DEF ToSet
<1>3. Separator \in ToSet(in) \cap (Vowels \cup {Separator})
  BY <1>1, <1>2
<1> QED BY <1>3

\* The best row of each text, in order, and the first of them.
LEMMA RankedIs ==
  ASSUME NEW S, NEW q \in Seq(S)
  PROVE  Ranked(q) \in Seq(S) /\ Named(Ranked(q), TextsOf(q))
<1> DEFINE t == BestPerText(q)
           less == {p \in (DOMAIN t) \X (DOMAIN t) : ScoreLess(t[p[1]], t[p[2]])}
<1>1. Ranked(q) = SortedBy(t, less)
  BY DEF Ranked, Sorted
<1>2. t \in Seq(S) /\ Named(t, TextsOf(q))
  BY BestPerTextIs
<1> HIDE DEF t, less
<1> QED BY <1>1, <1>2, SortedIs, NamedSorted

\* Two sequences in turns.
LEMMA InTurnsIs ==
  ASSUME NEW S, NEW s \in Seq(S), NEW t \in Seq(S), NEW A, NEW B, Named(s, A), Named(t, B), A \cap B = {}
  PROVE  InTurns(s, t) \in Seq(S) /\ Named(InTurns(s, t), A \cup B)
<1> DEFINE both == Lesser(Len(s), Len(t))
           v(k) == IF k % 2 = 1 THEN s[(k + 1) \div 2] ELSE t[k \div 2]
           pairs == [k \in 1..2 * both |-> v(k)]
           m == both + 1
           a == SubSeq(s, m, Len(s))
           b == SubSeq(t, m, Len(t))
<1>1. InTurns(s, t) = pairs \o a \o b
  BY DEF InTurns
<1>2. Len(s) \in Nat /\ Len(t) \in Nat
  BY LenProperties
<1>3. both \in Nat /\ both <= Len(s) /\ both <= Len(t) /\ m \in Nat /\ m >= 1
  BY <1>2, LesserIs
<1> HIDE DEF both
<1>4. \A k \in 1..2 * both : v(k) \in S
  <2> SUFFICES ASSUME NEW k \in 1..2 * both PROVE v(k) \in S
    OBVIOUS
  <2>1. CASE k % 2 = 1
    <3>1. (k + 1) \div 2 \in 1..Len(s)
      BY <1>2, <1>3
    <3>2. s[(k + 1) \div 2] \in S
      BY <3>1, ElementOfSeq
    <3> QED BY <2>1, <3>2
  <2>2. CASE k % 2 # 1
    <3>1. k \div 2 \in 1..Len(t)
      BY <1>2, <1>3, <2>2
    <3>2. t[k \div 2] \in S
      BY <3>1, ElementOfSeq
    <3> QED BY <2>2, <3>2
  <2> QED BY <2>1, <2>2
<1>5. pairs \in Seq(S)
  <2> HIDE DEF v
  <2> DEFINE l == 2 * both
  <2>1. l \in Nat /\ \A k \in 1..l : v(k) \in S
    BY <1>3, <1>4
  <2> HIDE DEF l
  <2>2. [k \in 1..l |-> v(k)] \in Seq(S)
    BY <2>1, IsASeq
  <2> QED BY <2>2 DEF l
<1>6. a \in Seq(S) /\ b \in Seq(S)
  <2> HIDE DEF m
  <2> QED BY <1>2, <1>3, PartIs
<1> DEFINE I == 1..both
           J == m..Len(s)
           K == m..Len(t)
           A1 == NamesAt(s, I)
           A2 == NamesAt(s, J)
           B1 == NamesAt(t, I)
           B2 == NamesAt(t, K)
<1>7. I \subseteq DOMAIN s /\ I \subseteq DOMAIN t /\ J \subseteq DOMAIN s /\ K \subseteq DOMAIN t
      /\ I \cap J = {} /\ I \cap K = {} /\ Apart(s) /\ Apart(t)
  BY <1>2, <1>3, LenProperties DEF Named
<1>8. A1 \cap A2 = {} /\ B1 \cap B2 = {} /\ A1 \cup A2 \subseteq A /\ B1 \cup B2 \subseteq B
  <2> HIDE DEF I, J, K
  <2>1. A1 \cap A2 = {} /\ B1 \cap B2 = {}
    BY <1>7, NamesApart
  <2>2. A1 \subseteq TextsOf(s) /\ A2 \subseteq TextsOf(s) /\ B1 \subseteq TextsOf(t) /\ B2 \subseteq TextsOf(t)
    BY <1>7, NamesAmong
  <2> HIDE DEF A1, A2, B1, B2
  <2> QED BY <2>1, <2>2 DEF Named
<1>9. Named(a, A2) /\ Named(b, B2)
  <2> HIDE DEF m
  <2> QED BY <1>2, <1>3, <1>7, NamedPart
<1>10. Named(pairs, A1 \cup B1)
  <2> DEFINE odd == {k \in DOMAIN pairs : k % 2 = 1}
             p(k) == (k + 1) \div 2
             q(k) == k \div 2
  <2>1. \A k \in odd : p(k) \in I /\ pairs[k] = s[p(k)]
    BY <1>3
  <2>2. \A k \in DOMAIN pairs : k \notin odd => q(k) \in I /\ pairs[k] = t[q(k)]
    BY <1>3
  <2>3. \A j, k \in odd : p(j) = p(k) => j = k
    BY <1>3
  <2>4. \A j, k \in DOMAIN pairs : j \notin odd /\ k \notin odd /\ q(j) = q(k) => j = k
    BY <1>3
  <2>5. odd \subseteq DOMAIN pairs
    OBVIOUS
  <2> HIDE DEF p, q, odd, pairs
  <2>6. \A k \in odd : pairs[k].text \in A1
    BY <2>1 DEF NamesAt
  <2>7. \A k \in DOMAIN pairs : k \notin odd => pairs[k].text \in B1
    BY <2>2 DEF NamesAt
  <2>8. A1 \cap B1 = {}
    BY <1>8
  <2> HIDE DEF A1, B1, I
  <2>9. Apart(pairs)
    <3> SUFFICES ASSUME NEW j \in DOMAIN pairs, NEW k \in DOMAIN pairs, pairs[j].text = pairs[k].text PROVE j = k
      BY DEF Apart
    <3>1. CASE j \in odd /\ k \in odd
      <4>1. p(j) \in DOMAIN s /\ p(k) \in DOMAIN s /\ s[p(j)].text = s[p(k)].text
        BY <1>7, <2>1, <3>1
      <4>2. p(j) = p(k)
        BY <1>7, <4>1 DEF Apart
      <4> QED BY <2>3, <3>1, <4>2
    <3>2. CASE j \notin odd /\ k \notin odd
      <4>1. q(j) \in DOMAIN t /\ q(k) \in DOMAIN t /\ t[q(j)].text = t[q(k)].text
        BY <1>7, <2>2, <3>2
      <4>2. q(j) = q(k)
        BY <1>7, <4>1 DEF Apart
      <4> QED BY <2>4, <3>2, <4>2
    <3>3. CASE (j \in odd) # (k \in odd)
      BY <2>6, <2>7, <2>8, <3>3
    <3> QED BY <3>1, <3>2, <3>3
  <2>10. TextsOf(pairs) \subseteq A1 \cup B1
    BY <2>6, <2>7 DEF TextsOf
  <2> QED BY <2>9, <2>10 DEF Named
<1> HIDE DEF pairs, a, b, A1, A2, B1, B2
<1> DEFINE c == pairs \o a
           C == A1 \cup B1
           D == C \cup A2
<1>11. C \cap A2 = {} /\ D \cap B2 = {} /\ D \cup B2 \subseteq A \cup B
  BY <1>8
<1> HIDE DEF C
<1>12. c \in Seq(S) /\ Named(c, D)
  BY <1>5, <1>6, <1>9, <1>10, <1>11, NamedJoined DEF C
<1> HIDE DEF c, D
<1>13. c \o b \in Seq(S) /\ Named(c \o b, D \cup B2)
  BY <1>6, <1>9, <1>11, <1>12, NamedJoined
<1> QED BY <1>1, <1>11, <1>13 DEF c, Named

\* The rows of one consonant.
LEMMA SingleInitialIs ==
  ASSUME NEW in \in Seq(Chars), Len(in) = 1, in[1] # Separator, NEW limit \in Int
  PROVE  SingleInitial(in, limit) \in Seq(RowSet(in)) /\ Apart(SingleInitial(in, limit))
<1> DEFINE R == RowSet(in)
           found == LookupInitial(in[1])
           places == {i \in DOMAIN found : Len(found[i].text) = 1}
           entries == Those(found, places)
           Bonus(text) == IF text \in DOMAIN Seeds THEN Seeds[text] ELSE 0
           one == 1
           none == <<>>
           segs == <<in>>
           Of(e) == Row(e.text, e.syl, e.weight + Bonus(e.text), Completion, segs, one, one, none)
           rows == [i \in DOMAIN entries |-> Of(entries[i])]
<1>1. SingleInitial(in, limit) = Take(Ranked(rows), limit)
  BY DEF SingleInitial, Selected, MapSeq
<1>2. Fits(in, segs, one) /\ segs \in Seq(Text)
  <2>1. ~ Contains(in, Separator)
    <3> SUFFICES ASSUME NEW i \in 1..Len(in), in[i] = Separator PROVE FALSE
      BY LenProperties DEF Contains
    <3>1. i = 1
      OBVIOUS
    <3> QED BY <3>1
  <2>2. segs \in Seq(Text) /\ Len(segs) = 1
    <3>1. in \in Text
      BY CharsAre
    <3> QED BY <3>1, SingleIs
  <2>3. FlattenSeq(segs) = in
    BY FlattenOne
  <2> HIDE DEF segs
  <2>4. Uses(in, segs, Len(FlattenSeq(segs)))
    <3>1. Len(segs) >= 1
      BY <2>2
    <3> QED BY <2>1, <2>2, <3>1, FlattenedReach
  <2>5. Covers(in, segs)
    <3>1. Len(segs) >= 1
      BY <2>2
    <3> QED BY <2>2, <2>3, <3>1, SplitCovers
  <2> QED BY <2>2, <2>3, <2>4, <2>5 DEF Fits
<1>3. ASSUME NEW e \in Lexicon PROVE Of(e) \in R
  <2> DEFINE text == e.text
             syl == e.syl
             sc == e.weight + Bonus(e.text)
             kind == Completion
  <2>1. e.text \in Text /\ e.syl \in Seq(Text) /\ e.weight \in Int
    BY EntryIs
  <2>2. Bonus(e.text) \in Int
    BY LexiconConstants
  <2>3. sc \in Int /\ kind \in Exact..Abbreviated /\ one \in Nat /\ none \in Seq(Nat)
    BY <2>1, <2>2, EmptySeq DEF Exact, Abbreviated, Completion
  <2>4. text \in Text /\ syl \in Seq(Text)
    BY <2>1
  <2> HIDE DEF text, syl, sc, kind, one, none, segs
  <2>5. Row(text, syl, sc, kind, segs, one, one, none) \in RowSet(in)
    BY <1>2, <2>3, <2>4, RowIs
  <2> QED BY <2>5 DEF text, syl, sc, kind
<1> HIDE DEF Of, R
<1>4. entries \in Seq(Lexicon)
  <2>1. found \in Seq(Lexicon) /\ places \in SUBSET DOMAIN found
    BY LookupInitialIs
  <2> HIDE DEF found, places
  <2> QED BY <2>1, ThoseAre
<1> HIDE DEF entries
<1>5. rows \in Seq(R)
  <2>1. [i \in DOMAIN entries |-> Of(entries[i])] \in Seq(R)
    <3>1. \A i \in DOMAIN entries : entries[i] \in Lexicon
      BY <1>4, LenProperties
    <3>2. [i \in DOMAIN entries |-> Of(entries[i])] \in [DOMAIN entries -> R]
      BY <1>3, <3>1
    <3> QED BY <1>4, <3>2, MapsTo
  <2> QED BY <2>1
<1> HIDE DEF rows
<1> DEFINE ranked == Ranked(rows)
<1>6. ranked \in Seq(R) /\ Named(ranked, TextsOf(rows))
  BY <1>5, RankedIs
<1> HIDE DEF ranked
<1>7. Take(ranked, limit) \in Seq(R) /\ Apart(Take(ranked, limit))
  BY <1>6, TakeIs, NamedTake DEF Named
<1> QED BY <1>1, <1>7 DEF R, ranked

\* The rows of two consonants.
LEMMA DoubleInitialIs ==
  ASSUME NEW in \in Seq(Chars), Len(in) = 2, AllConsonants(in), NEW limit \in Int
  PROVE  DoubleInitial(in, limit) \in Seq(RowSet(in)) /\ Apart(DoubleInitial(in, limit))
<1> DEFINE R == RowSet(in)
           M == Matches(in)
           mixed == LookupMixed(in)
           pairs == {i \in DOMAIN mixed : Len(mixed[i].entry.syl) = 2 /\ Len(mixed[i].entry.text) = 2}
           matches == Those(mixed, pairs)
           two == 2
           one == 1
           none == <<>>
           segs == <<<<in[1]>>>>
           kind == Abbreviated
           WordScore(e) == e.weight + PhraseBonus - CharacterPenalty * (Len(FlattenSeq(e.syl)) - 2)
           Word(m) == Row(m.entry.text, m.entry.syl, WordScore(m.entry), kind, m.segs, two, one, none)
           found == LookupInitial(in[1])
           places == {i \in DOMAIN found : Len(found[i].text) = 1}
           entries == Those(found, places)
           Character(e) == Row(e.text, e.syl, e.weight, kind, segs, one, one, none)
           words == [i \in DOMAIN matches |-> Word(matches[i])]
           characters == [i \in DOMAIN entries |-> Character(entries[i])]
<1>1. DoubleInitial(in, limit) = Take(InTurns(Ranked(words), Ranked(characters)), limit)
  BY DEF DoubleInitial, Selected, MapSeq
<1>2. ~ Contains(in, Separator)
  BY ConsonantsOnly DEF AllConsonants
<1>3. two \in Nat /\ one \in Nat /\ none \in Seq(Nat) /\ kind \in Exact..Abbreviated
  BY EmptySeq DEF Exact, Abbreviated
<1>4. Fits(in, segs, one) /\ segs \in Seq(Text)
  <2> DEFINE c == in[1]
             t == <<c>>
  <2>1. c \in Nat
    <3>1. 1 \in 1..Len(in)
      OBVIOUS
    <3> QED BY <3>1, ElementOfSeq, CharsAre
  <2> HIDE DEF c
  <2>2. t \in Seq(Nat) /\ Len(t) = 1
    BY <2>1, SingleIs
  <2> HIDE DEF t
  <2>3. t \in Text
    BY <2>2 DEF Text
  <2> DEFINE u == <<t>>
  <2>4. u \in Seq(Text) /\ Len(u) = 1
    BY <2>3, SingleIs
  <2>5. FlattenSeq(u) = t
    BY <2>2, FlattenOne
  <2> HIDE DEF u
  <2>6. Uses(in, u, Len(FlattenSeq(u)))
    BY <1>2, <2>4, FlattenedReach
  <2>7. one # 2 /\ IsDoubleInitial(in)
    BY DEF IsDoubleInitial
  <2> QED BY <2>2, <2>4, <2>5, <2>6, <2>7 DEF u, t, c, Fits
<1>5. ASSUME NEW m \in M PROVE Word(m) \in R
  <2> DEFINE text == m.entry.text
             syl == m.entry.syl
             sc == WordScore(m.entry)
             cut == m.segs
             e == m.entry
  <2>1. m.entry \in Lexicon /\ cut \in Splittings(in)
    BY DEF Matches
  <2>2. cut \in Seq(Text) /\ Len(cut) >= 1 /\ FlattenSeq(cut) = in
    BY <2>1 DEF Splittings
  <2>3. Fits(in, cut, two)
    <3> HIDE DEF cut
    <3>1. Uses(in, cut, Len(FlattenSeq(cut))) /\ Covers(in, cut)
      BY <1>2, <2>2, FlattenedReach, SplitCovers
    <3> QED BY <2>2, <3>1 DEF Fits
  <2> HIDE DEF e
  <2>4. e \in Lexicon
    BY <2>1 DEF e
  <2>5. e.text \in Text /\ e.syl \in Seq(Text) /\ e.weight \in Int
    BY <2>4, EntryIs
  <2>6. WordScore(e) \in Int
    <3> DEFINE f == FlattenSeq(e.syl)
    <3>1. f \in Seq(Nat)
      BY <2>5, FlattenIs DEF Text
    <3> HIDE DEF f
    <3>2. Len(f) \in Nat
      BY <3>1, LenProperties
    <3> DEFINE l == Len(f)
    <3> HIDE DEF l
    <3>3. e.weight + PhraseBonus - CharacterPenalty * (l - 2) \in Int
      BY <2>5, <3>2 DEF PhraseBonus, CharacterPenalty, l
    <3> QED BY <3>3 DEF l, f
  <2>7. text \in Text /\ syl \in Seq(Text) /\ sc \in Int /\ cut \in Seq(Text)
    BY <2>2, <2>5, <2>6 DEF e
  <2> HIDE DEF text, syl, sc, kind, cut, one, two, none
  <2>8. Row(text, syl, sc, kind, cut, two, one, none) \in RowSet(in)
    BY <1>3, <2>3, <2>7, RowIs
  <2> QED BY <2>8 DEF text, syl, sc, cut
<1>6. ASSUME NEW e \in Lexicon PROVE Character(e) \in R
  <2> DEFINE text == e.text
             syl == e.syl
             sc == e.weight
  <2>1. text \in Text /\ syl \in Seq(Text) /\ sc \in Int
    BY EntryIs
  <2> HIDE DEF text, syl, sc, kind, one, none, segs
  <2>2. Row(text, syl, sc, kind, segs, one, one, none) \in RowSet(in)
    BY <1>3, <1>4, <2>1, RowIs
  <2> QED BY <2>2 DEF text, syl, sc
<1> HIDE DEF Word, Character, R
<1>7. matches \in Seq(M)
  <2>1. mixed \in Seq(M) /\ pairs \in SUBSET DOMAIN mixed
    BY LookupMixedIs
  <2> HIDE DEF mixed, pairs, M
  <2> QED BY <2>1, ThoseAre
<1>8. entries \in Seq(Lexicon)
  <2>1. found \in Seq(Lexicon) /\ places \in SUBSET DOMAIN found
    BY LookupInitialIs
  <2> HIDE DEF found, places
  <2> QED BY <2>1, ThoseAre
<1>9. \A i \in DOMAIN matches : matches[i].entry.text \in Seq(Nat) /\ Len(matches[i].entry.text) = 2
  <2> SUFFICES ASSUME NEW i \in DOMAIN matches PROVE matches[i].entry.text \in Seq(Nat) /\ Len(matches[i].entry.text) = 2
    OBVIOUS
  <2>1. mixed \in Seq(M) /\ pairs \in SUBSET DOMAIN mixed
    BY LookupMixedIs
  <2>2. \A j \in pairs : Len(mixed[j].entry.text) = 2
    OBVIOUS
  <2>3. \A m \in M : m.entry.text \in Seq(Nat)
    BY EntryIs DEF Matches, Text
  <2> HIDE DEF mixed, pairs, M
  <2>4. PICK j \in pairs : matches[i] = mixed[j]
    BY <2>1, ThoseAre
  <2>5. mixed[j] \in M
    BY <2>1, ElementOfSeq, LenProperties
  <2> QED BY <2>2, <2>3, <2>4, <2>5
<1>10. \A i \in DOMAIN entries : entries[i].text \in Seq(Nat) /\ Len(entries[i].text) = 1
  <2> SUFFICES ASSUME NEW i \in DOMAIN entries PROVE entries[i].text \in Seq(Nat) /\ Len(entries[i].text) = 1
    OBVIOUS
  <2>1. found \in Seq(Lexicon) /\ places \in SUBSET DOMAIN found
    BY LookupInitialIs
  <2>2. \A j \in places : Len(found[j].text) = 1
    OBVIOUS
  <2> HIDE DEF found, places
  <2>3. PICK j \in places : entries[i] = found[j]
    BY <2>1, ThoseAre
  <2>4. found[j] \in Lexicon
    BY <2>1, ElementOfSeq, LenProperties
  <2> QED BY <2>2, <2>3, <2>4, EntryIs DEF Text
<1> HIDE DEF entries, matches, M
<1>11. words \in Seq(R)
  <2>1. [i \in DOMAIN matches |-> Word(matches[i])] \in Seq(R)
    <3>1. \A i \in DOMAIN matches : matches[i] \in M
      BY <1>7, LenProperties
    <3>2. [i \in DOMAIN matches |-> Word(matches[i])] \in [DOMAIN matches -> R]
      BY <1>5, <3>1
    <3> QED BY <1>7, <3>2, MapsTo
  <2> QED BY <2>1
<1>12. characters \in Seq(R)
  <2>1. [i \in DOMAIN entries |-> Character(entries[i])] \in Seq(R)
    <3>1. \A i \in DOMAIN entries : entries[i] \in Lexicon
      BY <1>8, LenProperties
    <3>2. [i \in DOMAIN entries |-> Character(entries[i])] \in [DOMAIN entries -> R]
      BY <1>6, <3>1
    <3> QED BY <1>8, <3>2, MapsTo
  <2> QED BY <2>1
<1> DEFINE N1 == {x \in Seq(Nat) : Len(x) = 1}
           N2 == {x \in Seq(Nat) : Len(x) = 2}
<1>13. TextsOf(words) \subseteq N2 /\ TextsOf(characters) \subseteq N1
  <2>1. \A i \in DOMAIN matches : words[i].text = matches[i].entry.text
    BY DEF Word, Row
  <2>2. \A i \in DOMAIN entries : characters[i].text = entries[i].text
    BY DEF Character, Row
  <2>3. \A i \in DOMAIN matches : matches[i].entry.text \in N2
    BY <1>9
  <2>4. \A i \in DOMAIN entries : entries[i].text \in N1
    BY <1>10
  <2> HIDE DEF N1, N2
  <2> QED BY <2>1, <2>2, <2>3, <2>4 DEF TextsOf
<1>14. N2 \cap N1 = {}
  <2>1. \A x \in N2 : x \notin N1
    OBVIOUS
  <2> HIDE DEF N1, N2
  <2> QED BY <2>1
<1> HIDE DEF words, characters, N1, N2
<1> DEFINE a == Ranked(words)
           b == Ranked(characters)
           turns == InTurns(a, b)
<1>15. a \in Seq(R) /\ b \in Seq(R) /\ Named(a, N2) /\ Named(b, N1)
  BY <1>11, <1>12, <1>13, RankedIs DEF Named
<1> HIDE DEF a, b
<1>16. turns \in Seq(R) /\ Named(turns, N2 \cup N1)
  BY <1>15, <1>14, InTurnsIs
<1> HIDE DEF turns
<1>17. Take(turns, limit) \in Seq(R) /\ Apart(Take(turns, limit))
  BY <1>16, TakeIs, NamedTake DEF Named
<1> QED BY <1>1, <1>17 DEF R, turns, a, b

\* The rows of abbreviated words.
LEMMA MixedRowsAre ==
  ASSUME NEW in \in Seq(Chars), NEW parsed, parsed.in = in, NEW exact
  PROVE  MixedRows(parsed, exact) \in Seq(RowSet(in))
<1> DEFINE R == RowSet(in)
           M == Matches(in)
           mixed == LookupMixed(in)
           places == {i \in DOMAIN mixed : Shortened(mixed[i].segs, mixed[i].entry.syl) >= 2}
           matches == Those(mixed, places)
           one == 1
           none == <<>>
           kind == Abbreviated
           used == Len(in)
           Score(m) == m.entry.weight + PhraseBonus - CharacterPenalty * Shortened(m.segs, m.entry.syl)
           Of(m) == Row(m.entry.text, m.entry.syl, Score(m), kind, m.segs, used, one, none)
           rows == [i \in DOMAIN matches |-> Of(matches[i])]
<1>1. MixedRows(parsed, exact) = IF exact \/ StableStrictPrefix(parsed) THEN <<>> ELSE rows
  BY DEF MixedRows, Selected, MapSeq
<1>2. one \in Nat /\ none \in Seq(Nat) /\ kind \in Exact..Abbreviated /\ used \in Nat
  BY EmptySeq, LenProperties DEF Exact, Abbreviated
<1>3. CASE Contains(in, Separator)
  <2>1. mixed = <<>>
    BY <1>3 DEF LookupMixed
  <2>2. rows = <<>>
    <3>1. places = {}
      BY <2>1
    <3>2. matches = <<>>
      <4>1. Cardinality(places) = 0
        BY <3>1, FS_EmptySet
      <4>2. \A c : c = 0 => [k \in 1..c |-> mixed[Place(places, k)]] = <<>>
        OBVIOUS
      <4> HIDE DEF places, mixed
      <4> QED BY <4>1, <4>2 DEF Those
    <3> HIDE DEF matches
    <3> QED BY <3>2
  <2> HIDE DEF rows
  <2> QED BY <1>1, <2>2, EmptySeq
<1>4. CASE ~ Contains(in, Separator)
  <2>1. ASSUME NEW m \in M PROVE Of(m) \in R
    <3> DEFINE text == m.entry.text
               syl == m.entry.syl
               sc == Score(m)
               cut == m.segs
               e == m.entry
    <3>1. e \in Lexicon /\ cut \in Splittings(in)
      BY DEF Matches
    <3>2. cut \in Seq(Text) /\ Len(cut) >= 1 /\ FlattenSeq(cut) = in
      BY <3>1 DEF Splittings
    <3> HIDE DEF cut, e
    <3>3. Fits(in, cut, used)
      <4>1. Uses(in, cut, Len(FlattenSeq(cut))) /\ Covers(in, cut)
        BY <1>4, <3>2, FlattenedReach, SplitCovers
      <4> QED BY <3>2, <4>1 DEF Fits
    <3>4. e.text \in Text /\ e.syl \in Seq(Text) /\ e.weight \in Int
      BY <3>1, EntryIs
    <3>5. sc \in Int
      <4> DEFINE short == Shortened(cut, e.syl)
                 less == {k \in DOMAIN cut \cap DOMAIN e.syl : Len(cut[k]) < Len(e.syl[k])}
      <4>1. less \in SUBSET DOMAIN cut
        OBVIOUS
      <4>2. short = Cardinality(less)
        BY DEF Shortened
      <4> HIDE DEF less
      <4>3. Cardinality(less) \in Nat
        BY <3>2, <4>1, SomePlaces
      <4> HIDE DEF short
      <4>4. e.weight + PhraseBonus - CharacterPenalty * short \in Int
        BY <3>4, <4>2, <4>3 DEF PhraseBonus, CharacterPenalty
      <4> QED BY <4>4 DEF short, e, cut
    <3>6. text \in Text /\ syl \in Seq(Text)
      BY <3>4 DEF e
    <3> HIDE DEF text, syl, sc, kind, one, none, used
    <3>7. Row(text, syl, sc, kind, cut, used, one, none) \in RowSet(in)
      BY <1>2, <3>2, <3>3, <3>5, <3>6, RowIs
    <3> QED BY <3>7 DEF text, syl, sc, cut
  <2> HIDE DEF Of, R
  <2>2. matches \in Seq(M)
    <3>1. mixed \in Seq(M) /\ places \in SUBSET DOMAIN mixed
      BY LookupMixedIs
    <3> HIDE DEF mixed, places, M
    <3> QED BY <3>1, ThoseAre
  <2> HIDE DEF matches, M
  <2>3. [i \in DOMAIN matches |-> Of(matches[i])] \in Seq(R)
    <3>1. \A i \in DOMAIN matches : matches[i] \in M
      BY <2>2, LenProperties
    <3>2. [i \in DOMAIN matches |-> Of(matches[i])] \in [DOMAIN matches -> R]
      BY <2>1, <3>1
    <3> QED BY <2>2, <3>2, MapsTo
  <2> HIDE DEF rows
  <2>4. rows \in Seq(R)
    BY <2>3 DEF rows
  <2> QED BY <1>1, <2>4, EmptySeq DEF R
<1> QED BY <1>3, <1>4

---------------------------------------------------------------------------
(* The order of rows *)

\* A place of a sequence, or none.
FirstIn(at) == IF at = {} THEN 0 ELSE Min(at)
\* The first of some places of a sequence is one of its places, or 0.
LEMMA FirstInIs ==
  ASSUME NEW S, NEW q \in Seq(S), NEW at \in SUBSET DOMAIN q
  PROVE  FirstIn(at) \in 0..Len(q)
<1>1. at \subseteq 1..Len(q) /\ Len(q) \in Nat
  BY LenProperties
<1>2. CASE at = {}
  BY <1>1, <1>2 DEF FirstIn
<1>3. CASE at # {}
  <2>1. at \subseteq Nat
    BY <1>1
  <2>2. Min(at) \in at
    BY <1>3, <2>1, LeastOf
  <2> QED BY <1>1, <1>3, <2>2 DEF FirstIn
<1> QED BY <1>2, <1>3

\* One row to the front.
LEMMA MovedFirstIs ==
  ASSUME NEW S, NEW q \in Seq(S), NEW names, Named(q, names), NEW i \in 0..Len(q)
  PROVE  MovedFirst(q, i) \in Seq(S) /\ Named(MovedFirst(q, i), names)
<1>1. CASE i = 0
  BY <1>1 DEF MovedFirst
<1>2. CASE i # 0
  <2> DEFINE n == Len(q)
             x == q[i]
             s == <<x>>
             t == RemoveAt(q, i)
             w == s \o t
             I == DOMAIN q
             f == [k \in I |-> IF k = 1 THEN i ELSE IF k - 1 < i THEN k - 1 ELSE k]
  <2>1. i \in 1..n /\ n \in Nat /\ I = 1..n /\ i \in Int
    BY <1>2, LenProperties
  <2>2. /\ x \in S /\ t \in Seq(S) /\ Len(t) = n - 1
        /\ \A k \in 1..n - 1 : t[k] = IF k < i THEN q[k] ELSE q[k + 1]
    BY <2>1, ElementOfSeq, RemovedIs
  <2> HIDE DEF x, t
  <2>3. s \in Seq(S) /\ Len(s) = 1 /\ s[1] = x
    BY <2>2, SingleIs
  <2> HIDE DEF s
  <2>4. w \in Seq(S) /\ Len(w) = 1 + Len(t) /\ w[1] = x /\ \A k \in 1..Len(t) : w[1 + k] = t[k]
    <3>1. /\ w \in Seq(S) /\ Len(w) = Len(s) + Len(t) /\ (\A k \in 1..Len(s) : w[k] = s[k])
          /\ \A k \in 1..Len(t) : w[Len(s) + k] = t[k]
      <4> HIDE DEF w
      <4>1. s \in Seq(S) /\ t \in Seq(S)
        BY <2>2, <2>3
      <4> QED BY <4>1, JoinedAt DEF w
    <3> HIDE DEF w
    <3> QED BY <2>3, <3>1
  <2>5. MovedFirst(q, i) = w
    BY <1>2 DEF MovedFirst, s, x, t
  <2> HIDE DEF w, n
  <2>6. DOMAIN w = I
    BY <2>1, <2>2, <2>4, LenProperties
  <2>7. \A k \in 1..n : k # 1 => k - 1 \in 1..n - 1
    BY <2>1
  <2>8. f \in [DOMAIN w -> I] /\ \A j, k \in DOMAIN w : f[j] = f[k] => j = k
    BY <2>1, <2>6
  <2>9. \A k \in DOMAIN w : w[k] = q[f[k]]
    <3> SUFFICES ASSUME NEW k \in 1..n PROVE w[k] = q[IF k = 1 THEN i ELSE IF k - 1 < i THEN k - 1 ELSE k]
      BY <2>1, <2>6
    <3>1. CASE k = 1
      BY <2>4, <3>1 DEF x
    <3>2. CASE k # 1
      <4> DEFINE j == k - 1
      <4>1. j \in 1..n - 1 /\ 1 + j = k /\ j + 1 = k
        BY <2>1, <3>2
      <4> HIDE DEF j
      <4>2. w[k] = IF j < i THEN q[j] ELSE q[k]
        BY <2>2, <2>4, <4>1
      <4> QED BY <3>2, <4>2 DEF j
    <3> QED BY <3>1, <3>2
  <2>10. \A j, k \in I : q[j].text = q[k].text => j = k
    BY DEF Named, Apart
  <2>11. NamesAt(q, I) \subseteq TextsOf(q)
    BY NamesAmong
  <2> HIDE DEF f, I
  <2>12. Named(w, NamesAt(q, I))
    BY <2>8, <2>9, <2>10, NamedDrawn
  <2> QED BY <2>4, <2>5, <2>11, <2>12 DEF Named
<1> QED BY <1>1, <1>2

\* At most two words, or one composed sentence.
LEMMA TwoSyllablesLimitedIs ==
  ASSUME NEW S, NEW q \in Seq(S), NEW names, Named(q, names)
  PROVE  TwoSyllablesLimited(q) \in Seq(S) /\ Named(TwoSyllablesLimited(q), names)
<1> DEFINE IsWord(r) == Len(r.syl) = 2 /\ r.count = 1
           IsComposed(r) == Len(r.syl) = 2 /\ r.count > 1
           first == {i \in DOMAIN q : IsWord(q[i])}
           words == FirstIn(first) # 0
           WordsBefore(i) == Cardinality({j \in 1..i - 1 : IsWord(q[j])})
           ComposedBefore(i) == Cardinality({j \in 1..i - 1 : IsComposed(q[j])})
           Stays(i) == CASE IsWord(q[i]) -> WordsBefore(i) < 2
                        [] IsComposed(q[i]) -> ~words /\ ComposedBefore(i) = 0
                        [] OTHER -> TRUE
           places == {i \in DOMAIN q : Stays(i)}
<1>1. TwoSyllablesLimited(q) = Those(q, places)
  BY DEF TwoSyllablesLimited, FirstAt, FirstIn
<1>2. places \in SUBSET DOMAIN q
  OBVIOUS
<1> HIDE DEF places
<1>3. Named(Those(q, places), names)
  BY <1>2, NamedThose DEF Named
<1> QED BY <1>1, <1>2, <1>3, ThoseAre

\* A row after a change that leaves its segments.
Rescored(r, coherence, score) == [r EXCEPT !.coherence = coherence, !.score = score]
Hid(r) == [r EXCEPT !.hidden = TRUE]
\* A row with another coherence and score has the same text and segments.
LEMMA RescoredRow ==
  ASSUME NEW in, NEW r \in RowSet(in), NEW coherence \in Int, NEW score \in Int
  PROVE  Rescored(r, coherence, score) \in RowSet(in) /\ Rescored(r, coherence, score).text = r.text
<1> DEFINE K == Exact..Abbreviated
           A1 == Seq(Text)
           A2 == Seq(Nat)
           B == BOOLEAN
           All == [text : Text, syl : A1, score : Int, kind : K, segs : A1, used : Nat, count : Nat,
                   lengths : A2, coherence : Int, hidden : B]
           x == [r EXCEPT !.coherence = coherence, !.score = score]
<1>1. r \in All /\ Fits(in, r.segs, r.used)
  BY DEF RowSet
<1> HIDE DEF K, A1, A2, B
<1>2. x \in All
  BY <1>1
<1>3. x.segs = r.segs /\ x.used = r.used /\ x.text = r.text
  BY <1>1
<1> HIDE DEF x, All
<1>4. Fits(in, x.segs, x.used)
  BY <1>1, <1>3
<1>5. x \in RowSet(in)
  BY <1>2, <1>4 DEF RowSet, All, K, A1, A2, B
<1> QED BY <1>3, <1>5 DEF x, Rescored

\* A row with another text has the same segments.
LEMMA RetitledRow ==
  ASSUME NEW in, NEW r \in RowSet(in), NEW text \in Text
  PROVE  [r EXCEPT !.text = text] \in RowSet(in)
<1> DEFINE K == Exact..Abbreviated
           A1 == Seq(Text)
           A2 == Seq(Nat)
           B == BOOLEAN
           All == [text : Text, syl : A1, score : Int, kind : K, segs : A1, used : Nat, count : Nat,
                   lengths : A2, coherence : Int, hidden : B]
           x == [r EXCEPT !.text = text]
<1>1. r \in All /\ Fits(in, r.segs, r.used)
  BY DEF RowSet
<1> HIDE DEF K, A1, A2, B
<1>2. x \in All
  BY <1>1
<1>3. x.segs = r.segs /\ x.used = r.used
  BY <1>1
<1> HIDE DEF x, All
<1>4. Fits(in, x.segs, x.used)
  BY <1>1, <1>3
<1>5. x \in RowSet(in)
  BY <1>2, <1>4 DEF RowSet, All, K, A1, A2, B
<1> QED BY <1>3, <1>5 DEF x

\* So has a hidden one, and the same text.
LEMMA HiddenRow ==
  ASSUME NEW in, NEW r \in RowSet(in)
  PROVE  Hid(r) \in RowSet(in) /\ Hid(r).text = r.text
<1> DEFINE K == Exact..Abbreviated
           A1 == Seq(Text)
           A2 == Seq(Nat)
           B == BOOLEAN
           All == [text : Text, syl : A1, score : Int, kind : K, segs : A1, used : Nat, count : Nat,
                   lengths : A2, coherence : Int, hidden : B]
           yes == TRUE
           x == [r EXCEPT !.hidden = yes]
<1>1. r \in All /\ Fits(in, r.segs, r.used)
  BY DEF RowSet
<1>2. yes \in B
  OBVIOUS
<1> HIDE DEF K, A1, A2, B, yes
<1>3. x \in All
  BY <1>1, <1>2
<1>4. x.segs = r.segs /\ x.used = r.used /\ x.text = r.text
  BY <1>1
<1> HIDE DEF x, All
<1>5. Fits(in, x.segs, x.used)
  BY <1>1, <1>4
<1>6. x \in RowSet(in)
  BY <1>3, <1>5 DEF RowSet, All, K, A1, A2, B
<1> QED BY <1>4, <1>6 DEF x, Hid, yes

\* What a row has of its input and of its text.
LEMMA RowHas ==
  ASSUME NEW in, NEW r \in RowSet(in)
  PROVE  /\ r.text \in Text /\ r.syl \in Seq(Text) /\ r.score \in Int /\ r.segs \in Seq(Text) /\ r.used \in Nat
         /\ r.lengths \in Seq(Nat) /\ r.coherence \in Int /\ Uses(in, r.segs, r.used)
         /\ Fits(in, r.segs, r.used)
<1> DEFINE K == Exact..Abbreviated
           A1 == Seq(Text)
           A2 == Seq(Nat)
           B == BOOLEAN
<1>1. r \in [text : Text, syl : A1, score : Int, kind : K, segs : A1, used : Nat, count : Nat,
             lengths : A2, coherence : Int, hidden : B] /\ Fits(in, r.segs, r.used)
  BY DEF RowSet
<1> HIDE DEF K, A1, A2, B
<1>2. r.text \in Text /\ r.syl \in A1 /\ r.score \in Int /\ r.segs \in A1 /\ r.used \in Nat /\ r.lengths \in A2 /\ r.coherence \in Int
  BY <1>1
<1>3. Uses(in, r.segs, r.used)
  BY <1>1 DEF Fits
<1> QED BY <1>1, <1>2, <1>3 DEF A1, A2

\* The score of a phrase.
LEMMA PhraseScoreIs ==
  ASSUME NEW reading, NEW text
  PROVE  PhraseScore(reading, text) \in Int
<1> DEFINE found == Lookup(reading)
           places == {i \in DOMAIN found : found[i].text = text}
           entries == Those(found, places)
<1>1. PhraseScore(reading, text) =
        IF entries = <<>> THEN 0 ELSE Greater(0, Lesser(12000, (entries[1].weight * 3) \div 2))
  BY DEF PhraseScore, Selected
<1>2. entries \in Seq(Lexicon)
  <2>1. found \in Seq(Lexicon) /\ places \in SUBSET DOMAIN found
    BY LookupIs
  <2> HIDE DEF found, places
  <2> QED BY <2>1, ThoseAre
<1> HIDE DEF entries
<1>3. SUFFICES ASSUME entries # <<>> PROVE Greater(0, Lesser(12000, (entries[1].weight * 3) \div 2)) \in Int
  BY <1>1
<1>4. 1 \in 1..Len(entries)
  <2>1. Len(entries) \in Nat /\ Len(entries) # 0
    BY <1>2, <1>3, LenProperties, EmptySeq
  <2> QED BY <2>1
<1>5. entries[1] \in Lexicon
  BY <1>2, <1>4, ElementOfSeq
<1> DEFINE w == entries[1].weight
<1>6. w \in Int
  BY <1>5, EntryIs
<1> HIDE DEF w
<1>7. Greater(0, Lesser(12000, (w * 3) \div 2)) \in Int
  BY <1>6 DEF Greater, Lesser
<1> QED BY <1>7 DEF w

\* The coherence of a row is a number.
LEMMA CoherentIs ==
  ASSUME NEW in, NEW row \in RowSet(in)
  PROVE  Coherent(row) \in RowSet(in) /\ Coherent(row).text = row.text
<1> DEFINE n == Len(row.syl)
           most == Lesser(4, LongestReading)
           Phrase(best, from, to) == best[from + 1] + PhraseScore(Slice(row.syl, from, to), Slice(row.text, from, to))
           Froms(to) == {from \in Greater(0, to - most)..to - 2 : from > 0 \/ to < n}
           Scores(best, to) == {best[to] - 12000} \cup {Phrase(best, from, to) : from \in Froms(to)}
           Body(best, to) == Append(best, Max(Scores(best, to)))
           W(k) == {c \in Seq(Int) : Len(c) = k + 1}
           d == <<0>>
           F == CHOOSE f : f = [k \in 0..n |-> IF k = 0 THEN d ELSE Body(f[k - 1], k)]
           gain == Greater(0, F[n][n + 1])
           sum == row.score + gain
<1>1. Coherent(row) = IF n < 3 \/ Len(row.text) # n THEN row ELSE Rescored(row, gain, sum)
  BY DEF Coherent, Rescored
<1>2. n \in Nat /\ row.score \in Int /\ row.text \in Text
  BY RowHas, LenProperties
<1>3. most \in Int
  BY LongestIs DEF Lesser
<1>4. ASSUME NEW k \in 1..n, NEW c \in W(k - 1) PROVE Body(c, k) \in W(k)
  <2> DEFINE low == Greater(0, k - most)
             high == k - 2
             I == Froms(k)
             f == [from \in I |-> Phrase(c, from, k)]
             P == {f[from] : from \in I}
             rest == c[k] - 12000
  <2>1. c \in Seq(Int) /\ Len(c) = k /\ k \in Nat
    BY <1>2
  <2>2. low \in Nat /\ high \in Int
    BY <1>2, <1>3, <2>1 DEF Greater
  <2>3. I \subseteq low..high
    OBVIOUS
  <2>4. IsFiniteSet(I)
    <3> HIDE DEF I, low, high
    <3>1. IsFiniteSet(low..high)
      <4>1. low \in Int
        BY <2>2
      <4> QED BY <2>2, <4>1, FS_Interval
    <3> QED BY <2>3, <3>1, FS_Subset
  <2>5. \A from \in I : f[from] \in Int
    <3> SUFFICES ASSUME NEW from \in I PROVE f[from] \in Int
      OBVIOUS
    <3>1. from \in Int /\ from >= 0 /\ from <= k - 2
      <4> HIDE DEF low, I
      <4> QED BY <2>1, <2>2, <2>3
    <3>2. from + 1 \in 1..k
      BY <2>1, <3>1
    <3>3. c[from + 1] \in Int
      BY <2>1, <3>2, ElementOfSeq
    <3>4. f[from] = c[from + 1] + PhraseScore(Slice(row.syl, from, k), Slice(row.text, from, k))
      OBVIOUS
    <3>5. PhraseScore(Slice(row.syl, from, k), Slice(row.text, from, k)) \in Int
      BY PhraseScoreIs
    <3> HIDE DEF f
    <3> QED BY <3>3, <3>4, <3>5
  <2>6. rest \in Int
    <3>1. k \in 1..Len(c)
      BY <2>1
    <3>2. c[k] \in Int
      BY <2>1, <3>1, ElementOfSeq
    <3> QED BY <3>2
  <2>7. Scores(c, k) = {rest} \cup P
    <3>1. P = {Phrase(c, from, k) : from \in I}
      <4> HIDE DEF I, Phrase
      <4> QED OBVIOUS
    <3> HIDE DEF P
    <3> QED BY <3>1
  <2> HIDE DEF I, f, rest
  <2>8. IsFiniteSet(P) /\ P \subseteq Int
    BY <2>4, <2>5, ImageFinite
  <2> HIDE DEF P
  <2> DEFINE D == {rest} \cup P
  <2>9. IsFiniteSet(D) /\ D \subseteq Int /\ D # {}
    <3>1. IsFiniteSet({rest})
      BY FS_Singleton
    <3>2. IsFiniteSet({rest} \cup P)
      BY <2>8, <3>1, FS_Union
    <3> QED BY <2>6, <2>8, <3>2
  <2> HIDE DEF D
  <2>10. Max(D) \in Int
    BY <2>9, LargestOf
  <2> DEFINE x == Max(D)
  <2> HIDE DEF x
  <2>11. Append(c, x) \in Seq(Int) /\ Len(Append(c, x)) = k + 1
    BY <2>1, <2>10, AppendProperties DEF x
  <2>12. Body(c, k) = Append(c, x)
    <3>1. Scores(c, k) = D
      BY <2>7 DEF D
    <3> HIDE DEF Scores, D
    <3> QED BY <3>1 DEF x
  <2> QED BY <2>11, <2>12
<1>5. d \in W(0)
  <2> DEFINE z == 0
  <2>1. z \in Int
    OBVIOUS
  <2> HIDE DEF z
  <2>2. <<z>> \in Seq(Int) /\ Len(<<z>>) = 1
    BY <2>1, SingleIs
  <2> QED BY <2>2 DEF z
<1> HIDE DEF F, d, n, Scores
<1> DEFINE T == [k \in 0..n |-> W(k)]
           U == UNION {W(k) : k \in 0..n}
           step == [p \in U \X (1..n) |-> Body(p[1], p[2])]
<1> HIDE DEF Body, W
<1>6. \A k \in 1..n : \A x \in T[k - 1] : step[<<x, k>>] \in T[k] /\ step[<<x, k>>] = Body(x, k)
  <2> SUFFICES ASSUME NEW k \in 1..n, NEW x \in T[k - 1] PROVE step[<<x, k>>] \in T[k] /\ step[<<x, k>>] = Body(x, k)
    OBVIOUS
  <2>1. k \in 0..n /\ k - 1 \in 0..n
    BY <1>2
  <2>2. x \in W(k - 1) /\ x \in U
    BY <2>1
  <2>3. step[<<x, k>>] = Body(x, k)
    BY <2>2
  <2>4. Body(x, k) \in W(k)
    BY <1>4, <2>2
  <2> HIDE DEF step
  <2> QED BY <2>1, <2>3, <2>4
<1>7. 0 \in 0..n /\ d \in T[0]
  <2>1. 0 \in 0..n
    BY <1>2
  <2> QED BY <1>5, <2>1
<1> HIDE DEF step, U
<1>8. PICK g : Successive(g, n, d, step) /\ \A k \in 0..n : g[k] \in T[k]
  <2> HIDE DEF T
  <2> QED BY <1>2, <1>6, <1>7, RecursionDefined
<1>9. ASSUME NEW k \in 0..n PROVE g[k] = IF k = 0 THEN d ELSE Body(g[k - 1], k)
  <2>1. k # 0 => k - 1 \in 0..n /\ k \in 1..n
    BY <1>2
  <2>2. g[k] = IF k = 0 THEN d ELSE step[<<g[k - 1], k>>]
    BY <1>8 DEF Successive
  <2>3. k # 0 => g[k - 1] \in T[k - 1]
    BY <1>8, <2>1
  <2> HIDE DEF T
  <2>4. k # 0 => step[<<g[k - 1], k>>] = Body(g[k - 1], k)
    BY <1>6, <2>1, <2>3
  <2> QED BY <2>2, <2>4
<1>10. g = [k \in 0..n |-> IF k = 0 THEN d ELSE Body(g[k - 1], k)]
  <2>1. g = [k \in 0..n |-> g[k]]
    BY <1>8 DEF Successive
  <2> QED BY <1>9, <2>1
<1>11. F = [k \in 0..n |-> IF k = 0 THEN d ELSE Body(F[k - 1], k)]
  BY <1>10, Zenon DEF F
<1>12. \A k \in 0..n : F[k] = IF k = 0 THEN d ELSE Body(F[k - 1], k)
  BY <1>11, Zenon
<1> DEFINE A == {k \in 0..n : F[k] \in W(k)}
<1>13. \A k \in 0..n : k \in A
  <2>1. 0 \in A
    <3>1. F[0] = d
      BY <1>7, <1>12
    <3> QED BY <1>5, <1>7, <3>1
  <2>2. ASSUME NEW k \in 1..n, k - 1 \in A PROVE k \in A
    <3>1. k \in 0..n /\ k # 0 /\ F[k - 1] \in W(k - 1)
      BY <1>2, <2>2
    <3>2. F[k] = Body(F[k - 1], k)
      BY <1>12, <3>1
    <3> QED BY <1>4, <3>1, <3>2
  <2> HIDE DEF A
  <2> QED BY <1>2, <2>1, <2>2, UpTo
<1>14. \A k \in 0..n : F[k] \in W(k)
  BY <1>13
<1>15. F[n] \in Seq(Int) /\ Len(F[n]) = n + 1
  <2>1. n \in 0..n
    BY <1>2
  <2>2. F[n] \in W(n)
    BY <1>14, <2>1
  <2> QED BY <2>2 DEF W
<1>16. gain \in Int /\ sum \in Int
  <2> DEFINE c == F[n]
             m == n + 1
  <2>1. c \in Seq(Int) /\ m \in 1..Len(c)
    BY <1>2, <1>15
  <2> HIDE DEF c, m
  <2>2. c[m] \in Int
    BY <2>1, ElementOfSeq
  <2>3. gain \in Int
    BY <2>2 DEF c, m, Greater
  <2> HIDE DEF gain
  <2> QED BY <1>2, <2>3
<1> HIDE DEF gain, sum
<1>17. Rescored(row, gain, sum) \in RowSet(in) /\ Rescored(row, gain, sum).text = row.text
  BY <1>16, RescoredRow
<1> QED BY <1>1, <1>17

\* Scoring some of the rows for coherence renames none of them.
LEMMA WithCoherenceIs ==
  ASSUME NEW in, NEW q \in Seq(RowSet(in)), NEW names, Named(q, names), NEW limit, NEW alternatives, NEW paths
  PROVE  /\ WithCoherence(q, limit, alternatives, paths) \in Seq(RowSet(in))
         /\ Named(WithCoherence(q, limit, alternatives, paths), names)
<1> DEFINE R == RowSet(in)
           near == Lesser(Len(q), Greater(CoherenceFloor, 2 * limit))
           IsExact(i) == q[i].kind = Exact
           more == Greater(1, paths - Cardinality({i \in 1..near : IsExact(i)}))
           new == {i \in near + 1..Len(q) : IsExact(i) /\ ~\E j \in 1..i - 1 : IsExact(j) /\ SameStructure(q[i], q[j])}
           others == {i \in new : alternatives /\ Cardinality({j \in new : j <= i}) <= more}
           Chosen(i) == i <= near \/ i \in others
           g == [i \in DOMAIN q |-> IF Chosen(i) THEN Coherent(q[i]) ELSE q[i]]
<1>1. WithCoherence(q, limit, alternatives, paths) = g
  BY DEF WithCoherence
<1> HIDE DEF Chosen
<1>2. \A i \in DOMAIN q : q[i] \in R
  BY LenProperties
<1>3. \A i \in DOMAIN q : Coherent(q[i]) \in R /\ Coherent(q[i]).text = q[i].text
  BY <1>2, CoherentIs
<1> HIDE DEF R
<1>4. g \in [DOMAIN q -> R]
  BY <1>2, <1>3
<1>5. DOMAIN g = DOMAIN q /\ \A i \in DOMAIN q : g[i].text = q[i].text
  BY <1>3
<1> HIDE DEF g
<1>6. g \in Seq(R)
  BY <1>4, MapsTo DEF R
<1>7. Named(g, names)
  BY <1>5, NamedAlike
<1> QED BY <1>1, <1>6, <1>7 DEF R

\* A long input shows a sentence and one of the others.
LEMMA LongAlternativesIs ==
  ASSUME NEW S, NEW q \in Seq(S), q # <<>>, NEW names, Named(q, names)
  PROVE  LongAlternatives(q) \in Seq(S) /\ Named(LongAlternatives(q), names)
<1> DEFINE first == q[1]
           Variant(r) == SameStructure(r, first) /\ r.count = first.count /\ Differences(first.text, r.text) = 1
           Other(r) == r.segs # first.segs /\ r.lengths # first.lengths
           OtherSegments(r) == r.segs # first.segs
           Simple(r) == r.count <= first.count
           rest == Tail(q)
           P1 == {i \in DOMAIN rest : Variant(rest[i])}
           P2 == {i \in DOMAIN rest : Other(rest[i])}
           P3 == {i \in DOMAIN rest : OtherSegments(rest[i])}
           P4 == {i \in DOMAIN rest : Simple(rest[i])}
           a1 == FirstIn(P1)
           a2 == FirstIn(P2)
           a3 == FirstIn(P3)
           a4 == FirstIn(P4)
           at == <<a1, a2, a3, a4>>
           places == {i \in DOMAIN at : at[i] # 0}
           found == Those(at, places)
           second == IF found = <<>> THEN <<>> ELSE <<rest[found[1]]>>
           one == <<first>>
<1>1. LongAlternatives(q) = one \o second
  BY DEF LongAlternatives, FirstAt, FirstIn, Selected
<1>2. first \in S /\ rest \in Seq(S) /\ Len(rest) \in Nat
  <2>1. Len(q) \in Nat /\ 1 \in 1..Len(q)
    BY EmptySeq, LenProperties
  <2>2. rest \in Seq(S)
    BY HeadTailProperties
  <2> HIDE DEF rest
  <2> QED BY <2>1, <2>2, ElementOfSeq, LenProperties
<1>3. Len(q) \in Nat /\ Len(q) >= 1 /\ DOMAIN q = 1..Len(q) /\ \A i \in 1..Len(rest) : rest[i] = q[i + 1] /\ i + 1 \in 2..Len(q)
  <2>1. Len(q) \in Nat /\ Len(q) # 0 /\ DOMAIN q = 1..Len(q)
    BY EmptySeq, LenProperties
  <2>2. Len(rest) = Len(q) - 1 /\ \A i \in 1..Len(rest) : rest[i] = q[i + 1]
    BY HeadTailProperties
  <2> HIDE DEF rest
  <2> QED BY <2>1, <2>2
<1>4. one \in Seq(S)
  <2> HIDE DEF first
  <2> QED BY <1>2, SingleIs
<1>5. P1 \in SUBSET DOMAIN rest /\ P2 \in SUBSET DOMAIN rest /\ P3 \in SUBSET DOMAIN rest /\ P4 \in SUBSET DOMAIN rest
  OBVIOUS
<1> HIDE DEF P1, P2, P3, P4, rest, one
<1> DEFINE A0 == 0..Len(rest)
           B0 == 1..Len(rest)
<1>6. a1 \in A0 /\ a2 \in A0 /\ a3 \in A0 /\ a4 \in A0
  BY <1>2, <1>5, FirstInIs
<1> HIDE DEF a1, a2, a3, a4
<1>7. at \in Seq(A0)
  <2> HIDE DEF A0
  <2> QED BY <1>6
<1>8. found \in Seq(B0)
  <2> HIDE DEF at
  <2>1. \A i \in places : at[i] \in A0 /\ at[i] # 0
    BY <1>7, LenProperties
  <2>2. \A i \in places : at[i] \in B0
    BY <1>2, <2>1
  <2>3. places \in SUBSET DOMAIN at
    OBVIOUS
  <2> HIDE DEF places, A0, B0
  <2> QED BY <1>7, <2>2, <2>3, SomeOf
<1> HIDE DEF found
<1> DEFINE head == NamesAt(q, {1})
           tail == NamesAt(q, 2..Len(q))
<1>9. second \in Seq(S) /\ Named(second, tail)
  <2>1. CASE found = <<>>
    BY <2>1, EmptySeq, NamedNone
  <2>2. CASE found # <<>>
    <3> DEFINE i == found[1]
               x == rest[i]
    <3>1. Len(found) \in Nat /\ 1 \in 1..Len(found)
      BY <1>8, <2>2, EmptySeq, LenProperties
    <3>2. i \in 1..Len(rest)
      <4> HIDE DEF B0
      <4>1. found[1] \in B0
        BY <1>8, <3>1, ElementOfSeq
      <4> QED BY <4>1 DEF B0
    <3> HIDE DEF i
    <3>3. x \in S
      BY <1>2, <3>2, ElementOfSeq
    <3>4. x.text \in tail
      <4> DEFINE j == i + 1
      <4>1. j \in 2..Len(q) /\ x = q[j]
        BY <1>2, <1>3, <3>2
      <4> HIDE DEF j
      <4> QED BY <4>1 DEF NamesAt
    <3> HIDE DEF x
    <3>5. <<x>> \in Seq(S)
      BY <3>3, SingleIs
    <3>6. Named(<<x>>, tail)
      BY <3>4, NamedOne DEF Named
    <3> QED BY <2>2, <3>5, <3>6 DEF x, i
  <2> QED BY <2>1, <2>2
<1>10. Named(one, head)
  <2>1. first.text \in head
    BY DEF NamesAt
  <2> HIDE DEF first, head
  <2>2. Named(<<first>>, {first.text})
    BY NamedOne
  <2> QED BY <2>1, <2>2 DEF Named, one
<1>11. head \cap tail = {} /\ head \cup tail \subseteq TextsOf(q)
  <2> DEFINE I == {1}
             J == 2..Len(q)
  <2>1. I \subseteq DOMAIN q /\ J \subseteq DOMAIN q /\ I \cap J = {}
    BY <1>3
  <2> HIDE DEF I, J
  <2>2. NamesAt(q, I) \cap NamesAt(q, J) = {} /\ NamesAt(q, I) \cup NamesAt(q, J) \subseteq TextsOf(q)
    BY <2>1, NamesApart, NamesAmong DEF Named
  <2> QED BY <2>2 DEF I, J
<1> HIDE DEF second, one, head, tail
<1>12. one \o second \in Seq(S) /\ Named(one \o second, head \cup tail)
  BY <1>4, <1>9, <1>10, <1>11, NamedJoined
<1> QED BY <1>1, <1>11, <1>12 DEF Named

\* Words before characters, and the other rows where they are.
LEMMA WordsFirstIs ==
  ASSUME NEW S, NEW q \in Seq(S), NEW names, Named(q, names)
  PROVE  WordsFirst(q) \in Seq(S) /\ Named(WordsFirst(q), names)
<1> DEFINE Size(i) == Len(q[i].text)
           first == IF q # <<>> /\ Size(1) = 2 /\ \A i \in DOMAIN q : q[i].used <= q[1].used THEN 2 ELSE 1
           places == {i \in first..Len(q) : Size(i) \in {1, 2}}
           twos == {i \in places : Size(i) = 2}
           ones == {i \in places : Size(i) = 1}
           Ordering(t) == {p \in (DOMAIN t) \X (DOMAIN t) : ScoreLess(t[p[1]], t[p[2]])}
           words == SortedBy(Those(q, twos), Ordering(Those(q, twos)))
           characters == SortedBy(Those(q, ones), Ordering(Those(q, ones)))
           poor == FirstIn({i \in DOMAIN words : words[i].score < 5000})
           count == Lesser(10, IF poor = 0 THEN Len(words) ELSE poor - 1)
           good == Take(words, count)
           others == SubSeq(words, Len(good) + 1, Len(words))
           moved == good \o characters \o others
           PlaceAt(i) == Cardinality({j \in places : j <= i})
           g == [i \in DOMAIN q |-> IF i \in places THEN moved[PlaceAt(i)] ELSE q[i]]
<1>1. WordsFirst(q) = IF words = <<>> \/ Len(words) = Cardinality(places) THEN q ELSE g
  BY DEF WordsFirst, FirstAt, FirstIn, Sorted
<1>2. Len(q) \in Nat /\ DOMAIN q = 1..Len(q)
  BY LenProperties
<1>3. places \in SUBSET DOMAIN q /\ twos \in SUBSET DOMAIN q /\ ones \in SUBSET DOMAIN q
  <2>1. first \in Nat /\ first >= 1
    OBVIOUS
  <2> HIDE DEF first
  <2>2. places \in SUBSET DOMAIN q
    BY <1>2, <2>1
  <2> HIDE DEF places
  <2> QED BY <2>2
<1>4. places = twos \cup ones /\ twos \cap ones = {}
  <2>1. \A i \in places : Size(i) = 1 \/ Size(i) = 2
    OBVIOUS
  <2> HIDE DEF places, Size
  <2>2. places = twos \cup ones
    BY <2>1
  <2> QED BY <2>2
<1> HIDE DEF places, twos, ones, Ordering
<1>5. /\ words \in Seq(S) /\ Len(words) = Cardinality(twos)
      /\ characters \in Seq(S) /\ Len(characters) = Cardinality(ones)
      /\ Named(words, NamesAt(q, twos)) /\ Named(characters, NamesAt(q, ones))
  <2> DEFINE s == Those(q, twos)
             t == Those(q, ones)
  <2>1. s \in Seq(S) /\ Len(s) = Cardinality(twos) /\ t \in Seq(S) /\ Len(t) = Cardinality(ones)
    BY <1>3, ThoseAre
  <2>2. Named(s, NamesAt(q, twos)) /\ Named(t, NamesAt(q, ones))
    BY <1>3, NamedThose DEF Named
  <2> HIDE DEF s, t
  <2>3. SortedBy(s, Ordering(s)) \in Seq(S) /\ Len(SortedBy(s, Ordering(s))) = Len(s)
    BY <2>1, SortedIs
  <2>4. SortedBy(t, Ordering(t)) \in Seq(S) /\ Len(SortedBy(t, Ordering(t))) = Len(t)
    BY <2>1, SortedIs
  <2>5. Named(SortedBy(s, Ordering(s)), NamesAt(q, twos)) /\ Named(SortedBy(t, Ordering(t)), NamesAt(q, ones))
    BY <2>1, <2>2, NamedSorted
  <2> QED BY <2>1, <2>3, <2>4, <2>5 DEF s, t
<1>6. /\ IsFiniteSet(places) /\ Cardinality(places) \in Nat /\ Cardinality(twos) \in Nat /\ Cardinality(ones) \in Nat
      /\ Cardinality(places) = Cardinality(twos) + Cardinality(ones)
  <2>1. /\ IsFiniteSet(places) /\ IsFiniteSet(twos) /\ IsFiniteSet(ones)
        /\ Cardinality(places) \in Nat /\ Cardinality(twos) \in Nat /\ Cardinality(ones) \in Nat
    BY <1>3, SomePlaces
  <2>2. Cardinality(twos \cup ones) = Cardinality(twos) + Cardinality(ones) - Cardinality(twos \cap ones)
    BY <2>1, FS_Union
  <2>3. Cardinality(twos \cap ones) = 0
    BY <1>4, FS_EmptySet
  <2> QED BY <1>4, <2>1, <2>2, <2>3
<1> HIDE DEF words, characters
<1>7. count \in Int
  <2> DEFINE at == {i \in DOMAIN words : words[i].score < 5000}
  <2>1. at \in SUBSET DOMAIN words
    OBVIOUS
  <2> HIDE DEF at
  <2>2. FirstIn(at) \in 0..Len(words)
    BY <1>5, <2>1, FirstInIs
  <2>3. poor \in 0..Len(words) /\ Len(words) \in Nat
    BY <1>5, <1>6, <2>2 DEF at
  <2> HIDE DEF poor
  <2> QED BY <2>3 DEF Lesser
<1> HIDE DEF count
<1>8. good \in Seq(S) /\ Len(good) \in Nat /\ Len(good) <= Len(words)
  BY <1>5, <1>7, TakeIs
<1>9. Take(words, Len(good)) = good
  <2> DEFINE l == Len(words)
  <2>1. l \in Nat /\ good = SubSeq(words, 1, Lesser(count, l))
    BY <1>5, <1>6 DEF Take
  <2>2. Take(words, Len(good)) = SubSeq(words, 1, Len(good))
    BY <1>5, <1>6, <1>8 DEF Take, Lesser
  <2>3. CASE count >= 0
    BY <1>5, <1>7, <2>1, <2>2, <2>3, TakeIs
  <2>4. CASE ~ (count >= 0)
    <3> DEFINE k == Lesser(count, l)
               e == 0
               one == 1
    <3>1. k \in Int /\ k < 1 /\ e \in Int
      BY <1>7, <2>1, <2>4 DEF Lesser
    <3> HIDE DEF k, e
    <3>2. SubSeq(words, one, k) = <<>>
      <4>1. SubSeq(words, one, k) \in Seq(S) /\ Len(SubSeq(words, one, k)) = 0
        BY <1>5, <1>6, <2>1, <3>1, PartIs
      <4> QED BY <4>1, EmptySeq
    <3>3. good = <<>>
      BY <2>1, <3>2 DEF k, one
    <3>4. good = <<>> /\ Len(good) = 0
      BY <3>3
    <3>5. SubSeq(words, one, e) = <<>>
      <4>1. e = 0
        BY DEF e
      <4>2. SubSeq(words, one, e) \in Seq(S) /\ Len(SubSeq(words, one, e)) = 0
        BY <1>5, <1>6, <4>1, PartIs
      <4> QED BY <4>2, EmptySeq
    <3> QED BY <2>2, <3>4, <3>5 DEF e
  <2> QED BY <1>7, <2>3, <2>4
<1> HIDE DEF good
<1>10. others \in Seq(S) /\ Len(others) = Len(words) - Len(good)
  <2> DEFINE m == Len(good) + 1
             l == Len(words)
  <2>1. m \in Nat /\ m >= 1 /\ l \in Int /\ l <= Len(words) /\ m <= l + 1
    BY <1>5, <1>6, <1>8
  <2>2. SubSeq(words, m, l) \in Seq(S) /\ Len(SubSeq(words, m, l)) = IF m <= l THEN l - m + 1 ELSE 0
    <3> HIDE DEF m, l
    <3> QED BY <1>5, <2>1, PartIs
  <2> DEFINE o == SubSeq(words, m, l)
  <2> HIDE DEF o
  <2>3. o \in Seq(S) /\ Len(o) = IF m <= l THEN l - m + 1 ELSE 0
    BY <2>2 DEF o
  <2>4. Len(o) = l - Len(good)
    BY <1>8, <2>1, <2>3
  <2> QED BY <2>3, <2>4 DEF o
<1> HIDE DEF others
<1>11. NamesAt(q, twos) \cap NamesAt(q, ones) = {} /\ NamesAt(q, twos) \cup NamesAt(q, ones) \subseteq NamesAt(q, places)
  <2>1. NamesAt(q, twos) \cap NamesAt(q, ones) = {}
    BY <1>3, <1>4, NamesApart DEF Named
  <2>2. NamesAt(q, twos) \cup NamesAt(q, ones) \subseteq NamesAt(q, places)
    BY <1>4 DEF NamesAt
  <2> QED BY <2>1, <2>2
<1>12. Named(moved, NamesAt(q, places))
  <2>1. \E A, B : Named(good, A) /\ Named(others, B) /\ A \cap B = {} /\ A \cup B \subseteq TextsOf(words)
    <3> DEFINE l == Len(good)
    <3>1. l \in Nat /\ l <= Len(words) /\ Take(words, l) = good
      BY <1>5, <1>7, <1>8, <1>9
    <3> HIDE DEF l
    <3>2. Apart(words)
      BY <1>5 DEF Named
    <3>3. \E A, B : Named(Take(words, l), A) /\ Named(SubSeq(words, l + 1, Len(words)), B)
                    /\ A \cap B = {} /\ A \cup B \subseteq TextsOf(words)
      BY <1>5, <3>1, <3>2, NamedCut
    <3>4. SubSeq(words, l + 1, Len(words)) = others
      BY DEF l, others
    <3> HIDE DEF others
    <3> QED BY <3>1, <3>3, <3>4
  <2>2. PICK A, B : Named(good, A) /\ Named(others, B) /\ A \cap B = {} /\ A \cup B \subseteq TextsOf(words)
    BY <2>1
  <2> DEFINE C == NamesAt(q, ones)
             D == A \cup C
             c == good \o characters
  <2>3. A \cup B \subseteq NamesAt(q, twos)
    BY <1>5, <2>2 DEF Named
  <2>4. A \cap C = {} /\ D \cap B = {} /\ D \cup B \subseteq NamesAt(q, places)
    BY <1>11, <2>2, <2>3
  <2> HIDE DEF C
  <2>5. c \in Seq(S) /\ Named(c, D)
    BY <1>5, <1>8, <2>2, <2>4, NamedJoined DEF C
  <2> HIDE DEF c, D
  <2>6. c \o others \in Seq(S) /\ Named(c \o others, D \cup B)
    BY <1>10, <2>2, <2>4, <2>5, NamedJoined
  <2> QED BY <2>4, <2>6 DEF c, Named
<1>13. moved \in Seq(S) /\ Len(moved) = Cardinality(places)
  <2> DEFINE a == good \o characters
             b == a \o others
  <2>1. a \in Seq(S) /\ Len(a) = Len(good) + Len(characters)
    BY <1>5, <1>8, JoinedAt
  <2> HIDE DEF a
  <2>2. b \in Seq(S) /\ Len(b) = Len(a) + Len(others)
    BY <1>10, <2>1, JoinedAt
  <2> HIDE DEF b
  <2>3. Len(b) = Cardinality(places)
    BY <1>5, <1>6, <1>8, <1>10, <2>1, <2>2
  <2> QED BY <2>2, <2>3 DEF a, b
<1> HIDE DEF moved
<1>14. ASSUME NEW i \in DOMAIN q, i \in places PROVE PlaceAt(i) \in 1..Len(moved)
  <2> DEFINE upto == {j \in places : j <= i}
  <2>1. upto \subseteq places /\ i \in upto
    <3>1. i <= i
      BY <1>2
    <3> QED BY <1>14, <3>1
  <2> HIDE DEF upto
  <2>2. IsFiniteSet(upto) /\ Cardinality(upto) \in Nat /\ Cardinality(upto) <= Cardinality(places)
    BY <1>6, <2>1, FS_Subset, FS_CardinalityType
  <2>3. Cardinality(upto) # 0
    BY <2>1, <2>2, FS_EmptySet
  <2> HIDE DEF upto
  <2>4. Cardinality(upto) \in 1..Len(moved)
    BY <1>6, <1>13, <2>2, <2>3
  <2> QED BY <2>4 DEF upto
<1>15. ASSUME NEW i \in places, NEW j \in places, i < j PROVE PlaceAt(i) < PlaceAt(j)
  <2> DEFINE U(k) == {p \in places : p <= k}
  <2>1. i \in Int /\ j \in Int /\ places \subseteq Int
    BY <1>2, <1>3
  <2>2. ASSUME NEW p \in places, p <= i PROVE p <= j
    BY <1>15, <2>1, <2>2
  <2>3. j \in U(j) /\ j \notin U(i)
    BY <1>15, <2>1
  <2>4. U(i) \subseteq U(j) /\ j \in U(j) /\ j \notin U(i) /\ U(j) \subseteq places
    BY <2>2, <2>3
  <2> HIDE DEF U
  <2>5. IsFiniteSet(U(j)) /\ U(i) \subseteq U(j) \ {j}
    BY <1>6, <2>4, FS_Subset
  <2>6. IsFiniteSet(U(j) \ {j}) /\ Cardinality(U(j) \ {j}) = Cardinality(U(j)) - 1
    BY <2>4, <2>5, FS_RemoveElement
  <2>7. Cardinality(U(i)) <= Cardinality(U(j) \ {j}) /\ Cardinality(U(i)) \in Nat /\ Cardinality(U(j)) \in Nat
    BY <2>5, <2>6, FS_Subset, FS_CardinalityType
  <2>8. Cardinality(U(i)) < Cardinality(U(j))
    BY <2>6, <2>7
  <2> QED BY <2>8 DEF U
<1> HIDE DEF PlaceAt
<1>16. ASSUME NEW i \in places, NEW j \in places, moved[PlaceAt(i)].text = moved[PlaceAt(j)].text PROVE i = j
  <2>1. i \in DOMAIN q /\ j \in DOMAIN q /\ i \in Int /\ j \in Int
    BY <1>2, <1>3
  <2>2. PlaceAt(i) \in DOMAIN moved /\ PlaceAt(j) \in DOMAIN moved
    BY <1>13, <1>14, <2>1, LenProperties
  <2>3. PlaceAt(i) = PlaceAt(j)
    BY <1>12, <1>16, <2>2 DEF Named, Apart
  <2>4. PlaceAt(i) \in Int
    BY <1>14, <2>1
  <2>5. ~ (i < j) /\ ~ (j < i)
    BY <1>15, <2>3, <2>4
  <2> QED BY <2>1, <2>5
<1>17. ASSUME NEW i \in places PROVE moved[PlaceAt(i)].text \in NamesAt(q, places)
  <2>1. PlaceAt(i) \in DOMAIN moved
    BY <1>3, <1>13, <1>14, LenProperties
  <2> QED BY <1>12, <2>1 DEF Named, TextsOf
<1>18. ASSUME NEW i \in DOMAIN q, i \notin places PROVE q[i].text \notin NamesAt(q, places)
  BY <1>3, <1>18 DEF NamesAt, Named, Apart
<1>19. Named(g, TextsOf(q))
  <2>1. DOMAIN g = DOMAIN q /\ \A i \in DOMAIN q : g[i].text = IF i \in places THEN moved[PlaceAt(i)].text ELSE q[i].text
    OBVIOUS
  <2> HIDE DEF g
  <2>2. \A i \in DOMAIN q : i \in places => g[i].text \in NamesAt(q, places)
    BY <1>17, <2>1
  <2>3. \A i \in DOMAIN q : i \notin places => g[i].text = q[i].text /\ g[i].text \notin NamesAt(q, places)
    BY <1>18, <2>1
  <2>4. Apart(g)
    <3> SUFFICES ASSUME NEW i \in DOMAIN q, NEW j \in DOMAIN q, g[i].text = g[j].text PROVE i = j
      BY <2>1 DEF Apart
    <3>1. CASE i \in places /\ j \in places
      BY <1>16, <2>1, <3>1
    <3>2. CASE i \notin places /\ j \notin places
      BY <2>3, <3>2 DEF Named, Apart
    <3>3. CASE (i \in places) # (j \in places)
      BY <2>2, <2>3, <3>3
    <3> QED BY <3>1, <3>2, <3>3
  <2>5. NamesAt(q, places) \subseteq TextsOf(q)
    BY <1>3, NamesAmong
  <2>6. TextsOf(g) \subseteq TextsOf(q)
    BY <2>1, <2>2, <2>3, <2>5 DEF TextsOf
  <2> QED BY <2>4, <2>6 DEF Named
<1>20. g \in [DOMAIN q -> S]
  <2>1. \A i \in DOMAIN q : q[i] \in S
    BY LenProperties
  <2>2. \A i \in DOMAIN q : i \in places => moved[PlaceAt(i)] \in S
    BY <1>13, <1>14, ElementOfSeq
  <2> QED BY <2>1, <2>2
<1> HIDE DEF g
<1>21. g \in Seq(S)
  BY <1>20, MapsTo
<1>22. Named(g, names)
  BY <1>19 DEF Named
<1> QED BY <1>1, <1>21, <1>22

\* Sentences, the beginnings of the first one, and the other rows.
LEMMA MultiwordIs ==
  ASSUME NEW S, NEW full \in Seq(S), NEW prefixes \in Seq(S), NEW limit \in Int, NEW alternatives,
         NEW A, NEW B, Named(full, A), Named(prefixes, B), A \cap B = {}
  PROVE  /\ Multiword(full, prefixes, limit, alternatives) \in Seq(S)
         /\ Named(Multiword(full, prefixes, limit, alternatives), A \cup B)
<1> DEFINE two == 2
           one == 1
           count == IF alternatives THEN Lesser(two, Len(full)) ELSE IF SecondSentence(full) THEN two ELSE one
           sentences == Take(full, count)
           IsCharacter(r) == Len(r.syl) = 1 /\ Len(r.text) = 1
           IsRepeated(r) == IsCharacter(r) /\ r.text = Take(full[1].text, 1)
           IsInitial(r) == IsCharacter(r) /\ ~IsRepeated(r)
           IsMatching(r) == ~IsCharacter(r) /\ Len(r.syl) = 2 /\ IsPrefix(r.text, full[1].text)
           IsOther(r) == ~IsCharacter(r) /\ ~IsMatching(r)
           initials == {i \in DOMAIN prefixes : IsInitial(prefixes[i])}
           repeats == {i \in DOMAIN prefixes : IsRepeated(prefixes[i])}
           matches == {i \in DOMAIN prefixes : IsMatching(prefixes[i])}
           rest == {i \in DOMAIN prefixes : IsOther(prefixes[i])}
           found == Those(prefixes, initials)
           less == {p \in (DOMAIN found) \X (DOMAIN found) : ScoreLess(found[p[1]], found[p[2]])}
           characters == SortedBy(found, less)
           repeated == Take(Those(prefixes, repeats), one)
           matching == Those(prefixes, matches)
           before == IF matching # <<>> THEN 0 ELSE Lesser(Len(characters), Greater(0, limit - count - 2))
           next == before + 1
           e1 == Take(matching, one)
           e2 == Take(characters, before)
           e3 == SubSeq(characters, next, Len(characters))
           e4 == SubSeq(matching, two, Len(matching))
           e5 == Those(prefixes, rest)
<1>1. Multiword(full, prefixes, limit, alternatives) = sentences \o e1 \o e2 \o repeated \o e3 \o e4 \o e5
  BY DEF Multiword, Selected, Sorted
<1>2. Len(full) \in Nat /\ one \in Int /\ two \in Nat /\ two >= 1
  BY LenProperties
<1>3. count \in Int
  BY <1>2 DEF Lesser
<1> HIDE DEF count, one, two
<1>4. sentences \in Seq(S) /\ Named(sentences, A)
  BY <1>3, TakeIs, NamedTake
<1>5. initials \in SUBSET DOMAIN prefixes /\ repeats \in SUBSET DOMAIN prefixes
      /\ matches \in SUBSET DOMAIN prefixes /\ rest \in SUBSET DOMAIN prefixes
  OBVIOUS
<1>6. /\ initials \cap repeats = {} /\ initials \cap matches = {} /\ initials \cap rest = {}
       /\ repeats \cap matches = {} /\ repeats \cap rest = {} /\ matches \cap rest = {}
  <2> HIDE DEF IsCharacter
  <2>1. initials \cap repeats = {} /\ matches \cap rest = {}
    OBVIOUS
  <2>2. initials \cap matches = {} /\ initials \cap rest = {}
    OBVIOUS
  <2>3. repeats \cap matches = {} /\ repeats \cap rest = {}
    OBVIOUS
  <2> QED BY <2>1, <2>2, <2>3
<1> HIDE DEF initials, repeats, matches, rest, sentences
<1> DEFINE NI == NamesAt(prefixes, initials)
           NR == NamesAt(prefixes, repeats)
           NM == NamesAt(prefixes, matches)
           NO == NamesAt(prefixes, rest)
<1>7. /\ NI \cap NR = {} /\ NI \cap NM = {} /\ NI \cap NO = {} /\ NR \cap NM = {} /\ NR \cap NO = {}
       /\ NM \cap NO = {}
  BY <1>5, <1>6, NamesApart DEF Named
<1>8. NI \subseteq B /\ NR \subseteq B /\ NM \subseteq B /\ NO \subseteq B
  <2>1. NI \subseteq TextsOf(prefixes) /\ NR \subseteq TextsOf(prefixes)
    BY <1>5, NamesAmong
  <2>2. NM \subseteq TextsOf(prefixes) /\ NO \subseteq TextsOf(prefixes)
    BY <1>5, NamesAmong
  <2> HIDE DEF NI, NR, NM, NO
  <2> QED BY <2>1, <2>2 DEF Named
<1>9. Apart(prefixes)
  BY DEF Named
<1>10. characters \in Seq(S) /\ Named(characters, NI)
  <2>1. found \in Seq(S) /\ Named(found, NI)
    BY <1>5, <1>9, ThoseAre, NamedThose
  <2> HIDE DEF found, less, NI
  <2> QED BY <2>1, SortedIs, NamedSorted
<1>11. matching \in Seq(S) /\ e5 \in Seq(S) /\ Named(matching, NM) /\ Named(e5, NO)
  BY <1>5, <1>9, ThoseAre, NamedThose
<1>12. repeated \in Seq(S) /\ Named(repeated, NR)
  <2> DEFINE t == Those(prefixes, repeats)
  <2>1. t \in Seq(S) /\ Named(t, NR)
    BY <1>5, <1>9, ThoseAre, NamedThose
  <2> HIDE DEF t, NR
  <2>2. Take(t, one) \in Seq(S) /\ Named(Take(t, one), NR)
    BY <1>2, <2>1, TakeIs, NamedTake
  <2> QED BY <2>2 DEF t
<1> HIDE DEF NI, NR, NM, NO
<1> HIDE DEF characters, matching, repeated, e5
<1>13. before \in Nat
  <2>1. Len(characters) \in Nat
    BY <1>10, LenProperties
  <2> QED BY <1>3, <2>1 DEF Lesser, Greater
<1> HIDE DEF before
<1>14. e1 \in Seq(S) /\ e2 \in Seq(S)
  BY <1>2, <1>10, <1>11, <1>13, TakeIs
<1>15. e3 \in Seq(S) /\ e4 \in Seq(S)
  <2>1. next \in Nat /\ next >= 1 /\ Len(characters) \in Int /\ Len(matching) \in Int
    BY <1>10, <1>11, <1>13, LenProperties
  <2> HIDE DEF next
  <2> QED BY <1>2, <1>10, <1>11, <2>1, PartIs
<1>16. \E C1, C2 : Named(e2, C1) /\ Named(e3, C2) /\ C1 \cap C2 = {} /\ C1 \cup C2 \subseteq TextsOf(characters)
  BY <1>10, <1>13, NamedCut DEF Named
<1>17. \E M1, M2 : Named(e1, M1) /\ Named(e4, M2) /\ M1 \cap M2 = {} /\ M1 \cup M2 \subseteq TextsOf(matching)
  <2>1. one \in Nat /\ two = one + 1
    BY DEF one, two
  <2> QED BY <1>11, <2>1, NamedCut DEF Named
<1> HIDE DEF e1, e2, e3, e4
<1>18. PICK C1, C2 : Named(e2, C1) /\ Named(e3, C2) /\ C1 \cap C2 = {} /\ C1 \cup C2 \subseteq NI
  BY <1>10, <1>16 DEF Named
<1>19. PICK M1, M2 : Named(e1, M1) /\ Named(e4, M2) /\ M1 \cap M2 = {} /\ M1 \cup M2 \subseteq NM
  BY <1>11, <1>17 DEF Named
<1> DEFINE j1 == sentences \o e1
           j2 == j1 \o e2
           j3 == j2 \o repeated
           j4 == j3 \o e3
           j5 == j4 \o e4
           j6 == j5 \o e5
<1> DEFINE n1 == A \cup M1
           n2 == n1 \cup C1
           n3 == n2 \cup NR
           n4 == n3 \cup C2
           n5 == n4 \cup M2
           n6 == n5 \cup NO
<1>20. /\ A \cap M1 = {} /\ n1 \cap C1 = {} /\ n2 \cap NR = {} /\ n3 \cap C2 = {} /\ n4 \cap M2 = {} /\ n5 \cap NO = {}
       /\ n6 \subseteq A \cup B
  <2>1. M1 \subseteq NM /\ M2 \subseteq NM /\ C1 \subseteq NI /\ C2 \subseteq NI
    BY <1>18, <1>19
  <2>2. A \cap NI = {} /\ A \cap NR = {} /\ A \cap NM = {} /\ A \cap NO = {}
    BY <1>8
  <2>3. A \cap M1 = {} /\ n1 \cap C1 = {} /\ n2 \cap NR = {}
    BY <1>7, <2>1, <2>2
  <2>4. n3 \cap C2 = {} /\ n4 \cap M2 = {}
    BY <1>7, <1>18, <1>19, <2>1, <2>2
  <2>5. n5 \cap NO = {}
    BY <1>7, <2>1, <2>2
  <2>6. n6 \subseteq A \cup B
    BY <1>8, <2>1
  <2> QED BY <2>3, <2>4, <2>5, <2>6
<1> HIDE DEF n1
<1>21. j1 \in Seq(S) /\ Named(j1, n1)
  BY <1>4, <1>14, <1>19, <1>20, NamedJoined DEF n1
<1> HIDE DEF j1, n2
<1>22. j2 \in Seq(S) /\ Named(j2, n2)
  BY <1>14, <1>21, <1>18, <1>20, NamedJoined DEF n2
<1> HIDE DEF j2, n3
<1>23. j3 \in Seq(S) /\ Named(j3, n3)
  BY <1>12, <1>22, <1>20, NamedJoined DEF n3
<1> HIDE DEF j3, n4
<1>24. j4 \in Seq(S) /\ Named(j4, n4)
  BY <1>15, <1>23, <1>18, <1>20, NamedJoined DEF n4
<1> HIDE DEF j4, n5
<1>25. j5 \in Seq(S) /\ Named(j5, n5)
  BY <1>15, <1>24, <1>19, <1>20, NamedJoined DEF n5
<1> HIDE DEF j5, n6
<1>26. j6 \in Seq(S) /\ Named(j6, n6)
  BY <1>11, <1>25, <1>20, NamedJoined DEF n6
<1> HIDE DEF j6
<1>27. Named(j6, A \cup B)
  BY <1>26, <1>20 DEF Named
<1> QED BY <1>1, <1>26, <1>27 DEF j1, j2, j3, j4, j5, j6

\* Rows that only the external model sees.
LEMMA HiddenRowsAre ==
  ASSUME NEW in, NEW seeds \in Seq(RowSet(in)), NEW page, Len(page) \in Nat, NEW limit \in Int
  PROVE  /\ HiddenRows(seeds, page, limit) \in Seq(RowSet(in))
         /\ \E names : Named(HiddenRows(seeds, page, limit), names) /\ names \cap TextsOf(page) = {}
<1> DEFINE R == RowSet(in)
           Bridges(r) ==
             {k \in 2..Len(r.lengths) - 1 : r.lengths[k] = 1 /\ r.lengths[k - 1] >= 2 /\ r.lengths[k + 1] >= 2}
           Spot(r, k) == Total(Take(r.lengths, k - 1)) + 1
           Known(r, k) == Frequent(Lookup(<<r.syl[Spot(r, k)]>>), 32)
           Ones(r, k) == {i \in DOMAIN Known(r, k) : Len(Known(r, k)[i].text) = 1}
           Entry(r, k) == Those(Known(r, k), Ones(r, k))
           New(r, k, e) == [r EXCEPT !.text[Spot(r, k)] = e.text[1]]
           Swap(r, k) == [i \in DOMAIN Entry(r, k) |-> New(r, k, Entry(r, k)[i])]
           Bridged(r) == IF Len(r.syl) < 5 \/ Len(r.text) # Len(r.syl) THEN <<>>
                         ELSE FlattenSeq([k \in DOMAIN r.lengths |-> IF k \in Bridges(r) THEN Swap(r, k) ELSE <<>>])
           more == [i \in DOMAIN seeds |-> Bridged(seeds[i])]
           all == seeds \o FlattenSeq(more)
           new == {i \in DOMAIN all : all[i].text \notin TextsOf(page) \cup TextsOf(SubSeq(all, 1, i - 1))}
           chosen == Those(all, new)
           hidden == [i \in DOMAIN chosen |-> Hid(chosen[i])]
           left == limit + AlternativeLimit - Len(page)
<1>1. HiddenRows(seeds, page, limit) = Take(hidden, left)
  BY DEF HiddenRows, MapSeq, Selected, Hid
<1>2. left \in Int
  BY RankingConstants
<1>3. ASSUME NEW r \in R, NEW k PROVE Swap(r, k) \in Seq(R)
  <2> DEFINE One == {e \in Lexicon : Len(e.text) = 1}
             q == Entry(r, k)
             place == Spot(r, k)
  <2>1. q \in Seq(One)
    <3> DEFINE f == Known(r, k)
               P == Ones(r, k)
    <3>1. f \in Seq(Lexicon)
      <4> DEFINE reading == <<r.syl[Spot(r, k)]>>
                 t == Lookup(reading)
                 n == 32
      <4>1. t \in Seq(Lexicon) /\ n \in Int
        BY LookupIs
      <4> HIDE DEF t, n
      <4>2. Frequent(t, n) \in Seq(Lexicon)
        BY <4>1, FrequentIs
      <4> QED BY <4>2 DEF t, n
    <3> HIDE DEF Known
    <3>2. P \in SUBSET DOMAIN f /\ \A i \in P : Len(f[i].text) = 1
      OBVIOUS
    <3> HIDE DEF f, P
    <3>3. \A i \in P : f[i] \in Lexicon
      BY <3>1, <3>2, LenProperties
    <3>4. \A i \in P : f[i] \in One
      BY <3>2, <3>3
    <3> HIDE DEF One
    <3>5. Those(f, P) \in Seq(One)
      BY <3>1, <3>2, <3>4, SomeOf
    <3> QED BY <3>5 DEF f, P
  <2> HIDE DEF Entry, Spot
  <2>2. ASSUME NEW e \in One PROVE New(r, k, e) \in R
    <3> DEFINE t == r.text
               c == e.text[1]
               u == [t EXCEPT ![place] = c]
    <3>1. e.text \in Seq(Nat) /\ Len(e.text) = 1
      BY EntryIs DEF Text
    <3>2. c \in Nat
      <4>1. 1 \in 1..Len(e.text)
        BY <3>1
      <4> QED BY <3>1, <4>1, ElementOfSeq
    <3>3. t \in Seq(Nat)
      BY RowHas DEF Text
    <3>4. New(r, k, e) = [r EXCEPT !.text = u]
      OBVIOUS
    <3> HIDE DEF t, c, place, New
    <3>5. u \in Text
      <4>1. u \in [DOMAIN t -> Nat]
        <5>1. t \in [DOMAIN t -> Nat]
          BY <3>3, LenProperties
        <5> QED BY <3>2, <5>1
      <4> HIDE DEF u
      <4>2. u \in Seq(Nat)
        BY <3>3, <4>1, MapsTo
      <4> QED BY <4>2 DEF Text
    <3> HIDE DEF u
    <3>6. [r EXCEPT !.text = u] \in RowSet(in)
      BY <3>5, RetitledRow
    <3> QED BY <3>4, <3>6
  <2> HIDE DEF q, New, One, R
  <2>3. [i \in DOMAIN q |-> New(r, k, q[i])] \in Seq(R)
    <3>1. \A i \in DOMAIN q : q[i] \in One
      BY <2>1, LenProperties
    <3>2. [i \in DOMAIN q |-> New(r, k, q[i])] \in [DOMAIN q -> R]
      BY <2>2, <3>1
    <3> QED BY <2>1, <3>2, MapsTo
  <2> QED BY <2>3 DEF q
<1> HIDE DEF Swap, Bridges
<1>4. ASSUME NEW r \in R PROVE Bridged(r) \in Seq(R)
  <2> DEFINE s == r.lengths
             g == [k \in DOMAIN s |-> IF k \in Bridges(r) THEN Swap(r, k) ELSE <<>>]
             U == Seq(R)
  <2>1. s \in Seq(Nat)
    BY RowHas
  <2>2. <<>> \in U /\ \A k : Swap(r, k) \in U
    BY <1>3, EmptySeq
  <2> HIDE DEF s, R, U
  <2>3. g \in [DOMAIN s -> U]
    BY <2>2
  <2> HIDE DEF g
  <2>4. FlattenSeq(g) \in Seq(R)
    BY <2>1, <2>3, FlatMap DEF U
  <2> QED BY <2>4, EmptySeq DEF g, s
<1> HIDE DEF Bridged, R
<1>5. FlattenSeq(more) \in Seq(R)
  <2>1. \A i \in DOMAIN seeds : seeds[i] \in R
    BY LenProperties DEF R
  <2>2. more \in [DOMAIN seeds -> Seq(R)]
    BY <1>4, <2>1
  <2> HIDE DEF more
  <2> QED BY <2>2, FlatMap
<1> HIDE DEF more
<1>6. all \in Seq(R)
  BY <1>5, ConcatProperties DEF R
<1> HIDE DEF all
<1>7. new \in SUBSET DOMAIN all
  OBVIOUS
<1>8. ASSUME NEW i \in new PROVE /\ i \in 1..Len(all) /\ Len(all) \in Nat /\ all[i].text \notin TextsOf(page)
                                  /\ \A j \in 1..i - 1 : all[j].text # all[i].text
  <2>1. i \in 1..Len(all) /\ Len(all) \in Nat
    BY <1>6, LenProperties
  <2> DEFINE m == 1
             n == i - 1
             t == SubSeq(all, m, n)
  <2>2. all[i].text \notin TextsOf(page) /\ all[i].text \notin TextsOf(t)
    OBVIOUS
  <2>3. ASSUME NEW j \in 1..n PROVE all[j].text \in TextsOf(t)
    <3>1. j \in 1..n - m + 1 /\ m + j - 1 = j /\ m <= n
      BY <2>1, <2>3
    <3>2. m \in Nat /\ m >= 1 /\ n \in Int /\ n <= Len(all)
      BY <2>1
    <3> HIDE DEF m, n
    <3>3. Len(t) = n - m + 1 /\ t[j] = all[m + j - 1] /\ t \in Seq(R)
      BY <1>6, <3>1, <3>2, PartIs
    <3> HIDE DEF t
    <3>4. j \in DOMAIN t /\ t[j] = all[j]
      BY <3>1, <3>3, LenProperties
    <3> QED BY <3>4 DEF TextsOf
  <2> HIDE DEF t
  <2> QED BY <2>1, <2>2, <2>3
<1> HIDE DEF new
<1> DEFINE N == NamesAt(all, new)
<1>9. \A i, j \in new : all[i].text = all[j].text => i = j
  <2> SUFFICES ASSUME NEW i \in new, NEW j \in new, all[i].text = all[j].text PROVE i = j
    OBVIOUS
  <2>1. i \in Nat /\ j \in Nat /\ i >= 1 /\ j >= 1
    BY <1>8
  <2>2. ~ (i < j)
    <3> SUFFICES ASSUME i < j PROVE FALSE
      OBVIOUS
    <3>1. i \in 1..j - 1
      BY <2>1
    <3> QED BY <1>8, <3>1
  <2>3. ~ (j < i)
    <3> SUFFICES ASSUME j < i PROVE FALSE
      OBVIOUS
    <3>1. j \in 1..i - 1
      BY <2>1
    <3> QED BY <1>8, <3>1
  <2> QED BY <2>1, <2>2, <2>3
<1>10. chosen \in Seq(R) /\ Named(chosen, N)
  BY <1>6, <1>7, <1>9, ThoseAre, NamedSome
<1>11. N \cap TextsOf(page) = {}
  BY <1>8 DEF NamesAt
<1> HIDE DEF chosen, N
<1>12. ASSUME NEW r \in R PROVE Hid(r) \in R /\ Hid(r).text = r.text
  BY HiddenRow DEF R
<1>13. ASSUME NEW r \in R PROVE Hid(r) \in R
  BY <1>12
<1>14. chosen \in Seq(R)
  BY <1>10
<1>15. hidden \in Seq(R)
  <2>1. [i \in DOMAIN chosen |-> Hid(chosen[i])] \in Seq(R)
    <3>1. \A i \in DOMAIN chosen : chosen[i] \in R
      BY <1>14, LenProperties
    <3>2. [i \in DOMAIN chosen |-> Hid(chosen[i])] \in [DOMAIN chosen -> R]
      BY <1>13, <3>1
    <3> QED BY <1>14, <3>2, MapsTo
  <2> QED BY <2>1
<1>16. Named(hidden, N)
  <2>1. \A i \in DOMAIN chosen : chosen[i] \in R
    BY <1>14, LenProperties
  <2>2. DOMAIN hidden = DOMAIN chosen /\ \A i \in DOMAIN chosen : hidden[i].text = chosen[i].text
    BY <1>12, <2>1
  <2> HIDE DEF hidden
  <2> QED BY <1>10, <2>2, NamedAlike
<1> HIDE DEF hidden, left
<1>17. Take(hidden, left) \in Seq(R) /\ Named(Take(hidden, left), N)
  BY <1>2, <1>15, <1>16, TakeIs, NamedTake
<1> QED BY <1>1, <1>17, <1>11 DEF R

\* The rows in the order in which they are shown.
LEMMA OrderedIs ==
  ASSUME NEW S, NEW in, NEW full \in Seq(S), NEW prefixes \in Seq(S), NEW limit \in Int, NEW alternatives,
         NEW A, NEW B, Named(full, A), Named(prefixes, B), A \cap B = {}
  PROVE  /\ Ordered(in, full, prefixes, limit, alternatives) \in Seq(S)
         /\ Named(Ordered(in, full, prefixes, limit, alternatives), A \cup B)
<1> DEFINE both == full \o prefixes
           names == A \cup B
<1>1. both \in Seq(S) /\ Named(both, names)
  BY NamedJoined
<1> HIDE DEF both, names
<1>2. WordsFirst(both) \in Seq(S) /\ Named(WordsFirst(both), names)
  BY <1>1, WordsFirstIs
<1>3. /\ Multiword(full, prefixes, limit, alternatives) \in Seq(S)
      /\ Named(Multiword(full, prefixes, limit, alternatives), names)
  BY MultiwordIs DEF names
<1> QED BY <1>1, <1>2, <1>3 DEF Ordered, both, names

\* The page, and after it the rows that only the external model sees.
LEMMA ArrangedRowsAre ==
  ASSUME NEW in, NEW of, NEW sentences \in Seq(RowSet(of)), NEW prefixes \in Seq(RowSet(of)), NEW limit \in Int,
         NEW alternatives, NEW withHidden, NEW A, NEW B, Named(sentences, A), Named(prefixes, B), A \cap B = {}
  PROVE  /\ ArrangedRows(in, sentences, prefixes, limit, alternatives, withHidden) \in Seq(RowSet(of))
         /\ Apart(ArrangedRows(in, sentences, prefixes, limit, alternatives, withHidden))
<1> DEFINE S == RowSet(of)
           many == 24
           none == <<>>
           seeds == IF withHidden /\ sentences # <<>> /\ Len(sentences[1].syl) >= 3 THEN Take(sentences, many) ELSE none
           chosen == IF alternatives /\ Len(sentences) > 1 THEN LongAlternatives(sentences) ELSE sentences
           at == {i \in DOMAIN chosen : chosen[i].kind = Exact}
           first == MovedFirst(chosen, FirstIn(at))
           ordered == Ordered(in, first, prefixes, limit, alternatives)
           page == Take(ordered, limit)
           hidden == HiddenRows(seeds, page, limit)
<1>1. ArrangedRows(in, sentences, prefixes, limit, alternatives, withHidden) = page \o hidden
  BY DEF ArrangedRows, WithHidden, ExactFirst, FirstAt, FirstIn
<1>2. many \in Int /\ none \in Seq(S) /\ sentences \in Seq(S) /\ prefixes \in Seq(S)
  BY EmptySeq
<1> HIDE DEF many, none, S
<1>3. seeds \in Seq(S)
  BY <1>2, TakeIs
<1>4. chosen \in Seq(S) /\ Named(chosen, A)
  <2>1. CASE alternatives /\ Len(sentences) > 1
    <3>1. sentences # <<>>
      <4>1. Len(<<>>) = 0
        OBVIOUS
      <4> QED BY <2>1, <4>1
    <3> QED BY <1>2, <2>1, <3>1, LongAlternativesIs
  <2>2. CASE ~ (alternatives /\ Len(sentences) > 1)
    BY <1>2, <2>2
  <2> QED BY <2>1, <2>2
<1> HIDE DEF seeds, chosen
<1>5. first \in Seq(S) /\ Named(first, A)
  <2> DEFINE i == FirstIn(at)
  <2>1. at \in SUBSET DOMAIN chosen
    OBVIOUS
  <2> HIDE DEF at
  <2>2. i \in 0..Len(chosen)
    BY <1>4, <2>1, FirstInIs
  <2> HIDE DEF i
  <2>3. MovedFirst(chosen, i) \in Seq(S) /\ Named(MovedFirst(chosen, i), A)
    BY <1>4, <2>2, MovedFirstIs
  <2> QED BY <2>3 DEF i
<1> HIDE DEF first
<1> DEFINE names == A \cup B
<1>6. ordered \in Seq(S) /\ Named(ordered, names)
  BY <1>2, <1>5, OrderedIs
<1> HIDE DEF ordered, names
<1>7. page \in Seq(S) /\ Named(page, TextsOf(page))
  <2>1. page \in Seq(S) /\ Named(page, names)
    BY <1>6, TakeIs, NamedTake
  <2> QED BY <2>1 DEF Named
<1> HIDE DEF page
<1>8. hidden \in Seq(S) /\ \E others : Named(hidden, others) /\ others \cap TextsOf(page) = {}
  <2>1. Len(page) \in Nat
    BY <1>7, LenProperties
  <2> QED BY <1>3, <2>1, HiddenRowsAre DEF S
<1> HIDE DEF hidden
<1>9. PICK others : Named(hidden, others) /\ others \cap TextsOf(page) = {}
  BY <1>8
<1> DEFINE texts == TextsOf(page)
<1>10. Named(page, texts) /\ texts \cap others = {}
  BY <1>7, <1>9
<1> HIDE DEF texts
<1>11. page \o hidden \in Seq(S) /\ Named(page \o hidden, texts \cup others)
  BY <1>7, <1>8, <1>9, <1>10, NamedJoined
<1>12. Apart(page \o hidden)
  BY <1>11 DEF Named
<1> QED BY <1>1, <1>11, <1>12 DEF S

\* The rows for the whole input are sentences, and follow the others.
LEMMA ArrangedIs ==
  ASSUME NEW in, NEW parsed, NEW rows \in Seq(RowSet(in)), Apart(rows), NEW limit \in Int, NEW paths,
         NEW withHidden
  PROVE  /\ Arranged(parsed, rows, limit, paths, withHidden) \in Seq(RowSet(in))
         /\ Apart(Arranged(parsed, rows, limit, paths, withHidden))
<1> DEFINE S == RowSet(in)
           alternatives == IsLong(parsed.in) /\ paths > 1
           IsWhole(r) == r.used = Len(parsed.in)
           yes == {i \in DOMAIN rows : IsWhole(rows[i])}
           no == {i \in DOMAIN rows : ~IsWhole(rows[i])}
           Scored(t) == {p \in (DOMAIN t) \X (DOMAIN t) : ScoreLess(t[p[1]], t[p[2]])}
           Judged(t) == {p \in (DOMAIN t) \X (DOMAIN t) : SentenceLess(t[p[1]], t[p[2]])}
           Longer(t) == {p \in (DOMAIN t) \X (DOMAIN t) : PrefixLess(t[p[1]], t[p[2]])}
           whole == Those(rows, yes)
           part == Those(rows, no)
           scored == SortedBy(whole, Scored(whole))
           ranked == TwoSyllablesLimited(scored)
           coherent == WithCoherence(ranked, limit, alternatives, paths)
           sentences == SortedBy(coherent, Judged(coherent))
           prefixes == SortedBy(part, Longer(part))
<1>1. Arranged(parsed, rows, limit, paths, withHidden) =
        ArrangedRows(parsed.in, sentences, prefixes, limit, alternatives, withHidden)
  BY DEF Arranged, Selected, Sorted
<1>2. yes \in SUBSET DOMAIN rows /\ no \in SUBSET DOMAIN rows /\ rows \in Seq(S)
  OBVIOUS
<1>3. yes \cap no = {}
  OBVIOUS
<1> DEFINE A == NamesAt(rows, yes)
           B == NamesAt(rows, no)
<1> HIDE DEF yes, no, S, alternatives
<1>4. A \cap B = {}
  BY <1>2, <1>3, NamesApart
<1>5. whole \in Seq(S) /\ part \in Seq(S) /\ Named(whole, A) /\ Named(part, B)
  BY <1>2, ThoseAre, NamedThose
<1> HIDE DEF whole, part, Scored, Judged, Longer, A, B
<1>6. scored \in Seq(S) /\ prefixes \in Seq(S) /\ Named(scored, A) /\ Named(prefixes, B)
  BY <1>5, SortedIs, NamedSorted
<1> HIDE DEF scored, prefixes
<1>7. ranked \in Seq(S) /\ Named(ranked, A)
  BY <1>6, TwoSyllablesLimitedIs
<1> HIDE DEF ranked
<1>8. coherent \in Seq(S) /\ Named(coherent, A)
  BY <1>7, WithCoherenceIs DEF S
<1> HIDE DEF coherent
<1>9. sentences \in Seq(S) /\ Named(sentences, A)
  BY <1>8, SortedIs, NamedSorted
<1> HIDE DEF sentences
<1>10. /\ ArrangedRows(parsed.in, sentences, prefixes, limit, alternatives, withHidden) \in Seq(S)
      /\ Apart(ArrangedRows(parsed.in, sentences, prefixes, limit, alternatives, withHidden))
  BY <1>6, <1>9, <1>4, ArrangedRowsAre DEF S
<1> QED BY <1>1, <1>10 DEF S

\* Every candidate for a parse of an input uses some of its own segments as a
\* whole, and no two have the same text (CandidateGenerator::generate).
THEOREM GenerateUsesSyllables ==
  ASSUME NEW in \in Seq(Chars), NEW parsed \in ParsesOf(in), NEW limit \in Int, NEW withHidden
  PROVE  Generate(parsed, limit, withHidden) \in Seq(RowSet(in)) /\ Apart(Generate(parsed, limit, withHidden))
<1> DEFINE R == RowSet(in)
           wide == Greater(SearchFloor, limit)
           found == SentenceRows(parsed, wide)
           a == found.rows
           b == InitialRows(in)
           c == MixedRows(parsed, found.exact)
           ab == a \o b
           every == ab \o c
           rows == BestPerText(every)
           paths == Cardinality({i \in DOMAIN parsed.paths : parsed.paths[i].kind = Exact})
           consonant == Len(in) = 1 /\ in[1] \notin Vowels \cup {Separator}
<1>1. parsed.in = in
  BY DEF ParsesOf
<1>2. Generate(parsed, limit, withHidden) =
        IF ~parsed.valid \/ limit = 0 THEN <<>>
        ELSE IF consonant THEN SingleInitial(in, limit)
        ELSE IF Len(in) = 2 /\ AllConsonants(in) THEN DoubleInitial(in, limit)
        ELSE Arranged(parsed, rows, limit, paths, withHidden)
  BY <1>1 DEF Generate
<1>3. a \in Seq(R)
  <2>1. wide \in Int
    BY LexiconConstants DEF Greater
  <2> HIDE DEF wide
  <2> QED BY <2>1, SentenceRowsAre
<1>4. b \in Seq(R)
  BY InitialRowsAre
<1>5. c \in Seq(R)
  <2> DEFINE e == found.exact
  <2> HIDE DEF e
  <2>1. MixedRows(parsed, e) \in Seq(R)
    BY <1>1, MixedRowsAre
  <2> QED BY <2>1 DEF e
<1> HIDE DEF a, b, c, R
<1>6. ab \in Seq(R)
  BY <1>3, <1>4, ConcatProperties
<1> HIDE DEF ab
<1>7. every \in Seq(R)
  BY <1>5, <1>6, ConcatProperties
<1> HIDE DEF every
<1>8. rows \in Seq(R) /\ Apart(rows)
  BY <1>7, BestPerTextIs DEF Named
<1> HIDE DEF rows, paths
<1>9. /\ Arranged(parsed, rows, limit, paths, withHidden) \in Seq(R)
      /\ Apart(Arranged(parsed, rows, limit, paths, withHidden))
  BY <1>8, ArrangedIs DEF R
<1>10. consonant => SingleInitial(in, limit) \in Seq(R) /\ Apart(SingleInitial(in, limit))
  <2> SUFFICES ASSUME consonant PROVE SingleInitial(in, limit) \in Seq(R) /\ Apart(SingleInitial(in, limit))
    OBVIOUS
  <2>1. Len(in) = 1 /\ in[1] # Separator
    OBVIOUS
  <2> QED BY <2>1, SingleInitialIs DEF R
<1>11. Len(in) = 2 /\ AllConsonants(in) => DoubleInitial(in, limit) \in Seq(R) /\ Apart(DoubleInitial(in, limit))
  BY DoubleInitialIs DEF R
<1> HIDE DEF consonant
<1>12. <<>> \in Seq(R) /\ Apart(<<>>)
  BY EmptySeq DEF Apart
<1> QED BY <1>2, <1>9, <1>10, <1>11, <1>12 DEF R

---------------------------------------------------------------------------
(* The answer to a request *)

\* What is on the pages, and the words and the characters that are left, have
\* different texts.
Divided(acc) ==
  \E A, B, C : /\ Named(acc.rows, A) /\ Named(acc.words, B) /\ Named(acc.characters, C)
               /\ A \cap B = {} /\ A \cap C = {} /\ B \cap C = {}

\* One page more.
LEMMA NextPageIs ==
  ASSUME NEW S, NEW acc \in [rows : Seq(S), words : Seq(S), characters : Seq(S)], Divided(acc)
  PROVE  NextPage(acc) \in [rows : Seq(S), words : Seq(S), characters : Seq(S)] /\ Divided(NextPage(acc))
<1> DEFINE Q == Seq(S)
           words == acc.words
           characters == acc.characters
           half == (PageSize + 1) \div 2
           other == PageSize \div 2
           left == Lesser(Len(words), half)
           right == Lesser(Len(characters), other)
           roomW == IF right = Len(characters) THEN PageSize - left - right ELSE 0
           roomC == IF left = Len(words) THEN PageSize - left - right ELSE 0
           moreW == Lesser(Len(words) - left, roomW)
           moreC == Lesser(Len(characters) - right, roomC)
           w0 == left + 1
           w1 == left + moreW
           w2 == left + moreW + 1
           c0 == right + 1
           c1 == right + moreC
           c2 == right + moreC + 1
           a == Take(words, left)
           b == Take(characters, right)
           c == SubSeq(words, w0, w1)
           d == SubSeq(characters, c0, c1)
           e == SubSeq(words, w2, Len(words))
           f == SubSeq(characters, c2, Len(characters))
           rows == acc.rows \o a \o b \o c \o d
<1>1. NextPage(acc) = [rows |-> rows, words |-> e, characters |-> f]
  BY DEF NextPage
<1>2. acc.rows \in Q /\ words \in Q /\ characters \in Q
  <2>1. acc \in [rows : Q, words : Q, characters : Q]
    OBVIOUS
  <2> HIDE DEF Q
  <2>2. acc.rows \in Q /\ acc.words \in Q /\ acc.characters \in Q
    BY <2>1
  <2> QED BY <2>2
<1>3. PICK A, B, C : /\ Named(acc.rows, A) /\ Named(words, B) /\ Named(characters, C)
                      /\ A \cap B = {} /\ A \cap C = {} /\ B \cap C = {}
  BY DEF Divided
<1> HIDE DEF words, characters
<1>4. Len(words) \in Nat /\ Len(characters) \in Nat
  BY <1>2, LenProperties
<1>5. half \in Nat /\ other \in Nat /\ half + other = PageSize
  BY EngineConstants
<1>6. PageSize \in Nat
  BY EngineConstants
<1> HIDE DEF half, other
<1>7. left \in Nat /\ left <= Len(words) /\ left <= half /\ right \in Nat /\ right <= Len(characters) /\ right <= other
  BY <1>4, <1>5 DEF Lesser
<1> HIDE DEF left, right
<1>8. roomW \in Nat /\ roomC \in Nat
  BY <1>4, <1>5, <1>6, <1>7
<1> HIDE DEF roomW, roomC
<1>9. moreW \in Nat /\ moreW <= Len(words) - left /\ moreC \in Nat /\ moreC <= Len(characters) - right
  BY <1>4, <1>7, <1>8 DEF Lesser
<1> HIDE DEF moreW, moreC
<1>10. /\ w0 \in Nat /\ w0 >= 1 /\ w1 \in Int /\ w1 <= Len(words) /\ w2 \in Nat /\ w2 >= 1
      /\ c0 \in Nat /\ c0 >= 1 /\ c1 \in Int /\ c1 <= Len(characters) /\ c2 \in Nat /\ c2 >= 1
  BY <1>4, <1>7, <1>9
<1>11. \E W1, W2, W3 : /\ Named(a, W1) /\ Named(c, W2) /\ Named(e, W3)
                       /\ W1 \cap W2 = {} /\ W1 \cap W3 = {} /\ W2 \cap W3 = {}
                       /\ W1 \subseteq TextsOf(words) /\ W2 \subseteq TextsOf(words) /\ W3 \subseteq TextsOf(words)
  <2>1. Apart(words) /\ left \in Nat /\ moreW \in Nat
    BY <1>7, <1>9, <1>3 DEF Named
  <2>2. left + moreW <= Len(words)
    BY <1>4, <1>7, <1>9
  <2>3. words \in Seq(S)
    BY <1>2
  <2>4. Parted(words, Take(words, left), SubSeq(words, left + 1, left + moreW), SubSeq(words, left + moreW + 1, Len(words)))
    <3> HIDE DEF a, c, e
    <3> QED BY <2>1, <2>2, <2>3, NamedCutTwice
  <2> QED BY <2>4 DEF Parted
<1>12. \E C1, C2, C3 : /\ Named(b, C1) /\ Named(d, C2) /\ Named(f, C3)
                       /\ C1 \cap C2 = {} /\ C1 \cap C3 = {} /\ C2 \cap C3 = {}
                       /\ C1 \subseteq TextsOf(characters) /\ C2 \subseteq TextsOf(characters)
                       /\ C3 \subseteq TextsOf(characters)
  <2>1. Apart(characters) /\ right \in Nat /\ moreC \in Nat
    BY <1>7, <1>9, <1>3 DEF Named
  <2>2. right + moreC <= Len(characters)
    BY <1>4, <1>7, <1>9
  <2>3. characters \in Seq(S)
    BY <1>2
  <2>4. Parted(characters, Take(characters, right), SubSeq(characters, right + 1, right + moreC), SubSeq(characters, right + moreC + 1, Len(characters)))
    <3> HIDE DEF b, d, f
    <3> QED BY <2>1, <2>2, <2>3, NamedCutTwice
  <2> QED BY <2>4 DEF Parted
<1> HIDE DEF w0, w1, w2, c0, c1, c2
<1>13. a \in Q /\ b \in Q
  BY <1>2, <1>7, TakeIs
<1>14. c \in Q /\ d \in Q
  BY <1>2, <1>10, PartIs
<1>15. e \in Q /\ f \in Q
  BY <1>2, <1>4, <1>10, PartIs
<1> HIDE DEF a, b, c, d, e, f
<1>16. PICK W1, W2, W3 : /\ Named(a, W1) /\ Named(c, W2) /\ Named(e, W3)
                         /\ W1 \cap W2 = {} /\ W1 \cap W3 = {} /\ W2 \cap W3 = {}
                         /\ W1 \subseteq B /\ W2 \subseteq B /\ W3 \subseteq B
  BY <1>3, <1>11 DEF Named
<1>17. PICK C1, C2, C3 : /\ Named(b, C1) /\ Named(d, C2) /\ Named(f, C3)
                         /\ C1 \cap C2 = {} /\ C1 \cap C3 = {} /\ C2 \cap C3 = {}
                         /\ C1 \subseteq C /\ C2 \subseteq C /\ C3 \subseteq C
  BY <1>3, <1>12 DEF Named
<1> DEFINE n1 == A \cup W1
           n2 == n1 \cup C1
           n3 == n2 \cup W2
           n4 == n3 \cup C2
<1>18. A \cap W1 = {} /\ n1 \cap C1 = {} /\ n2 \cap W2 = {} /\ n3 \cap C2 = {}
  BY <1>3, <1>16, <1>17
<1>19. n4 \cap W3 = {} /\ n4 \cap C3 = {} /\ W3 \cap C3 = {}
  BY <1>3, <1>16, <1>17
<1> HIDE DEF n1
<1> DEFINE j0 == acc.rows
           j1 == j0 \o a
           j2 == j1 \o b
           j3 == j2 \o c
           j4 == j3 \o d
<1>20. rows = j4
  OBVIOUS
<1>21. j0 \in Q /\ Named(j0, A)
  BY <1>2, <1>3
<1> HIDE DEF j0
<1>22. j1 \in Q /\ Named(j1, n1)
  BY <1>13, <1>21, <1>16, <1>18, NamedJoined DEF n1
<1> HIDE DEF j1, n2
<1>23. j2 \in Q /\ Named(j2, n2)
  BY <1>13, <1>22, <1>17, <1>18, NamedJoined DEF n2
<1> HIDE DEF j2, n3
<1>24. j3 \in Q /\ Named(j3, n3)
  BY <1>14, <1>23, <1>16, <1>18, NamedJoined DEF n3
<1> HIDE DEF j3, n4
<1>25. j4 \in Q /\ Named(j4, n4)
  BY <1>14, <1>24, <1>17, <1>18, NamedJoined DEF n4
<1> HIDE DEF j4, rows, Q
<1> DEFINE x == [rows |-> rows, words |-> e, characters |-> f]
<1>26. x \in [rows : Q, words : Q, characters : Q] /\ x.rows = rows /\ x.words = e /\ x.characters = f
  BY <1>15, <1>20, <1>25
<1> HIDE DEF x
<1>27. Named(rows, n4)
  BY <1>20, <1>25
<1>28. Divided(x)
  BY <1>26, <1>16, <1>17, <1>19, <1>27 DEF Divided
<1> QED BY <1>1, <1>26, <1>28 DEF Q, x

\* All pages.
LEMMA PagesAre ==
  ASSUME NEW S, NEW q \in Seq(S), Apart(q), NEW in
  PROVE  DoubleInitialPages(in, q) \in Seq(S) /\ Apart(DoubleInitialPages(in, q))
<1> DEFINE yes == {i \in DOMAIN q : q[i].used = Len(in)}
           no == {i \in DOMAIN q : q[i].used # Len(in)}
           words == Those(q, yes)
           characters == Those(q, no)
           A0 == {acc \in [rows : Seq(S), words : Seq(S), characters : Seq(S)] : Divided(acc)}
           n == Len(words) + Len(characters)
           d == [rows |-> <<>>, words |-> words, characters |-> characters]
           Body(acc, k) == NextPage(acc)
           W(k) == A0
           F == CHOOSE f : f = [k \in 0..n |-> IF k = 0 THEN d ELSE Body(f[k - 1], k)]
<1>1. DoubleInitialPages(in, q) = IF ~IsDoubleInitial(in) THEN q ELSE F[n].rows
  BY DEF DoubleInitialPages, Pages, Selected
<1>2. /\ words \in Seq(S) /\ characters \in Seq(S)
      /\ \E B, C : Named(words, B) /\ Named(characters, C) /\ B \cap C = {}
  <2>1. yes \in SUBSET DOMAIN q /\ no \in SUBSET DOMAIN q /\ yes \cap no = {}
    OBVIOUS
  <2> HIDE DEF yes, no
  <2>2. Named(words, NamesAt(q, yes)) /\ Named(characters, NamesAt(q, no))
    BY <2>1, NamedThose
  <2>3. NamesAt(q, yes) \cap NamesAt(q, no) = {}
    BY <2>1, NamesApart
  <2>4. words \in Seq(S) /\ characters \in Seq(S)
    BY <2>1, ThoseAre
  <2> QED BY <2>2, <2>3, <2>4
<1> HIDE DEF words, characters
<1>3. n \in Nat
  BY <1>2, LenProperties
<1>4. ASSUME NEW k \in 1..n, NEW acc \in W(k - 1) PROVE Body(acc, k) \in W(k)
  BY NextPageIs
<1>5. d \in W(0)
  <2> DEFINE e == <<>>
             Q == Seq(S)
  <2>1. e \in Q /\ words \in Q /\ characters \in Q
    BY <1>2, EmptySeq
  <2> HIDE DEF e, Q
  <2> DEFINE x == [rows |-> e, words |-> words, characters |-> characters]
  <2>2. x \in [rows : Q, words : Q, characters : Q] /\ x.rows = e /\ x.words = words /\ x.characters = characters
    BY <2>1
  <2> HIDE DEF x
  <2>3. Named(e, {})
    BY NamedNone DEF e
  <2>4. Divided(x)
    BY <1>2, <2>2, <2>3 DEF Divided
  <2>5. x = d
    BY DEF x, e
  <2> QED BY <2>2, <2>4, <2>5 DEF Q
<1> HIDE DEF F, d, n
<1> DEFINE T == [k \in 0..n |-> W(k)]
           U == UNION {W(k) : k \in 0..n}
           step == [p \in U \X (1..n) |-> Body(p[1], p[2])]
<1> HIDE DEF Body, W
<1>6. \A k \in 1..n : \A x \in T[k - 1] : step[<<x, k>>] \in T[k] /\ step[<<x, k>>] = Body(x, k)
  <2> SUFFICES ASSUME NEW k \in 1..n, NEW x \in T[k - 1] PROVE step[<<x, k>>] \in T[k] /\ step[<<x, k>>] = Body(x, k)
    OBVIOUS
  <2>1. k \in 0..n /\ k - 1 \in 0..n
    BY <1>3
  <2>2. x \in W(k - 1) /\ x \in U
    BY <2>1
  <2>3. step[<<x, k>>] = Body(x, k)
    BY <2>2
  <2>4. Body(x, k) \in W(k)
    BY <1>4, <2>2
  <2> HIDE DEF step
  <2> QED BY <2>1, <2>3, <2>4
<1>7. 0 \in 0..n /\ d \in T[0]
  <2>1. 0 \in 0..n
    BY <1>3
  <2> QED BY <1>5, <2>1
<1> HIDE DEF step, U
<1>8. PICK g : Successive(g, n, d, step) /\ \A k \in 0..n : g[k] \in T[k]
  <2> HIDE DEF T
  <2> QED BY <1>3, <1>6, <1>7, RecursionDefined
<1>9. ASSUME NEW k \in 0..n PROVE g[k] = IF k = 0 THEN d ELSE Body(g[k - 1], k)
  <2>1. k # 0 => k - 1 \in 0..n /\ k \in 1..n
    BY <1>3
  <2>2. g[k] = IF k = 0 THEN d ELSE step[<<g[k - 1], k>>]
    BY <1>8 DEF Successive
  <2>3. k # 0 => g[k - 1] \in T[k - 1]
    BY <1>8, <2>1
  <2> HIDE DEF T
  <2>4. k # 0 => step[<<g[k - 1], k>>] = Body(g[k - 1], k)
    BY <1>6, <2>1, <2>3
  <2> QED BY <2>2, <2>4
<1>10. g = [k \in 0..n |-> IF k = 0 THEN d ELSE Body(g[k - 1], k)]
  <2>1. g = [k \in 0..n |-> g[k]]
    BY <1>8 DEF Successive
  <2> QED BY <1>9, <2>1
<1>11. F = [k \in 0..n |-> IF k = 0 THEN d ELSE Body(F[k - 1], k)]
  BY <1>10, Zenon DEF F
<1>12. \A k \in 0..n : F[k] = IF k = 0 THEN d ELSE Body(F[k - 1], k)
  BY <1>11, Zenon
<1> DEFINE A == {k \in 0..n : F[k] \in W(k)}
<1>13. \A k \in 0..n : k \in A
  <2>1. 0 \in A
    <3>1. F[0] = d
      BY <1>7, <1>12
    <3> QED BY <1>5, <1>7, <3>1
  <2>2. ASSUME NEW k \in 1..n, k - 1 \in A PROVE k \in A
    <3>1. k \in 0..n /\ k # 0 /\ F[k - 1] \in W(k - 1)
      BY <1>3, <2>2
    <3>2. F[k] = Body(F[k - 1], k)
      BY <1>12, <3>1
    <3> QED BY <1>4, <3>1, <3>2
  <2> HIDE DEF A
  <2> QED BY <1>3, <2>1, <2>2, UpTo
<1>14. \A k \in 0..n : F[k] \in W(k)
  BY <1>13
<1>15. F[n] \in A0
  <2>1. n \in 0..n
    BY <1>3
  <2>2. F[n] \in W(n)
    BY <1>14, <2>1
  <2> QED BY <2>2 DEF W
<1> DEFINE x == F[n]
<1> HIDE DEF x
<1>16. x.rows \in Seq(S) /\ Apart(x.rows)
  <2> DEFINE Q == Seq(S)
  <2>1. x \in [rows : Q, words : Q, characters : Q] /\ Divided(x)
    BY <1>15 DEF x
  <2> HIDE DEF Q
  <2>2. x.rows \in Q
    BY <2>1
  <2>3. Apart(x.rows)
    BY <2>1 DEF Divided, Named
  <2> QED BY <2>2, <2>3 DEF Q
<1> QED BY <1>1, <1>16 DEF x

\* An answer has a parse of the input and rows for it.
LEMMA FoundIs ==
  ASSUME NEW in \in Seq(Chars), NEW parsed \in ParsesOf(in)
  PROVE  /\ Found(in, parsed).parsed \in ParsesOf(in) /\ Found(in, parsed).rows \in Seq(RowSet(in))
         /\ Apart(Found(in, parsed).rows)
         /\ \E q \in Seq(RowSet(in)) : Apart(q) /\ Found(in, parsed).rows = DoubleInitialPages(in, q)
<1> DEFINE size == IF mode.expanded THEN 2 * PageSize ELSE PageSize
           limit == IF IsDoubleInitial(in)
                    THEN Greater(size + 1, 2 * ((size \div PageSize) * ((PageSize + 1) \div 2) + 1)) ELSE size + 1
           yes == TRUE
           budget == (IF mode.expanded THEN 4 ELSE 2) * PathBudget
           wider == Parse(in, budget, yes, Never)
           Of(parse) == [parsed |-> parse, rows |-> Generate(parse, limit, yes)]
           f == [wide \in BOOLEAN |-> Of(IF wide THEN wider ELSE parsed)]
           R == RowSet(in)
           Q == {q \in Seq(R) : Apart(q)}
           P == ParsesOf(in)
<1>1. Found(in, parsed) = FoundFrom(in, size, f)
  BY DEF Found
<1>2. limit \in Int
  <2>1. PageSize \in Nat /\ PageSize > 0
    BY EngineConstants
  <2>2. size \in Nat
    BY <2>1
  <2> HIDE DEF size
  <2>3. size \div PageSize \in Int /\ (PageSize + 1) \div 2 \in Int
    BY <2>1, <2>2
  <2> DEFINE u == size \div PageSize
             v == (PageSize + 1) \div 2
  <2> HIDE DEF u, v
  <2>4. 2 * (u * v + 1) \in Int
    BY <2>3 DEF u, v
  <2> DEFINE w == 2 * (u * v + 1)
  <2> HIDE DEF w
  <2>5. (IF IsDoubleInitial(in) THEN Greater(size + 1, w) ELSE size + 1) \in Int
    BY <2>2, <2>4 DEF Greater, w
  <2> QED BY <2>5 DEF u, v, w
<1>3. wider \in P
  <2>1. budget \in Nat
    BY SchemaConstants
  <2> HIDE DEF budget, yes
  <2> QED BY <2>1, ParseIs
<1> HIDE DEF wider, limit, size, yes
<1>4. ASSUME NEW parse \in P PROVE Of(parse).parsed \in P /\ Of(parse).rows \in Q
  <2>1. Generate(parse, limit, yes) \in Q
    BY <1>2, GenerateUsesSyllables
  <2> DEFINE g == Generate(parse, limit, yes)
  <2> HIDE DEF g, P, Q
  <2>2. g \in Q
    BY <2>1 DEF g
  <2>3. [parsed |-> parse, rows |-> g].parsed \in P /\ [parsed |-> parse, rows |-> g].rows \in Q
    BY <2>2
  <2> QED BY <2>3 DEF g
<1> HIDE DEF Of
<1>5. f[FALSE] = Of(parsed) /\ f[TRUE] = Of(wider)
  OBVIOUS
<1> DEFINE strict == Of(parsed)
           wide == Of(wider)
<1>6. strict.parsed \in P /\ strict.rows \in Q /\ wide.parsed \in P /\ wide.rows \in Q
  BY <1>3, <1>4
<1> HIDE DEF f, strict, wide
<1> DEFINE fallback == mode.correct /\ (Len(strict.rows) < size \/ ~StrictEvidence(strict.parsed, strict.rows))
           chosen == IF fallback /\ wide.rows # <<>> THEN wide ELSE strict
<1>7. FoundFrom(in, size, f) = [strict |-> strict.rows, parsed |-> chosen.parsed, rows |-> DoubleInitialPages(in, chosen.rows)]
  BY <1>5 DEF FoundFrom, strict, wide
<1> HIDE DEF fallback
<1>8. chosen.parsed \in P /\ chosen.rows \in Q
  BY <1>6
<1> HIDE DEF chosen
<1> DEFINE rows == chosen.rows
<1>9. rows \in Seq(R) /\ Apart(rows)
  BY <1>8
<1> HIDE DEF rows, R
<1>10. DoubleInitialPages(in, rows) \in Seq(R) /\ Apart(DoubleInitialPages(in, rows))
  BY <1>9, PagesAre
<1>11. \E q \in Seq(R) : Apart(q) /\ DoubleInitialPages(in, rows) = DoubleInitialPages(in, q)
  BY <1>9
<1> DEFINE found == Found(in, parsed)
<1>12. found.parsed = chosen.parsed /\ found.rows = DoubleInitialPages(in, rows)
  BY <1>1, <1>7 DEF rows
<1> HIDE DEF found
<1> QED BY <1>8, <1>10, <1>11, <1>12 DEF R, found

---------------------------------------------------------------------------
(* The preview *)

\* The input as it was typed, without its apostrophes.
LEMMA RawSegmentsAre ==
  ASSUME NEW in \in Seq(Chars)
  PROVE  RawSegments(in) \in Seq(Text)
<1> DEFINE Starts == {k \in DOMAIN in : in[k] # Separator /\ (k = 1 \/ in[k - 1] = Separator)}
           before == {p \in Starts \X Starts : p[1] < p[2]}
           q == InOrder(Starts, before)
           n == Len(in)
           f(k) == Slice(in, k - 1, ChunkEnd(in, k - 1))
<1>1. RawSegments(in) = [i \in DOMAIN q |-> f(q[i])]
  BY DEF RawSegments, MapSeq, OrderedBy
<1>2. n \in Nat /\ Starts \subseteq 1..n
  BY LenProperties
<1>3. IsFiniteSet(Starts)
  <2>1. IsFiniteSet(1..n)
    BY <1>2, FirstNumbers
  <2> HIDE DEF Starts
  <2> QED BY <1>2, <2>1, FS_Subset
<1> HIDE DEF Starts, before
<1>4. q \in Seq(Starts)
  BY <1>3, InOrderIs
<1> HIDE DEF q
<1>5. ASSUME NEW k \in Starts PROVE f(k) \in Text
  <2> DEFINE b == k - 1
             e == ChunkEnd(in, b)
  <2>1. b \in 0..Len(in) /\ b \in Nat
    BY <1>2
  <2> HIDE DEF b
  <2>2. e \in b..Len(in)
    BY <2>1, ChunkEndIs
  <2>3. e \in 0..Len(in)
    BY <1>2, <2>1, <2>2
  <2> HIDE DEF e
  <2>4. Slice(in, b, e) \in Seq(Chars)
    BY <2>1, <2>3, SliceIs
  <2> QED BY <2>4, CharsAre DEF b, e
<1> HIDE DEF f
<1>6. [i \in DOMAIN q |-> f(q[i])] \in Seq(Text)
  <2>1. \A i \in DOMAIN q : q[i] \in Starts
    BY <1>4, LenProperties
  <2>2. [i \in DOMAIN q |-> f(q[i])] \in [DOMAIN q -> Text]
    BY <1>5, <2>1
  <2> QED BY <1>4, <2>2, MapsTo
<1> QED BY <1>1, <1>6

\* What the preview shows.
LEMMA PreviewIs ==
  ASSUME NEW in \in Seq(Chars), NEW parsed \in ParsesOf(in), NEW rows \in Seq(RowSet(in)), NEW correct
  PROVE  Preview(parsed, rows, correct) \in Seq(Text)
<1> DEFINE of == IF rows = <<>> THEN <<>> ELSE rows[1].segs
           Q == Seq(Text)
           paths == parsed.paths
           yes == {i \in DOMAIN paths : paths[i].kind = Exact}
           exact == Those(paths, yes)
           open == {i \in DOMAIN exact : ~AllComplete(exact[i])}
           unfinished == Those(exact, open)
           segs == SourceSegments(parsed.in, unfinished[1])
           apart == {k \in DOMAIN segs : k > Len(of) \/ segs[k] # of[k]}
           first == Min(apart)
           raw == RawSegments(parsed.in)
           known == SourceSegments(parsed.in, exact[1])
           Long == IsLong(parsed.in) /\ of # <<>>
           Worthy == unfinished[1].syl[first].complete /\ Len(segs[first]) >= 2
           none == <<>>
           chosen ==
             IF Long THEN of
             ELSE IF ~correct THEN IF exact # <<>> THEN known ELSE raw
             ELSE IF unfinished = <<>> THEN IF of = <<>> THEN raw ELSE none
             ELSE IF of = <<>> THEN segs
             ELSE IF apart = {} THEN none
             ELSE IF Worthy THEN segs
             ELSE none
<1>1. Preview(parsed, rows, correct) = IF chosen = <<>> THEN of ELSE chosen
  BY DEF Preview, Selected
<1>2. parsed.in = in /\ paths \in Seq(Paths(in))
  BY DEF ParsesOf
<1>3. of \in Q /\ none \in Q
  <2>1. CASE rows = <<>>
    BY <2>1, EmptySeq
  <2>2. CASE rows # <<>>
    <3> DEFINE x == rows[1]
               R == RowSet(in)
    <3>1. Len(rows) \in Nat /\ 1 \in 1..Len(rows)
      BY <2>2, EmptySeq, LenProperties
    <3>2. x \in RowSet(in)
      <4> HIDE DEF R
      <4>1. rows \in Seq(R)
        BY DEF R
      <4>2. rows[1] \in R
        BY <3>1, <4>1, ElementOfSeq
      <4> QED BY <4>2 DEF R
    <3> HIDE DEF x
    <3>3. x.segs \in Q
      BY <3>2, RowHas
    <3> QED BY <2>2, <3>3, EmptySeq DEF x
  <2> QED BY <2>1, <2>2
<1>4. raw \in Q
  BY <1>2, RawSegmentsAre
<1> DEFINE P == Paths(in)
<1>5. exact \in Seq(P)
  <2>1. yes \in SUBSET DOMAIN paths /\ paths \in Seq(P)
    BY <1>2
  <2> HIDE DEF yes, paths, P
  <2> QED BY <2>1, ThoseAre
<1> HIDE DEF exact, P
<1>6. unfinished \in Seq(P)
  <2>1. open \in SUBSET DOMAIN exact
    OBVIOUS
  <2> HIDE DEF open
  <2> QED BY <1>5, <2>1, ThoseAre
<1> HIDE DEF unfinished
<1>7. ASSUME NEW q \in Seq(P), q # <<>> PROVE SourceSegments(parsed.in, q[1]) \in Q
  <2> DEFINE p == q[1]
  <2>1. Len(q) \in Nat /\ 1 \in 1..Len(q)
    BY <1>7, EmptySeq, LenProperties
  <2>2. p \in P
    BY <2>1, ElementOfSeq
  <2> HIDE DEF p
  <2>3. SourceSegments(in, p) \in Q
    BY <2>2, SourceSegmentsAre DEF P
  <2> QED BY <1>2, <2>3 DEF p
<1>8. (exact # <<>> => known \in Q) /\ (unfinished # <<>> => segs \in Q)
  BY <1>5, <1>6, <1>7
<1> HIDE DEF Worthy, Long, known, segs, apart, raw, none, of, Q
<1>9. chosen \in Q
  BY <1>3, <1>4, <1>8
<1> HIDE DEF chosen
<1> QED BY <1>1, <1>3, <1>9 DEF Q

\* The segments of a preview in one text.
LEMMA JoinedIs ==
  ASSUME NEW segs \in Seq(Text)
  PROVE  Joined(segs) \in Seq(Nat)
<1>1. CASE segs = <<>>
  BY <1>1, EmptySeq DEF Joined
<1>2. CASE segs # <<>>
  <2> DEFINE With(t) == <<Separator>> \o t
             g == [i \in DOMAIN segs |-> With(segs[i])]
             N == Nat
             T == Seq(N)
  <2>1. ASSUME NEW t \in T PROVE With(t) \in T /\ With(t) # <<>>
    <3> DEFINE x == <<Separator>>
    <3>1. x \in Seq(N) /\ Len(x) = 1
      BY CharsAre, SingleIs
    <3> HIDE DEF x, N
    <3>2. x \o t \in Seq(N) /\ Len(x \o t) = Len(x) + Len(t) /\ Len(t) \in Nat
      BY <3>1, ConcatProperties, LenProperties
    <3>3. Len(<<>>) = 0
      OBVIOUS
    <3>4. Len(x \o t) # 0
      BY <3>1, <3>2
    <3> QED BY <3>2, <3>3, <3>4 DEF x
  <2> HIDE DEF With
  <2>2. segs \in Seq(T)
    BY DEF Text
  <2> HIDE DEF T
  <2>3. [i \in DOMAIN segs |-> With(segs[i])] \in Seq(T)
    <3>1. \A i \in DOMAIN segs : segs[i] \in T
      BY <2>2, LenProperties
    <3>2. [i \in DOMAIN segs |-> With(segs[i])] \in [DOMAIN segs -> T]
      BY <2>1, <3>1
    <3> QED BY <2>2, <3>2, MapsTo
  <2>4. Len(g) = Len(segs) /\ Len(g) \in Nat /\ Len(g) # 0
    <3>1. \A i \in DOMAIN segs : segs[i] \in T
      BY <2>2, LenProperties
    <3>2. g \in [DOMAIN segs -> T]
      BY <2>1, <3>1
    <3> HIDE DEF g
    <3>3. Len(g) = Len(segs) /\ Len(segs) \in Nat
      BY <2>2, <3>2, MapsTo
    <3>4. Len(segs) # 0
      BY <1>2, <2>2, EmptySeq
    <3> QED BY <3>3, <3>4
  <2>5. g[Len(g)] # <<>>
    <3> DEFINE n == Len(g)
    <3>1. n \in DOMAIN segs
      BY <2>2, <2>4, LenProperties
    <3> HIDE DEF n
    <3>2. g[n] = With(segs[n]) /\ segs[n] \in T
      BY <2>2, <3>1, ElementOfSeq, LenProperties
    <3> QED BY <2>1, <3>2 DEF n
  <2> DEFINE all == g
  <2> HIDE DEF g
  <2>6. g \in Seq(T) /\ g # <<>>
    <3>1. Len(<<>>) = 0
      OBVIOUS
    <3> QED BY <2>3, <2>4, <3>1 DEF g
  <2>7. PICK f \in Seq(T), t \in T : g = Append(f, t)
    BY <2>6, SequenceEmptyOrAppend
  <2>8. t # <<>>
    <3>1. g[Len(f) + 1] = t /\ Len(g) = Len(f) + 1
      BY <2>7, AppendProperties
    <3> QED BY <2>5, <3>1
  <2>9. FlattenSeq(g) = FlattenSeq(f) \o t /\ FlattenSeq(f) \in Seq(N)
    BY <2>7, FlattenMore, FlattenIs DEF T
  <2> DEFINE h == FlattenSeq(f)
             whole == h \o t
  <2>10. h \in Seq(N) /\ t \in Seq(N)
    BY <2>9 DEF T
  <2> HIDE DEF h
  <2>11. whole \in Seq(N) /\ whole # <<>>
    <3>1. whole \in Seq(N) /\ Len(whole) = Len(h) + Len(t) /\ Len(h) \in Nat /\ Len(t) \in Nat
      BY <2>10, ConcatProperties, LenProperties
    <3>2. Len(t) # 0
      BY <2>8, <2>10, EmptySeq
    <3>3. Len(<<>>) = 0
      OBVIOUS
    <3>4. Len(whole) # 0
      BY <3>1, <3>2
    <3> QED BY <3>1, <3>3, <3>4
  <2> HIDE DEF whole
  <2>12. Tail(whole) \in Seq(N)
    BY <2>11, HeadTailProperties
  <2>13. Joined(segs) = Tail(FlattenSeq(g))
    BY <1>2 DEF Joined, MapSeq, g, With
  <2> QED BY <2>9, <2>12, <2>13 DEF h, whole
<1> QED BY <1>1, <1>2

\* The places of the letters of a text.
Lettered(s) == {i \in DOMAIN s : s[i] # Separator}

\* A preview in the letters of the input is a text.
LEMMA RespelledIs ==
  ASSUME NEW in \in Seq(Chars), NEW text \in Seq(Nat)
  PROVE  Respelled(in, text) \in Seq(Nat)
<1> DEFINE before(k) == Len(LettersOf(Take(text, k)))
           letters == LettersOf(in)
           f == [k \in DOMAIN text |-> IF text[k] = Separator THEN Separator ELSE letters[before(k)]]
<1>1. ASSUME NEW S, NEW s \in Seq(S) PROVE LettersOf(s) = Those(s, Lettered(s)) /\ Lettered(s) \in SUBSET DOMAIN s
  BY DEF LettersOf, Selected, Lettered
<1>2. letters \in Seq(Chars) /\ Len(letters) \in Nat
  <2>1. Lettered(in) \in SUBSET DOMAIN in /\ letters = Those(in, Lettered(in))
    BY <1>1
  <2> HIDE DEF letters
  <2>2. letters \in Seq(Chars)
    BY <2>1, ThoseAre
  <2> QED BY <2>2, LenProperties
<1>3. Respelled(in, text) = IF Len(LettersOf(text)) > Len(letters) THEN text ELSE f
  BY DEF Respelled
<1> HIDE DEF letters
<1>4. SUFFICES ASSUME ~ (Len(LettersOf(text)) > Len(letters)) PROVE f \in Seq(Nat)
  BY <1>3
<1> DEFINE L == Lettered(text)
<1>5. Len(LettersOf(text)) = Cardinality(L) /\ Cardinality(L) \in Nat /\ IsFiniteSet(L) /\ L \subseteq 1..Len(text)
  <2>1. L \in SUBSET DOMAIN text /\ LettersOf(text) = Those(text, L)
    BY <1>1
  <2> HIDE DEF L
  <2>2. DOMAIN text = 1..Len(text) /\ Len(text) \in Nat
    BY LenProperties
  <2>3. IsFiniteSet(1..Len(text))
    BY <2>2, FirstNumbers
  <2>4. IsFiniteSet(L)
    BY <2>1, <2>2, <2>3, FS_Subset
  <2> QED BY <2>1, <2>2, <2>4, ThoseAre
<1>6. ASSUME NEW k \in L PROVE before(k) \in 1..Len(letters)
  <2> DEFINE t == Take(text, k)
             M == Lettered(t)
  <2>1. k \in Nat /\ k >= 1 /\ k <= Len(text) /\ Len(text) \in Nat
    BY <1>5, LenProperties
  <2>2. t \in Seq(Nat) /\ Len(t) = k /\ \A i \in 1..k : t[i] = text[i]
    BY <2>1, TakeIs DEF Lesser
  <2> HIDE DEF t
  <2>3. before(k) = Cardinality(M) /\ Cardinality(M) \in Nat
    <3>1. M \in SUBSET DOMAIN t /\ LettersOf(t) = Those(t, M)
      BY <1>1, <2>2
    <3> HIDE DEF M
    <3>2. Len(LettersOf(t)) = Cardinality(M) /\ Cardinality(M) \in Nat
      BY <2>2, <3>1, ThoseAre
    <3> QED BY <3>2 DEF t
  <2>4. DOMAIN t = 1..k /\ DOMAIN text = 1..Len(text)
    BY <2>2, LenProperties
  <2>5. M \in SUBSET L
    BY <2>1, <2>2, <2>4 DEF Lettered
  <2>6. k \in M
    BY <2>1, <2>2, <2>4 DEF Lettered
  <2> HIDE DEF before, M, L
  <2>7. Cardinality(M) <= Cardinality(L) /\ IsFiniteSet(M)
    BY <1>5, <2>5, FS_Subset
  <2>8. Cardinality(M) # 0
    BY <2>6, <2>7, FS_EmptySet
  <2>9. Cardinality(L) <= Len(letters)
    BY <1>2, <1>4, <1>5
  <2> QED BY <1>2, <1>5, <2>3, <2>7, <2>8, <2>9
<1> HIDE DEF before
<1>7. \A k \in DOMAIN text : f[k] \in Nat
  <2> SUFFICES ASSUME NEW k \in DOMAIN text PROVE f[k] \in Nat
    OBVIOUS
  <2>1. CASE text[k] = Separator
    BY <2>1, CharsAre
  <2>2. CASE text[k] # Separator
    <3>1. k \in L
      BY <2>2 DEF Lettered
    <3> DEFINE j == before(k)
    <3>2. j \in 1..Len(letters)
      BY <1>6, <3>1
    <3> HIDE DEF j
    <3>3. letters[j] \in Chars
      BY <1>2, <3>2, ElementOfSeq
    <3>4. letters[j] \in Nat
      BY <3>3, CharsAre
    <3> QED BY <2>2, <3>4 DEF j
  <2> QED BY <2>1, <2>2
<1>8. f \in [DOMAIN text -> Nat]
  <2>1. f = [k \in DOMAIN text |-> f[k]]
    OBVIOUS
  <2> HIDE DEF f
  <2> QED BY <1>7, <2>1
<1> HIDE DEF f
<1> QED BY <1>8, MapsTo

\* The first of some places of a preview, if there is one.
LEMMA LeastIs ==
  ASSUME NEW n \in Nat, NEW P \in SUBSET (0..n)
  PROVE  Least(P, n) \in 0..n
<1>1. CASE P = {}
  BY <1>1 DEF Least
<1>2. CASE P # {}
  <2>1. P \subseteq Nat /\ P \subseteq Int
    OBVIOUS
  <2>2. PICK k \in P : \A l \in P : ~ (l < k)
    BY <1>2, <2>1, LeastNumber
  <2>3. \A l \in P : k <= l
    BY <2>1, <2>2
  <2> DEFINE x == CHOOSE k1 \in P : \A l \in P : k1 <= l
  <2>4. x \in P
    BY <2>3
  <2>5. Least(P, n) = x
    BY <1>2 DEF Least
  <2> QED BY <2>4, <2>5
<1> QED BY <1>1, <1>2

\* An edited preview is a text.
LEMMA PreviewInsertedIs ==
  ASSUME NEW in, Len(in) \in Nat, NEW p \in Seq(Nat), NEW caret, NEW c \in Nat
  PROVE  PreviewInserted(in, p, caret, c) \in Seq(Nat)
<1> DEFINE raw == Raw(in, p)
           n == Len(p)
           P == {k \in DOMAIN raw : raw[k] >= Lesser(caret, Len(in))}
           j == PreviewIndex(in, p, caret)
           N == Nat
<1>1. n \in Nat
  BY LenProperties
<1>2. DOMAIN raw = 0..n
  BY <1>1, RawIs DEF Consumed
<1>3. j = Least(P, n)
  BY DEF PreviewIndex
<1>4. P \in SUBSET (0..n)
  BY <1>2
<1> HIDE DEF P, j, raw
<1>5. j \in 0..n
  BY <1>1, <1>3, <1>4, LeastIs
<1> DEFINE i == j + 1
<1>6. i \in 1..Len(p) + 1
  BY <1>1, <1>5
<1> HIDE DEF i, n, N
<1>7. InsertAt(p, i, c) \in Seq(N)
  BY <1>6, InsertedIs DEF N
<1> QED BY <1>7 DEF PreviewInserted, i, j, N

\* A preview with one character erased is a text.
LEMMA PreviewErasedIs ==
  ASSUME NEW in, Len(in) \in Nat, NEW p \in Seq(Nat), NEW caret
  PROVE  PreviewErased(in, p, caret) \in Seq(Nat)
<1> DEFINE raw == Raw(in, p)
           n == Len(p)
           index == caret - 1
           P == {k \in 0..n - 1 : index < Len(in) /\ raw[k] = index /\ raw[k + 1] = index + 1}
           j == PreviewCharacter(in, p, index)
<1>1. n \in Nat
  BY LenProperties
<1>2. j = Least(P, n)
  BY DEF PreviewCharacter
<1>3. P \in SUBSET (0..n)
  BY <1>1
<1> HIDE DEF P, j, raw
<1>4. j \in 0..n
  BY <1>1, <1>2, <1>3, LeastIs
<1>5. CASE p # <<>> /\ j < n
  <2> DEFINE i == j + 1
  <2>1. i \in 1..Len(p)
    BY <1>1, <1>4, <1>5
  <2> HIDE DEF i
  <2>2. RemoveAt(p, i) \in Seq(Nat)
    BY <2>1, RemovedIs
  <2> QED BY <1>5, <2>2 DEF PreviewErased, i, j
<1>6. CASE ~ (p # <<>> /\ j < n)
  BY <1>6 DEF PreviewErased, j
<1> QED BY <1>5, <1>6

\* The runs between the apostrophes of a well-formed input read it.
LEMMA RawCovers ==
  ASSUME NEW in \in Seq(Chars), WellFormed(in)
  PROVE  Covers(in, RawSegments(in))
<1> DEFINE Starts == {k \in DOMAIN in : in[k] # Separator /\ (k = 1 \/ in[k - 1] = Separator)}
           q == InOrder(Starts, {p \in Starts \X Starts : p[1] < p[2]})
           l == Len(in)
           m == Len(q)
           segs == [i \in DOMAIN q |-> Slice(in, q[i] - 1, ChunkEnd(in, q[i] - 1))]
           a == [i \in DOMAIN q |-> q[i] - 1]
           b == [i \in DOMAIN q |-> ChunkEnd(in, q[i] - 1)]
<1>1. RawSegments(in) = segs
  BY DEF RawSegments, MapSeq, OrderedBy
<1>2. /\ l \in Nat /\ l >= 1 /\ DOMAIN in = 1..l /\ in[1] # Separator /\ in[l] # Separator
      /\ \A k \in 1..l - 1 : ~ (in[k] = Separator /\ in[k + 1] = Separator)
  BY WellFormedIs, LenProperties
<1>3. Starts \subseteq 1..l
  BY <1>2
<1>4. \A k \in 1..l : k \in Starts <=> in[k] # Separator /\ (k = 1 \/ in[k - 1] = Separator)
  BY <1>2
<1>5. 1 \in Starts
  BY <1>2, <1>4
<1> HIDE DEF Starts, l
<1>6. Ascending(q, Starts)
  BY <1>2, <1>3, NumbersInOrder
<1> HIDE DEF q
<1>7. /\ m \in Nat /\ DOMAIN q = 1..m
      /\ \A i \in 1..m : q[i] \in Starts /\ q[i] \in 1..l
      /\ \A i \in 1..m : \A j \in 1..i - 1 : q[j] < q[i]
      /\ \A x \in Starts : \E i \in 1..m : q[i] = x
  <2>1. q \in Seq(Starts)
    BY <1>6 DEF Ascending
  <2>2. m \in Nat /\ DOMAIN q = 1..m /\ \A i \in 1..m : q[i] \in Starts
    BY <2>1, LenProperties, ElementOfSeq
  <2> QED BY <1>3, <1>6, <2>2 DEF Ascending
<1>8. \A i \in 1..m : segs[i] = Slice(in, a[i], b[i]) /\ a[i] = q[i] - 1 /\ b[i] = ChunkEnd(in, q[i] - 1)
  BY <1>7
<1>9. segs \in Seq(Text) /\ Len(segs) = m
  <2>1. segs \in Seq(Text)
    BY <1>1, RawSegmentsAre
  <2>2. DOMAIN segs = 1..m
    BY <1>7
  <2> HIDE DEF segs
  <2> QED BY <1>7, <2>1, <2>2, LenProperties
<1> HIDE DEF segs, a, b, m
<1>10. ASSUME NEW i \in 1..m
       PROVE  /\ a[i] \in Nat /\ q[i] = a[i] + 1 /\ b[i] \in a[i]..l /\ Plain(in, a[i], b[i])
              /\ b[i] # l => in[b[i] + 1] = Separator /\ b[i] + 2 \in Starts
  <2> DEFINE x == a[i]
             y == b[i]
             z == q[i]
  <2>1. z \in 1..l /\ x = z - 1 /\ y = ChunkEnd(in, x)
    BY <1>7, <1>8
  <2> HIDE DEF x, y, z
  <2>2. x \in 0..Len(in) /\ x \in Nat /\ z = x + 1
    BY <1>2, <2>1 DEF l
  <2>3. y \in x..l /\ Plain(in, x, y) /\ (y # l => in[y + 1] = Separator)
    BY <2>1, <2>2, ChunkEndIs DEF l
  <2>4. ASSUME y # l PROVE y + 2 \in Starts
    <3>1. in[y + 1] = Separator /\ y + 1 \in 1..l
      BY <1>2, <2>2, <2>3, <2>4
    <3>2. y + 1 # l
      BY <1>2, <3>1
    <3>3. y + 1 \in 1..l - 1 /\ y + 1 + 1 = y + 2 /\ y + 2 \in 1..l /\ (y + 2) - 1 = y + 1
      BY <1>2, <2>2, <2>3, <3>1, <3>2
    <3>4. in[y + 2] # Separator
      BY <1>2, <3>1, <3>3
    <3>5. in[(y + 2) - 1] = Separator
      BY <3>1, <3>3
    <3> QED BY <1>4, <3>3, <3>4, <3>5
  <2> QED BY <2>2, <2>3, <2>4 DEF x, y, z
<1>11. m >= 1 /\ 1 \in 1..m /\ q[1] = 1
  <2>1. PICK i \in 1..m : q[i] = 1
    BY <1>5, <1>7
  <2>2. m >= 1 /\ 1 \in 1..m
    BY <1>7, <2>1
  <2>3. q[1] \in 1..l
    BY <1>7, <2>2
  <2>4. i # 1 => q[1] < q[i]
    <3>1. ASSUME i # 1 PROVE 1 \in 1..i - 1
      BY <1>7, <3>1
    <3> QED BY <1>7, <3>1
  <2> QED BY <1>2, <2>1, <2>2, <2>3, <2>4
<1>12. a[1] = 0
  BY <1>10, <1>11
<1>13. b[m] = l
  <2> SUFFICES ASSUME b[m] # l PROVE FALSE
    OBVIOUS
  <2> DEFINE x == a[m]
             y == b[m]
             z == q[m]
  <2>1. m \in 1..m
    BY <1>7, <1>11
  <2>2. x \in Nat /\ z = x + 1 /\ y \in x..l /\ y + 2 \in Starts
    BY <1>10, <2>1
  <2> HIDE DEF x, y, z
  <2>3. PICK j \in 1..m : q[j] = y + 2
    BY <1>7, <2>2
  <2>4. j # m => q[j] < z
    <3>1. ASSUME j # m PROVE j \in 1..m - 1
      BY <1>7, <3>1
    <3> QED BY <1>7, <2>1, <3>1 DEF z
  <2>5. y \in Nat /\ y >= x
    BY <1>2, <2>2
  <2>6. j # m
    <3> SUFFICES ASSUME j = m PROVE FALSE
      OBVIOUS
    <3>1. z = y + 2
      BY <2>3 DEF z
    <3> QED BY <2>2, <2>5, <3>1
  <2>7. y + 2 < x + 1
    BY <2>2, <2>3, <2>4, <2>6
  <2> QED BY <2>2, <2>5, <2>7
<1>14. ASSUME NEW k \in 1..m - 1 PROVE Follows(in, b[k], a[k + 1])
  <2> DEFINE n == k + 1
             x == a[k]
             y == b[k]
             z == q[k]
             u == q[n]
  <2>1. k \in 1..m /\ n \in 1..m /\ k \in 1..n - 1
    BY <1>7
  <2>2. x \in Nat /\ z = x + 1 /\ y \in x..l /\ Plain(in, x, y) /\ (y # l => in[y + 1] = Separator /\ y + 2 \in Starts)
    BY <1>10, <2>1
  <2> HIDE DEF n
  <2>3. u \in 1..l /\ u \in Starts /\ z < u /\ a[n] \in Nat /\ u = a[n] + 1
    BY <1>7, <1>10, <2>1
  <2> HIDE DEF x, y, z, u
  <2>4. y \in Nat /\ y >= x /\ y <= l /\ u \in Nat
    BY <1>2, <2>2, <2>3
  <2>5. in[u - 1] = Separator
    <3>1. u # 1
      BY <2>2, <2>3, <2>4
    <3> QED BY <1>4, <2>3, <3>1
  <2>6. ~ (u - 1 \in x + 1..y)
    BY <2>2, <2>5 DEF Plain
  <2>7. u >= y + 2
    BY <2>2, <2>3, <2>4, <2>6
  <2>8. y # l
    BY <1>2, <2>3, <2>4, <2>7
  <2>9. PICK j \in 1..m : q[j] = y + 2
    BY <1>7, <2>2, <2>8
  <2>10. u <= y + 2
    <3>1. j > k
      <4> SUFFICES ASSUME ~ (j > k) PROVE FALSE
        OBVIOUS
      <4>1. j = k \/ j \in 1..k - 1
        BY <1>7, <2>1
      <4>2. q[j] = z \/ q[j] < z
        <5>1. CASE j = k
          BY <5>1 DEF z
        <5>2. CASE j \in 1..k - 1
          BY <1>7, <2>1, <5>2 DEF z
        <5> QED BY <4>1, <5>1, <5>2
      <4> QED BY <2>2, <2>4, <2>9, <4>2
    <3>2. j = n \/ n \in 1..j - 1
      BY <1>7, <2>1, <3>1 DEF n
    <3>3. CASE j = n
      BY <2>4, <2>9, <3>3 DEF u
    <3>4. CASE n \in 1..j - 1
      <4>1. q[n] < q[j]
        BY <1>7, <2>9, <3>4
      <4> QED BY <2>4, <2>9, <4>1 DEF u
    <3> QED BY <3>2, <3>3, <3>4
  <2>11. a[n] = y + 1 /\ in[y + 1] = Separator
    BY <2>2, <2>3, <2>4, <2>7, <2>8, <2>10
  <2>12. Follows(in, y, a[n])
    BY <2>11 DEF Follows
  <2> QED BY <2>12 DEF y, n
<1>15. \A i \in 1..m : a[i] \in Nat /\ b[i] \in a[i]..l /\ segs[i] = Slice(in, a[i], b[i])
  BY <1>8, <1>10
<1>16. Reads(in, segs, a, b)
  BY <1>9, <1>12, <1>13, <1>14, <1>15 DEF Reads, l
<1>17. segs # <<>>
  BY <1>9, <1>11, EmptySeq
<1> QED BY <1>1, <1>9, <1>16, <1>17 DEF Covers

\* A sequence that begins with one of some rows.
Leads(q, W) == q # <<>> /\ q[1] \in W

\* What a sequence begins with, it still begins with when more follows.
LEMMA JoinedLeads ==
  ASSUME NEW S, NEW a \in Seq(S), NEW b \in Seq(S), NEW W
  PROVE  a \o b \in Seq(S) /\ (Leads(a, W) => Leads(a \o b, W)) /\ (a = <<>> /\ Leads(b, W) => Leads(a \o b, W))
<1>1. /\ a \o b \in Seq(S) /\ Len(a \o b) = Len(a) + Len(b) /\ Len(a) \in Nat /\ Len(b) \in Nat
      /\ \A i \in 1..Len(a) : (a \o b)[i] = a[i]
  BY JoinedAt
<1>2. ASSUME Leads(a, W) PROVE Leads(a \o b, W)
  <2> DEFINE q == a \o b
  <2>1. a # <<>> /\ a[1] \in W
    BY <1>2 DEF Leads
  <2>2. Len(a) # 0
    BY <2>1, EmptySeq
  <2>3. 1 \in 1..Len(a) /\ Len(q) # 0
    BY <1>1, <2>2
  <2>4. q[1] = a[1]
    BY <1>1, <2>3
  <2> HIDE DEF q
  <2>5. Len(<<>>) = 0
    OBVIOUS
  <2> QED BY <2>1, <2>3, <2>4, <2>5 DEF Leads, q
<1>3. ASSUME a = <<>>, Leads(b, W) PROVE Leads(a \o b, W)
  <2>1. <<>> \o b = b
    BY ConcatEmptySeq
  <2> QED BY <1>3, <2>1
<1> QED BY <1>1, <1>2, <1>3

\* While there are words the first page begins with one, and more pages leave it there.
LEMMA PageLeads ==
  ASSUME NEW S, NEW acc \in [rows : Seq(S), words : Seq(S), characters : Seq(S)], NEW W,
         (acc.rows = <<>> /\ Leads(acc.words, W)) \/ Leads(acc.rows, W)
  PROVE  Leads(NextPage(acc).rows, W)
<1> DEFINE Q == Seq(S)
           words == acc.words
           characters == acc.characters
           half == (PageSize + 1) \div 2
           other == PageSize \div 2
           left == Lesser(Len(words), half)
           right == Lesser(Len(characters), other)
           roomW == IF right = Len(characters) THEN PageSize - left - right ELSE 0
           roomC == IF left = Len(words) THEN PageSize - left - right ELSE 0
           moreW == Lesser(Len(words) - left, roomW)
           moreC == Lesser(Len(characters) - right, roomC)
           w0 == left + 1
           w1 == left + moreW
           w2 == left + moreW + 1
           c0 == right + 1
           c1 == right + moreC
           c2 == right + moreC + 1
           a == Take(words, left)
           b == Take(characters, right)
           c == SubSeq(words, w0, w1)
           d == SubSeq(characters, c0, c1)
           e == SubSeq(words, w2, Len(words))
           f == SubSeq(characters, c2, Len(characters))
           rows == acc.rows \o a \o b \o c \o d
<1>1. NextPage(acc) = [rows |-> rows, words |-> e, characters |-> f]
  BY DEF NextPage
<1>2. NextPage(acc).rows = rows
  <2> HIDE DEF rows, e, f
  <2> QED BY <1>1
<1> HIDE DEF e, f
<1>3. acc.rows \in Q /\ words \in Q /\ characters \in Q
  <2>1. acc \in [rows : Q, words : Q, characters : Q]
    OBVIOUS
  <2> HIDE DEF Q
  <2>2. acc.rows \in Q /\ acc.words \in Q /\ acc.characters \in Q
    BY <2>1
  <2> QED BY <2>2
<1>4. (acc.rows = <<>> /\ Leads(words, W)) \/ Leads(acc.rows, W)
  OBVIOUS
<1> HIDE DEF words, characters
<1>5. Len(words) \in Nat /\ Len(characters) \in Nat
  BY <1>3, LenProperties
<1>6. half \in Nat /\ half >= 1 /\ other \in Nat /\ half + other = PageSize /\ PageSize \in Nat
  BY EngineConstants
<1> HIDE DEF half, other
<1>7. /\ left \in Nat /\ left <= Len(words) /\ left <= half /\ (Len(words) # 0 => left >= 1)
      /\ right \in Nat /\ right <= Len(characters) /\ right <= other
  BY <1>5, <1>6 DEF Lesser
<1>8. Leads(words, W) => Leads(a, W)
  <2> SUFFICES ASSUME Leads(words, W) PROVE Leads(a, W)
    OBVIOUS
  <2>1. words # <<>> /\ words[1] \in W
    BY DEF Leads
  <2>2. left >= 1
    BY <1>3, <1>7, <2>1, EmptySeq
  <2> HIDE DEF left
  <2>3. Lesser(left, Len(words)) = left
    BY <1>5, <1>7 DEF Lesser
  <2>4. a \in Seq(S) /\ Len(a) = left /\ \A i \in 1..left : a[i] = words[i]
    BY <1>3, <1>7, <2>3, TakeIs
  <2> HIDE DEF a
  <2>5. a[1] = words[1] /\ Len(a) # 0
    BY <1>7, <2>2, <2>4
  <2>6. Len(<<>>) = 0
    OBVIOUS
  <2> QED BY <2>1, <2>5, <2>6 DEF Leads
<1> HIDE DEF left, right
<1>9. roomW \in Nat /\ roomC \in Nat
  BY <1>5, <1>6, <1>7
<1> HIDE DEF roomW, roomC
<1>10. moreW \in Nat /\ moreW <= Len(words) - left /\ moreC \in Nat /\ moreC <= Len(characters) - right
  BY <1>5, <1>7, <1>9 DEF Lesser
<1> HIDE DEF moreW, moreC
<1>11. /\ w0 \in Nat /\ w0 >= 1 /\ w1 \in Int /\ w1 <= Len(words)
       /\ c0 \in Nat /\ c0 >= 1 /\ c1 \in Int /\ c1 <= Len(characters)
  BY <1>5, <1>7, <1>10
<1> HIDE DEF w0, w1, c0, c1
<1>12. a \in Q /\ b \in Q
  BY <1>3, <1>7, TakeIs
<1>13. c \in Q /\ d \in Q
  BY <1>3, <1>11, PartIs
<1> HIDE DEF a, b, c, d
<1> DEFINE j0 == acc.rows
           j1 == j0 \o a
           j2 == j1 \o b
           j3 == j2 \o c
           j4 == j3 \o d
<1>14. rows = j4
  OBVIOUS
<1>15. j0 \in Seq(S) /\ ((j0 = <<>> /\ Leads(a, W)) \/ Leads(j0, W))
  BY <1>3, <1>4, <1>8
<1> HIDE DEF j0
<1>16. j1 \in Seq(S) /\ Leads(j1, W)
  BY <1>12, <1>15, JoinedLeads
<1> HIDE DEF j1
<1>17. j2 \in Seq(S) /\ Leads(j2, W)
  BY <1>12, <1>16, JoinedLeads
<1> HIDE DEF j2
<1>18. j3 \in Seq(S) /\ Leads(j3, W)
  BY <1>13, <1>17, JoinedLeads
<1> HIDE DEF j3
<1>19. j4 \in Seq(S) /\ Leads(j4, W)
  BY <1>13, <1>18, JoinedLeads
<1> HIDE DEF j4, rows
<1> QED BY <1>2, <1>14, <1>19

\* So if two initials have a word at all, the first row is one.
LEMMA PagesLead ==
  ASSUME NEW S, NEW q \in Seq(S), Apart(q), NEW in, IsDoubleInitial(in),
         NEW row \in ToSet(DoubleInitialPages(in, q)), row.used = Len(in)
  PROVE  Leads(DoubleInitialPages(in, q), {r \in S : r.used = Len(in)})
<1> DEFINE yes == {i \in DOMAIN q : q[i].used = Len(in)}
           no == {i \in DOMAIN q : q[i].used # Len(in)}
           words == Those(q, yes)
           characters == Those(q, no)
           W0 == {r \in S : r.used = Len(in)}
           Good(acc) == (acc.rows = <<>> /\ Leads(acc.words, W0)) \/ Leads(acc.rows, W0)
           A0 == {acc \in [rows : Seq(S), words : Seq(S), characters : Seq(S)] : Divided(acc) /\ Good(acc)}
           n == Len(words) + Len(characters)
           d == [rows |-> <<>>, words |-> words, characters |-> characters]
           Body(acc, k) == NextPage(acc)
           W(k) == A0
           F == CHOOSE f : f = [k \in 0..n |-> IF k = 0 THEN d ELSE Body(f[k - 1], k)]
<1>1. DoubleInitialPages(in, q) = F[n].rows
  BY DEF DoubleInitialPages, Pages, Selected
<1>2. /\ words \in Seq(S) /\ characters \in Seq(S)
      /\ \E B, C : Named(words, B) /\ Named(characters, C) /\ B \cap C = {}
  <2>1. yes \in SUBSET DOMAIN q /\ no \in SUBSET DOMAIN q /\ yes \cap no = {}
    OBVIOUS
  <2> HIDE DEF yes, no
  <2>2. Named(words, NamesAt(q, yes)) /\ Named(characters, NamesAt(q, no))
    BY <2>1, NamedThose
  <2>3. NamesAt(q, yes) \cap NamesAt(q, no) = {}
    BY <2>1, NamesApart
  <2>4. words \in Seq(S) /\ characters \in Seq(S)
    BY <2>1, ThoseAre
  <2> QED BY <2>2, <2>3, <2>4
<1>3. \E i \in DOMAIN q : q[i].used = Len(in)
  <2> SUFFICES ASSUME \A i \in DOMAIN q : q[i].used # Len(in) PROVE FALSE
    OBVIOUS
  <2> DEFINE V == {r \in S : r.used # Len(in)}
             p == DoubleInitialPages(in, q)
  <2>1. \A i \in 1..Len(q) : q[i] \in V
    BY LenProperties, ElementOfSeq
  <2>2. DOMAIN q = 1..Len(q) /\ Len(q) \in Nat
    BY LenProperties
  <2>3. \A r \in V : r.used # Len(in)
    OBVIOUS
  <2> HIDE DEF V
  <2>4. q \in Seq(V)
    <3>1. q = [i \in 1..Len(q) |-> q[i]]
      BY LenProperties
    <3> QED BY <2>1, <2>2, <3>1, IsASeq
  <2>5. p \in Seq(V)
    BY <2>4, PagesAre
  <2>6. row \in ToSet(p)
    OBVIOUS
  <2> HIDE DEF p
  <2>7. row \in V
    BY <2>5, <2>6, OwnElements
  <2> QED BY <2>3, <2>7
<1>4. Leads(words, W0)
  <2>1. yes \in SUBSET DOMAIN q /\ yes # {}
    BY <1>3
  <2>2. \A i \in yes : q[i] \in W0
    BY ElementOfSeq, LenProperties
  <2> HIDE DEF yes, W0
  <2>3. Those(q, yes) # <<>> /\ Those(q, yes)[1] = q[Place(yes, 1)] /\ Place(yes, 1) \in yes
    BY <2>1, FirstPlace
  <2> QED BY <2>2, <2>3 DEF Leads
<1> HIDE DEF words, characters
<1>5. n \in Nat
  BY <1>2, LenProperties
<1> HIDE DEF W0
<1>6. ASSUME NEW k \in 1..n, NEW acc \in W(k - 1) PROVE Body(acc, k) \in W(k)
  <2>1. acc \in [rows : Seq(S), words : Seq(S), characters : Seq(S)] /\ Divided(acc) /\ Good(acc)
    OBVIOUS
  <2>2. NextPage(acc) \in [rows : Seq(S), words : Seq(S), characters : Seq(S)] /\ Divided(NextPage(acc))
    BY <2>1, NextPageIs
  <2>3. Leads(NextPage(acc).rows, W0)
    BY <2>1, PageLeads
  <2> QED BY <2>2, <2>3
<1>7. d \in W(0)
  <2> DEFINE e == <<>>
             Q == Seq(S)
  <2>1. e \in Q /\ words \in Q /\ characters \in Q
    BY <1>2, EmptySeq
  <2> HIDE DEF e, Q
  <2> DEFINE x == [rows |-> e, words |-> words, characters |-> characters]
  <2>2. x \in [rows : Q, words : Q, characters : Q] /\ x.rows = e /\ x.words = words /\ x.characters = characters
    BY <2>1
  <2> HIDE DEF x
  <2>3. Named(e, {})
    BY NamedNone DEF e
  <2>4. Divided(x)
    BY <1>2, <2>2, <2>3 DEF Divided
  <2>5. x = d
    BY DEF x, e
  <2>6. Good(x)
    BY <1>4, <2>2 DEF e
  <2> QED BY <2>2, <2>4, <2>5, <2>6 DEF Q
<1> HIDE DEF F, d, n, Good
<1> DEFINE T == [k \in 0..n |-> W(k)]
           U == UNION {W(k) : k \in 0..n}
           step == [p \in U \X (1..n) |-> Body(p[1], p[2])]
<1> HIDE DEF Body, W
<1>8. \A k \in 1..n : \A x \in T[k - 1] : step[<<x, k>>] \in T[k] /\ step[<<x, k>>] = Body(x, k)
  <2> SUFFICES ASSUME NEW k \in 1..n, NEW x \in T[k - 1] PROVE step[<<x, k>>] \in T[k] /\ step[<<x, k>>] = Body(x, k)
    OBVIOUS
  <2>1. k \in 0..n /\ k - 1 \in 0..n
    BY <1>5
  <2>2. x \in W(k - 1) /\ x \in U
    BY <2>1
  <2>3. step[<<x, k>>] = Body(x, k)
    BY <2>2
  <2>4. Body(x, k) \in W(k)
    BY <1>6, <2>2
  <2> HIDE DEF step
  <2> QED BY <2>1, <2>3, <2>4
<1>9. 0 \in 0..n /\ d \in T[0]
  <2>1. 0 \in 0..n
    BY <1>5
  <2> QED BY <1>7, <2>1
<1> HIDE DEF step, U
<1>10. PICK g : Successive(g, n, d, step) /\ \A k \in 0..n : g[k] \in T[k]
  <2> HIDE DEF T
  <2> QED BY <1>5, <1>8, <1>9, RecursionDefined
<1>11. ASSUME NEW k \in 0..n PROVE g[k] = IF k = 0 THEN d ELSE Body(g[k - 1], k)
  <2>1. k # 0 => k - 1 \in 0..n /\ k \in 1..n
    BY <1>5
  <2>2. g[k] = IF k = 0 THEN d ELSE step[<<g[k - 1], k>>]
    BY <1>10 DEF Successive
  <2>3. k # 0 => g[k - 1] \in T[k - 1]
    BY <1>10, <2>1
  <2> HIDE DEF T
  <2>4. k # 0 => step[<<g[k - 1], k>>] = Body(g[k - 1], k)
    BY <1>8, <2>1, <2>3
  <2> QED BY <2>2, <2>4
<1>12. g = [k \in 0..n |-> IF k = 0 THEN d ELSE Body(g[k - 1], k)]
  <2>1. g = [k \in 0..n |-> g[k]]
    BY <1>10 DEF Successive
  <2> QED BY <1>11, <2>1
<1>13. F = [k \in 0..n |-> IF k = 0 THEN d ELSE Body(F[k - 1], k)]
  BY <1>12, Zenon DEF F
<1>14. \A k \in 0..n : F[k] = IF k = 0 THEN d ELSE Body(F[k - 1], k)
  BY <1>13, Zenon
<1> DEFINE A == {k \in 0..n : F[k] \in W(k)}
<1>15. \A k \in 0..n : k \in A
  <2>1. 0 \in A
    <3>1. F[0] = d
      BY <1>9, <1>14
    <3> QED BY <1>7, <1>9, <3>1
  <2>2. ASSUME NEW k \in 1..n, k - 1 \in A PROVE k \in A
    <3>1. k \in 0..n /\ k # 0 /\ F[k - 1] \in W(k - 1)
      BY <1>5, <2>2
    <3>2. F[k] = Body(F[k - 1], k)
      BY <1>14, <3>1
    <3> QED BY <1>6, <3>1, <3>2
  <2> HIDE DEF A
  <2> QED BY <1>5, <2>1, <2>2, UpTo
<1>16. \A k \in 0..n : F[k] \in W(k)
  BY <1>15
<1>17. F[n] \in A0
  <2>1. n \in 0..n
    BY <1>5
  <2>2. F[n] \in W(n)
    BY <1>16, <2>1
  <2> QED BY <2>2 DEF W
<1> DEFINE x == F[n]
<1>18. Good(x)
  BY <1>17
<1>19. row \in ToSet(x.rows) /\ DoubleInitialPages(in, q) = x.rows
  BY <1>1
<1> HIDE DEF x
<1>20. x.rows # <<>>
  <2>1. ToSet(<<>>) = {}
    BY DEF ToSet
  <2> QED BY <1>19, <2>1
<1> QED BY <1>18, <1>19, <1>20 DEF Good, W0

\* A preview covers its input when its rows, if any, begin with one that does.
LEMMA PreviewCovers ==
  ASSUME NEW in \in Seq(Chars), WellFormed(in), NEW parsed \in ParsesOf(in), NEW rows \in Seq(RowSet(in)), NEW correct,
         rows # <<>> => Covers(in, rows[1].segs)
  PROVE  Covers(in, Preview(parsed, rows, correct))
<1> DEFINE of == IF rows = <<>> THEN <<>> ELSE rows[1].segs
           paths == parsed.paths
           yes == {i \in DOMAIN paths : paths[i].kind = Exact}
           exact == Those(paths, yes)
           open == {i \in DOMAIN exact : ~AllComplete(exact[i])}
           unfinished == Those(exact, open)
           segs == SourceSegments(parsed.in, unfinished[1])
           apart == {k \in DOMAIN segs : k > Len(of) \/ segs[k] # of[k]}
           first == Min(apart)
           raw == RawSegments(parsed.in)
           known == SourceSegments(parsed.in, exact[1])
           Long == IsLong(parsed.in) /\ of # <<>>
           Worthy == unfinished[1].syl[first].complete /\ Len(segs[first]) >= 2
           none == <<>>
           chosen ==
             IF Long THEN of
             ELSE IF ~correct THEN IF exact # <<>> THEN known ELSE raw
             ELSE IF unfinished = <<>> THEN IF of = <<>> THEN raw ELSE none
             ELSE IF of = <<>> THEN segs
             ELSE IF apart = {} THEN none
             ELSE IF Worthy THEN segs
             ELSE none
<1>1. Preview(parsed, rows, correct) = IF chosen = <<>> THEN of ELSE chosen
  BY DEF Preview, Selected
<1>2. parsed.in = in /\ paths \in Seq(Paths(in))
  BY DEF ParsesOf
<1>3. of # none => Covers(in, of)
  OBVIOUS
<1>4. Covers(in, raw)
  BY <1>2, RawCovers
<1> DEFINE P == Paths(in)
<1>5. exact \in Seq(P)
  <2>1. yes \in SUBSET DOMAIN paths /\ paths \in Seq(P)
    BY <1>2
  <2> HIDE DEF yes, paths, P
  <2> QED BY <2>1, ThoseAre
<1> HIDE DEF exact, P
<1>6. unfinished \in Seq(P)
  <2>1. open \in SUBSET DOMAIN exact
    OBVIOUS
  <2> HIDE DEF open
  <2> QED BY <1>5, <2>1, ThoseAre
<1> HIDE DEF unfinished
<1>7. ASSUME NEW q \in Seq(P), q # <<>> PROVE Covers(in, SourceSegments(parsed.in, q[1]))
  <2> DEFINE p == q[1]
  <2>1. Len(q) \in Nat /\ 1 \in 1..Len(q)
    BY <1>7, EmptySeq, LenProperties
  <2>2. p \in P
    BY <2>1, ElementOfSeq
  <2> HIDE DEF p
  <2>3. Covers(in, SourceSegments(in, p))
    BY <2>2, SourceSegmentsAre DEF P
  <2> QED BY <1>2, <2>3 DEF p
<1>8. (exact # <<>> => Covers(in, known)) /\ (unfinished # <<>> => Covers(in, segs))
  BY <1>5, <1>6, <1>7
<1>9. \A t : Covers(in, t) => t # none
  BY DEF Covers
<1>10. none = <<>> /\ (Long => of # <<>>)
  OBVIOUS
<1> HIDE DEF Worthy, Long, known, segs, apart, raw, none, of
<1>11. chosen = none => of # none
  BY <1>4, <1>8, <1>9, <1>10
<1>12. chosen # none => Covers(in, chosen)
  BY <1>3, <1>4, <1>8, <1>10
<1> HIDE DEF chosen
<1> QED BY <1>1, <1>3, <1>10, <1>11, <1>12

\* So does the preview of an answer; that of two initials when they have a word.
LEMMA FoundCovers ==
  ASSUME NEW in \in Seq(Chars), WellFormed(in), NEW parsed \in ParsesOf(in), NEW correct,
         IsDoubleInitial(in) => \E row \in ToSet(Found(in, parsed).rows) : row.used = 2
  PROVE  Covers(in, Preview(Found(in, parsed).parsed, Found(in, parsed).rows, correct))
<1> DEFINE R == RowSet(in)
           rows == Found(in, parsed).rows
           other == Found(in, parsed).parsed
<1>1. other \in ParsesOf(in) /\ rows \in Seq(R)
  BY FoundIs
<1>2. ASSUME rows # <<>> PROVE Covers(in, rows[1].segs)
  <2> DEFINE r == rows[1]
  <2>1. r \in R
    <3>1. 1 \in 1..Len(rows)
      <4>1. Len(rows) \in Nat /\ Len(rows) # 0
        BY <1>1, <1>2, LenProperties, EmptySeq
      <4> QED BY <4>1
    <3> HIDE DEF R, rows
    <3> QED BY <1>1, <3>1, ElementOfSeq
  <2>2. ASSUME IsDoubleInitial(in) PROVE r.used = 2
    <3>1. PICK q \in Seq(R) : Apart(q) /\ rows = DoubleInitialPages(in, q)
      BY FoundIs
    <3>2. PICK row \in ToSet(rows) : row.used = 2
      BY <2>2
    <3>3. Len(in) = 2
      BY <2>2 DEF IsDoubleInitial
    <3>4. row \in ToSet(DoubleInitialPages(in, q)) /\ row.used = Len(in)
      BY <3>1, <3>2, <3>3
    <3> HIDE DEF R, rows
    <3>5. Leads(DoubleInitialPages(in, q), {x \in R : x.used = Len(in)})
      BY <2>2, <3>1, <3>4, PagesLead
    <3>6. rows[1] \in {x \in R : x.used = Len(in)}
      BY <3>1, <3>5 DEF Leads
    <3> QED BY <3>3, <3>6
  <2> HIDE DEF r
  <2>3. Fits(in, r.segs, r.used)
    BY <2>1, RowHas
  <2> QED BY <2>2, <2>3 DEF Fits, r
<1> HIDE DEF rows, other
<1>3. Covers(in, Preview(other, rows, correct))
  BY <1>1, <1>2, PreviewCovers
<1> QED BY <1>3 DEF rows, other

---------------------------------------------------------------------------
(* A preview made of the segments of an input *)

\* A text, if not empty with an apostrophe in front, shows an input up to an offset.
Led(g, in, p, v) ==
  /\ g[0] = 0 /\ g[Len(p)] = v
  /\ \A k \in 0..Len(p) : g[k] \in 0..Len(in)
  /\ \A k \in 1..Len(p) : \/ g[k] = g[k - 1] + 1 /\ p[k] = in[g[k]]
                          \/ g[k] = g[k - 1] /\ p[k] = Separator
  /\ Len(p) >= 1 => g[1] = 0

\* It does so with one segment more.
LEMMA LedMore ==
  ASSUME NEW in \in Text, NEW p \in Text, NEW g, NEW v, Led(g, in, p, v), NEW a \in Nat, NEW b \in a..Len(in),
         Follows(in, v, a), p = <<>> => a = 0
  PROVE  /\ p \o (<<Separator>> \o Slice(in, a, b)) \in Text /\ Len(p \o (<<Separator>> \o Slice(in, a, b))) >= 1
         /\ \E h : Led(h, in, p \o (<<Separator>> \o Slice(in, a, b)), b)
<1> DEFINE n == Len(p)
           sep == <<Separator>>
           t == Slice(in, a, b)
           u == sep \o t
           q == p \o u
           l == Len(q)
           h == [k \in 0..l |-> IF k <= n THEN g[k] ELSE a + (k - n - 1)]
<1>1. n \in Nat /\ b \in Nat /\ b \in 0..Len(in) /\ a <= b /\ Len(in) \in Nat /\ in \in Seq(Nat)
  BY LenProperties DEF Text
<1>2. t \in Seq(Nat) /\ Len(t) = b - a /\ \A i \in 1..b - a : t[i] = in[a + i]
  BY <1>1, SliceIs
<1> HIDE DEF t
<1>3. sep \in Seq(Nat) /\ Len(sep) = 1 /\ sep[1] = Separator
  BY CharsAre, SingleIs
<1> HIDE DEF sep
<1>4. /\ u \in Seq(Nat) /\ Len(u) = b - a + 1 /\ u[1] = Separator
      /\ \A i \in 1..b - a : u[1 + i] = in[a + i]
  <2> DEFINE N == Nat
  <2>1. sep \in Seq(N) /\ t \in Seq(N)
    BY <1>2, <1>3
  <2> HIDE DEF N
  <2>2. /\ u \in Seq(N) /\ Len(u) = Len(sep) + Len(t)
        /\ \A i \in 1..Len(sep) : u[i] = sep[i]
        /\ \A i \in 1..Len(t) : u[Len(sep) + i] = t[i]
    BY <2>1, JoinedAt
  <2> HIDE DEF u
  <2>3. 1 \in 1..Len(sep) /\ Len(u) = b - a + 1
    BY <1>1, <1>2, <1>3, <2>2
  <2>4. u[1] = sep[1]
    BY <2>2, <2>3
  <2>5. \A i \in 1..b - a : u[1 + i] = t[i]
    BY <1>2, <1>3, <2>2
  <2> QED BY <1>2, <1>3, <2>2, <2>3, <2>4, <2>5 DEF N
<1> HIDE DEF u
<1>5. /\ l = n + (b - a + 1) /\ l \in Nat
      /\ \A i \in 1..n : q[i] = p[i]
      /\ \A i \in 1..b - a + 1 : q[n + i] = u[i]
      /\ q \in Text
  <2> DEFINE N == Nat
  <2>1. p \in Seq(N) /\ u \in Seq(N)
    BY <1>4 DEF Text
  <2> HIDE DEF N
  <2>2. /\ q \in Seq(N) /\ Len(q) = Len(p) + Len(u)
        /\ \A i \in 1..Len(p) : q[i] = p[i]
        /\ \A i \in 1..Len(u) : q[Len(p) + i] = u[i]
    BY <2>1, JoinedAt
  <2> HIDE DEF q
  <2> QED BY <1>1, <1>4, <2>2 DEF N, Text
<1> HIDE DEF q, l
<1>6. q[n + 1] = Separator /\ \A i \in 1..b - a : q[n + 1 + i] = in[a + i]
  <2>1. q[n + 1] = u[1]
    BY <1>1, <1>5
  <2>2. ASSUME NEW i \in 1..b - a PROVE q[n + 1 + i] = in[a + i]
    <3>1. i + 1 \in 1..b - a + 1 /\ n + (i + 1) = n + 1 + i
      BY <1>1
    <3>2. q[n + (i + 1)] = u[i + 1]
      BY <1>5, <3>1
    <3>3. u[1 + i] = in[a + i] /\ 1 + i = i + 1
      BY <1>1, <1>4
    <3> QED BY <3>1, <3>2, <3>3
  <2> QED BY <1>4, <2>1, <2>2
<1>7. g[n] = v /\ \A k \in 0..n : g[k] \in 0..Len(in)
  BY DEF Led
<1>8. v \in Nat /\ (a = v \/ (a = v + 1 /\ in[a] = Separator))
  <2>1. v \in 0..Len(in)
    BY <1>1, <1>7
  <2> QED BY <1>1, <2>1 DEF Follows
<1>9. /\ \A k \in 0..n : h[k] = g[k]
      /\ \A i \in 0..b - a : h[n + 1 + i] = a + i
  <2>1. ASSUME NEW k \in 0..n PROVE h[k] = g[k]
    BY <1>1, <1>5
  <2>2. ASSUME NEW i \in 0..b - a PROVE h[n + 1 + i] = a + i
    BY <1>1, <1>5
  <2> QED BY <2>1, <2>2
<1> HIDE DEF h, n
<1>10. \A k \in 0..l : k \in 0..n \/ \E i \in 0..b - a : k = n + 1 + i
  <2> SUFFICES ASSUME NEW k \in 0..l, ~ (k \in 0..n) PROVE \E i \in 0..b - a : k = n + 1 + i
    OBVIOUS
  <2>1. k - n - 1 \in 0..b - a /\ k = n + 1 + (k - n - 1)
    BY <1>1, <1>5
  <2> QED BY <2>1
<1>11. \A k \in 0..l : h[k] \in 0..Len(in)
  <2> SUFFICES ASSUME NEW k \in 0..l PROVE h[k] \in 0..Len(in)
    OBVIOUS
  <2>1. CASE k \in 0..n
    BY <1>7, <1>9, <2>1
  <2>2. ASSUME NEW i \in 0..b - a, k = n + 1 + i PROVE h[k] \in 0..Len(in)
    <3>1. h[n + 1 + i] = a + i
      BY <1>9, <2>2
    <3>2. a + i \in 0..Len(in)
      BY <1>1, <2>2
    <3> QED BY <2>2, <3>1, <3>2
  <2> QED BY <1>10, <2>1, <2>2
<1>12. ASSUME NEW k \in 1..l
       PROVE  (h[k] = h[k - 1] + 1 /\ q[k] = in[h[k]]) \/ (h[k] = h[k - 1] /\ q[k] = Separator)
  <2>1. CASE k \in 1..n
    <3>1. k \in 0..n /\ k - 1 \in 0..n
      BY <1>1, <2>1
    <3>2. (g[k] = g[k - 1] + 1 /\ p[k] = in[g[k]]) \/ (g[k] = g[k - 1] /\ p[k] = Separator)
      BY <2>1 DEF Led, n
    <3>3. h[k] = g[k] /\ h[k - 1] = g[k - 1] /\ q[k] = p[k]
      BY <1>5, <1>9, <2>1, <3>1
    <3> QED BY <3>2, <3>3
  <2>2. CASE k = n + 1
    <3>1. k - 1 = n /\ n \in 0..n /\ 0 \in 0..b - a /\ k = n + 1 + 0
      BY <1>1, <2>2
    <3>2. h[k] = a /\ h[k - 1] = v /\ q[k] = Separator
      <4>1. h[n + 1 + 0] = a + 0
        BY <1>9, <3>1
      <4>2. h[n] = v
        BY <1>7, <1>9, <3>1
      <4> QED BY <1>6, <2>2, <3>1, <4>1, <4>2
    <3> QED BY <1>8, <3>2
  <2>3. CASE k \in n + 2..l
    <3> DEFINE i == k - n - 1
    <3>1. i \in 1..b - a /\ i \in 0..b - a /\ i - 1 \in 0..b - a /\ k = n + 1 + i /\ k - 1 = n + 1 + (i - 1)
      BY <1>1, <1>5, <2>3
    <3> HIDE DEF i
    <3>2. h[n + 1 + i] = a + i /\ h[n + 1 + (i - 1)] = a + (i - 1) /\ q[n + 1 + i] = in[a + i]
      BY <1>6, <1>9, <3>1
    <3>3. h[k] = a + i /\ h[k - 1] = a + (i - 1) /\ q[k] = in[a + i]
      BY <3>1, <3>2
    <3>4. a + i = a + (i - 1) + 1
      BY <1>1, <3>1
    <3> QED BY <3>3, <3>4
  <2> QED BY <1>1, <1>5, <2>1, <2>2, <2>3
<1>13. h[0] = 0 /\ h[l] = b
  <2>1. 0 \in 0..n /\ b - a \in 0..b - a /\ n + 1 + (b - a) = l /\ a + (b - a) = b
    BY <1>1, <1>5
  <2>2. g[0] = 0
    BY DEF Led
  <2>3. h[n + 1 + (b - a)] = a + (b - a)
    BY <1>9, <2>1
  <2> QED BY <1>9, <2>1, <2>2, <2>3
<1>14. h[1] = 0
  <2>1. CASE n = 0
    <3>1. a = 0
      BY <2>1, EmptySeq DEF n, Text
    <3>2. 0 \in 0..b - a /\ n + 1 + 0 = 1 /\ a + 0 = 0
      BY <1>1, <2>1, <3>1
    <3>3. h[n + 1 + 0] = a + 0
      BY <1>9, <3>2
    <3> QED BY <3>2, <3>3
  <2>2. CASE n # 0
    <3>1. n >= 1 /\ 1 \in 0..n
      BY <1>1, <2>2
    <3>2. g[1] = 0
      BY <3>1 DEF Led, n
    <3> QED BY <1>9, <3>1, <3>2
  <2> QED BY <2>1, <2>2
<1>15. Led(h, in, q, b)
  BY <1>11, <1>12, <1>13, <1>14 DEF Led, l
<1>16. q \in Text /\ Len(q) >= 1
  BY <1>1, <1>5 DEF l
<1> QED BY <1>15, <1>16 DEF q, u, sep, t

\* What joins such segments shows the input.
LEMMA JoinedShows ==
  ASSUME NEW in \in Text, NEW segs, Covers(in, segs)
  PROVE  Joined(segs) \in Text /\ \E g : Shows(g, in, Joined(segs))
<1> DEFINE n == Len(segs)
           With(t) == <<Separator>> \o t
           ss == [i \in DOMAIN segs |-> With(segs[i])]
           F(m) == FlattenSeq(Take(ss, m))
<1>1. PICK a, b : Reads(in, segs, a, b)
  BY DEF Covers
<1>2. segs \in Seq(Text) /\ n \in Nat /\ n >= 1 /\ DOMAIN segs = 1..n /\ \A i \in 1..n : segs[i] \in Text
  <2>1. segs \in Seq(Text) /\ segs # <<>>
    BY DEF Covers
  <2>2. n \in Nat /\ DOMAIN segs = 1..n /\ n # 0
    BY <2>1, LenProperties, EmptySeq
  <2>3. n >= 1
    BY <2>2
  <2> HIDE DEF n
  <2> QED BY <2>1, <2>2, <2>3, LenProperties DEF n
<1>3. ASSUME NEW t \in Text PROVE With(t) \in Text
  <2> DEFINE N == Nat
             x == <<Separator>>
  <2>1. x \in Seq(N) /\ t \in Seq(N)
    BY CharsAre, SingleIs DEF Text
  <2> HIDE DEF N, x
  <2>2. x \o t \in Seq(N)
    BY <2>1, ConcatProperties
  <2> QED BY <2>2 DEF N, x, Text
<1>4. ss \in Seq(Text) /\ Len(ss) = n /\ \A i \in 1..n : ss[i] = With(segs[i])
  <2> HIDE DEF With
  <2>1. ss \in [DOMAIN segs -> Text]
    BY <1>2, <1>3
  <2>2. \A i \in 1..n : ss[i] = With(segs[i])
    BY <1>2
  <2> HIDE DEF ss
  <2> QED BY <1>2, <2>1, <2>2, MapsTo
<1>5. /\ a[1] = 0 /\ b[n] = Len(in)
      /\ \A k \in 1..n : a[k] \in Nat /\ b[k] \in a[k]..Len(in) /\ segs[k] = Slice(in, a[k], b[k])
      /\ \A k \in 1..n - 1 : Follows(in, b[k], a[k + 1])
  BY <1>1 DEF Reads
<1> HIDE DEF ss
<1>6. ASSUME NEW p \in Text, NEW g, NEW v, Led(g, in, p, v), NEW k \in 1..n, Follows(in, v, a[k]), p = <<>> => a[k] = 0
      PROVE  p \o ss[k] \in Text /\ Len(p \o ss[k]) >= 1 /\ \E h : Led(h, in, p \o ss[k], b[k])
  <2> DEFINE x == a[k]
             y == b[k]
  <2>1. x \in Nat /\ y \in x..Len(in) /\ Follows(in, v, x) /\ (p = <<>> => x = 0)
    BY <1>5, <1>6
  <2>2. ss[k] = <<Separator>> \o Slice(in, x, y)
    BY <1>4, <1>5
  <2> HIDE DEF x, y, With
  <2>3. /\ p \o (<<Separator>> \o Slice(in, x, y)) \in Text /\ Len(p \o (<<Separator>> \o Slice(in, x, y))) >= 1
        /\ \E h : Led(h, in, p \o (<<Separator>> \o Slice(in, x, y)), y)
    BY <1>6, <2>1, LedMore
  <2> QED BY <2>2, <2>3 DEF y
<1> DEFINE Fitting(m) == F(m) \in Text /\ Len(F(m)) >= 1 /\ \E g : Led(g, in, F(m), b[m])
           A == {m \in 0..n : m # 0 => Fitting(m)}
<1>7. \A i \in 1..n : ss[i] \in Text
  BY <1>4, LenProperties
<1>8. Fitting(1)
  <2> DEFINE g == [k \in {0} |-> 0]
             x == ss[1]
             none == <<>>
  <2>1. 1 \in 1..n /\ Len(ss) >= 1
    BY <1>2, <1>4
  <2>2. x \in Text /\ none \in Text /\ Len(none) = 0
    BY <1>7, <2>1, EmptySeq DEF Text
  <2>3. Led(g, in, none, 0)
    <3>1. g[0] = 0 /\ Len(in) \in Nat
      BY LenProperties DEF Text
    <3> HIDE DEF g, none
    <3> QED BY <2>2, <3>1 DEF Led
  <2>4. Follows(in, 0, a[1]) /\ a[1] = 0
    BY <1>5 DEF Follows
  <2> HIDE DEF g, x
  <2>5. none \o x = x
    BY <2>2, ConcatEmptySeq DEF Text
  <2> HIDE DEF none
  <2>6. none \o x \in Text /\ Len(none \o x) >= 1 /\ \E h : Led(h, in, none \o x, b[1])
    BY <1>6, <2>1, <2>2, <2>3, <2>4 DEF x
  <2>7. F(1) = x
    <3>1. Take(ss, 1) = <<ss[1]>>
      BY <1>4, <2>1, TakeOne
    <3>2. FlattenSeq(<<x>>) = x
      BY <2>2, FlattenOne DEF Text
    <3> QED BY <3>1, <3>2 DEF x
  <2> QED BY <2>5, <2>6, <2>7
<1>9. ASSUME NEW m \in 1..n - 1, Fitting(m) PROVE Fitting(m + 1)
  <2> DEFINE k == m + 1
             x == ss[k]
             p == F(m)
  <2>1. m \in 1..Len(ss) - 1 /\ k \in 1..n /\ m \in 1..n
    BY <1>2, <1>4
  <2>2. Take(ss, m) \in Seq(Text) /\ Take(ss, k) = Append(Take(ss, m), x)
    BY <1>4, <2>1, TakeNext
  <2>3. x \in Text
    BY <1>7, <2>1
  <2>4. Follows(in, b[m], a[k])
    BY <1>5
  <2>5. PICK g : Led(g, in, p, b[m])
    BY <1>9
  <2>6. p \in Text /\ p # <<>>
    <3>1. p \in Text /\ Len(p) >= 1
      BY <1>9
    <3>2. Len(<<>>) = 0
      OBVIOUS
    <3> HIDE DEF p
    <3> QED BY <3>1, <3>2
  <2>7. F(k) = p \o x
    <3> DEFINE w == Take(ss, m)
    <3> HIDE DEF w, x, k
    <3>1. FlattenSeq(Append(w, x)) = FlattenSeq(w) \o x
      BY <2>2, <2>3, FlattenMore DEF w, Text
    <3> QED BY <2>2, <3>1 DEF w
  <2> HIDE DEF k, p, F, x
  <2>8. p \o ss[k] \in Text /\ Len(p \o ss[k]) >= 1 /\ \E h : Led(h, in, p \o ss[k], b[k])
    BY <1>6, <2>1, <2>4, <2>5, <2>6
  <2> QED BY <2>7, <2>8 DEF k, x
<1>10. \A m \in 0..n : m \in A
  <2> HIDE DEF Fitting
  <2>1. 0 \in A
    BY <1>2
  <2>2. ASSUME NEW m \in 1..n, m - 1 \in A PROVE m \in A
    <3>1. CASE m = 1
      BY <1>8, <3>1
    <3>2. CASE m # 1
      <4>1. m - 1 \in 1..n - 1 /\ (m - 1) + 1 = m /\ m - 1 # 0
        BY <1>2, <3>2
      <4>2. Fitting(m - 1)
        BY <2>2, <4>1
      <4> QED BY <1>9, <4>1, <4>2
    <3> QED BY <3>1, <3>2
  <2> HIDE DEF A
  <2> QED BY <1>2, <2>1, <2>2, UpTo
<1>11. Fitting(n)
  <2>1. n \in 0..n /\ n # 0
    BY <1>2
  <2> HIDE DEF Fitting
  <2> QED BY <1>10, <2>1
<1> DEFINE p == F(n)
           q == Tail(p)
<1>12. Joined(segs) = q
  <2>1. segs # <<>>
    BY DEF Covers
  <2>2. Take(ss, n) = ss
    <3> DEFINE t == Take(ss, n)
    <3>1. Lesser(n, Len(ss)) = n /\ n \in Int /\ n >= 0 /\ Len(ss) \in Nat
      BY <1>2, <1>4 DEF Lesser
    <3>2. ss \in Seq(Text) /\ Len(ss) = n
      BY <1>4
    <3> HIDE DEF n, With
    <3>3. t \in Seq(Text) /\ Len(t) = n /\ \A i \in 1..n : t[i] = ss[i]
      BY <3>1, <3>2, TakeIs
    <3> HIDE DEF t
    <3>4. t = ss
      BY <3>2, <3>3, SeqEqual
    <3> QED BY <3>4 DEF t
  <2>3. p = FlattenSeq(ss)
    BY <2>2
  <2> HIDE DEF p
  <2> QED BY <2>1, <2>3 DEF Joined, MapSeq, ss
<1>13. PICK g : Led(g, in, p, b[n])
  BY <1>11
<1>14. p \in Seq(Nat) /\ Len(p) \in Nat /\ Len(p) >= 1 /\ p # <<>>
  <2>1. p \in Seq(Nat) /\ Len(p) >= 1
    BY <1>11 DEF Text
  <2> HIDE DEF p
  <2>2. Len(<<>>) = 0
    OBVIOUS
  <2> QED BY <2>1, <2>2, LenProperties
<1> HIDE DEF p, F
<1>15. q \in Seq(Nat) /\ Len(q) = Len(p) - 1 /\ \A k \in 1..Len(p) - 1 : q[k] = p[k + 1]
  BY <1>14, HeadTailProperties
<1> HIDE DEF q
<1> DEFINE l == Len(q)
           h == [k \in 0..l |-> g[k + 1]]
<1>16. l \in Nat /\ Len(p) = l + 1
  BY <1>14, <1>15
<1> HIDE DEF l
<1>17. Shows(h, in, q)
  <2>1. g[1] = 0 /\ g[Len(p)] = Len(in)
    BY <1>5, <1>13, <1>14 DEF Led
  <2>2. h[0] = 0 /\ h[l] = Len(in)
    <3>1. 0 \in 0..l /\ l \in 0..l /\ l + 1 = Len(p) /\ 0 + 1 = 1
      BY <1>16
    <3>2. h[0] = g[0 + 1] /\ h[l] = g[l + 1]
      BY <3>1
    <3> HIDE DEF h
    <3> QED BY <2>1, <3>1, <3>2
  <2>3. ASSUME NEW k \in 0..l PROVE h[k] \in Nat /\ h[k] <= Len(in)
    <3>1. k + 1 \in 0..Len(p) /\ h[k] = g[k + 1]
      BY <1>16
    <3>2. g[k + 1] \in 0..Len(in)
      BY <1>13, <3>1 DEF Led
    <3>3. Len(in) \in Nat
      BY LenProperties DEF Text
    <3> HIDE DEF h
    <3> QED BY <3>1, <3>2, <3>3
  <2>4. ASSUME NEW k \in 1..l PROVE (h[k] = h[k - 1] + 1 /\ q[k] = in[h[k]]) \/ (h[k] = h[k - 1] /\ q[k] = Separator)
    <3> DEFINE i == k + 1
    <3>1. i \in 1..Len(p) /\ i - 1 = k /\ k \in 0..l /\ k - 1 \in 0..l /\ k \in 1..Len(p) - 1 /\ (k - 1) + 1 = k
      BY <1>16
    <3>2. h[k] = g[i] /\ h[k - 1] = g[i - 1]
      <4>1. h[k] = g[k + 1] /\ h[k - 1] = g[(k - 1) + 1]
        BY <3>1
      <4> HIDE DEF h
      <4> QED BY <3>1, <4>1
    <3>3. q[k] = p[i]
      BY <1>15, <3>1
    <3> HIDE DEF i, h
    <3>4. (g[i] = g[i - 1] + 1 /\ p[i] = in[g[i]]) \/ (g[i] = g[i - 1] /\ p[i] = Separator)
      BY <1>13, <3>1 DEF Led
    <3> QED BY <3>2, <3>3, <3>4
  <2>5. \A k \in 1..l : k \in 0..l
    BY <1>16
  <2> HIDE DEF h
  <2> QED BY <2>2, <2>3, <2>4, <2>5 DEF Shows, l
<1>18. q \in Text
  BY <1>15 DEF Text
<1> QED BY <1>12, <1>17, <1>18

\* The letters among the first characters of a text.
LettersTo(s, k) == Cardinality({i \in 1..k : s[i] # Separator})

\* One character more is one letter more, or an apostrophe.
LEMMA LettersNext ==
  ASSUME NEW s, NEW k \in Nat
  PROVE  /\ LettersTo(s, 0) = 0 /\ LettersTo(s, k) \in Nat
         /\ LettersTo(s, k + 1) = LettersTo(s, k) + (IF s[k + 1] # Separator THEN 1 ELSE 0)
<1> DEFINE P == {i \in 1..k : s[i] # Separator}
           Q == {i \in 1..k + 1 : s[i] # Separator}
           n == k + 1
<1>1. IsFiniteSet(P)
  <2>1. IsFiniteSet(1..k)
    BY FirstNumbers
  <2>2. P \in SUBSET (1..k)
    OBVIOUS
  <2> HIDE DEF P
  <2> QED BY <2>1, <2>2, FS_Subset
<1>2. n \notin P
  OBVIOUS
<1>3. Q = IF s[n] # Separator THEN P \cup {n} ELSE P
  <2>1. CASE s[n] # Separator
    BY <2>1
  <2>2. CASE ~ (s[n] # Separator)
    BY <2>2
  <2> QED BY <2>1, <2>2
<1>4. {i \in 1..0 : s[i] # Separator} = {}
  OBVIOUS
<1> HIDE DEF P, Q
<1>5. Cardinality(P) \in Nat /\ Cardinality(P \cup {n}) = Cardinality(P) + 1
  <2> HIDE DEF n
  <2> QED BY <1>1, <1>2, FS_AddElement, FS_CardinalityType
<1>6. LettersTo(s, k) = Cardinality(P) /\ LettersTo(s, n) = Cardinality(Q) /\ LettersTo(s, 0) = 0
  BY <1>4, FS_EmptySet DEF LettersTo, P, Q
<1> HIDE DEF n
<1>7. LettersTo(s, n) = Cardinality(P) + (IF s[n] # Separator THEN 1 ELSE 0)
  BY <1>3, <1>5, <1>6
<1> QED BY <1>5, <1>6, <1>7 DEF n

\* A letter is found among the letters by how many there are up to it.
LEMMA LetterAt ==
  ASSUME NEW s \in Text, NEW v \in 1..Len(s), s[v] # Separator
  PROVE  LettersOf(s)[LettersTo(s, v)] = s[v]
<1> DEFINE P == Lettered(s)
           R == {p \in Int \X Int : p[1] < p[2]}
           n == LettersTo(s, v)
           x == Place(P, n)
<1>1. s \in Seq(Nat) /\ Len(s) \in Nat /\ DOMAIN s = 1..Len(s)
  BY LenProperties DEF Text
<1>2. P \in SUBSET DOMAIN s /\ LettersOf(s) = Those(s, P) /\ v \in P /\ P \subseteq 1..Len(s)
  BY <1>1 DEF LettersOf, Selected, Lettered
<1> HIDE DEF P
<1>3. IsFiniteSet(P) /\ Cardinality(P) \in Nat /\ P \subseteq Int
  BY <1>1, <1>2, SomePlaces
<1>4. n = Cardinality({i \in P : i < v}) + 1
  <2> DEFINE Q == {i \in P : i < v}
             b == v - 1
  <2>1. Q = {i \in 1..b : s[i] # Separator}
    <3>1. P = {i \in 1..Len(s) : s[i] # Separator}
      BY <1>1 DEF P, Lettered
    <3> QED BY <1>1, <3>1
  <2>2. LettersTo(s, b) = Cardinality(Q)
    BY <2>1 DEF LettersTo
  <2>3. b \in Nat /\ b + 1 = v
    BY <1>1
  <2> HIDE DEF b, Q
  <2>4. LettersTo(s, b + 1) = LettersTo(s, b) + 1
    BY <2>3, LettersNext
  <2> QED BY <2>2, <2>3, <2>4 DEF Q
<1>5. Linear(P, R)
  <2>1. \A i, j \in P : <<i, j>> \in R <=> i < j
    BY <1>3
  <2> HIDE DEF R
  <2> QED BY <1>3, <2>1 DEF Linear
<1>6. \A i \in P : RankOf(P, R, i) = Cardinality({j \in P : j < i})
  <2> SUFFICES ASSUME NEW i \in P PROVE RankOf(P, R, i) = Cardinality({j \in P : j < i})
    OBVIOUS
  <2>1. {j \in P : <<j, i>> \in R} = {j \in P : j < i}
    BY <1>3
  <2> QED BY <2>1 DEF RankOf
<1>7. \A i, j \in P : <<i, j>> \in R \/ <<j, i>> \in R \/ i = j
  BY <1>3
<1> HIDE DEF R
<1>8. Climbing(P, R)
  BY <1>3, <1>5, RanksClimb
<1> DEFINE r(i) == RankOf(P, R, i)
<1>9. (\A i \in P : r(i) \in 0..Cardinality(P) - 1) /\ (\A i, j \in P : <<i, j>> \in R => r(i) < r(j))
  BY <1>8 DEF Climbing
<1>10. n = r(v) + 1
  BY <1>2, <1>4, <1>6
<1>11. n \in 1..Cardinality(P)
  BY <1>2, <1>3, <1>9, <1>10
<1> HIDE DEF n
<1>12. x \in P /\ r(x) = n - 1
  BY <1>3, <1>6, <1>11, PlaceIn
<1> HIDE DEF x, r
<1>13. x = v
  <2>1. r(x) = r(v) /\ r(v) \in Int
    BY <1>2, <1>3, <1>9, <1>10, <1>12
  <2>2. <<x, v>> \in R => r(x) < r(v)
    BY <1>2, <1>9, <1>12
  <2>3. <<v, x>> \in R => r(v) < r(x)
    BY <1>2, <1>9, <1>12
  <2> QED BY <1>2, <1>7, <1>12, <2>1, <2>2, <2>3
<1>14. Those(s, P)[n] = s[x]
  BY <1>11 DEF Those, x
<1> QED BY <1>2, <1>13, <1>14 DEF n

\* What shows the input has the user's letters already.
LEMMA RespelledShown ==
  ASSUME NEW in \in Text, NEW text \in Text, NEW g, Shows(g, in, text)
  PROVE  Respelled(in, text) = text
<1> DEFINE before(k) == Len(LettersOf(Take(text, k)))
           letters == LettersOf(in)
           f == [k \in DOMAIN text |-> IF text[k] = Separator THEN Separator ELSE letters[before(k)]]
           n == Len(text)
<1>1. text \in Seq(Nat) /\ n \in Nat /\ DOMAIN text = 1..n /\ Len(in) \in Nat /\ in \in Seq(Nat)
  BY LenProperties DEF Text
<1>2. Respelled(in, text) = IF Len(LettersOf(text)) > Len(letters) THEN text ELSE f
  BY DEF Respelled
<1>3. /\ g[0] = 0 /\ \A k \in 0..n : g[k] \in Nat
      /\ \A k \in 1..n : \/ g[k] = g[k - 1] + 1 /\ g[k] <= Len(in) /\ text[k] = in[g[k]]
                         \/ g[k] = g[k - 1] /\ text[k] = Separator
  BY DEF Shows
<1> DEFINE A == {k \in 0..n : LettersTo(text, k) = LettersTo(in, g[k])}
<1>4. \A k \in 0..n : k \in A
  <2>1. 0 \in A
    <3>1. 0 \in 0..n /\ LettersTo(text, 0) = 0 /\ LettersTo(in, 0) = 0
      BY <1>1, LettersNext
    <3> QED BY <1>3, <3>1
  <2>2. ASSUME NEW k \in 1..n, k - 1 \in A PROVE k \in A
    <3> DEFINE j == k - 1
               v == g[j]
    <3>1. j \in 0..n /\ j \in Nat /\ j + 1 = k /\ k \in 0..n
      BY <1>1
    <3>2. v \in Nat /\ LettersTo(text, j) = LettersTo(in, v)
      BY <1>3, <2>2, <3>1
    <3>3. \/ g[k] = v + 1 /\ text[k] = in[g[k]]
          \/ g[k] = v /\ text[k] = Separator
      BY <1>3
    <3> HIDE DEF j, v
    <3>4. LettersTo(text, j + 1) = LettersTo(text, j) + (IF text[j + 1] # Separator THEN 1 ELSE 0)
      BY <3>1, LettersNext
    <3>5. LettersTo(in, v + 1) = LettersTo(in, v) + (IF in[v + 1] # Separator THEN 1 ELSE 0)
      BY <3>2, LettersNext
    <3>6. LettersTo(in, v) \in Nat
      BY <3>2, LettersNext
    <3>7. CASE g[k] = v + 1 /\ text[k] = in[g[k]]
      BY <3>1, <3>2, <3>4, <3>5, <3>7
    <3>8. CASE g[k] = v /\ text[k] = Separator
      BY <3>1, <3>2, <3>4, <3>6, <3>8
    <3> QED BY <3>3, <3>7, <3>8
  <2> HIDE DEF A
  <2> QED BY <1>1, <2>1, <2>2, UpTo
<1>5. ASSUME NEW k \in 1..n PROVE before(k) = LettersTo(text, k)
  <2> DEFINE t == Take(text, k)
             M == Lettered(t)
  <2>1. k \in Int /\ k >= 0 /\ Lesser(k, n) = k
    <3>1. n \in Nat
      BY <1>1
    <3> HIDE DEF n
    <3>2. k \in Int /\ k >= 0 /\ k <= n
      BY <3>1
    <3> QED BY <3>1, <3>2 DEF Lesser
  <2>2. t \in Seq(Nat) /\ Len(t) = k /\ \A i \in 1..k : t[i] = text[i]
    <3> DEFINE N == Nat
    <3>1. text \in Seq(N)
      BY <1>1
    <3> HIDE DEF N
    <3>2. t \in Seq(N) /\ Len(t) = k /\ \A i \in 1..Len(t) : t[i] = text[i]
      BY <2>1, <3>1, TakeIs
    <3> HIDE DEF t
    <3> QED BY <3>2 DEF N
  <2>3. M \in SUBSET DOMAIN t /\ LettersOf(t) = Those(t, M)
    BY DEF LettersOf, Selected, Lettered
  <2> HIDE DEF t
  <2>4. M = {i \in 1..k : text[i] # Separator}
    <3>1. DOMAIN t = 1..k
      BY <2>2, LenProperties
    <3>2. M = {i \in 1..k : t[i] # Separator}
      BY <3>1 DEF Lettered
    <3> HIDE DEF M
    <3> QED BY <2>2, <3>2
  <2> HIDE DEF M
  <2>5. Len(LettersOf(t)) = Cardinality(M)
    BY <2>2, <2>3, ThoseAre
  <2> QED BY <2>4, <2>5 DEF LettersTo, t
<1> HIDE DEF before
<1>6. \A k \in 1..n : f[k] = text[k]
  <2> SUFFICES ASSUME NEW k \in 1..n, text[k] # Separator PROVE f[k] = text[k]
    BY <1>1
  <2>1. k \in DOMAIN text /\ k \in 0..n /\ k - 1 \in 0..n
    BY <1>1
  <2>2. f[k] = letters[before(k)]
    BY <2>1
  <2>3. LettersTo(text, k) = LettersTo(in, g[k])
    BY <1>4, <2>1
  <2>4. g[k] \in 1..Len(in) /\ text[k] = in[g[k]]
    <3>1. g[k] = g[k - 1] + 1 /\ g[k] <= Len(in) /\ text[k] = in[g[k]]
      BY <1>3
    <3>2. g[k - 1] \in Nat
      BY <1>3, <2>1
    <3> QED BY <1>1, <3>1, <3>2
  <2>5. in[g[k]] # Separator
    BY <2>4
  <2> DEFINE v == g[k]
  <2>6. letters[LettersTo(in, v)] = in[v]
    <3> HIDE DEF v
    <3> QED BY <2>4, <2>5, LetterAt DEF v
  <2> HIDE DEF f, letters
  <2> QED BY <1>5, <2>2, <2>3, <2>4, <2>6
<1>7. text = [k \in DOMAIN text |-> text[k]]
  BY <1>1
<1>8. f = text
  <2>1. \A k \in DOMAIN text : (IF text[k] = Separator THEN Separator ELSE letters[before(k)]) = text[k]
    BY <1>1, <1>6
  <2> HIDE DEF letters
  <2> QED BY <1>7, <2>1
<1> QED BY <1>2, <1>8

\* So what joins segments that read the input spells it.
LEMMA CoversSpells ==
  ASSUME NEW in \in Text, NEW segs, Covers(in, segs)
  PROVE  Spells(in, Respelled(in, Joined(segs)))
<1> DEFINE p == Joined(segs)
<1>1. p \in Text
  BY JoinedShows
<1>2. PICK g : Shows(g, in, p)
  BY JoinedShows
<1> HIDE DEF p
<1>3. Respelled(in, p) = p
  BY <1>1, <1>2, RespelledShown
<1>4. Spells(in, p)
  <2>1. Len(in) \in Nat /\ p \in Seq(Nat)
    BY <1>1, LenProperties DEF Text
  <2> QED BY <1>2, <2>1, ShowingSpells
<1> QED BY <1>3, <1>4 DEF p

---------------------------------------------------------------------------
(* Every reachable state *)

\* What the answer's rows are about, what is parsed incrementally, and that
\* input and preview are texts.
InputInv == input \in Seq(Chars) /\ shown \in Seq(Nat)
ParseInv == \E old \in Seq(Chars) : inc.parsed \in ParsesOf(old)
RowsInv == answer.rows \in Seq(RowSet(input)) /\ Apart(answer.rows)
EngineInv == InputInv /\ ParseInv /\ RowsInv

\* An answer to no request has no rows, whatever the input.
LEMMA NoRows ==
  ASSUME NEW in
  PROVE  NoAnswer.rows \in Seq(RowSet(in)) /\ Apart(NoAnswer.rows)
BY EmptySeq DEF NoAnswer, Apart

\* A request is parsed from what was parsed before it (parse_incremental).
LEMMA StrictParseIs ==
  ASSUME NEW in \in Seq(Chars), NEW expanded, NEW cut, ParseInv
  PROVE  StrictParse(in, expanded, cut) \in ParsesOf(in)
<1> DEFINE budget == Budget(expanded, in)
           e == <<>>
           previous == IF ~IsLong(in) /\ inc.budget = budget THEN inc.parsed ELSE Invalid(e)
<1>1. budget \in Nat
  BY SchemaConstants DEF Budget
<1>2. e \in Seq(Chars)
  BY EmptySeq
<1>3. StrictParse(in, expanded, cut) = ParseIncremental(in, budget, previous, cut)
  BY DEF StrictParse
<1> HIDE DEF budget, e
<1>4. \E old \in Seq(Chars) : previous \in ParsesOf(old)
  <2>1. Invalid(e) \in ParsesOf(e)
    BY InvalidIs
  <2> QED BY <1>2, <2>1 DEF ParseInv
<1>5. PICK old \in Seq(Chars) : previous \in ParsesOf(old)
  BY <1>4
<1> HIDE DEF previous
<1>6. ParseIncremental(in, budget, previous, cut) \in ParsesOf(in)
  BY <1>1, <1>5, IncrementalParses
<1> QED BY <1>3, <1>6

\* The invariant holds before anything is typed.
LEMMA EngineInit == Init => EngineInv
<1> SUFFICES ASSUME Init PROVE EngineInv
  OBVIOUS
<1> DEFINE e == <<>>
<1>1. e \in Seq(Chars) /\ e \in Seq(Nat)
  BY EmptySeq
<1>2. input = e /\ shown = e /\ inc.parsed = Invalid(e) /\ answer = NoAnswer
  BY DEF Init
<1> HIDE DEF e
<1>3. Invalid(e) \in ParsesOf(e)
  BY InvalidIs
<1> QED BY <1>1, <1>2, <1>3, NoRows DEF EngineInv, InputInv, ParseInv, RowsInv

\* What an edit leaves.
LEMMA EditedKeeps ==
  ASSUME EngineInv, NEW in \in Seq(Chars), NEW preview \in Seq(Nat), Edited(in, preview)
  PROVE  EngineInv'
<1>1. input' = in /\ shown' = preview /\ answer' = NoAnswer /\ inc' = inc
  BY DEF Edited, Ask
<1>2. InputInv'
  BY <1>1 DEF InputInv
<1>3. ParseInv'
  BY <1>1 DEF ParseInv, EngineInv
<1>4. RowsInv'
  BY <1>1, NoRows DEF RowsInv
<1> QED BY <1>2, <1>3, <1>4 DEF EngineInv

\* The server's step.
LEMMA ServeKeeps ==
  ASSUME EngineInv, NEW cut, Serve(cut)
  PROVE  EngineInv'
<1> DEFINE parsed == StrictParse(input, mode.expanded, cut)
           found == Found(input, parsed)
           segs == Preview(found.parsed, found.rows, mode.correct)
<1>1. input \in Seq(Chars) /\ shown \in Seq(Nat) /\ input' = input /\ mode' = mode
  BY DEF EngineInv, InputInv, Serve
<1>2. parsed \in ParsesOf(input)
  BY <1>1, StrictParseIs DEF EngineInv
<1>3. inc'.parsed = parsed
  BY DEF Serve
<1>4. ParseInv'
  BY <1>1, <1>2, <1>3 DEF ParseInv
<1> HIDE DEF parsed
<1>5. CASE Answer(parsed)
  <2>1. found.parsed \in ParsesOf(input) /\ found.rows \in Seq(RowSet(input)) /\ Apart(found.rows)
    BY <1>1, <1>2, FoundIs
  <2>2. answer' = found /\ shown' = IF segs = <<>> THEN shown ELSE Respelled(input, Joined(segs))
    BY <1>5 DEF Answer, Applied
  <2> DEFINE p == found.parsed
             rows == found.rows
             correct == mode.correct
  <2> HIDE DEF found
  <2>3. segs \in Seq(Text)
    <3> HIDE DEF p, rows, correct
    <3>1. Preview(p, rows, correct) \in Seq(Text)
      BY <1>1, <2>1, PreviewIs DEF p, rows
    <3> QED BY <3>1 DEF p, rows, correct
  <2> HIDE DEF segs
  <2>4. Joined(segs) \in Seq(Nat)
    BY <2>3, JoinedIs
  <2> DEFINE text == Joined(segs)
  <2> HIDE DEF text
  <2>5. Respelled(input, text) \in Seq(Nat)
    BY <1>1, <2>4, RespelledIs DEF text
  <2>6. InputInv'
    BY <1>1, <2>2, <2>5 DEF InputInv, text
  <2>7. RowsInv'
    BY <1>1, <2>1, <2>2 DEF RowsInv
  <2> QED BY <1>4, <2>6, <2>7 DEF EngineInv
<1>6. CASE Overtaken
  <2>1. shown' = shown /\ answer' = answer
    BY <1>6 DEF Overtaken
  <2>2. InputInv' /\ RowsInv'
    BY <1>1, <2>1 DEF InputInv, RowsInv, EngineInv
  <2> QED BY <1>4, <2>2 DEF EngineInv
<1>7. Answer(parsed) \/ Overtaken
  <2>1. Answer(inc'.parsed) \/ Overtaken
    BY DEF Serve
  <2> QED BY <1>3, <2>1
<1> QED BY <1>5, <1>6, <1>7

\* An answer shows all of its input.
LEMMA ServeSpells ==
  ASSUME EngineInv, NEW cut, Serve(cut)
  PROVE  PreviewSpells'
<1> DEFINE parsed == StrictParse(input, mode.expanded, cut)
           found == Found(input, parsed)
           correct == mode.correct
           segs == Preview(found.parsed, found.rows, correct)
<1>1. input \in Seq(Chars) /\ input' = input
  BY DEF EngineInv, InputInv, Serve
<1>2. parsed \in ParsesOf(input) /\ inc'.parsed = parsed
  BY <1>1, StrictParseIs DEF EngineInv, Serve
<1> HIDE DEF parsed
<1>3. Answer(parsed) \/ Overtaken
  <2>1. Answer(inc'.parsed) \/ Overtaken
    BY DEF Serve
  <2> QED BY <1>2, <2>1
<1>4. CASE Overtaken
  <2>1. asking' # "no"
    BY <1>4 DEF Overtaken
  <2> QED BY <2>1 DEF PreviewSpells, Answered
<1>5. CASE Answer(parsed)
  <2> SUFFICES ASSUME WellFormed(input), IsDoubleInitial(input) => \E row \in ToSet(answer'.rows) : row.used = 2
               PROVE  Spells(input, shown')
    BY <1>1 DEF PreviewSpells
  <2>1. answer' = found /\ shown' = IF segs = <<>> THEN shown ELSE Respelled(input, Joined(segs))
    BY <1>5 DEF Answer, Applied
  <2>2. IsDoubleInitial(input) => \E row \in ToSet(found.rows) : row.used = 2
    <3> HIDE DEF found, segs
    <3> QED BY <2>1
  <2> HIDE DEF correct
  <2>3. Covers(input, segs)
    BY <1>1, <1>2, <2>2, FoundCovers
  <2> HIDE DEF found, segs
  <2>4. segs # <<>> /\ input \in Text
    BY <1>1, <2>3, CharsAre DEF Covers
  <2>5. Spells(input, Respelled(input, Joined(segs)))
    BY <2>3, <2>4, CoversSpells
  <2> QED BY <2>1, <2>4, <2>5
<1> QED BY <1>3, <1>4, <1>5

\* A key appends to the input.
LEMMA TypeKeeps ==
  ASSUME EngineInv, NEW c \in Chars, Edited(Append(input, c), PreviewInserted(input, shown, Len(input), c))
  PROVE  EngineInv'
<1> DEFINE in == Append(input, c)
           preview == PreviewInserted(input, shown, Len(input), c)
<1>1. input \in Seq(Chars) /\ shown \in Seq(Nat) /\ c \in Nat
  BY CharsAre DEF EngineInv, InputInv
<1>2. in \in Seq(Chars) /\ Len(input) \in Nat
  BY <1>1, AppendProperties, LenProperties
<1>3. preview \in Seq(Nat)
  BY <1>1, <1>2, PreviewInsertedIs
<1> HIDE DEF in, preview
<1>4. Edited(in, preview)
  BY DEF in, preview
<1> QED BY <1>2, <1>3, <1>4, EditedKeeps

\* Backspace takes the last character of the input.
LEMMA BackspaceKeeps ==
  ASSUME EngineInv, Backspace
  PROVE  EngineInv'
<1>1. input \in Seq(Chars) /\ shown \in Seq(Nat) /\ input # <<>>
  BY DEF EngineInv, InputInv, Backspace
<1>2. Len(input) \in Nat /\ Len(input) >= 1
  <2>1. Len(input) \in Nat /\ Len(input) # 0
    BY <1>1, EmptySeq, LenProperties
  <2> QED BY <2>1
<1>3. CASE Len(input) = 1
  <2> DEFINE e == <<>>
  <2>1. Edited(e, e)
    BY <1>3 DEF Backspace
  <2>2. e \in Seq(Chars) /\ e \in Seq(Nat)
    BY EmptySeq
  <2> HIDE DEF e
  <2> QED BY <2>1, <2>2, EditedKeeps
<1>4. CASE Len(input) # 1
  <2> DEFINE in == Front(input)
             preview == PreviewErased(input, shown, Len(input))
             m == 1
             n == Len(input) - 1
  <2>1. Edited(in, preview)
    BY <1>4 DEF Backspace
  <2>2. in = SubSeq(input, m, n)
    BY DEF Front
  <2>3. m \in Nat /\ m >= 1 /\ n \in Int /\ n <= Len(input)
    BY <1>2
  <2> HIDE DEF in, m, n
  <2>4. in \in Seq(Chars)
    BY <1>1, <2>2, <2>3, PartIs
  <2>5. preview \in Seq(Nat)
    BY <1>1, <1>2, PreviewErasedIs
  <2> HIDE DEF preview
  <2> QED BY <2>1, <2>4, <2>5, EditedKeeps
<1> QED BY <1>3, <1>4

\* A chosen row takes the input it used, and an apostrophe after it.
LEMMA ChooseKeeps ==
  ASSUME EngineInv, NEW row \in ToSet(answer.rows), Choose(row)
  PROVE  EngineInv'
<1> DEFINE m == row.used + 1
           n == Len(input)
           rest == SubSeq(input, m, n)
           in == IF rest # <<>> /\ rest[1] = Separator THEN Tail(rest) ELSE rest
           e == <<>>
<1>1. input \in Seq(Chars) /\ answer.rows \in Seq(RowSet(input))
  BY DEF EngineInv, InputInv, RowsInv
<1>2. row.used \in Nat
  <2> DEFINE R == RowSet(input)
  <2> HIDE DEF R
  <2>1. row \in R
    BY <1>1, ElementOfSeq, LenProperties DEF ToSet, R
  <2> QED BY <2>1, RowHas DEF R
<1>3. m \in Nat /\ m >= 1 /\ n \in Int /\ n <= Len(input)
  BY <1>1, <1>2, LenProperties
<1>4. Edited(in, e)
  BY DEF Choose
<1>5. e \in Seq(Nat)
  BY EmptySeq
<1> HIDE DEF m, n, e
<1>6. rest \in Seq(Chars)
  BY <1>1, <1>3, PartIs
<1> HIDE DEF rest
<1>7. in \in Seq(Chars)
  BY <1>6, HeadTailProperties
<1> HIDE DEF in
<1> QED BY <1>4, <1>5, <1>7, EditedKeeps

\* Each step keeps the invariant.
LEMMA EngineStep == EngineInv /\ [Next]_vars => EngineInv'
<1> SUFFICES ASSUME EngineInv, [Next]_vars PROVE EngineInv'
  OBVIOUS
<1>1. input \in Seq(Chars) /\ shown \in Seq(Nat)
  BY DEF EngineInv, InputInv
<1>2. ASSUME NEW cut, Serve(cut) PROVE EngineInv'
  BY <1>2, ServeKeeps
<1>3. ASSUME NEW c \in DOMAIN Fallback, TypeLetter(c) PROVE EngineInv'
  <2>1. c \in Chars
    BY DEF Chars
  <2>2. Edited(Append(input, c), PreviewInserted(input, shown, Len(input), c))
    BY <1>3 DEF TypeLetter
  <2> QED BY <2>1, <2>2, TypeKeeps
<1>4. CASE TypeSeparator
  <2> DEFINE c == Separator
  <2>1. c \in Chars
    BY DEF Chars
  <2>2. Edited(Append(input, c), PreviewInserted(input, shown, Len(input), c))
    BY <1>4 DEF TypeSeparator
  <2> HIDE DEF c
  <2> QED BY <2>1, <2>2, TypeKeeps
<1>5. CASE Backspace
  BY <1>5, BackspaceKeeps
<1>6. CASE ToggleCorrection
  <2>1. input' = input /\ shown' = input /\ inc' = inc /\ (answer' = answer \/ answer' = NoAnswer)
    BY <1>6 DEF ToggleCorrection, Ask
  <2>2. input \in Seq(Nat)
    BY <1>1, CharsAre DEF Text
  <2>3. InputInv' /\ ParseInv'
    BY <1>1, <2>1, <2>2 DEF InputInv, ParseInv, EngineInv
  <2>4. RowsInv'
    BY <2>1, NoRows DEF RowsInv, EngineInv
  <2> QED BY <2>3, <2>4 DEF EngineInv
<1>7. CASE ToggleExpanded
  <2>1. input' = input /\ shown' = shown /\ inc' = inc /\ answer' = NoAnswer
    BY <1>7 DEF ToggleExpanded, Ask
  <2>2. InputInv' /\ ParseInv'
    BY <1>1, <2>1 DEF InputInv, ParseInv, EngineInv
  <2>3. RowsInv'
    BY <2>1, NoRows DEF RowsInv
  <2> QED BY <2>2, <2>3 DEF EngineInv
<1>8. ASSUME NEW row \in ToSet(answer.rows), Choose(row) PROVE EngineInv'
  BY <1>8, ChooseKeeps
<1>9. CASE UNCHANGED vars
  BY <1>9 DEF vars, EngineInv, InputInv, ParseInv, RowsInv
<1> QED BY <1>2, <1>3, <1>4, <1>5, <1>6, <1>7, <1>8, <1>9 DEF Next

\* The invariant holds in every reachable state.
LEMMA EngineAlways == Spec => []EngineInv
BY EngineInit, EngineStep, PTL DEF Spec

\* Whatever is typed, erased, cancelled, toggled and chosen: a row of an answer
\* uses some of its own segments as a whole, so that commit_candidate erases
\* whole syllables.
THEOREM AnswersUseSyllables == Spec => []RowsUseSyllables
<1>1. EngineInv => RowsUseSyllables
  <2> SUFFICES ASSUME EngineInv, NEW row \in ToSet(answer.rows) PROVE Uses(input, row.segs, row.used)
    BY DEF RowsUseSyllables, Uses
  <2> DEFINE R == RowSet(input)
  <2>1. answer.rows \in Seq(R)
    BY DEF EngineInv, RowsInv
  <2> HIDE DEF R
  <2>2. row \in R
    BY <2>1, ElementOfSeq, LenProperties DEF ToSet
  <2> QED BY <2>2, RowHas DEF R
<1> QED BY <1>1, EngineAlways, PTL

\* In every reachable state in which the preview spells the input, an edit at
\* any caret changes both alike (insert_at_pinyin_cursor and
\* erase_before_pinyin_cursor on input_buffer_ and segmented_input_).
THEOREM PreviewsAreEditedAlike == Spec => []EditsKeepPreview
<1>1. EngineInv => EditsKeepPreview
  <2> SUFFICES ASSUME EngineInv, shown # <<>>, Spells(input, shown) PROVE Kept(input, shown)
    BY DEF EditsKeepPreview, Kept
  <2>1. input \in Seq(Nat) /\ shown \in Seq(Nat)
    BY CharsAre DEF EngineInv, InputInv, Text
  <2> QED BY <2>1, EditsSpell
<1> QED BY <1>1, EngineAlways, PTL

\* No answer in any reachable state offers a text twice: BestPerText takes each
\* text from one source, and what orders, cuts, pages and adds rows afterwards
\* keeps them apart.
THEOREM AnswersAreDistinct == Spec => []RowsDistinct
<1>1. EngineInv => RowsDistinct
  BY DEF EngineInv, RowsInv, Apart, RowsDistinct
<1> QED BY <1>1, EngineAlways, PTL

\* Once a well-formed input is answered its preview shows its letters and its
\* apostrophes and nothing else but apostrophes, whatever the answer's parse and
\* rows: the segments of the first row, of an exact path and of the raw input
\* all cover the input, and a page of two initials begins with a word if there
\* is one (preferred_source_segmentation, arrange_double_initial_pages and
\* case_preserving_segmented_input).
THEOREM PreviewsSpell == Spec => []PreviewSpells
<1>1. Init => PreviewSpells
  BY DEF Init, PreviewSpells, Answered
<1>2. EngineInv /\ PreviewSpells /\ [Next]_vars => PreviewSpells'
  <2> SUFFICES ASSUME EngineInv, PreviewSpells, [Next]_vars PROVE PreviewSpells'
    OBVIOUS
  <2>1. ASSUME NEW in, Ask(in), input' = in PROVE PreviewSpells'
    <3>1. asking' = "no" => input' = <<>>
      BY <2>1 DEF Ask
    <3> QED BY <3>1 DEF PreviewSpells, Answered
  <2>2. ASSUME NEW in, NEW preview, Edited(in, preview) PROVE PreviewSpells'
    BY <2>1, <2>2 DEF Edited
  <2>3. ASSUME NEW cut, Serve(cut) PROVE PreviewSpells'
    BY <2>3, ServeSpells
  <2>4. ASSUME NEW c, TypeLetter(c) PROVE PreviewSpells'
    BY <2>2, <2>4 DEF TypeLetter
  <2>5. CASE TypeSeparator
    BY <2>2, <2>5 DEF TypeSeparator
  <2>6. CASE Backspace
    BY <2>2, <2>6 DEF Backspace
  <2>7. CASE ToggleCorrection
    <3>1. CASE input = <<>>
      <4>1. input' = <<>>
        BY <2>7, <3>1 DEF ToggleCorrection
      <4> QED BY <4>1 DEF PreviewSpells, Answered
    <3>2. CASE input # <<>>
      BY <2>1, <2>7, <3>2 DEF ToggleCorrection
    <3> QED BY <3>1, <3>2
  <2>8. CASE ToggleExpanded
    BY <2>1, <2>8 DEF ToggleExpanded
  <2>9. ASSUME NEW row, Choose(row) PROVE PreviewSpells'
    BY <2>2, <2>9 DEF Choose
  <2>10. CASE UNCHANGED vars
    BY <2>10 DEF vars, PreviewSpells, Answered
  <2> QED BY <2>3, <2>4, <2>5, <2>6, <2>7, <2>8, <2>9, <2>10 DEF Next
<1> QED BY <1>1, <1>2, EngineAlways, PTL DEF Spec
=============================================================================
