------------------------------- MODULE Places -------------------------------
(***************************************************************************)
(* Sequences by their places.  What SelectSeq and SortSeq of the standard  *)
(* modules do with an operator is done here with a set of places, or with  *)
(* a relation between places, so that lemmas can be stated about it; the   *)
(* operators that take a test or an order are abbreviations of these.      *)
(***************************************************************************)
EXTENDS Integers, FiniteSets, Sequences, SequencesExt, FiniteSetsExt

\* the n-th of some places, and the elements that a sequence has at places
Place(places, n) == CHOOSE i \in places : Cardinality({j \in places : j < i}) = n - 1
Those(s, places) == [k \in 1..Cardinality(places) |-> s[Place(places, k)]]

\* the elements that pass a test, in their order
Selected(s, Test(_)) == Those(s, {i \in DOMAIN s : Test(s[i])})

\* insertion as std::sort does it on short ranges: in front when it is before
\* the first, else after the last that it is not before
Inserted(order, i, before) ==
  LET stay == {k \in DOMAIN order : <<i, order[k]>> \notin before}
  IN InsertAt(order, IF 1 \in stay THEN Max(stay) + 1 ELSE 1, i)
SortedPlaces(n, before) ==
  LET order[k \in 0..n] == IF k = 0 THEN <<>> ELSE Inserted(order[k - 1], k, before)
  IN order[n]
\* the elements of a sequence in an order; equal ones stay in their places
SortedBy(s, before) == LET order == SortedPlaces(Len(s), before) IN [k \in DOMAIN s |-> s[order[k]]]
Sorted(s, Less(_, _)) == SortedBy(s, {p \in (DOMAIN s) \X (DOMAIN s) : Less(s[p[1]], s[p[2]])})

\* of what is left, something that no more of it comes before than before others
Foremost(left, before) ==
  LET Preceding(x) == Cardinality({y \in left : <<y, x>> \in before})
  IN CHOOSE x \in left : \A y \in left : Preceding(x) <= Preceding(y)
\* the elements of a set in an order
InOrder(S, before) ==
  LET first[n \in 0..Cardinality(S)] ==
        IF n = 0 THEN <<>> ELSE Append(first[n - 1], Foremost(S \ ToSet(first[n - 1]), before))
  IN first[Cardinality(S)]
OrderedBy(S, Less(_, _)) == InOrder(S, {p \in S \X S : Less(p[1], p[2])})

Total(s) == LET sum[n \in 0..Len(s)] == IF n = 0 THEN 0 ELSE sum[n - 1] + s[n] IN sum[Len(s)]
MapSeq(Op(_), s) == [i \in DOMAIN s |-> Op(s[i])]
=============================================================================
