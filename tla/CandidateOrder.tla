---------------------------- MODULE CandidateOrder ----------------------------
(***************************************************************************)
(* How an external model reorders candidates, and what it may not move:    *)
(* include/owo/ipc/contextual_candidate_order.h and its use for            *)
(* candidate_update_request in src/ipc/named_pipe.cpp.                     *)
(*                                                                         *)
(* A row is its text and how much of the input it uses.                    *)
(***************************************************************************)
EXTENDS Places

IndexOf(texts, text) == Min({i \in DOMAIN texts : texts[i] = text} \cup {Len(texts) + 1})
TextsIn(rows) == [i \in DOMAIN rows |-> rows[i].text]

\* the elements of a sequence in an order; equal ones stay in their places
StableSort(s, Less(_, _)) ==
  LET before(i) == {j \in DOMAIN s : Less(s[j], s[i]) \/ (j < i /\ ~Less(s[i], s[j]))}
  IN [k \in DOMAIN s |-> s[CHOOSE i \in DOMAIN s : Cardinality(before(i)) = k - 1]]

\* apply_contextual_candidate_order: rows for the whole input, then words, the
\* longest first, then characters; the model orders each of these
Tier(row, full) == IF row.used = full THEN 0 ELSE IF Len(row.text) >= 2 THEN 1 ELSE 2
ModelOrder(model, full, rows) ==
  LET Less(r, q) ==
        LET t == Tier(r, full) IN
        \/ t < Tier(q, full)
        \/ /\ t = Tier(q, full)
           /\ \/ t = 1 /\ r.used > q.used
              \/ (t = 1 => r.used = q.used) /\ IndexOf(model, r.text) < IndexOf(model, q.text)
  IN StableSort(rows, Less)

\* takes the row at one place to another
Moved(rows, from, to) == InsertAt(RemoveAt(rows, from), to, rows[from])
SameUse(rows, i) == {k \in DOMAIN rows : rows[k].used = rows[i].used}

\* promote_preferred_candidates: each to the first place of the rows that use
\* as much, the last preference first
Promote(rows, text) ==
  LET i == IndexOf(TextsIn(rows), text) IN
  IF i > Len(rows) THEN rows ELSE Moved(rows, i, Place(SameUse(rows, i), 1))
Promoted(preferences, rows) == FoldLeft(Promote, rows, Reverse(preferences))

\* restore_preferred_candidate_positions: each to the place that it had in base
\* among the rows that use as much
Restore(base, rows, text) ==
  LET b == IndexOf(TextsIn(base), text)
      i == IndexOf(TextsIn(rows), text)
      rank == Cardinality({k \in SameUse(base, b) : k < b}) + 1
  IN IF b > Len(base) \/ i > Len(rows) \/ base[b].used # rows[i].used \/ rank > Cardinality(SameUse(rows, i))
     THEN rows
     ELSE Moved(rows, i, Place(SameUse(rows, i), rank))
Restored(preferences, base, rows) == FoldLeft(LAMBDA acc, text : Restore(base, acc, text), rows, preferences)

\* the rows for the whole input, and the rows of which only so many are such
Wholes(rows, full) == {i \in DOMAIN rows : rows[i].used = full}
WithWholes(rows, full, n) ==
  Those(rows, {i \in DOMAIN rows : i \in Wholes(rows, full) => Cardinality({j \in Wholes(rows, full) : j <= i}) <= n})

\* Sensitivity variant: what was learned is not put back.
UpdatedUnrestored(model, entry) ==
  LET ordered == ModelOrder(model, entry.full, entry.rows)
      restored == Promoted(entry.contextual, ordered)
      wholes == Those(restored, Wholes(restored, entry.full))
      preferred == Those(ordered, Wholes(ordered, entry.full))
      conflict == preferred # <<>> /\ wholes[1].text # preferred[1].text
      shown == Cardinality({i \in Wholes(entry.rows, entry.full) : i <= entry.visible})
      kept == WithWholes(restored, entry.full, Max({1, shown} \cup (IF conflict THEN {2} ELSE {})))
  IN SubSeq(kept, 1, Min({entry.visible, Len(kept)}))

\* candidate_update_request: the rows of a page and the hidden ones in the
\* order of the model, then as many sentences as the page had, or two when the
\* learned and the model's first sentence differ, then as many rows as the page
Updated(model, entry) ==
  LET ordered == ModelOrder(model, entry.full, entry.rows)
      restored == Restored(entry.learned, entry.rows, Promoted(entry.contextual, ordered))
      wholes == Those(restored, Wholes(restored, entry.full))
      preferred == Those(ordered, Wholes(ordered, entry.full))
      conflict == preferred # <<>> /\ wholes[1].text # preferred[1].text
      shown == Cardinality({i \in Wholes(entry.rows, entry.full) : i <= entry.visible})
      kept == WithWholes(restored, entry.full, Max({1, shown} \cup (IF conflict THEN {2} ELSE {})))
  IN SubSeq(kept, 1, Min({entry.visible, Len(kept)}))
=============================================================================
