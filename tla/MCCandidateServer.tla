-------------------------- MODULE MCCandidateServer --------------------------
(* Two inputs; every answer of a model that matters. *)
EXTENDS CandidateServer

Row(text, used, weight) == [text |-> text, used |-> used, weight |-> weight]
\* the first has sentences, a word and a character, and one that is hidden
MCDictionary ==
  "x" :> [size |-> 4, shown |-> <<Row(<<1,2>>, 4, 5), Row(<<3,4>>, 4, 4), Row(<<1,3>>, 2, 9), Row(<<1>>, 2, 7)>>,
          hidden |-> <<Row(<<5,6>>, 4, 0)>>]
  @@ "y" :> [size |-> 2, shown |-> <<Row(<<7,8>>, 2, 3), Row(<<7,9>>, 2, 2)>>, hidden |-> <<>>]
MCJoined == <<3,4>> :> [syllables |-> 3, frequency |-> 2] @@ <<7,9>> :> [syllables |-> 2, frequency |-> 1]
MCModelOrders == {<<<<5,6>>, <<7,9>>>>, <<<<1>>, <<3,4>>, <<1,2>>>>}
MCLearned == <<<<3,4>>>>
MCTexts == {<<1,2>>, <<3,4>>}
Want(text, page, expanded, context) == [text |-> text, page |-> page, expanded |-> expanded, context |-> context]
MCAsks == {Want("x", 0, FALSE, FALSE), Want("x", 1, FALSE, TRUE), Want("y", 0, TRUE, TRUE)}
Document(sensitivity, ranking, learning) ==
  [sensitivity |-> sensitivity, ranking |-> ranking, learning |-> learning]
MCFirst == Document(2, TRUE, TRUE)
MCConfig == {MCFirst, Document(1, FALSE, TRUE), Document(1, TRUE, FALSE)}
=============================================================================
