----------------------------- MODULE PinyinCursor -----------------------------
(***************************************************************************)
(* The caret in the typed letters and in their preview:                    *)
(* src/tsf/pinyin_cursor.cpp.  The preview is the input with apostrophes   *)
(* between its syllables; a caret counts the characters before it.         *)
(***************************************************************************)
EXTENDS PinyinSchema

\* consumes_input
Consumes(shown, typed) == shown = typed \/ (shown # Separator /\ typed # Separator)

\* Raw(input, preview)[k]: how many characters of the input the first k of
\* the preview show
Raw(input, preview) ==
  LET raw[k \in 0..Len(preview)] ==
        IF k = 0 THEN 0
        ELSE raw[k - 1] + (IF raw[k - 1] < Len(input) /\ Consumes(preview[k], input[raw[k - 1] + 1]) THEN 1 ELSE 0)
  IN raw

Least(S, default) == IF S = {} THEN default ELSE CHOOSE k \in S : \A l \in S : k <= l

\* preview_index_for_input_cursor
PreviewIndex(input, preview, caret) ==
  LET raw == Raw(input, preview)
  IN Least({k \in DOMAIN raw : raw[k] >= Lesser(caret, Len(input))}, Len(preview))

\* input_cursor_for_preview_index
InputCaret(input, preview, index) == Raw(input, preview)[Lesser(index, Len(preview))]

\* Sensitivity variant: the place before the character, be it an apostrophe.
PreviewPlace(input, preview, index) ==
  LET raw == Raw(input, preview) IN Least({k \in 0..Len(preview) - 1 : raw[k] = index}, Len(preview))

\* preview_character_for_input_index, counted from 0 as the code does
PreviewCharacter(input, preview, index) ==
  LET raw == Raw(input, preview)
  IN Least({k \in 0..Len(preview) - 1 : index < Len(input) /\ raw[k] = index /\ raw[k + 1] = index + 1}, Len(preview))

\* insert_at_pinyin_cursor and erase_before_pinyin_cursor, on the preview
PreviewInserted(input, preview, caret, c) ==
  IF preview = <<>> THEN preview ELSE InsertAt(preview, PreviewIndex(input, preview, caret) + 1, c)
PreviewErased(input, preview, caret) ==
  LET shown == PreviewCharacter(input, preview, caret - 1)
  IN IF preview # <<>> /\ shown < Len(preview) THEN RemoveAt(preview, shown + 1) ELSE preview
=============================================================================
