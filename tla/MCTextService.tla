--------------------------- MODULE MCTextService ---------------------------
(***************************************************************************)
(* A small text service for TLC.  Letters are interchangeable, and so are  *)
(* documents.                                                              *)
(***************************************************************************)
EXTENDS TextService

Symmetry == Permutations(Letters) \cup Permutations(Docs)
============================================================================
