----------------------------- MODULE MCIdRanges -----------------------------
(***************************************************************************)
(* Two maps with two attributes; both maps and both attributes can be      *)
(* exchanged.                                                              *)
(***************************************************************************)
EXTENDS IdRanges, TLC

CONSTANTS map1, map2, attr1, attr2

Symmetry == Permutations(Maps) \cup Permutations(Attrs)
=============================================================================
