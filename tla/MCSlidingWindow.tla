--------------------------- MODULE MCSlidingWindow ---------------------------
(* Small instances of SlidingWindow for TLC.                               *)
EXTENDS SlidingWindow

Symmetry == Permutations(Workers)
=============================================================================
