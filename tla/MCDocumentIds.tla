--------------------------- MODULE MCDocumentIds ---------------------------
(***************************************************************************)
(* DocumentIds for two sessions and two clock sequences.                   *)
(***************************************************************************)
EXTENDS DocumentIds, TLC

CONSTANTS s1, s2

TwoSessions == {s1, s2}
Symmetry == Permutations(TwoSessions)
=============================================================================
