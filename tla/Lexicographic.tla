---------------------------- MODULE Lexicographic ----------------------------
(***************************************************************************)
(* The order of sequences of numbers that sorts them like words: Go's      *)
(* order of strings when the numbers are bytes, the order in which         *)
(* filepath.WalkDir visits paths when they are the names along a path.     *)
(***************************************************************************)
EXTENDS Naturals, Sequences, SequencesExt

\* s comes strictly before t.
Precedes(s, t) ==
  \/ IsStrictPrefix(s, t)
  \/ \E n \in DOMAIN s \cap DOMAIN t :
       SubSeq(s, 1, n - 1) = SubSeq(t, 1, n - 1) /\ s[n] < t[n]
=============================================================================
