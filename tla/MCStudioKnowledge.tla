-------------------------- MODULE MCStudioKnowledge --------------------------
(* Small instances of StudioKnowledge. *)
EXTENDS StudioKnowledge, TLC
CONSTANTS s1, s2, w1, w2
Symmetry == Permutations(Source) \cup Permutations(Searcher)
=============================================================================
