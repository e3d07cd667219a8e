--------------------------- MODULE MCReleaseMirror ---------------------------
(* Small instances of ReleaseMirror. *)
EXTENDS ReleaseMirror, TLC, Functions

CONSTANTS x1, x2, r1, m1, m2, part, commit

\* One release is new to the destination, the other has been copied in part.
Partly == [m \in Release |-> IF m = m1 THEN {} ELSE {part}]

\* The release that is new is mirrored by two executors; both releases together
\* by one at a time, at one time and from stores that do not change.
Bounds ==
  /\ Member # {m2}
  /\ Cardinality(Member) = 2 =>
       /\ drifted = {} /\ Range(at) \subseteq {None, 1}
       /\ Cardinality({x \in Executor : pc[x] # "idle"}) <= 1

Symmetry == Permutations(Executor)
=============================================================================
