------------------------ MODULE MCRolloutCollection ------------------------
(* Small instances of RolloutCollection: a collector alone that has every slot *)
(* to fill, or all collectors of a plan of which one slot is missing.          *)
EXTENDS RolloutCollection, TLC

CONSTANTS c1, c2, s1, s2

MCInit ==
  /\ Init
  /\ \/ stored = [s \in Slot |-> None] /\ pc[c1] = "reading" /\ pc[c2] = "crashed"
     \/ stored = [s \in Slot |-> IF s = s1 THEN None ELSE Earlier] /\ pc[c1] = "reading"
          /\ pc[c2] = "reading"

MCSpec == MCInit /\ [][Next]_vars /\ Fairness
=============================================================================
