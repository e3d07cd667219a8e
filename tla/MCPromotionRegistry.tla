------------------------ MODULE MCPromotionRegistry -------------------------
(* Small instances of PromotionRegistry. *)
EXTENDS PromotionRegistry, TLC

CONSTANTS o1, o2, p1, p2, e1

Candidates == {"candidate"}
Production == {"production"}
\* Two promotions and the alias that goes to and fro between them; p1 is retired.
Rivals ==
  [stream : {p1}, target : {"candidate", "retired"}]
  \cup [stream : {p2}, target : {"candidate"}]
  \cup [stream : {e1}, promotion : {p1}, action : {"assign", "rollback"}]
  \cup [stream : {e1}, promotion : {p2}, action : {"assign"}]
Operators == Permutations({o1, o2})
=============================================================================
