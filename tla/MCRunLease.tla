----------------------------- MODULE MCRunLease -----------------------------
(* Small instances of RunLease. *)
EXTENDS RunLease, TLC

CONSTANTS w1, w2, o1, t1, st1, st2, st3, alice, bob

\* Every caller is a process of its own, with its own store instance.
OwnStores == [c \in Caller |-> CASE c = w1 -> st1 [] c = w2 -> st2 [] OTHER -> st3]

\* w1 leases the run; w2 is a command that writes without a lease, or a rival.
OneLeases == [w \in Worker |-> IF w = w1 THEN {alice} ELSE {}]
Rivals == [w \in Worker |-> IF w = w1 THEN {alice} ELSE {bob}]
=============================================================================
