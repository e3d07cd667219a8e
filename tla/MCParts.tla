-------------------------------- MODULE MCParts --------------------------------
(* A small instance of each of the parts. *)
EXTENDS Parts, TLC

CONSTANTS n1, n2, n3, i1, i2, t1, t2

PolicyVersions == (t1 :> 1) @@ (t2 :> 2)

LoopActions   == [w |-> "write", r |-> "read", f |-> "final", x |-> "invalid"]
SearchActions == [w |-> "write", f |-> "final", x |-> "invalid"]
Scores        == {-1, 1}
================================================================================
