----------------------------- MODULE DecideOnce -----------------------------
(***************************************************************************)
(* What a conditional create of a decision object promises its callers:    *)
(* the object is decided at most once, and a call that returns an outcome  *)
(* returns the one that was decided.  The stores' put_if_absent gives it   *)
(* to the release transport (commit.json: a commit or a tombstone) and to  *)
(* mirror batches (decision.json: completed or resolved).                  *)
(***************************************************************************)
CONSTANTS Caller, None

VARIABLES
  value,    \* the decision, or None
  answer    \* what each caller's last successful call returned, or None

vars == <<value, answer>>

Init ==
  /\ value = None
  /\ answer = [c \in Caller |-> None]

Decide ==
  /\ value = None
  /\ value' # None
  /\ UNCHANGED answer

\* A call returns what was decided, or starts anew.
Answer(c) ==
  /\ \/ value # None /\ answer' = [answer EXCEPT ![c] = value]
     \/ answer' = [answer EXCEPT ![c] = None]
  /\ UNCHANGED value

Next == Decide \/ \E c \in Caller : Answer(c)

Spec == Init /\ [][Next]_vars
=============================================================================
