---------------------------- MODULE MCSlotClaims ----------------------------
(* Small instances of SlotClaims. *)
EXTENDS SlotClaims, TLC

CONSTANTS s1, s2, s3, o1, alice, bob

\* Two workers that claim under identities of their own.
OwnerRivals == [s \in Session |-> IF s = s1 THEN alice ELSE bob]

\* s1 and s2 are two tasks of one worker (its rollout and its renewal task, or
\* a restarted process); s3 is another worker.
OwnerTasks == [s \in Session |-> IF s = s3 THEN bob ELSE alice]
=============================================================================
