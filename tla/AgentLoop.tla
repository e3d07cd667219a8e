------------------------------- MODULE AgentLoop -------------------------------
(***************************************************************************)
(* AgentLoop.run (src/agentic_rl_forge/rollout/loop.py) of one task, in a  *)
(* session of LocalToolEnvironment (environments/local.py).                *)
(*                                                                         *)
(* The policy chooses any action, any call of the loop that leaves the     *)
(* process may raise, and the task that runs the loop may be cancelled at  *)
(* each.  The state of the session is the sequence of the effects that     *)
(* tools had on it, and stands for its digest.  A tool that works in a     *)
(* thread of its own may go on after its timeout and have its effect late. *)
(* Messages, tokens and step rewards are left out; the final reward is a   *)
(* success or none.                                                        *)
(***************************************************************************)
EXTENDS Integers, Sequences, FiniteSets

CONSTANTS
  Kind,          \* the kind of each action: a call that writes or reads, ...
  MaxSteps,      \* the least of the task's and the loop's max_steps
  RepeatLimit    \* repeated_action_limit

Action == DOMAIN Kind
Tool   == {a \in Action : Kind[a] \in {"write", "read"}}

LoopAssumption ==
  /\ Kind \in [Action -> {"write", "read", "final", "invalid"}]
  /\ MaxSteps \in Nat \ {0} /\ RepeatLimit \in Nat \ {0}

VARIABLES
  at,          \* where the loop is
  session,     \* the session: whether it is open, its state and its revision, and
               \* the calls that may still change it
  before,      \* the snapshot before the step
  doing,       \* the action of the step, and whether its result is ok
  steps,       \* the steps so far
  status, error,
  trajectory   \* what the loop returns

vars == <<at, session, before, doing, steps, status, error, trajectory>>

Nothing    == [action |-> "none", ok |-> TRUE]
NoSnapshot == [state |-> <<>>, revision |-> 0]
Snapshot   == [state |-> session.state, revision |-> session.revision]
Ended      == {"returned", "raised", "cancelled"}

Session    == [open : BOOLEAN, state : Seq(Tool), revision : Nat, late : SUBSET ((1..MaxSteps) \X Tool)]
Snapshots  == [state : Seq(Tool), revision : Nat]
Step       == [action : Action, ok : BOOLEAN, before : Snapshots, after : Snapshots]
Status     == {"running", "succeeded", "failed", "truncated", "error"}
Trajectory == [status : Status \ {"running"}, error : BOOLEAN, steps : Seq(Step)]

TypeOK ==
  /\ at \in {"start", "before", "generate", "execute", "after", "score", "close"} \cup Ended
  /\ session \in Session /\ before \in Snapshots
  /\ doing = Nothing \/ doing \in [action : Action, ok : BOOLEAN]
  /\ steps \in Seq(Step) /\ Len(steps) <= MaxSteps
  /\ status \in Status /\ error \in BOOLEAN
  /\ IF at = "returned" THEN trajectory \in Trajectory ELSE trajectory = "none"

Init ==
  /\ at = "start"
  /\ session = [open |-> FALSE, state |-> <<>>, revision |-> 0, late |-> {}]
  /\ before = NoSnapshot /\ doing = Nothing /\ steps = <<>>
  /\ status = "running" /\ error = FALSE /\ trajectory = "none"

\* A task that references an unregistered tool gets no session.
CreateSession ==
  /\ at = "start"
  /\ \/ at' = "before" /\ session' = [session EXCEPT !.open = TRUE]
     \/ at' = "raised" /\ UNCHANGED session
  /\ UNCHANGED <<before, doing, steps, status, error, trajectory>>

TakeBefore ==
  /\ at = "before"
  /\ before' = Snapshot /\ at' = "generate"
  /\ UNCHANGED <<session, doing, steps, status, error, trajectory>>

Generate ==
  /\ at = "generate"
  /\ \E a \in Action :
       /\ doing' = [action |-> a, ok |-> TRUE]
       /\ at' = IF a \in Tool THEN "execute" ELSE "after"
  /\ UNCHANGED <<session, before, steps, status, error, trajectory>>

\* Mutant: a failed call counts in the revision too.
CountExecute ==
  LET call == doing.action
      acted == [session EXCEPT !.state = Append(@, call)]
  IN  /\ at = "execute"
      /\ \E ok \in BOOLEAN :
           /\ doing' = [doing EXCEPT !.ok = ok]
           /\ session' = IF Kind[call] = "write" THEN [acted EXCEPT !.revision = @ + 1] ELSE session
      /\ at' = "after"
      /\ UNCHANGED <<before, steps, status, error, trajectory>>

\* A tool that succeeds has had its effect and counts in the revision.  One that
\* fails, or is cancelled at its timeout, may have had it, or may yet have it.
Execute ==
  LET call == doing.action
      acted == [session EXCEPT !.state = Append(@, call)]
  IN  /\ at = "execute"
      /\ \/ /\ Kind[call] = "write"
            /\ \/ session' = [acted EXCEPT !.revision = @ + 1] /\ doing' = doing
               \/ session' \in {session, acted, [session EXCEPT !.late = @ \cup {<<Len(steps) + 1, call>>}]}
                    /\ doing' = [doing EXCEPT !.ok = FALSE]
         \/ /\ Kind[call] = "read"
            /\ \E ok \in BOOLEAN : doing' = [doing EXCEPT !.ok = ok]
            /\ UNCHANGED session
      /\ at' = "after"
      /\ UNCHANGED <<before, steps, status, error, trajectory>>

LateEffect ==
  /\ \E x \in session.late :
       session' = [session EXCEPT !.state = Append(@, x[2]), !.late = @ \ {x}]
  /\ UNCHANGED <<at, before, doing, steps, status, error, trajectory>>

\* Equal actions at the end of a sequence of steps.
Repeats(all) ==
  LET n == Len(all)
      same == {i \in 1..n : \A j \in i..n : all[j].action = all[n].action}
  IN  IF n = 0 THEN 0 ELSE n + 1 - (CHOOSE i \in same : \A j \in same : i <= j)

\* Mutant: the loop goes on after a final answer.
OutcomeGoesOn(all) ==
  LET kind == Kind[all[Len(all)].action]
  IN  IF kind = "invalid" THEN "failed"
      ELSE IF Repeats(all) >= RepeatLimit \/ Len(all) = MaxSteps THEN "truncated" ELSE "running"

\* The status after a step; the loop goes on while it is "running".
Outcome(all) ==
  LET kind == Kind[all[Len(all)].action]
  IN  IF kind \in {"final", "invalid"} THEN "failed"
      ELSE IF Repeats(all) >= RepeatLimit \/ Len(all) = MaxSteps THEN "truncated" ELSE "running"

\* The step is scored, the snapshot after it taken and the step appended.
EndStep ==
  /\ at = "after"
  /\ steps' = Append(steps, [action |-> doing.action, ok |-> doing.ok, before |-> before, after |-> Snapshot])
  /\ status' = Outcome(steps')
  /\ at' = IF status' = "running" THEN "before" ELSE "score"
  /\ doing' = Nothing /\ before' = NoSnapshot
  /\ UNCHANGED <<session, error, trajectory>>

\* The policy, the environment, the rewards or the validation of the step.
StepRaises ==
  /\ at \in {"before", "generate", "execute", "after"}
  /\ status' = "error" /\ error' = TRUE /\ at' = "score"
  /\ UNCHANGED <<session, before, doing, steps, trajectory>>

\* Whether the final reward is a success decides about a final answer; an error
\* in the reward leaves the loop, and the session open.
ScoreFinal ==
  /\ at = "score"
  /\ \/ /\ \E success \in BOOLEAN :
             status' = IF steps # <<>> /\ Kind[steps[Len(steps)].action] = "final"
                         THEN IF success THEN "succeeded" ELSE "failed" ELSE status
        /\ at' = "close"
     \/ at' = "raised" /\ UNCHANGED status
  /\ UNCHANGED <<session, before, doing, steps, error, trajectory>>

CloseSession ==
  /\ at = "close"
  /\ session' = [session EXCEPT !.open = FALSE]
  /\ trajectory' = [status |-> status, error |-> error, steps |-> steps]
  /\ at' = "returned"
  /\ UNCHANGED <<before, doing, steps, status, error>>

\* CancelledError is no Exception: it leaves the loop, and the session open.
Cancel ==
  /\ at \notin Ended \cup {"start"}
  /\ at' = "cancelled"
  /\ UNCHANGED <<session, before, doing, steps, status, error, trajectory>>

Next ==
  \/ CreateSession \/ TakeBefore \/ Generate \/ Execute \/ EndStep \/ StepRaises
  \/ LateEffect \/ ScoreFinal \/ CloseSession \/ Cancel

Spec == Init /\ [][Next]_vars

-----------------------------------------------------------------------------
(* Properties.                                                               *)

Last(all) == all[Len(all)]

\* What a returned trajectory says of its end is so: it succeeded or failed by
\* its last action and never after an error, no earlier action was final, and it
\* was cut off at a limit that its steps have reached, beyond which there are
\* none.
TrajectoriesTruthful ==
  at = "returned" =>
    LET all  == trajectory.steps
        said == trajectory.status
    IN  /\ said # "running"
        /\ said = "error" <=> trajectory.error
        /\ said = "succeeded" => all # <<>> /\ Kind[Last(all).action] = "final"
        /\ said = "failed" => all # <<>> /\ Kind[Last(all).action] \in {"final", "invalid"}
        /\ said = "truncated" =>
             /\ all # <<>> /\ Kind[Last(all).action] \in {"write", "read"}
             /\ Repeats(all) >= RepeatLimit \/ Len(all) = MaxSteps
        /\ Len(all) <= MaxSteps
        /\ \A i \in 1..(Len(all) - 1) :
             /\ Kind[all[i].action] \in {"write", "read"}
             /\ Repeats(SubSeq(all, 1, i)) < RepeatLimit

\* The calls of a in the first n steps, and how often a state shows its effect.
Calls(a, n)       == {i \in 1..n : steps[i].action = a}
Effects(a, state) == Cardinality({i \in DOMAIN state : state[i] = a})

\* The snapshots of a trajectory tell what its calls did: states only grow, with
\* the effect of each call that succeeded, once, and of each that failed, once or
\* not at all; the revision counts those that succeeded.
EffectsAccounted ==
  \A n \in 1..Len(steps) :
    LET s == steps[n]
        succeeded == {i \in 1..n : Kind[steps[i].action] = "write" /\ steps[i].ok}
    IN  /\ n > 1 => SubSeq(s.before.state, 1, Len(steps[n - 1].after.state)) = steps[n - 1].after.state
        /\ s.after.revision = Cardinality(succeeded)
        /\ \A a \in Tool : Effects(a, s.after.state) \in
             Cardinality(Calls(a, n) \cap succeeded)..(IF Kind[a] = "write" THEN Cardinality(Calls(a, n)) ELSE 0)
=============================================================================
