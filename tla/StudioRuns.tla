------------------------------ MODULE StudioRuns ------------------------------
(***************************************************************************)
(* The reinforcement learning workspace of Studio                          *)
(* (src/agentic_rl_forge/studio/rl.py): run records on disk, the HTTP      *)
(* handlers that create runs, and RLJobRunner, which executes them one at  *)
(* a time.  Handlers and tasks share an event loop; what they give to      *)
(* asyncio.to_thread runs in threads that a cancellation leaves alone.     *)
(*                                                                         *)
(* A record is its status; every save replaces the file under the          *)
(* workspace's lock, or fails and leaves it as it is.  A save that fails   *)
(* when the process starts or ends takes the process down with it (Die).   *)
(* A record that is there can be read.  Datasets, titles and results are   *)
(* left out.                                                               *)
(***************************************************************************)
EXTENDS FiniteSets

CONSTANTS Run, None

StudioRunsAssumption == None \notin Run

VARIABLES
  record,     \* the status in run.json, or "absent"
  process,    \* of the Studio process: its lifespan
  request,    \* the handler that creates each run
  task,       \* the task that executes it
  claim,      \* its _claim_queued_run thread
  slot,       \* the run that holds the execution slot, or None
  pending,    \* close: the runs whose tasks were there
  read        \* what fail_run_if_active has read of each run

vars == <<record, process, request, task, claim, slot, pending, read>>

Active == {"queued", "running"}
Terminal == {"succeeded", "failed"}
Status == {"absent"} \cup Active \cup Terminal
Live == {"waiting", "claiming", "working"}

TypeOK ==
  /\ record \in [Run -> Status]
  /\ process \in {"down", "recovering", "open", "closing", "sweeping", "closed"}
  /\ request \in [Run -> {"none", "enqueue", "failing", "done", "unsaved"}]
  /\ task \in [Run -> {"none", "unsaved", "cancelled", "stopping"} \cup Live]
  /\ claim \in [Run -> {"none", "thread", "claimed", "refused", "unsaved"}]
  /\ slot \in Run \cup {None}
  /\ pending \subseteq Run
  /\ read \in [Run -> {"unread"} \cup Status]

All(v) == [r \in Run |-> v]

Init ==
  /\ record = All("absent")
  /\ process = "down"
  /\ request = All("none")
  /\ task = All("none")
  /\ claim = All("none")
  /\ slot = None
  /\ pending = {}
  /\ read = All("unread")

Save(r, s) == record' = [record EXCEPT ![r] = s]

-----------------------------------------------------------------------------
(* The process: start, shutdown, death *)

Start ==
  /\ process = "down"
  /\ process' = "recovering"
  /\ UNCHANGED <<record, request, task, claim, slot, pending, read>>

\* recover_interrupted writes the records one after the other.
Recover(r) ==
  /\ process = "recovering" /\ record[r] \in Active
  /\ Save(r, "failed")
  /\ UNCHANGED <<process, request, task, claim, slot, pending, read>>

\* Mutant: interrupted runs are left as they were.
OpenUnrecovered ==
  /\ process = "recovering"
  /\ process' = "open"
  /\ UNCHANGED <<record, request, task, claim, slot, pending, read>>

Open ==
  /\ process = "recovering" /\ \A r \in Run : record[r] \notin Active
  /\ process' = "open"
  /\ UNCHANGED <<record, request, task, claim, slot, pending, read>>

Die ==
  /\ process # "down"
  /\ process' = "down"
  /\ request' = All("none") /\ task' = All("none") /\ claim' = All("none")
  /\ slot' = None /\ pending' = {} /\ read' = All("unread")
  /\ UNCHANGED record

\* close cancels every task there is ...
Close ==
  /\ process = "open"
  /\ process' = "closing"
  /\ pending' = {r \in Run : task[r] \in Live}
  /\ task' = [r \in Run |-> IF task[r] = "working" THEN "stopping"
                           ELSE IF task[r] \in Live THEN "cancelled" ELSE task[r]]
  /\ UNCHANGED <<record, request, claim, slot, read>>

\* ... waits for them to end, and sees to the records they have left behind.
Gathered ==
  /\ process = "closing" /\ \A r \in pending : task[r] \in {"none", "unsaved"}
  /\ process' = "sweeping"
  /\ UNCHANGED <<record, request, task, claim, slot, pending, read>>

Swept ==
  /\ process = "sweeping" /\ pending = {}
  /\ process' = "closed"
  /\ UNCHANGED <<record, request, task, claim, slot, pending, read>>

-----------------------------------------------------------------------------
(* fail_run_if_active: the record is read and written back under two holds *)
(* of the lock                                                             *)

Failing(r) == request[r] = "failing" \/ (process = "sweeping" /\ r \in pending)

FailReads(r) ==
  /\ Failing(r) /\ read[r] = "unread"
  /\ read' = [read EXCEPT ![r] = record[r]]
  /\ UNCHANGED <<record, process, request, task, claim, slot, pending>>

FailWrites(r) ==
  /\ Failing(r) /\ read[r] # "unread"
  /\ IF read[r] \in Active THEN Save(r, "failed") ELSE UNCHANGED record
  /\ read' = [read EXCEPT ![r] = "unread"]
  /\ request' = [request EXCEPT ![r] = IF @ = "failing" THEN "done" ELSE @]
  /\ pending' = pending \ {r}
  /\ UNCHANGED <<process, task, claim, slot>>

\* The handler cannot save the failure either, and leaves the run.
FailIsUnsaved(r) ==
  /\ request[r] = "failing" /\ read[r] \in Active
  /\ request' = [request EXCEPT ![r] = "unsaved"]
  /\ read' = [read EXCEPT ![r] = "unread"]
  /\ UNCHANGED <<record, process, task, claim, slot, pending>>

-----------------------------------------------------------------------------
(* The handler of POST /offline-runs *)

Create(r) ==
  /\ process = "open" /\ record[r] = "absent"
  /\ Save(r, "queued")
  /\ request' = [request EXCEPT ![r] = "enqueue"]
  /\ UNCHANGED <<process, task, claim, slot, pending, read>>

\* A runner that is closing takes no more tasks.
Enqueue(r) ==
  /\ request[r] = "enqueue"
  /\ IF process = "open"
     THEN /\ task' = [task EXCEPT ![r] = "waiting"]
          /\ request' = [request EXCEPT ![r] = "done"]
     ELSE /\ request' = [request EXCEPT ![r] = "failing"]
          /\ UNCHANGED task
  /\ UNCHANGED <<record, process, claim, slot, pending, read>>

-----------------------------------------------------------------------------
(* execute_offline_run *)

\* Mutant: the slot is given back by tasks that ended well only.
LeavesSlot(r, saved) ==
  /\ task' = [task EXCEPT ![r] = IF saved THEN "none" ELSE "unsaved"]
  /\ slot' = IF slot = r /\ record'[r] = "succeeded" THEN None ELSE slot

\* The task is over, also where the save that was to end its run has failed.
Leaves(r, saved) ==
  /\ task' = [task EXCEPT ![r] = IF saved THEN "none" ELSE "unsaved"]
  /\ slot' = IF slot = r THEN None ELSE slot

TakeSlot(r) ==
  /\ task[r] = "waiting" /\ slot = None
  /\ slot' = r
  /\ task' = [task EXCEPT ![r] = "claiming"]
  /\ claim' = [claim EXCEPT ![r] = "thread"]
  /\ UNCHANGED <<record, process, request, pending, read>>

\* Mutant: the status is not looked at.
ClaimAny(r) ==
  /\ claim[r] = "thread"
  /\ Save(r, "running")
  /\ claim' = [claim EXCEPT ![r] = "claimed"]
  /\ UNCHANGED <<process, request, task, slot, pending, read>>

\* The thread reads and writes the record under one hold of the lock.
ClaimQueued(r) ==
  /\ claim[r] = "thread"
  /\ \/ record[r] = "queued" /\ Save(r, "running") /\ claim' = [claim EXCEPT ![r] = "claimed"]
     \/ record[r] = "queued" /\ UNCHANGED record /\ claim' = [claim EXCEPT ![r] = "unsaved"]
     \/ record[r] # "queued" /\ UNCHANGED record /\ claim' = [claim EXCEPT ![r] = "refused"]
  /\ UNCHANGED <<process, request, task, slot, pending, read>>

Claimed(r) ==
  /\ task[r] = "claiming" /\ claim[r] \in {"claimed", "refused", "unsaved"}
  /\ UNCHANGED <<record, process, request, claim, pending, read>>
  /\ IF claim[r] = "claimed"
     THEN task' = [task EXCEPT ![r] = "working"] /\ UNCHANGED slot
     ELSE Leaves(r, claim[r] # "unsaved")

\* The record is saved, or the save raises and leaves it running.
End(r, s) ==
  \/ Save(r, s) /\ Leaves(r, TRUE)
  \/ UNCHANGED record /\ Leaves(r, FALSE)

\* The pipeline ends or raises; the record is saved without another await.
Finish(r) ==
  /\ task[r] = "working"
  /\ \E s \in Terminal : End(r, s)
  /\ UNCHANGED <<process, request, claim, pending, read>>

\* A task that was executing saves the failure ...
Stopping(r) ==
  /\ task[r] = "stopping"
  /\ End(r, "failed")
  /\ UNCHANGED <<process, request, claim, pending, read>>

\* ... one that waited for the slot or its claim leaves the record as it is.  A
\* claim that no thread has begun yet is cancelled with it.
Cancelled(r) ==
  /\ task[r] = "cancelled"
  /\ \/ UNCHANGED claim
     \/ claim[r] = "thread" /\ claim' = [claim EXCEPT ![r] = "none"]
  /\ UNCHANGED <<record, process, request, pending, read>>
  /\ Leaves(r, TRUE)

Work(r) ==
  \/ FailReads(r) \/ FailWrites(r) \/ FailIsUnsaved(r) \/ Enqueue(r) \/ TakeSlot(r) \/ ClaimQueued(r)
  \/ Claimed(r) \/ Finish(r) \/ Stopping(r) \/ Cancelled(r)

Lifespan == Open \/ Gathered \/ Swept \/ \E r \in Run : Recover(r)

Next ==
  \/ Start \/ Die \/ Close \/ Lifespan
  \/ \E r \in Run : Create(r) \/ Work(r)

\* The event loop and the threads go on as long as the process lives, and a
\* pipeline ends; the slot is given in the order of the waiters.
Fairness ==
  /\ WF_vars(Lifespan)
  /\ \A r \in Run : WF_vars(Work(r)) /\ SF_vars(TakeSlot(r))

Spec == Init /\ [][Next]_vars /\ Fairness

-----------------------------------------------------------------------------
(* Properties *)

\* A run that has ended stays as it is, whatever a cancelled task's thread, a
\* closing runner or a failing handler still do with records they have read.
TerminalStays ==
  \A r \in Run : record[r] \in Terminal => record'[r] = record[r]
TerminalForGood == [][TerminalStays]_vars

\* While Studio serves, a run that is queued or running has someone who will
\* end it: the handler that is creating it, or its task, unless it was left by
\* one that could not save its end.
ActiveOwned ==
  process = "open" =>
    \A r \in Run : record[r] \in Active =>
      request[r] \in {"enqueue", "failing"} \/ task[r] \in Live \cup {"unsaved"}

\* A run that was accepted ends, unless the process does or its end cannot be
\* saved.
RunsEnd ==
  \A r \in Run :
    record[r] = "queued" ~> record[r] \in Terminal \/ process = "down" \/ "unsaved" \in {task[r], request[r]}
=============================================================================
