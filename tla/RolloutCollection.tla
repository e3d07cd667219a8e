------------------------- MODULE RolloutCollection -------------------------
(***************************************************************************)
(* collect_search_r1 (src/agentic_rl_forge/pipelines/search_r1.py) and the *)
(* RolloutScheduler it runs (src/agentic_rl_forge/rollout/scheduler.py):   *)
(* collectors that fill the slots of one rollout plan in one output root.  *)
(* Each collector is a process with a run, a run lease and one asyncio     *)
(* task per missing slot; they share the trajectory database and the slot  *)
(* claims.                                                                 *)
(*                                                                         *)
(* A call of the slot claims is one step here, taken when its thread       *)
(* executes it: SlotClaims models what happens inside.  A call of the      *)
(* database that writes takes two: its checks are reads, before the write  *)
(* transaction, so another process may come in between; the threads of one *)
(* collector may not, they share a connection and its lock.  Cancelling a  *)
(* task that waits for a thread (asyncio.to_thread) does not stop the      *)
(* thread: its call becomes a stray, which still runs, later.  Time is     *)
(* left out: a lease runs out in a step of its own, which only a renewal   *)
(* that was past its checks can undo.                                      *)
(***************************************************************************)
EXTENDS Integers, Sequences, FiniteSets

CONSTANTS
  Collector,        \* collect_search_r1 invocations
  Slot,             \* the planned slots
  MaxConcurrency,   \* max_concurrency
  MaxEpoch,         \* bound: claims per slot
  Disturbed,        \* bound: the collectors whose run lease may run out and who may be interrupted
  Earlier,          \* the collectors of the output root that have ended before
  None

ASSUME RolloutCollectionAssumption ==
  /\ MaxConcurrency \in Nat \ {0}
  /\ MaxEpoch \in Nat \ {0}
  /\ Disturbed \subseteq Collector
  /\ Earlier \notin Collector /\ None \notin Collector \cup {Earlier}

VARIABLES
  claims,     \* the claims of each slot, in epoch order
  stored,     \* whose trajectory the database keeps for each slot
  run,        \* the status of each collector's run
  lease,      \* the lease of each run
  attached,   \* run_trajectories of each run
  sharded,    \* the shards of each run
  manifest,   \* what its shard manifest lists
  pc,         \* where each collector is
  job,        \* where each collector is with each slot
  stray,      \* calls of cancelled tasks that their threads still run
  writing,    \* the database call of each collector that is past its checks
  reviewed,   \* the runs an operator found stale and has not closed yet
  leaving     \* how far an interrupted command is while its collection goes on

shared == <<claims, stored, run, lease, attached, sharded>>
vars == <<shared, manifest, pc, job, stray, writing, reviewed, leaving>>

Terminal == {"completed", "failed"}
Claim == [owner : Collector, lapsed : BOOLEAN,
          outcome : {"none", "completed", "abandoned"}]

\* Steps of a slot's task between the acquired claim and its release, the
\* part renewal covers first.
Renewed == {"model", "assert", "put", "shard"}
Executing == Renewed \cup {"stop", "confirm", "release"}
\* Tasks inside the semaphore.
Admitted == {"acquire", "cleanup"} \cup Executing
\* Steps that wait for a thread.
InThread == {"acquire", "put", "shard", "release", "cleanup", "reput", "reshard"}
\* Calls that write to the database, with the slot they are about.
Writes == ({"lease", "renew", "finish", "fail"} \X {None}) \cup ({"put", "reput"} \X Slot)
Done == {"reused", "returned", "raised"}
Job == {"unread", "found", "missing", "reput", "reshard", "queued"}
         \cup Admitted \cup Done

Ended == {"done", "raised", "crashed"}
PC == {"reading", "lease", "reuse", "collect", "cancelling", "failing",
       "renew", "finish", "publish", "over"} \cup Ended

TypeOK ==
  /\ claims \in [Slot -> Seq(Claim)]
  /\ stored \in [Slot -> Collector \cup {Earlier, None}]
  /\ run \in [Collector -> {"none", "running"} \cup Terminal]
  /\ lease \in [Collector -> {"none", "held", "lapsed", "released"}]
  /\ attached \in [Collector -> SUBSET Slot]
  /\ sharded \in [Collector -> SUBSET Slot]
  /\ manifest \in [Collector -> SUBSET Slot]
  /\ pc \in [Collector -> PC]
  /\ job \in [Collector -> [Slot -> Job]]
  /\ stray \in [Collector -> SUBSET (InThread \X Slot)]
  /\ writing \in [Collector -> SUBSET Writes]
  /\ reviewed \in SUBSET Collector
  /\ leaving \in [Collector -> {"no", "failing", "closing", "closed"}]

\* The database may have trajectories of earlier runs; some collectors are never
\* started.
Init ==
  /\ claims = [s \in Slot |-> <<>>]
  /\ stored \in [Slot -> {Earlier, None}]
  /\ run = [c \in Collector |-> "none"]
  /\ lease = [c \in Collector |-> "none"]
  /\ attached = [c \in Collector |-> {}]
  /\ sharded = [c \in Collector |-> {}]
  /\ manifest = [c \in Collector |-> {}]
  /\ pc \in [Collector -> {"reading", "crashed"}]
  /\ job = [c \in Collector |-> [s \in Slot |-> "unread"]]
  /\ stray = [c \in Collector |-> {}]
  /\ writing = [c \in Collector |-> {}]
  /\ reviewed = {}
  /\ leaving = [c \in Collector |-> "no"]

-----------------------------------------------------------------------------
(* What the stores do. *)

Latest(s) == claims[s][Len(claims[s])]
Live(claim) == claim.outcome = "none" /\ ~claim.lapsed

\* The epoch c holds: every collector claims under an identity of its own, and
\* a slot once.
Epoch(c, s) == CHOOSE e \in DOMAIN claims[s] : claims[s][e].owner = c

\* SlotClaimCoordinator.acquire, by a collector without a claim on the slot.
CanAcquire(s) ==
  /\ Len(claims[s]) < MaxEpoch                                \* bound
  /\ claims[s] = <<>> \/ ~Live(Latest(s))
DoAcquire(c, s) ==
  claims' = [claims EXCEPT ![s] =
    Append(@, [owner |-> c, lapsed |-> FALSE, outcome |-> "none"])]

\* SlotClaimCoordinator.assert_current
Current(c, s) == Latest(s).owner = c /\ Live(Latest(s))

\* SlotClaimCoordinator.release: the first outcome of an epoch stays.
CanRelease(c, s, outcome) == claims[s][Epoch(c, s)].outcome \in {"none", outcome}
DoRelease(c, s, outcome) ==
  claims' = [claims EXCEPT ![s][Epoch(c, s)].outcome =
               IF @ = "none" THEN outcome ELSE @]

\* What put, finish_run and renew_run_lease of SQLiteTrajectoryStore read first.
Leased(c) == run[c] = "running" /\ lease[c] = "held"

\* One connection, one lock: no call of c is between its checks and its write.
Free(c) == writing[c] = {}
Checked(c, call) == writing' = [writing EXCEPT ![c] = {call}]
Written(c) == writing' = [writing EXCEPT ![c] = {}]

\* put of the trajectory of "whose": refused when the slot holds another one.
CanPut(s, whose) == stored[s] \in {None, whose}
DoPut(c, s, whose) ==
  /\ stored' = [stored EXCEPT ![s] = whose]
  /\ attached' = [attached EXCEPT ![c] = @ \cup {s}]

\* The end of finish_run and of reconcile: neither write names the status or the
\* lease it was checked against.
DoFinish(c, status) ==
  /\ run' = [run EXCEPT ![c] = status]
  /\ lease' = [lease EXCEPT ![c] = "released"]

-----------------------------------------------------------------------------
(* The steps of a collector outside its tasks. *)

Goto(c, l) == pc' = [pc EXCEPT ![c] = l]
JobTo(c, s, l) == job' = [job EXCEPT ![c][s] = l]

LeavingTo(c, l) == leaving' = [leaving EXCEPT ![c] = l]
\* Where the end of the collection leads, when the command still waits for it.
Ends(c, l) == Goto(c, IF leaving[c] = "no" THEN l ELSE IF leaving[c] = "closed" THEN "raised" ELSE "over")
StrayEnds(c, call) == stray' = [stray EXCEPT ![c] = @ \ {call}]

\* Existing trajectories are read slot by slot, before any claim.
ReadSlot(c, s) ==
  /\ pc[c] = "reading" /\ job[c][s] = "unread"
  /\ JobTo(c, s, IF stored[s] = None THEN "missing" ELSE "found")
  /\ UNCHANGED <<shared, manifest, pc, stray, writing, reviewed, leaving>>

CreateRun(c) ==
  /\ pc[c] = "reading"
  /\ \A s \in Slot : job[c][s] # "unread"
  /\ run' = [run EXCEPT ![c] = "running"]
  /\ Goto(c, "lease")
  /\ UNCHANGED <<claims, stored, lease, attached, sharded, manifest, job, stray, writing, reviewed, leaving>>

\* Refused when an operator reconciled the run before.
LeaseRun(c) ==
  /\ pc[c] = "lease" /\ Free(c)
  /\ IF run[c] = "running"
     THEN Checked(c, <<"lease", None>>) /\ UNCHANGED pc
     ELSE Goto(c, "raised") /\ UNCHANGED writing
  /\ UNCHANGED <<shared, manifest, job, stray, reviewed, leaving>>

LeaseWrites(c) ==
  /\ <<"lease", None>> \in writing[c]
  /\ Written(c)
  /\ lease' = [lease EXCEPT ![c] = "held"]
  /\ Goto(c, "reuse")
  /\ UNCHANGED <<claims, stored, run, attached, sharded, manifest, job, stray, reviewed, leaving>>

\* Reused trajectories go through the callbacks one after the other; the tasks
\* of the missing slots are created after them.
StartReuse(c, s) ==
  /\ pc[c] = "reuse" /\ job[c][s] = "found"
  /\ \A t \in Slot : job[c][t] \notin {"reput", "reshard"}
  /\ JobTo(c, s, "reput")
  /\ UNCHANGED <<shared, manifest, pc, stray, writing, reviewed, leaving>>

ReusePut(c, s) ==
  /\ pc[c] = "reuse" /\ job[c][s] = "reput" /\ Free(c)
  /\ IF Leased(c)
     THEN Checked(c, <<"reput", s>>) /\ UNCHANGED <<job, pc>>
     ELSE JobTo(c, s, "raised") /\ Ends(c, "failing") /\ UNCHANGED writing
  /\ UNCHANGED <<shared, manifest, stray, reviewed, leaving>>

\* The trajectory is there already: put attaches it.
ReusePutWrites(c, s) ==
  /\ <<"reput", s>> \in writing[c]
  /\ Written(c)
  /\ DoPut(c, s, stored[s])
  /\ IF job[c][s] = "reput"
     THEN JobTo(c, s, "reshard") /\ UNCHANGED stray
     ELSE StrayEnds(c, <<"reput", s>>) /\ UNCHANGED job
  /\ UNCHANGED <<claims, run, lease, sharded, manifest, pc, reviewed, leaving>>

ReuseShard(c, s) ==
  /\ pc[c] = "reuse" /\ job[c][s] = "reshard"
  /\ sharded' = [sharded EXCEPT ![c] = @ \cup {s}]
  /\ JobTo(c, s, "reused")
  /\ UNCHANGED <<claims, stored, run, lease, attached, manifest, pc, stray, writing, reviewed, leaving>>

Launch(c) ==
  /\ pc[c] = "reuse"
  /\ \A s \in Slot : job[c][s] \in {"missing", "reused"}
  /\ job' = [job EXCEPT ![c] =
       [s \in Slot |-> IF @[s] = "missing" THEN "queued" ELSE @[s]]]
  /\ Goto(c, "collect")
  /\ UNCHANGED <<shared, manifest, stray, writing, reviewed, leaving>>

\* Mutant: the batch is built from the tasks that did not raise.
BatchPartial(c) ==
  /\ pc[c] = "collect"
  /\ \A s \in Slot : job[c][s] \in Done
  /\ manifest' = [manifest EXCEPT ![c] = sharded[c]]
  /\ Ends(c, "renew")
  /\ UNCHANGED <<shared, job, stray, writing, reviewed, leaving>>

\* The batch is validated and on_batch finalizes the shards of the run: either
\* may fail, the second before or after the manifest is there.
Batch(c) ==
  /\ pc[c] = "collect"
  /\ \A s \in Slot : job[c][s] \in {"reused", "returned"}
  /\ \/ manifest' = [manifest EXCEPT ![c] = sharded[c]] /\ Ends(c, "renew")
     \/ UNCHANGED manifest /\ Ends(c, "failing")
  /\ UNCHANGED <<shared, job, stray, writing, reviewed, leaving>>

\* The last renewal, after the batch artifacts are written; writing them may fail.
RenewRun(c) ==
  /\ pc[c] = "renew" /\ Free(c)
  /\ (Leased(c) /\ Goto(c, "finish")) \/ Goto(c, "failing")
  /\ UNCHANGED <<shared, manifest, job, stray, writing, reviewed, leaving>>

\* A run that ended, or a lost lease, is an error.
Finish(c) ==
  /\ pc[c] = "finish" /\ Free(c)
  /\ IF Leased(c)
     THEN Checked(c, <<"finish", None>>) /\ UNCHANGED pc
     ELSE Goto(c, "failing") /\ UNCHANGED writing
  /\ UNCHANGED <<shared, manifest, job, stray, reviewed, leaving>>

FinishWrites(c) ==
  /\ <<"finish", None>> \in writing[c]
  /\ Written(c)
  /\ DoFinish(c, "completed")
  /\ IF pc[c] = "finish" THEN Goto(c, "publish") ELSE UNCHANGED pc
  /\ UNCHANGED <<claims, stored, attached, sharded, manifest, job, stray, reviewed, leaving>>

\* The manifest, summary and artifact manifest follow the terminal status.
Publish(c) ==
  /\ pc[c] = "publish"
  /\ Goto(c, "done") \/ Goto(c, "raised")
  /\ UNCHANGED <<shared, manifest, job, stray, writing, reviewed, leaving>>

-----------------------------------------------------------------------------
(* The task of a missing slot: RolloutScheduler._run_one. *)

\* Mutant: the semaphore is not released by a task that returns.
AdmitNoRelease(c, s) ==
  /\ pc[c] = "collect" /\ job[c][s] = "queued"
  /\ Cardinality({t \in Slot : job[c][t] \in Admitted \cup {"returned"}})
       < MaxConcurrency
  /\ JobTo(c, s, "acquire")
  /\ UNCHANGED <<shared, manifest, pc, stray, writing, reviewed, leaving>>

Admit(c, s) ==
  /\ pc[c] = "collect" /\ job[c][s] = "queued"
  /\ Cardinality({t \in Slot : job[c][t] \in Admitted}) < MaxConcurrency
  /\ JobTo(c, s, "acquire")
  /\ UNCHANGED <<shared, manifest, pc, stray, writing, reviewed, leaving>>

\* Mutant: a claim another worker still holds is taken over.
AcquireAnyway(c, s) ==
  /\ job[c][s] = "acquire"
  /\ IF Len(claims[s]) < MaxEpoch
     THEN DoAcquire(c, s) /\ JobTo(c, s, "model")
     ELSE JobTo(c, s, "raised") /\ UNCHANGED claims
  /\ UNCHANGED <<stored, run, lease, attached, sharded, manifest, pc, stray, writing, reviewed, leaving>>

\* The renewal task starts with the claim.
Acquire(c, s) ==
  /\ job[c][s] = "acquire"
  /\ IF CanAcquire(s)
     THEN DoAcquire(c, s) /\ JobTo(c, s, "model")
     ELSE JobTo(c, s, "raised") /\ UNCHANGED claims
  /\ UNCHANGED <<stored, run, lease, attached, sharded, manifest, pc, stray, writing, reviewed, leaving>>

\* The model calls of the agent loop end, or raise.
Model(c, s) ==
  /\ job[c][s] = "model"
  /\ JobTo(c, s, "assert") \/ JobTo(c, s, "cleanup")
  /\ UNCHANGED <<shared, manifest, pc, stray, writing, reviewed, leaving>>

AssertCurrent(c, s) ==
  /\ job[c][s] = "assert"
  /\ JobTo(c, s, IF Current(c, s) THEN "put" ELSE "cleanup")
  /\ UNCHANGED <<shared, manifest, pc, stray, writing, reviewed, leaving>>

\* Mutant: the status of the run is not read, only its lease.
PutUnleased(c, s) ==
  /\ job[c][s] = "put" /\ Free(c)
  /\ \/ lease[c] = "held" /\ Checked(c, <<"put", s>>) /\ UNCHANGED job
     \/ JobTo(c, s, "cleanup") /\ UNCHANGED writing
  /\ UNCHANGED <<shared, manifest, pc, stray, reviewed, leaving>>

\* A callback may fail for reasons of its own, too.
Put(c, s) ==
  /\ job[c][s] = "put" /\ Free(c)
  /\ \/ Leased(c) /\ Checked(c, <<"put", s>>) /\ UNCHANGED job
     \/ JobTo(c, s, "cleanup") /\ UNCHANGED writing
  /\ UNCHANGED <<shared, manifest, pc, stray, reviewed, leaving>>

\* The slot's task goes on, unless it was cancelled while its thread wrote.
PutWrites(c, s) ==
  /\ <<"put", s>> \in writing[c]
  /\ Written(c)
  /\ IF CanPut(s, c) THEN DoPut(c, s, c) ELSE UNCHANGED <<stored, attached>>
  /\ IF job[c][s] = "put"
     THEN JobTo(c, s, IF CanPut(s, c) THEN "shard" ELSE "cleanup") /\ UNCHANGED stray
     ELSE StrayEnds(c, <<"put", s>>) /\ UNCHANGED job
  /\ UNCHANGED <<claims, run, lease, sharded, manifest, pc, reviewed, leaving>>

Shard(c, s) ==
  /\ job[c][s] = "shard"
  /\ \/ sharded' = [sharded EXCEPT ![c] = @ \cup {s}] /\ JobTo(c, s, "stop")
     \/ UNCHANGED sharded /\ JobTo(c, s, "cleanup")
  /\ UNCHANGED <<claims, stored, run, lease, attached, manifest, pc, stray, writing, reviewed, leaving>>

\* The renewal task is stopped and joined: a renewal under way may still fail.
StopRenewal(c, s) ==
  /\ job[c][s] = "stop"
  /\ \/ JobTo(c, s, "confirm")
     \/ claims[s][Epoch(c, s)].lapsed /\ JobTo(c, s, "cleanup")
  /\ UNCHANGED <<shared, manifest, pc, stray, writing, reviewed, leaving>>

Confirm(c, s) ==
  /\ job[c][s] = "confirm"
  /\ JobTo(c, s, IF Current(c, s) THEN "release" ELSE "cleanup")
  /\ UNCHANGED <<shared, manifest, pc, stray, writing, reviewed, leaving>>

ReleaseCompleted(c, s) ==
  /\ job[c][s] = "release"
  /\ IF CanRelease(c, s, "completed")
     THEN DoRelease(c, s, "completed") /\ JobTo(c, s, "returned")
     ELSE JobTo(c, s, "cleanup") /\ UNCHANGED claims
  /\ UNCHANGED <<stored, run, lease, attached, sharded, manifest, pc, stray, writing, reviewed, leaving>>

\* Mutant: a failed task records the outcome of a finished one.
CleanupCompleted(c, s) ==
  /\ job[c][s] = "cleanup"
  /\ DoRelease(c, s, "completed")
  /\ JobTo(c, s, "raised")
  /\ UNCHANGED <<stored, run, lease, attached, sharded, manifest, pc, stray, writing, reviewed, leaving>>

\* A failed or cancelled task, its rollout and renewal joined; an outcome that
\* is already there stays.
Cleanup(c, s) ==
  /\ job[c][s] = "cleanup"
  /\ DoRelease(c, s, "abandoned")
  /\ JobTo(c, s, "raised")
  /\ UNCHANGED <<stored, run, lease, attached, sharded, manifest, pc, stray, writing, reviewed, leaving>>

-----------------------------------------------------------------------------
(* Cancellation. *)

\* Where a cancelled task goes, and whether it leaves its thread's call behind.
AfterCancel(l) ==
  CASE l \in Executing -> "cleanup"
    [] l \in {"queued", "acquire", "cleanup", "reput", "reshard"} -> "raised"
    [] OTHER -> l

CancelJobs(c) ==
  /\ job' = [job EXCEPT ![c] = [s \in Slot |-> AfterCancel(@[s])]]
  /\ stray' = [stray EXCEPT ![c] =
       @ \cup {<<job[c][s], s>> : s \in {t \in Slot : job[c][t] \in InThread}}]

\* A failed renewal ends the slot's task, whatever the rollout is doing.
RenewalFails(c, s) ==
  /\ job[c][s] \in Renewed
  /\ claims[s][Epoch(c, s)].lapsed
  /\ JobTo(c, s, "cleanup")
  /\ stray' = [stray EXCEPT ![c] =
       IF job[c][s] \in InThread THEN @ \cup {<<job[c][s], s>>} ELSE @]
  /\ UNCHANGED <<shared, manifest, pc, writing, reviewed, leaving>>

\* gather: the first task that raises ends its siblings.
SiblingRaised(c) ==
  /\ pc[c] = "collect"
  /\ \E s \in Slot : job[c][s] = "raised"
  /\ CancelJobs(c)
  /\ Goto(c, "cancelling")
  /\ UNCHANGED <<shared, manifest, writing, reviewed, leaving>>

\* The run heartbeat cannot renew: the collection is cancelled.
HeartbeatFails(c) ==
  /\ pc[c] \in {"reuse", "collect", "cancelling"} /\ leaving[c] = "no"
  /\ Free(c) /\ ~Leased(c)
  /\ CancelJobs(c)
  /\ Goto(c, "cancelling")
  /\ UNCHANGED <<shared, manifest, writing, reviewed, leaving>>

\* All tasks are joined.
Joined(c) ==
  /\ pc[c] = "cancelling"
  /\ \A s \in Slot : job[c][s] \in Done \cup {"found", "missing"}
  /\ Ends(c, "failing")
  /\ UNCHANGED <<shared, manifest, job, stray, writing, reviewed, leaving>>

\* The command raises, or goes on to close what the collection still uses.
Failed(c) ==
  IF leaving[c] = "failing"
  THEN LeavingTo(c, "closing") /\ UNCHANGED pc
  ELSE Goto(c, "raised") /\ UNCHANGED leaving

\* finish_run(FAILED); a lost lease leaves the run to the operator.
FailRun(c) ==
  /\ pc[c] = "failing" \/ leaving[c] = "failing"
  /\ Free(c)
  /\ IF Leased(c)
     THEN Checked(c, <<"fail", None>>) /\ UNCHANGED <<pc, leaving>>
     ELSE Failed(c) /\ UNCHANGED writing
  /\ UNCHANGED <<shared, manifest, job, stray, reviewed>>

FailWrites(c) ==
  /\ <<"fail", None>> \in writing[c]
  /\ Written(c)
  /\ DoFinish(c, "failed")
  /\ Failed(c)
  /\ UNCHANGED <<claims, stored, attached, sharded, manifest, job, stray, reviewed>>

\* The command is interrupted (KeyboardInterrupt cancels the main task).  While
\* it waits for the collection, only the wait is cancelled: the collection goes
\* on while the run is failed.  A finish_run under way stays with its thread.
Interrupt(c) ==
  /\ c \in Disturbed /\ leaving[c] = "no"
  /\ \/ pc[c] \in {"reuse", "collect"} /\ LeavingTo(c, "failing") /\ UNCHANGED pc
     \/ pc[c] = "finish" /\ Goto(c, "failing") /\ UNCHANGED leaving
  /\ UNCHANGED <<shared, manifest, job, stray, writing, reviewed>>

\* asyncio.run cancels the tasks that are left, and waits for them.
Shutdown(c) ==
  /\ leaving[c] = "closing"
  /\ CancelJobs(c)
  /\ LeavingTo(c, "closed")
  /\ Goto(c, IF pc[c] = "over" THEN "raised" ELSE "cancelling")
  /\ UNCHANGED <<shared, manifest, writing, reviewed>>

\* A thread nobody waits for executes its call.
StrayRuns(c, l, s) ==
  /\ <<l, s>> \in stray[c] /\ l \notin {"put", "reput"}
  /\ StrayEnds(c, <<l, s>>)
  /\ IF l = "acquire" /\ CanAcquire(s) THEN DoAcquire(c, s)
     ELSE IF l = "release" THEN DoRelease(c, s, "completed")
     ELSE IF l = "cleanup" THEN DoRelease(c, s, "abandoned")
     ELSE UNCHANGED claims
  /\ sharded' = IF l \in {"shard", "reshard"}
                THEN [sharded EXCEPT ![c] = @ \cup {s}] ELSE sharded
  /\ UNCHANGED <<stored, run, lease, attached, manifest, pc, job, writing, reviewed, leaving>>

\* A put nobody waits for gets the connection; PutWrites and ReusePutWrites
\* are its writes.
StrayPuts(c, l, s) ==
  /\ <<l, s>> \in stray[c] /\ l \in {"put", "reput"} /\ Free(c)
  /\ IF Leased(c)
     THEN Checked(c, <<l, s>>) /\ UNCHANGED stray
     ELSE StrayEnds(c, <<l, s>>) /\ UNCHANGED writing
  /\ UNCHANGED <<shared, manifest, pc, job, reviewed, leaving>>

-----------------------------------------------------------------------------
(* What happens to a collector. *)

\* The process dies with its tasks and threads.
Crash(c) ==
  /\ pc[c] \notin Ended
  /\ Goto(c, "crashed")
  /\ job' = [job EXCEPT ![c] = [s \in Slot |-> "raised"]]
  /\ stray' = [stray EXCEPT ![c] = {}]
  /\ Written(c)
  /\ LeavingTo(c, "no")
  /\ UNCHANGED <<shared, manifest, reviewed>>

\* A claim's effective expiry passes: its collector is gone, or renews late.
LapseClaim(s) ==
  /\ claims[s] # <<>> /\ Live(Latest(s))
  /\ claims' = [claims EXCEPT ![s][Len(claims[s])].lapsed = TRUE]
  /\ UNCHANGED <<stored, run, lease, attached, sharded, manifest, pc, job, stray,
                 writing, reviewed, leaving>>

\* The run lease runs out; a renewal may be past its checks by then.  (A renewal
\* in time changes nothing here.)
LapseRun(c) ==
  /\ c \in Disturbed /\ lease[c] = "held"
  /\ lease' = [lease EXCEPT ![c] = "lapsed"]
  /\ \/ UNCHANGED writing
     \/ pc[c] \in {"reuse", "collect", "cancelling", "renew", "finish", "failing"}
          /\ leaving[c] \in {"no", "failing"}
          /\ Leased(c) /\ Free(c) /\ Checked(c, <<"renew", None>>)
  /\ UNCHANGED <<claims, stored, run, attached, sharded, manifest, pc, job, stray, reviewed, leaving>>

\* The UPDATE of a renewal names the run only, and leaves a release as it is.
RenewWrites(c) ==
  /\ <<"renew", None>> \in writing[c]
  /\ Written(c)
  /\ lease' = [lease EXCEPT ![c] = IF @ = "lapsed" THEN "held" ELSE @]
  /\ UNCHANGED <<claims, stored, run, attached, sharded, manifest, pc, job, stray, reviewed, leaving>>

\* An operator, in a process of its own, finds a run stale ...
Review(c) ==
  /\ c \in Disturbed /\ run[c] = "running" /\ lease[c] \in {"none", "lapsed"}
  /\ reviewed' = reviewed \cup {c}
  /\ UNCHANGED <<shared, manifest, pc, job, stray, writing, leaving>>

\* ... and closes it, whatever its collector did in between; the record is the
\* run's only one.
Reconcile(c) ==
  /\ c \in reviewed
  /\ DoFinish(c, "failed")
  /\ reviewed' = reviewed \ {c}
  /\ UNCHANGED <<claims, stored, attached, sharded, manifest, pc, job, stray, writing, leaving>>

Task(c, s) ==
  \/ Admit(c, s) \/ Acquire(c, s) \/ Model(c, s) \/ AssertCurrent(c, s) \/ Put(c, s)
  \/ PutWrites(c, s) \/ Shard(c, s) \/ StopRenewal(c, s) \/ Confirm(c, s) \/ ReleaseCompleted(c, s)
  \/ Cleanup(c, s) \/ RenewalFails(c, s)

Collect(c) ==
  \/ CreateRun(c) \/ LeaseRun(c) \/ LeaseWrites(c) \/ Launch(c) \/ Batch(c) \/ RenewRun(c)
  \/ Finish(c) \/ FinishWrites(c) \/ Publish(c) \/ SiblingRaised(c) \/ HeartbeatFails(c)
  \/ Joined(c) \/ FailRun(c) \/ FailWrites(c) \/ Shutdown(c)
  \/ \E s \in Slot :
       \/ ReadSlot(c, s) \/ StartReuse(c, s) \/ ReusePut(c, s) \/ ReusePutWrites(c, s)
       \/ ReuseShard(c, s) \/ Task(c, s)

Next ==
  \/ \E c \in Collector :
       \/ Collect(c) \/ Crash(c) \/ Interrupt(c) \/ LapseRun(c) \/ RenewWrites(c) \/ Review(c) \/ Reconcile(c)
       \/ \E l \in InThread, s \in Slot : StrayRuns(c, l, s) \/ StrayPuts(c, l, s)
  \/ \E s \in Slot : LapseClaim(s)

Spec == Init /\ [][Next]_vars

\* The event loop keeps running what is ready, and every call it waits for ends:
\* model calls, tools and store calls have timeouts.  A thread that waits for the
\* connection gets it: renewals are an interval apart, so that late ones cannot
\* keep a collector from ever taking a step (hence strong fairness).
Fairness ==
  \A c \in Collector : SF_vars(Collect(c)) /\ WF_vars(RenewWrites(c))
FairSpec == Spec /\ Fairness

-----------------------------------------------------------------------------
(* Properties *)

\* A completed run covers the plan: every slot has a trajectory in the database
\* that is attached to the run and listed by its shard manifest
\* (pipelines/search_r1.py writes trajectory_count from the batch).
CompletedRunsWhole ==
  \A c \in Collector : run[c] = "completed" =>
    /\ attached[c] = Slot /\ manifest[c] = Slot
    /\ \A s \in Slot : stored[s] # None

\* A completed release is appended only after the callbacks succeeded: the
\* slot's trajectory is the one of the worker that released it, whatever was
\* cancelled, lost or taken over on the way.
CompletedClaimsBacked ==
  \A s \in Slot : \A e \in DOMAIN claims[s] :
    claims[s][e].outcome = "completed" => stored[s] = claims[s][e].owner

\* A worker that is still executing a slot is overtaken only when its claim ran
\* out: failure and cancellation release the claim after the rollout is joined.
OvertakenOnlyWhenLapsed ==
  \A c \in Collector, s \in Slot :
    job[c][s] \in Executing =>
      \/ Epoch(c, s) = Len(claims[s])
      \/ claims[s][Epoch(c, s)].lapsed

\* A trajectory is immutable, and a run that ended, whoever ended it and whatever
\* its collector and its threads are doing, drains: it never runs again, no call
\* of its collector passes the checks any more, and it gets no trajectory but the
\* one of a put that had passed them before.
Drain ==
  /\ \A s \in Slot : stored[s] # None => stored'[s] = stored[s]
  /\ \A c \in Collector : run[c] \in Terminal =>
       /\ run'[c] \in Terminal
       /\ writing'[c] \subseteq writing[c]
       /\ \A s \in attached'[c] \ attached[c] : \E l \in {"put", "reput"} : <<l, s>> \in writing[c]
EndedRunsDrain == [][Drain]_vars

\* Every collector ends, whatever its tasks, its leases and the other
\* collectors do.
CollectorsEnd == \A c \in Collector : <>(pc[c] \in Ended)

\* "no background rollout continues writing after the run transition"
\* (docs/collection.md), for the shards of a collector that failed its run.
Quiet ==
  \A c \in Collector :
    pc[c] = "raised" /\ run[c] = "failed" => sharded'[c] = sharded[c]
NoWritesAfterTransition == [][Quiet]_vars
=============================================================================
