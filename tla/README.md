# Agentic RL Forge: a TLA+ verification project

TLA+ models of the coordination protocols of Agentic RL Forge, checked with TLC, with theorems
checked by TLAPS. Source paths below are relative to `src/src/agentic_rl_forge/` of the repository.

## The system

Agentic RL Forge collects rollouts of language-model agents, keeps them as immutable evidence,
publishes finished runs as releases, promotes experiments, and offers a local Studio. Its parts
share files, one SQLite database per project and conditional object stores; most of them may run as
several processes on several hosts without a server between them.

| Component | State it keeps | Operations | What makes it correct |
|---|---|---|---|
| Slot claims (`storage/claims.py`) | immutable claim, renewal and release objects per slot | acquire, renew, assert_current, release, inspect_plan | no takeover inside a granted window; histories stay readable |
| Run leases (`storage/sqlite.py`) | `runs`, `run_heartbeats`, `run_reconciliations`, `run_trajectories` | acquire, renew, release, put, finish, preview and reconcile | behind one store instance: readable rows, heartbeats in order; between processes: a run that has ended drains |
| Rollout collection (`pipelines/search_r1.py`, `rollout/scheduler.py`, `rollout/callbacks.py`) | asyncio tasks and their threads; run manifest | reuse stored slots, claim, run, store, release, finish or fail the run | completed runs are whole and stored; ended runs stay closed; it ends |
| Release transport (`storage/run_transport.py`, `storage/blobs.py`) | chunks, metadata, one decision object, completion records | publish, fetch, preview and collect garbage, inventory, batches | a commit and a tombstone exclude each other; commits are whole |
| Promotion registry (`experiments/promotion_registry.py`) | one event stream per promotion and per environment | preview and execute lifecycle and alias decisions, status | legal lifecycles, rollback ancestry, of a retirement and an alias the later is refused |
| Release mirror (`storage/run_mirror.py`) | batch intents, decisions, records | plan, execute, resolve, ledger | a batch completes or is abandoned, never both; a completed one is copied whole |
| Trajectory shards, checkpoints (`storage/shards.py`, `storage/checkpoints.py`) | one file per trajectory, manifests | put, finalize, verify | a complete manifest names every shard |
| Run archives (`storage/run_archives.py`, `storage/run_artifacts.py`) | archive files | build, inspect, extract | an archive is what its receipt says |
| Experiment runner (`experiments/runner.py`, `matrix.py`, `models.py`) | plan, stage records, attempts, evidence | run, report | a recorded stage describes its outputs |
| Promotion evidence (`experiments/promotion*.py`, `operations.py`) | decision archives, acquired artifacts, partial downloads | decide, archive, acquire, fetch | acquired bytes are the authorized ones |
| Agent loop, environments (`rollout/loop.py`, `environments/`) | sessions, snapshots | run, execute, snapshot, restore, close | a session is closed; snapshots name the state they hold |
| Tree search (`search/`) | nodes, visits, values, budget | select, expand, back up | visits add up; the budget is not exceeded |
| Studio (`studio/`) | run records, knowledge bases, indexes, jobs | create, cancel, recover, rebuild, search, delete | a terminal run stays terminal; an index serves its revision; tasks have their sources |
| Data, algorithms, rewards, evaluation, quality, services, integrations, CLI | none shared | pure functions, I/O and conversions | their results |

How they interact: `collect_search_r1` creates a run in the SQLite store, holds its lease with a
heartbeat task, and starts one task per planned slot. Each task claims its slot in the blob store,
renews the claim in the background, runs the agent loop, and calls back into the database and the
shard store, through threads. A finished run is archived, published through the release transport
and mirrored; experiments that use it are promoted through the registry.

The hard behaviours: workers whose clock passes an expiry during a call, several store objects
read and written one at a time, SELECTs outside the transaction of the UPDATE that follows them,
task cancellation that leaves threads behind, deletion racing publication, decisions checked
against one stream and written to another, commands that outlive their dead runner, downloads
resumed from a source that has changed, tools that have their effect after their timeout, and
index rebuilds that publish in another order than they began. `PROJECT.json` lists them with their
lines under `hazards`.

## Modules

| Module | Models | Notes |
|---|---|---|
| `SlotClaims` | slot claims, one slot | one step per store read or write; clock, crash |
| `RunLease` | the SQLite store, one run | lock per store instance, transactions per connection |
| `RolloutCollection` | collectors over the two stores above | calls to the stores are steps; tasks, threads, cancellation |
| `TrajectoryShards` | the shards and manifests of one run | listings take time; one step per read and link |
| `ReleaseTransport` | publication and collection of one release prefix | filesystem and S3 deletes |
| `ReleaseMirror` | one mirror batch: execution, resolution, ledger | member by member, object by object |
| `DecideOnce` | abstract: a decision object | implemented by `ReleaseMirror`, `ReleaseTransport` |
| `PromotionRegistry` | the event streams of the registry | reads of status stream by stream |
| `ExperimentRunner` | the stages of one trial, their commands, reports | runners die, commands go on |
| `ExperimentPromotion` | index, preview, decision, sidecars, archive | EXTENDS `ExperimentRunner`, whose files it reads |
| `PromotionAcquisition` | fetches into caches, acquisitions from them | ranges, receipts, resumption, deaths |
| `AgentLoop` | one task of the agent loop in its session | late tools, exceptions, cancellation |
| `AgentSearch` | tree search over one session | snapshots, restore, backups, budget |
| `StudioRuns` | run records, handlers and the runner of Studio | event loop and threads, startup, shutdown |
| `StudioKnowledge` | one knowledge base of Studio | rows, files, index, tasks, searches |
| `Parts` | shards, loop, search and Studio's runs side by side | they share nothing |
| `...Proofs` | | theorems: eight modules, see below |
| `MC...` | instances for TLC | |

Names follow the code: an action is named for the method and the step of it, a variable for the
table, object or local it stands for; `map` in `PROJECT.json` gives the lines of each. Definitions
under a comment that begins with `Mutant:` are not part of a model; they are the defects that
`mutants` plants to see each property fail.

**SlotClaims.** The store is append-only: `claims`, `renewals` and `releases` are what its objects
say. A `Session` is a coroutine or thread that makes calls; it keeps what the code keeps in locals
between store accesses (`at` is the captured time, `seen` the epoch read, `bound` the expiry).
Sessions of one owner share an identity. `held` is the claim a session was given.

**RunLease.** One run. Each method is split where the code leaves a transaction: reads are steps,
and the statements from the first INSERT or UPDATE to the commit are one step, as the `sqlite3`
module opens transactions there. The lock serializes callers of one store object only. A token is
an owner and an epoch, as in the code; a worker may lease under several identities (`OwnersOf`), so
a collection task and its heartbeat, a restarted worker and a rival are all instances of `Worker`.
Who shares a store instance with whom is `StoreOf`; in the runs every caller has one of its own, as
the operator's command, a rival host and the worker are different processes.

**RolloutCollection.** Collectors with a slot task each. Steps that run in `asyncio.to_thread` may
be cancelled while they wait; the call then moves to `stray`, from where it runs at any later time.
Calls of the slot claims are one step here (`CanAcquire`/`DoAcquire`, ...). Calls that write to the
database are two: `writing` has the call that is past its checks and not yet committed, and between
the two the operator, who has a process of his own, finds the run stale (`Review`) and closes it
(`Reconcile`). The threads of a collector share a connection, so that one of its calls is in
`writing` at a time. A claim (`LapseClaim`) and a run lease (`LapseRun`) run out at any time before
the renewal notices, and a renewal past its checks may write after that (`RenewWrites`); no clock is
needed. `Interrupt` cancels the command itself, at the first `await` it reaches; `leaving` is how
far it gets, with the collection going on in the background meanwhile.

**TrajectoryShards.** `put` is two steps, since the file is written before it is linked. A listing
has what was there when it began and may have what came during it. `finalize` reads every file
twice, as the code does: the trajectories first, and then the shards they are in.

**ReleaseTransport.** Objects carry a version that grows with each creation and deletion, so a
re-created object has another identity. The decision object is `commit.json`. A preview reads
the prefix in one step: the preview that counts is compared with the confirmed digest, and
`ListTargets` compares every object again. A delete is two steps on either store: both compare the
whole identity first (`CheckIdentity`), and afterwards `LocalBlobStore` unlinks the path and the S3
store deletes what has the ETag, that is the content, it has just read (`Delete`).

**ReleaseMirror.** A batch is named after its plan, its operator and its reason, so that executors
repeat one command and resolvers abandon it. Members are copied by threads of one executor
(`thread`), a part at a time and the commit last; then each gets a record, and all of them the
decision. A resolver inspects the batch, waits for its operator, and decides after two more
inspections that found the same. A member's status is read object by object (`heads`), so that a
commit being copied can look like one without its parts. `drifted` and `outage` stand for every
difference and every failed read. `DecideOnce` is the register both sides use, here and in
`ReleaseTransport`; `DecidesOnce` instantiates it with the decision and with what each call
returned.

**PromotionRegistry.** `history[s]` is the stream of events of a promotion or an environment. What
an operator has read of a stream is kept as a length, because slots are written once. The preview
file an operator confirms outlives the command. `Wanted` bounds the commands of an instance. `since`
and `begun` are ghosts: what was in the other streams when the execution that put an event began.

**ExperimentRunner, ExperimentPromotion.** A stage is a command that writes its output files at any
time while it runs; the runner checks dependencies and inputs before, collects the evidence after,
and links the record, which is never replaced. When a runner dies its command goes on (`orphans`).
Readers make a report of a stage per step, from its record and the files of that moment; a stage
whose dependencies have not succeeded is passed over (`PassOver`). An operator's command builds the
index, previews, is confirmed, makes the preview again as often as the code does
(`Recomputations`), links `decision.json`, and writes the sidecars; any of it may be repeated by
another attempt. An archive is packed from what is then in the directory. Each stage says which
kind a file is to it and which files it cannot do without: one that is optional and missing has no
evidence in the record. The index reads the files again that hold metrics (`Measured`), those of one
stage after the other (`ReadMetrics`); the preview compares evidence of one file and kind.

**PromotionAcquisition.** `cache[e]` holds the chunks, the receipt and the record of the fetch plan
`e`, `output[k]` the files and the record of the acquisition plan `k`. Plans are named after what
they have seen, so a source that changes makes another plan and a source put back makes the first
one again. A file is read, written to a temporary file and linked in steps of their own. A source
shows an ETag, with or without a modification time in its plan, a version ID or a modification time,
a time that is not asked for, or nothing; policies refuse some (`Validators`). Times are compared
exactly: HTTP dates have seconds, and an object overwritten twice in one second is left out.

**AgentLoop, AgentSearch.** The state of a session is the sequence of effects that tools had, which
stands for its digest. A tool that times out in a thread has its effect later (`late`), on the
dictionary it was given: `restore` puts a copy in the session, so the tool no longer reaches it.
The loop's calls may each raise or be cancelled. The search expands by execution, snapshot and
score of each candidate; selection may prefer any child, as the exploration term depends on priors
and logarithms that are left out.

**StudioRuns, StudioKnowledge.** Handlers and tasks share an event loop, threads do not: a step
ends where the code awaits or releases a lock. A process that dies leaves its records, and recovery
at the next start ends what was active. Searches rebuild an index without the operation lock that
uploads, deletions and reindexing hold; `rebuild` has what each has read so far, `history` the
documents of every revision, to compare the index with. The jobs of a reindexing are created one by
one (`CreateJobOfAll`) and then enqueued; the end of a job may fail to be saved (`ReportJob`,
`IngestionFails`, `RebuildFails`), which leaves it as it was, without a task. In `StudioRuns` a run
whose end was not saved is `"unsaved"`.

**Parts.** Four machines without a common variable. A behaviour of `Parts` begins in one of them
and stays there (`part`), so that one run checks them all without multiplying their states; its
parameters are those of the machines.

## Runs

| Run | Question | Bounds |
|---|---|---|
| `slot_rivals` | do two rival owners ever hold one slot? | 2 owners, 3 ticks, 2 epochs, one ttl |
| `slot_tasks` | is the history of one owner's two tasks readable, a report of expiry final? | 2 sessions of one owner, 1 observer, 3 ticks, 1 epoch, 2 renewals |
| `lease_ended` | what can still happen to a run that has ended? | a worker, a command without a lease, an operator, in 3 processes; 2 ticks, 2 epochs, crashes |
| `rollouts` | are completed runs whole, claims backed, ended runs drained, and does every collection end? | 1 collector with 2 slots and 1 permit; 2 collectors of a plan with one slot missing; 2 epochs; 1 collector loses its lease or is interrupted |
| `transport_race` | do commits and tombstones exclude each other? | 2 publishers of different layouts, 2 collectors, 4 objects, each created twice |
| `mirror_race` | is a batch decided once, truthfully and fairly? | 2 executors, 1 resolver, 2 releases of 2 objects, 2 times |
| `registry_rivals` | do competing alias decisions and retirements refuse each other? | 2 operators, 2 promotions, 1 alias of 3 generations, assignments, a rollback, 1 retirement |
| `decided` | is what is promoted coherent, and a settled trial left alone? | 1 runner, 1 operator, 2 stages, an optional input, 2 contents, 2 recomputations, a death of each |
| `report` | violation, below | the same without the operator's death, 1 recomputation |
| `acquire_resumed` | do records vouch for the signed bytes, and do these arrive? | 2 fetchers, 1 acquirer, 2 chunks, 3 versions of each source, 1 death |
| `studio_searches` | does the index serve its revision, do rows, files and tasks agree? | 2 sources, 2 searchers, revisions 0 to 2 |
| `parts` | loop, search, Studio's runs and shards (`Parts`) | 3 steps, 4 kinds of actions; branch 2, depth 2, 3 simulations; 3 runs; 2 writers, 1 reader, 2 shards |

The bounds are small because the protocols are about pairs: the second actor races the first, and
a third sees one of them. Epochs, renewals and generations go past the first, so that a successor
meets a predecessor still at work; clocks go past the expiry of a lease; objects are created,
deleted and created again; sources are overwritten and put back, so that an old plan is met again.
Two stages are a dependency and what depends on it. In a search of depth 2 a node is a leaf, an
inner node and one at the limit, and the third simulation comes back to one that the first made.
Three generations of an alias are the assignment of one promotion, of the other, and a rollback to
the first or a rival of any of these. In `rollouts` the lease of one collector is safe (`Disturbed`):
what the operator does concerns one run. With two revisions an index is saved by one rebuild and
refused to another; that `save_index_state` is refused three times in a row is beyond the bound,
though the theorems have none.
Three runs are one that executes, one that waits, and one that is created while the process closes.
`mirror_race` is the union of two instances (`Bounds`): a release that is new to the destination,
mirrored by two executors and a resolver while stores drift and clocks differ; and both releases
together, by one executor at a time. `rollouts` begins in either of its two plans (`MCInit`).
`parts` is a union too: a behaviour is of one of the four machines, which share nothing.

`mirror_race` and `studio_searches` use symmetry of executors and of searchers, which their actions
and properties do not tell apart; neither checks liveness. `CHECK_DEADLOCK FALSE` is set where
every actor may finish or where a bound stops the actors. `RenewalsPrompt` is TRUE in both slot
runs: the properties are about renew calls that return before the lease they extend runs out, see
Theorems. So these runs have the race of acquires, renewals and releases, and not the renewal of a
claim that has expired. `acquire_resumed` begins an ETag's source at its first version of three, the
other validators' at the second, as each version makes a plan of its own there (`MCCases`).

**Fairness.** Liveness is checked in three runs.

- `CollectorsEnd` (`rollouts`): fairness of each collector's own steps. The event loop runs
  what is ready, model calls and HTTP calls have timeouts, database calls give up after a busy
  timeout. It is strong, as a call may find the connection taken by a thread: who has it gives it
  back, renewals are an interval apart, and a lock that is free again and again is got at some time.
  A renewal past its checks writes (weak). Nothing is assumed of stray threads, lapses, interrupts
  or the operator.
- `RunsEnd` (`parts`): weak fairness of the lifespan and of the work on each run, as the event loop
  and the threads go on while the process lives and a pipeline ends; strong fairness of taking the
  execution slot, which `asyncio.Semaphore` gives to waiters in their order. A run whose end could
  not be saved is excepted: it stays as it is until the next start, here as in `ActiveOwned`.
- `Arrives` (`acquire_resumed`): weak fairness of the steps of each command, as operators repeat
  commands that fail (the documents tell them to), and strong fairness of reading a range, as a
  source tried again and again is read at some time. It is about behaviours that end with settled
  sources, leave no temporary file behind (see below), and have a source with a validator.

## What the code does otherwise

Twelve documents, comments or messages disagree with the code; `findings` quotes each. `report` is
the run of one of them. The others have a configuration beside the modules
(`tlc -config <name>.cfg MC<module>`) that TLC ends with a counterexample; they are not among the
runs.

| Configuration | Property violated | What happens |
|---|---|---|
| `SlotClaims_mixed_ttls` | `HistoriesReadable` | two overlapping renewals with different ttls leave a history that no call accepts |
| `RunLease_fails_open` | `ReconcileFailsClosed` | two processes on one database file: the reads of `reconcile_stale_run` are outside the transaction that acts on them, and a worker renews in between |
| `RunLease_unfenced` | `FencedAttach` | `put` compares the lease before its transaction: a worker whose lease was taken over, or whose run has ended, attaches its trajectory |
| `RunLease_ends_twice` | `TerminalOnce` | `finish_run` reads the status before its UPDATE, which does not ask again: a finish and a reconciliation both end the run |
| `RunLease_unreadable` | `RowsReadable` | a renewal overwrites a row another process has released or taken over, and no call reads it any more |
| `RolloutCollection_stray_writes` | `NoWritesAfterTransition` | cancellation does not stop a call in a thread |
| `ReleaseTransport_late` | `CollectedStaysClean` | a collected prefix turns invalid when a slow publisher puts one more object |
| `PromotionRegistry_retired` | `RetirementDetached` | a retirement and an alias assignment do not exclude each other, and the registry then refuses every further preview |
| `StudioKnowledge_ownerless` | `WorkOwned` | a reindexing that fails between its jobs, or a failure that is not saved, leaves jobs queued or running without a task |
| `ReleaseMirror_stuck` | `RecordsFitIntent` | a member's record is dated before the intent of its batch, which can then be neither completed nor abandoned |
| `PromotionAcquisition_killed` | `NothingLeft` | the temporary file of a killed command makes every repetition fail |
| `ExperimentPromotion_report` (run `report`) | `SidecarsDeterministic` | a command rewrites an artifact after the decision, and `report.json` is made of the new files |

The four configurations of `RunLease` have one cause, reads outside the transaction that acts on
them. What the store does keep between processes is `EndedDrains`: an ended run never runs again,
its reconciliation stays on record, and only the calls that were past their checks when it ended
write to it, once each. `EndedRunsDrain` says it of a collection's own run.

`ExperimentPromotion_kinds.cfg` belongs to no document: evidence is compared within a kind, so a
trial whose stages read one file as two kinds may be promoted with two contents of it
(`FilesOfOneContent`). That is why `PromotedCoherent` is about files of one kind.

## Theorems

Eight modules hold the theorems, one or more components each, every component along an inductive
invariant that TLC checked first. They hold for all values of the constants that satisfy the
`ASSUME`s of the component's module; what a theorem needs beyond them is said here and in its
statement.

**`SlotClaimsProofs`**, for any sets of sessions, owners and ttls and any bounds:

- `TypeCorrect`, `ClaimsInClockOrder`, `StoreIsAppendOnly`, without further assumption;
- `OneTtlReadable`: histories stay readable when all calls pass one ttl. The invariant for it,
  `Steady(d)`, says that every expiry, stored or about to be stored, is its time of renewal plus `d`,
  so that expiries are in the order of times, whatever the order in which overlapping calls store.
  With two ttls it is false (`SlotClaims_mixed_ttls`);
- `NoEarlyTakeover`, `AssertionHolds`, `ExpiryIsFinal`, when `RenewalsPrompt`
  holds: no renew call outlasts the lease it extends. The code does not enforce it: `renew`
  compares the expiry with a time it captured before its reads, so a renewal that took longer
  than its lease can extend a claim that was taken over.

The invariant is `Shape /\ Timing`. `Shape` holds in general: the stored objects and what each
call has read agree with the store (an epoch that was read exists, the captured time is not after
the clock, claims follow the clock). `Timing` is what `RenewalsPrompt` adds: the expiry a call
compares against is still the effective one, or the claim has been released or the call will fail
to write. Safety of takeovers needs both: a takeover writes epoch `n + 1` after it saw epoch `n`
lapse, and without `Timing` a renewal in flight could still extend epoch `n`. Each property
follows from the invariant and the step that could break it.

**`RunLeaseProofs`**, for any workers, operators, clocks and ttls: `EndedRunsDrain` and `TypeCorrect`
however the callers share store instances. The calls past their read of the run (`InFlight`) are
what an ended run has left; a call enters it only by reading that the run is running, and leaves it
with its one write. `RowsStayReadable` and `HeartbeatsAdvance` are about the callers of one store
instance, such as a collection task and its heartbeat (`OneInstance`): who has read under the lock
still has it (`Held`), hence is the only one to be past its read (`Alone`); so what it read is what
the database still says when it writes (`WorkerKnows`, `OperatorKnows`). `OneInstance` is needed, as
`RunLease_unreadable.cfg` shows.

**`RolloutCollectionProofs`**, for any collectors, slots, concurrency and bound on claims:
`TypeCorrect`, `CompletedCoversPlan`, `CompletedHasTrajectory`, `NotOvertaken`,
`EndedRunsGetNoMore`. A call runs whether or not its task still waits for it, so the invariant says
of stray calls what it says of tasks about to make them: `JobKnows` ties each place in a task to
the claim it has and the trajectory it stored, `StrayKnows` does so for the threads of cancelled
tasks, and `CollectorKnows` says that a collector about to end its run has every slot attached and
in the manifest. `ClaimsSound` says a collector claims a slot at most once, which is why a release
by a stray thread cannot reach a later claim of its own.

**`ReleaseProofs`, release transport**: for any publishers, collectors, layouts and objects, from
`ReleaseTransportAssumption` only: `TransportTypeCorrect`, `CommitsComplete`, `PublicationsVisible`,
`RecordsAreEvidence`, `DecisionsFinal`, `DeletionsConfirmed`, `CommitsDecideOnce`. The invariant has
a publishers' half: what a publisher has read back is there until a tombstone wins (`Standing`), and
who is about to commit has read back everything (`Uploaded`). The collectors' half says that whoever
deletes does it under the tombstone of its own preview (`Owned`), and that an object which has left
a collector's targets has moved past the version in the preview (`Cleared`). A commit is whole
because nothing can have been deleted before it, and nothing is after it: `Owned` needs a tombstone
for every delete, and the decision is written once. `CommitsDecideOnce` is the second refinement of
`DecideOnce`: a publisher answers with the release and a collector with the tombstone of the preview
it was given, and both are what was decided (`OutcomesAgree`). It is proved, not run.

**`ReleaseProofs`, release mirror**: for any executors, resolvers, plans and releases, from
`ReleaseMirrorAssumption` (the parts of a release are finitely many, times are bounded):
`TypeCorrect`, `CompletedIsWhole`, `OneBatchRecord`, `CopyingIsNoFault`, `ImplementsDecideOnce`.
Evidence is created once, so only growth matters of what others do (`Grows`): a decision, or a copy
of it in somebody's hands, stays `Sound`; an executor past its members has all their records
(`ExecutorKnows`). That copying never makes a batch look broken is the subtle one: a status can
find a commit without its parts, which were copied after it had looked for them, but not twice
(`TornOnce`, `FindsParts`), and a resolution needs the same finding repeatedly. The
refinement has one step per way to write the decision; all others stutter or answer.

**`PromotionRegistryProofs`**, for any operators, promotions, environments and alias policy:
`TypeCorrect`, `LifecyclesFollowPolicy`, `AliasesFollowPolicy`, `LaterIsRefused`, `DecisionsStay`.
The invariant says that every event is sound for the events before its slot (`Recorded`), and so is
every decision about to be put (`Ready`). It is inductive because streams only grow: a decision that
finds its slot free finds the events before the slot as they were when it was checked (`SoundKept`).
`LaterIsRefused` adds that what an execution has read of another stream is at least what was there
when it began (`begun`), so that a retirement and an alias that stand together each began before the
other was there.

**`PromotionProofs`, trial and promotion**: for any stages, runners, operators, contents of files,
gates and policy, from `PlanAssumption` and `PolicyAssumption`: `TypeCorrect`, `DecisionsCoherent`,
`SettledTrialStays`. A record is created once (`Kept`). So a conclusion
somebody drew from a record stays true, however old the report it stands in: a stage reported as
succeeded has a record (`ReaderKnows`); an operator with an index has the records of all stages, and
past the comparison of the artifacts has found them to agree with one another (`PromoterKnows`).
`Merged` is a fact about records alone, which is why no second look can undo it, and why what is
decided is coherent although files change between preview and decision. `SettledTrialStays` needs
besides that a runner that has found a record does not execute again (`Calm`).

**`PromotionProofs`, acquisition**: for any fetchers, acquirers, versions of the sources, number of
chunks and deaths, from `SourcesAssumption`: `AcquisitionTypeCorrect`, `RecordsVouch`,
`OneVersion`. Files are created once and in an order: the receipt after the chunks whose digest it
is, the record after the receipt (`CacheSound`, `OutputSound`). What a command has found of its
prefix then holds when it links the next file (`FetchKnows`, `AcquireKnows`), whoever else has been
there and died.

**`StudioKnowledgeProofs`**, for any sources, searches and number of revisions: `TypeCorrect`,
`IndexesOfOneRevision`, `SuccessIsIndexed`, `FilesBeforeRows`, `SourcesOfTasks`. The difficulty is
that searches rebuild and publish an index without the lock. `Indexed` says of every index, in
memory, in the database or in the hands of a rebuild, that its documents are those of its revision;
it is inductive because a revision is given once. `Reported` adds what publication in revision order
gives: once an index in the database has a source, only its deletion takes it away. `LockHeld` says
what the holder of the lock may rely on between its steps, and that a task has its sources until it
ends, since deletions ask first whether it has.

**`PartsProofs`**, about the four machines of `Parts`, for every value of their constants that
satisfies `PartsAssumption` and `ShardsAssumption`. A behaviour of `Parts` is a behaviour of each
part (`LoopOfParts`, `SearchOfParts`, `StudioOfParts`), so the theorems follow from lemmas about the
specifications of the parts.

- Shards: `TypeCorrect`, `ManifestsStand`, `VerificationsCover`. All rest on one fact about steps: a
  shard that is there stays as it is (`Kept`); what a reader has gathered then stays right
  (`Gathered`).
- Studio's runs: `StudioTypeCorrect`, `ActiveRunsOwned`, `EndedRunsStay`, `OneAtATime`. An active
  run has its handler (`Handed`) or its task (`Executes`), or was left by one that could not save;
  `ReadsHold` is what makes ended runs stay: who has read a row in order to fail the run (a handler,
  a lifespan that closes) is the last to write it. `OneAtATime` (with `SlotHeld`) is proved only.
- Agent loop: `LoopTypeCorrect`, `EndsTruthful`, `CallsAccounted`. `EndJustified` finds the reason
  of an end in the steps, none of which gave an earlier one (`Passed`); a truncated trajectory has
  reached its limit of steps or of repetitions. `Accounts` counts, for every step and tool, the
  calls, the successful ones, the effects in the snapshot and the threads still at work: the effects
  in a state and those still to come are never more than the calls of it, and not fewer than its
  successes; states only grow (`Grown`).
- Tree search: `SearchTypeCorrect`, `BranchesStayIsolated`, `VisitsAreOfChildren`,
  `ValuesAreBackedUp`. A transition starts from its node's state with nothing else under way
  (`SessionRestored`), so of the candidates tried at most the latest can have a thread left, and
  that one's effect is in its own child. The sums are folds of the community modules over sets of
  children of any size; lemmas give what the proofs need of them (any element can be taken first,
  functions that differ at one element have sums that differ by as much), by an induction over the
  subsets of a finite set that is stated with a set of subsets in place of a predicate
  (`SubsetInduction`). `AddsUp` holds of the tree in all states: a backup gives a node on its path
  what it gives to the one child on the path and the node's own reward (`BackedUpAdds`); new
  children have no visits and no value, so that what their parent has is its own (`SproutedAdds`),
  and that is one visit at most because a node that waits to be expanded was the end of one
  simulation only, the one which made it (`Visited`). Proposals have to be finite sets, of actions
  that need not be.

Outside the prover's reach, and checked by TLC only, is liveness under fairness: `CollectorsEnd`,
`RunsEnd`, `Arrives`. Every other property of the runs that pass is the statement of a theorem.

`SidecarsDeterministic` and the properties of the other configurations below "What the code does
otherwise" are false and have none.

## Not modelled

Contents of trajectories, archives and messages, hashing and signatures are abstracted to
identities; a digest is equal when what it is taken of is. Process-wide failures other than the
death of a process (a full disk, a corrupted file) appear only where the code has a path for them.

- Inside modelled components: `fetch`, `inventory` and the batches of the release transport, which
  only read or repeat one collection over prefixes that share nothing; the finalization of shards in
  `on_batch`, which is one step; the expansion of a matrix into plans; rankings among several
  trials; the signing, unpacking and inspection of promotion archives; trust roots and byte limits
  of acquisitions; Studio's settings, conversations, datasets and rendering.
- Checkpoint manifests and run archives: sequential work on private files, with one conditional
  create at the end, which other modules have.
- Policies, parsing and filtering, data construction, the offline pipeline, evaluation and quality
  gates: pure or single passes over files, without another actor.
- Algorithms and rewards: floating-point arithmetic, which TLC does not have.
- Services and trainer integrations: servers around pure functions, and conversions for external
  programs.

`PROJECT.json` says it per component, and `hazards` names the few that no property covers: a claim
left by a task cancelled inside `acquire`, which waits for its lease to run out; the order of
heartbeats, which is proved but not run; and those that do go wrong, with their configurations.

## Plan

1. Batches and `inventory` of `ReleaseTransport`.
2. An abstract fenced lease, implemented by `SlotClaims` and `RunLease`, and used by
   `RolloutCollection` in place of its atomic operations.
3. Pure algorithms against reference definitions: filtering, planning, hindsight, the matrix
   expansion.
