------------------------------ MODULE RunLease ------------------------------
(***************************************************************************)
(* SQLiteTrajectoryStore (src/agentic_rl_forge/storage/sqlite.py): the     *)
(* lifecycle of one run.  A worker leases the run, attaches trajectories   *)
(* and finishes it; an operator reconciles a run whose worker is gone.     *)
(*                                                                         *)
(* A store instance serializes its callers with a lock and has a           *)
(* connection of its own.  On a connection, the SELECTs of a method run    *)
(* outside a transaction: sqlite3 opens one, deferred, at the first        *)
(* INSERT or UPDATE, and the writes from there to the commit are one step. *)
(* So callers of one instance exclude each other, and callers of different *)
(* instances (processes that share the database file) interleave between   *)
(* the reads of a method and its writes.                                   *)
(*                                                                         *)
(* Runs do not share rows, so one run, already created, is enough.  The    *)
(* content of trajectories is left out.                                    *)
(***************************************************************************)
EXTENDS Integers

CONSTANTS
  Worker,       \* callers that lease, write and finish the run
  Operator,     \* callers that reconcile it
  Store,        \* store instances
  StoreOf,      \* the instance each caller uses
  Identity,     \* owner identities of workers
  OwnersOf,     \* the owner identities each worker may lease the run under
  Trajectory,
  TTLs,         \* the ttl_s values callers pass
  StaleAfter,   \* stale_after_s
  MaxClock,     \* bound: the clock stops here
  MaxEpoch,     \* bound: lease epochs
  None

Caller == Worker \cup Operator
Owner == Identity \cup Operator

Row == [owner : Owner, epoch : Nat \ {0}, acquired : Nat, beat : Nat,
        expires : Nat, released : Nat \cup {None}]
Token == [owner : Identity, epoch : Nat \ {0}]

ASSUME RunLeaseAssumption ==
  /\ Worker \cap Operator = {}
  /\ StoreOf \in [Caller -> Store]
  /\ OwnersOf \in [Worker -> SUBSET Identity]
  /\ Identity \cap Operator = {}
  /\ None \notin Caller \cup Identity \cup Nat \cup Row \cup Token
  /\ TTLs \subseteq Nat \ {0}
  /\ StaleAfter \in Nat \ {0}
  /\ MaxClock \in Nat
  /\ MaxEpoch \in Nat \ {0}

VARIABLES
  clock,
  run,        \* runs.status
  lease,      \* the run_heartbeats row, or None
  recon,      \* the run_reconciliations row: the takeover epoch, or None
  attached,   \* the run_trajectories rows
  lock,       \* who holds the lock of each store instance
  pc,         \* where each caller is in its call
  at,         \* the time the call captured
  token,      \* the RunLease a worker holds (its owner and epoch), or None
  row,        \* the row a caller is about to write, or previewed
  asked       \* the owner to lease under, outcome to record, trajectory to attach

db == <<run, lease, recon, attached>>
vars == <<clock, db, lock, pc, at, token, row, asked>>

Terminal == {"completed", "failed"}
Status == {"running"} \cup Terminal

\* The evidence a preview has of a run, and the record of its reconciliation.
Preview == Row \cup {None}
Reconciliation == Nat \ {0}

AcquirePC == {"acquire.status", "acquire.row", "acquire.write"}
RenewPC == {"renew.status", "renew.row", "renew.write"}
ReleasePC == {"release.row", "release.write"}
FinishPC == {"finish.row", "finish.write"}
PutPC == {"put.row", "put.write"}
ReconcilePC == {"preview.run", "preview.row", "previewed", "reconcile.existing",
                "reconcile.run", "reconcile.row", "reconcile.write"}
PC == {"idle"} \cup AcquirePC \cup RenewPC \cup ReleasePC \cup FinishPC
        \cup PutPC \cup ReconcilePC

TypeOK ==
  /\ clock \in 0..MaxClock
  /\ run \in Status
  /\ lease \in Row \cup {None}
  /\ recon \in Reconciliation \cup {None}
  /\ attached \subseteq Trajectory
  /\ lock \in [Store -> Caller \cup {None}]
  /\ pc \in [Caller -> PC]
  /\ at \in [Caller -> Nat]
  /\ token \in [Worker -> Token \cup {None}]
  /\ row \in [Caller -> Preview]
  /\ asked \in [Caller -> Identity \cup Terminal \cup Trajectory \cup {None}]

\* create_run: the run starts running, without a lease.
Init ==
  /\ clock = 0
  /\ run = "running"
  /\ lease = None
  /\ recon = None
  /\ attached = {}
  /\ lock = [i \in Store |-> None]
  /\ pc = [c \in Caller |-> "idle"]
  /\ at = [c \in Caller |-> 0]
  /\ token = [w \in Worker |-> None]
  /\ row = [c \in Caller |-> None]
  /\ asked = [c \in Caller |-> None]

-----------------------------------------------------------------------------
(* Steps every call is made of. *)

\* A call that captures the time before it takes the lock.
Begin(c, l) ==
  /\ pc' = [pc EXCEPT ![c] = l]
  /\ at' = [at EXCEPT ![c] = clock]
  /\ UNCHANGED <<clock, db, lock, token, row>>

\* A read under the lock of the caller's store; the first one takes it.
Read(c, here) ==
  /\ pc[c] = here
  /\ lock[StoreOf[c]] \in {None, c}
  /\ UNCHANGED <<clock, db, token>>

\* The call goes on, under the lock; with one of the given arguments.
Goes(c, l) ==
  /\ pc' = [pc EXCEPT ![c] = l]
  /\ lock' = [lock EXCEPT ![StoreOf[c]] = c]

Continue(c, l) == Goes(c, l) /\ UNCHANGED asked

With(c, l, args) == Goes(c, l) /\ \E x \in args : asked' = [asked EXCEPT ![c] = x]

\* The call leaves the lock and returns or raises.
Leave(c, l) ==
  /\ pc' = [pc EXCEPT ![c] = l]
  /\ lock' = [lock EXCEPT ![StoreOf[c]] = IF @ = c THEN None ELSE @]
  /\ at' = [at EXCEPT ![c] = 0]

Return(c) ==
  /\ Leave(c, "idle")
  /\ row' = [row EXCEPT ![c] = None]
  /\ asked' = [asked EXCEPT ![c] = None]

\* A write of caller c, committed.
Write(c, here) ==
  /\ pc[c] = here
  /\ Return(c)
  /\ UNCHANGED clock

\* RunHeartbeat accepts the row, or there is none; reading any other row raises.
Readable ==
  lease # None =>
    /\ lease.acquired <= lease.beat /\ lease.beat <= lease.expires
    /\ lease.released # None => lease.beat <= lease.released

\* The token a worker holds names the row's owner and epoch.
Names(tok) ==
  tok # None /\ lease.owner = tok.owner /\ lease.epoch = tok.epoch

\* _require_active_lease, at time t.
ActiveLease(w, t) ==
  /\ lease # None /\ Readable
  /\ Names(token[w])
  /\ lease.released = None
  /\ lease.beat <= t /\ t < lease.expires

\* _require_lease_if_present
LeaseIfPresent(w, t) == lease = None \/ ActiveLease(w, t)

-----------------------------------------------------------------------------
(* acquire_run_lease *)

AcquireCall(w) ==
  /\ pc[w] = "idle" /\ Begin(w, "acquire.status")
  /\ \E owner \in OwnersOf[w] : asked' = [asked EXCEPT ![w] = owner]

AcquireStatus(w) ==
  /\ Read(w, "acquire.status")
  /\ IF run = "running" THEN Continue(w, "acquire.row") /\ UNCHANGED <<at, row>>
                        ELSE Return(w)

\* The lease the worker gets from the row it reads: the next epoch, or the
\* same lease when it is its own and still active.
Acquired(w) ==
  LET active == lease.released = None /\ lease.expires > at[w]
      fresh(e) == [owner |-> asked[w], epoch |-> e, acquired |-> at[w],
                   beat |-> at[w], expires |-> at[w], released |-> None]
  IN  IF lease = None THEN fresh(1)
      ELSE IF ~active THEN fresh(lease.epoch + 1)
      ELSE IF lease.owner = asked[w] /\ at[w] >= lease.beat THEN lease
      ELSE None

AcquireRow(w) ==
  /\ Read(w, "acquire.row")
  /\ LET next == Acquired(w)
     IN  IF /\ Readable /\ next # None
            /\ next.epoch <= MaxEpoch                       \* bound
         THEN /\ Continue(w, "acquire.write") /\ UNCHANGED at
              /\ row' = [row EXCEPT ![w] = next]
         ELSE Return(w)

AcquireWrite(w) ==
  /\ Write(w, "acquire.write")
  /\ \E ttl \in TTLs :
       lease' = [row[w] EXCEPT !.beat = at[w], !.expires = at[w] + ttl]
  /\ token' = [token EXCEPT ![w] = [owner |-> row[w].owner, epoch |-> row[w].epoch]]
  /\ UNCHANGED <<run, recon, attached>>

-----------------------------------------------------------------------------
(* renew_run_lease *)

RenewCall(w) ==
  /\ pc[w] = "idle" /\ token[w] # None
  /\ Begin(w, "renew.status") /\ UNCHANGED asked

RenewStatus(w) ==
  /\ Read(w, "renew.status")
  /\ IF run = "running" THEN Continue(w, "renew.row") /\ UNCHANGED <<at, row>>
                        ELSE Return(w)

RenewRow(w) ==
  /\ Read(w, "renew.row")
  /\ IF ActiveLease(w, at[w])
     THEN Continue(w, "renew.write") /\ UNCHANGED <<at, row>>
     ELSE Return(w)

\* The UPDATE names the run only, whatever row it finds.
RenewWrite(w) ==
  /\ Write(w, "renew.write")
  /\ \E ttl \in TTLs :
       lease' = [lease EXCEPT !.beat = at[w], !.expires = at[w] + ttl]
  /\ UNCHANGED <<run, recon, attached, token>>

-----------------------------------------------------------------------------
(* release_run_lease *)

ReleaseCall(w) ==
  /\ pc[w] = "idle" /\ token[w] # None
  /\ Begin(w, "release.row") /\ UNCHANGED asked

\* An expired lease may be released; a released one is returned as it is.
ReleaseRow(w) ==
  /\ Read(w, "release.row")
  /\ IF /\ lease # None /\ Readable /\ Names(token[w])
        /\ lease.released = None
        /\ at[w] >= lease.beat
     THEN Continue(w, "release.write") /\ UNCHANGED <<at, row>>
     ELSE Return(w)

ReleaseWrite(w) ==
  /\ Write(w, "release.write")
  /\ lease' = [lease EXCEPT !.expires = at[w], !.released = at[w]]
  /\ UNCHANGED <<run, recon, attached, token>>

-----------------------------------------------------------------------------
(* finish_run *)

\* A finished run is returned, or refused when it ended otherwise, which changes
\* nothing; the terminal time is read after the status.
FinishStatus(w) ==
  /\ Read(w, "idle") /\ run = "running"
  /\ With(w, "finish.row", Terminal)
  /\ at' = [at EXCEPT ![w] = clock]
  /\ UNCHANGED row

FinishRow(w) ==
  /\ Read(w, "finish.row")
  /\ IF LeaseIfPresent(w, at[w])
     THEN Continue(w, "finish.write") /\ UNCHANGED <<at, row>>
     ELSE Return(w)

FinishWrite(w) ==
  /\ Write(w, "finish.write")
  /\ run' = asked[w]
  /\ lease' = IF lease # None /\ lease.released = None
              THEN [lease EXCEPT !.expires = at[w], !.released = at[w]]
              ELSE lease
  /\ UNCHANGED <<recon, attached, token>>

-----------------------------------------------------------------------------
(* put *)

\* Mutant: the status of the run is not asked.
PutStatusAny(w) ==
  /\ Read(w, "idle")
  /\ With(w, "put.row", Trajectory)
  /\ at' = [at EXCEPT ![w] = clock]
  /\ UNCHANGED row

PutStatus(w) ==
  /\ Read(w, "idle") /\ run = "running"
  /\ With(w, "put.row", Trajectory)
  /\ at' = [at EXCEPT ![w] = clock]
  /\ UNCHANGED row

PutRow(w) ==
  /\ Read(w, "put.row")
  /\ IF LeaseIfPresent(w, at[w])
     THEN Continue(w, "put.write") /\ UNCHANGED <<at, row>>
     ELSE Return(w)

PutWrite(w) ==
  /\ Write(w, "put.write")
  /\ attached' = attached \cup {asked[w]}
  /\ UNCHANGED <<run, lease, recon, token>>

-----------------------------------------------------------------------------
(* preview_run_reconciliation and reconcile_stale_run *)

\* _classify_run_liveness of a running run, at time t.
Stale(t) ==
  \/ lease = None /\ t >= StaleAfter
  \/ lease # None /\ (lease.released # None \/ lease.expires <= t)

PreviewCall(o) ==
  /\ pc[o] \in {"idle", "previewed"} /\ Begin(o, "preview.run") /\ UNCHANGED asked

\* A run that is not running has no eligible preview.
PreviewRun(o) ==
  /\ Read(o, "preview.run")
  /\ IF run = "running" THEN Continue(o, "preview.row") /\ UNCHANGED <<at, row>>
                        ELSE Return(o)

PreviewRow(o) ==
  /\ Read(o, "preview.row")
  /\ IF Readable /\ Stale(at[o])
     THEN /\ Leave(o, "previewed")
          /\ row' = [row EXCEPT ![o] = lease]
          /\ UNCHANGED asked
     ELSE Return(o)

ReconcileCall(o) ==
  /\ pc[o] = "previewed" /\ Begin(o, "reconcile.existing") /\ UNCHANGED asked

\* An existing record is returned, or refused when it is another one.
ReconcileExisting(o) ==
  /\ Read(o, "reconcile.existing")
  /\ IF recon = None THEN Continue(o, "reconcile.run") /\ UNCHANGED <<at, row>>
                     ELSE Return(o)

ReconcileRun(o) ==
  /\ Read(o, "reconcile.run")
  /\ IF run = "running" THEN Continue(o, "reconcile.row") /\ UNCHANGED <<at, row>>
                        ELSE Return(o)

\* The state digest covers the run, the row and why it is stale; what made
\* an unchanged row stale keeps it so.
ReconcileRow(o) ==
  /\ Read(o, "reconcile.row")
  /\ IF Readable /\ Stale(at[o]) /\ lease = row[o]
     THEN Continue(o, "reconcile.write") /\ UNCHANGED <<at, row>>
     ELSE Return(o)

\* One transaction: the takeover of the lease, the failed run, the record.
\* A second record of the run violates UNIQUE and rolls everything back.
ReconcileWrite(o) ==
  /\ Write(o, "reconcile.write")
  /\ IF recon # None THEN UNCHANGED <<run, lease, recon>>
     ELSE LET epoch == IF row[o] = None THEN 1 ELSE row[o].epoch + 1
          IN  /\ lease' = [owner |-> o, epoch |-> epoch, acquired |-> at[o],
                           beat |-> at[o], expires |-> at[o], released |-> at[o]]
              /\ run' = "failed"
              /\ recon' = epoch
  /\ UNCHANGED <<attached, token>>

-----------------------------------------------------------------------------
Tick ==
  /\ clock < MaxClock
  /\ clock' = clock + 1
  /\ UNCHANGED <<db, lock, pc, at, token, row, asked>>

\* The process of a store instance dies with all its callers.
Crash(i) ==
  /\ lock' = [lock EXCEPT ![i] = None]
  /\ pc' = [c \in Caller |-> IF StoreOf[c] = i THEN "idle" ELSE pc[c]]
  /\ at' = [c \in Caller |-> IF StoreOf[c] = i THEN 0 ELSE at[c]]
  /\ token' = [w \in Worker |-> IF StoreOf[w] = i THEN None ELSE token[w]]
  /\ row' = [c \in Caller |-> IF StoreOf[c] = i THEN None ELSE row[c]]
  /\ asked' = [c \in Caller |-> IF StoreOf[c] = i THEN None ELSE asked[c]]
  /\ UNCHANGED <<clock, db>>

Work(w) ==
  \/ AcquireCall(w) \/ AcquireStatus(w) \/ AcquireRow(w) \/ AcquireWrite(w)
  \/ RenewCall(w) \/ RenewStatus(w) \/ RenewRow(w) \/ RenewWrite(w)
  \/ ReleaseCall(w) \/ ReleaseRow(w) \/ ReleaseWrite(w)
  \/ FinishStatus(w) \/ FinishRow(w) \/ FinishWrite(w)
  \/ PutStatus(w) \/ PutRow(w) \/ PutWrite(w)

Operate(o) ==
  \/ PreviewCall(o) \/ PreviewRun(o) \/ PreviewRow(o)
  \/ ReconcileCall(o) \/ ReconcileExisting(o) \/ ReconcileRun(o)
  \/ ReconcileRow(o) \/ ReconcileWrite(o)

Next ==
  \/ Tick
  \/ \E w \in Worker : Work(w)
  \/ \E o \in Operator : Operate(o)
  \/ \E i \in Store : Crash(i)

Spec == Init /\ [][Next]_vars

-----------------------------------------------------------------------------
(* Properties *)

\* Calls that have read the run as running and may still write.
InFlight ==
  {c \in Caller : pc[c] \in {"acquire.row", "acquire.write", "renew.row", "renew.write",
                             "finish.row", "finish.write", "put.row", "put.write",
                             "reconcile.row", "reconcile.write"}}

\* Callers of other processes may have read an ended run as running.  What they
\* still do to it is bounded: it never runs again and its reconciliation is on
\* record for good, no other call gets in flight, and each call in flight
\* changes the database at most once before it returns.  When they have
\* returned, only the release of a lease is left.
DrainsWhenEnded ==
  run # "running" =>
    /\ run' # "running" /\ (recon # None => recon' = recon)
    /\ InFlight' \subseteq InFlight
    /\ \/ InFlight' # InFlight
       \/ UNCHANGED <<run, recon, attached>> /\ (lease' # lease => lease'.released # None)
EndedDrains == [][DrainsWhenEnded]_vars

\* "Run manifests begin in running state and transition once to completed or
\* failed" (docs/architecture.md).
EndedForGood == run # "running" => run' = run
TerminalOnce == [][EndedForGood]_vars

\* "Lease epochs fence stale workers from attaching trajectories"
\* (docs/architecture.md): what is attached is attached to a running run, by a
\* worker whose token names the current epoch, if there is one.
Fenced ==
  attached' # attached =>
    /\ run = "running"
    /\ \E w \in Worker :
         /\ pc[w] = "put.write" /\ pc'[w] # pc[w]
         /\ lease # None => Names(token[w])
FencedAttach == [][Fenced]_vars

\* reconcile_stale_run "fails closed if the run recovers or changes after
\* preview" (docs/api.md): the record replaces the row its operator previewed.
FailsClosed ==
  recon' # recon => \E o \in Operator : pc[o] = "reconcile.write" /\ row[o] = lease
ReconcileFailsClosed == [][FailsClosed]_vars

\* Every row is one RunHeartbeat accepts, so that the run can be read again.
RowsReadable == Readable

\* The heartbeat of a lease never goes back, though the collection task and its
\* renewal task, or a restarted process, refresh it under one identity.
BeatForward ==
  (lease # None /\ lease'.epoch = lease.epoch) => lease'.beat >= lease.beat
BeatsForward == [][BeatForward]_vars
=============================================================================
