---------------------------- MODULE ReleaseMirror ----------------------------
(***************************************************************************)
(* RunArtifactMirror (src/agentic_rl_forge/storage/run_mirror.py): one     *)
(* batch that copies committed releases from a source store to a           *)
(* destination store.  Executors repeat one command (plan, operator and    *)
(* reason make the batch ID); resolvers abandon the batch.  All evidence   *)
(* is immutable objects of the destination: the intent, a record of each   *)
(* member, one decision, and a sidecar of the decision.                    *)
(*                                                                         *)
(* A member is a release of the batch, and its objects are the parts and   *)
(* the commit.  Contents and identities are not modelled: an object is     *)
(* there or not, and "drift" stands for every difference from the plan     *)
(* that the validations refuse (a source object with another identity, an  *)
(* unplanned or changed destination object).                               *)
(***************************************************************************)
EXTENDS Integers, FiniteSets

CONSTANTS
  Executor,   \* execute_batch callers of the one command
  Resolver,   \* resolve_batch callers, who also read the ledger
  Release,    \* committed releases of the source
  Part,       \* chunks and metadata of each release
  Commit,     \* its commit object
  There,      \* the objects of each release the destination has already
  Time,       \* what now() may return, on hosts that share no clock
  None

Caller == Executor \cup Resolver
Object == Part \cup {Commit}

\* The documents of a batch.  The plan of a release tells which of its objects
\* the destination has already.
MemberPlan == SUBSET Object
Plan == UNION {[S -> MemberPlan] : S \in (SUBSET Release) \ {{}}}
Intent == Time
Record == Time
MemberStatus == {<<"pending">>, <<"destination_complete">>, <<"completed">>, <<"invalid">>}
                  \cup ({"partial"} \X (1..Cardinality(Object)))
BatchStatus == UNION {[S -> MemberStatus] : S \in SUBSET Release}
Decision ==
  [kind : {"completed"}, completed_at : Time,
   records : UNION {[S -> Record] : S \in SUBSET Release}]
    \cup [kind : {"resolved"}, by : Resolver, status : BatchStatus]

ASSUME ReleaseMirrorAssumption ==
  /\ Executor \cap Resolver = {}
  /\ Commit \notin Part /\ Release \cap Part = {} /\ IsFiniteSet(Part)
  /\ There \in [Release -> SUBSET Object]
  /\ Time \subseteq Nat
  /\ \A S \in SUBSET Time : S # {} => \E t \in S : \A u \in S : u <= t
  /\ None \notin Nat \cup Plan \cup Decision \cup BatchStatus

VARIABLES
  plan,        \* the batch plan: what each selected release finds, or None
  present,     \* the objects of each release at the destination
  drifted,     \* releases that differ from the plan in any other way
  intent,      \* intent.json: when the batch began, or None
  record,      \* the mirror record of each release, or None
  decision,    \* decision.json, or None
  sidecar,     \* record.json or resolution.json, or None
  pc,
  at,          \* the action time of each executor
  found,       \* the terminal evidence a caller has read, or None
  thread,      \* where an executor is with each release
  seen,        \* the member states a resolver has read in this pass
  heads,       \* the parts a resolver found of the release it is reading
  confirmed,   \* the status whose digest the resolver confirms, or None
  outage       \* a status was read while a store could not be reached

stores == <<present, drifted, record>>
evidence == <<intent, decision, sidecar>>
execution == <<at, thread>>
resolution == <<seen, heads, confirmed, outage>>
vars == <<plan, stores, evidence, pc, found, execution, resolution>>

Member == IF plan = None THEN {} ELSE DOMAIN plan

\* action = COPY
Copies(m) == Object \ plan[m]

BatchRecord == [kind |-> "completed",
                completed_at |-> LET times == {intent} \cup {record[m] : m \in Member}
                                 IN CHOOSE t \in times : \A u \in times : u <= t,
                records |-> [m \in Member |-> record[m]]]
Resolution(r) == [kind |-> "resolved", by |-> r, status |-> confirmed[r]]

TypeOK ==
  /\ plan \in Plan \cup {None}
  /\ present \in [Release -> SUBSET Object]
  /\ drifted \subseteq Release
  /\ intent \in Intent \cup {None}
  /\ record \in [Release -> Record \cup {None}]
  /\ decision \in Decision \cup {None} /\ sidecar \in Decision \cup {None}
  /\ pc \in [Caller -> {"idle", "intent", "decision", "sidecar", "members", "finish",
                        "look", "confirmed", "again", "final", "publish", "ensure",
                        "ledger", "torn", "returned"}]
  /\ at \in [Executor -> Time \cup {None}]
  /\ thread \in [Executor -> [Release -> {"start", "parts", "commit", "record",
                                          "done", "failed"}]]
  /\ found \in [Caller -> Decision \cup {None}]
  /\ seen \in [Resolver -> BatchStatus]
  /\ heads \in [Resolver -> SUBSET (Release \cup Part)]
  /\ confirmed \in [Resolver -> BatchStatus \cup {None}]
  /\ outage \in BOOLEAN

Fresh == [m \in Release |-> "start"]

Init ==
  /\ plan = None
  /\ present = There
  /\ drifted = {}
  /\ intent = None
  /\ record = [m \in Release |-> None]
  /\ decision = None
  /\ sidecar = None
  /\ pc = [c \in Caller |-> "idle"]
  /\ at = [x \in Executor |-> None]
  /\ found = [c \in Caller |-> None]
  /\ thread = [x \in Executor |-> Fresh]
  /\ seen = [r \in Resolver |-> <<>>]
  /\ heads = [r \in Resolver |-> {}]
  /\ confirmed = [r \in Resolver |-> None]
  /\ outage = FALSE

To(c, l) == pc' = [pc EXCEPT ![c] = l]

\* An executor has left its threads behind.
Ended(c) ==
  /\ at' = IF c \in Executor THEN [at EXCEPT ![c] = None] ELSE at
  /\ thread' = IF c \in Executor THEN [thread EXCEPT ![c] = Fresh] ELSE thread

\* A call that raises, or whose process dies, leaves what it wrote.
Raise(c) ==
  /\ To(c, IF c \in Resolver /\ confirmed[c] # None THEN "confirmed" ELSE "idle")
  /\ found' = [found EXCEPT ![c] = None]
  /\ Ended(c)

-----------------------------------------------------------------------------
(* plan_batch: the releases are chosen, and each is compared object by     *)
(* object with the destination; inventories before and after must agree.   *)

PlanBatch ==
  /\ plan = None
  /\ \E S \in (SUBSET Release) \ {{}} : plan' = [m \in S |-> present[m]]
  /\ UNCHANGED <<stores, evidence, pc, found, execution, resolution>>

Drift(m) ==
  /\ plan # None
  /\ drifted' = drifted \cup {m}
  /\ UNCHANGED <<plan, present, record, evidence, pc, found, execution, resolution>>

-----------------------------------------------------------------------------
(* execute_batch *)

Begin(x, t) ==
  /\ plan # None /\ pc[x] \in {"idle", "returned"}
  /\ at' = [at EXCEPT ![x] = t]
  /\ To(x, "intent")
  /\ found' = [found EXCEPT ![x] = None]
  /\ UNCHANGED <<plan, stores, evidence, thread, resolution>>

\* An intent that is there is the one of this command: its ID says so.
PutIntent(x) ==
  /\ pc[x] = "intent"
  /\ intent' = IF intent = None THEN at[x] ELSE intent
  /\ To(x, "decision")
  /\ UNCHANGED <<plan, stores, decision, sidecar, found, execution, resolution>>

\* The terminal evidence is read in two steps: the decision, then the sidecars.
ReadDecision(c) ==
  /\ pc[c] = "decision"
  /\ found' = [found EXCEPT ![c] = decision]
  /\ To(c, "sidecar")
  /\ UNCHANGED <<plan, stores, evidence, execution, resolution>>

Evidence(c) == IF found[c] # None THEN found[c] ELSE sidecar
Conflicting(c) == found[c] # None /\ sidecar # None /\ sidecar # found[c]

\* A batch that has been resolved is not executed, a completed one not resolved.
\* The command of the resolution itself is repeated.
ReadSidecars(c) ==
  /\ pc[c] = "sidecar"
  /\ LET e == Evidence(c)
         other == IF c \in Executor THEN e.kind = "resolved" ELSE e # Resolution(c)
     IN  IF Conflicting(c) \/ (e # None /\ other)
         THEN Raise(c)
         ELSE /\ found' = [found EXCEPT ![c] = e]
              /\ To(c, IF c \in Executor THEN "members"
                       ELSE IF e = None THEN "again" ELSE "publish")
              /\ UNCHANGED execution
  /\ UNCHANGED <<plan, stores, evidence, resolution>>

-----------------------------------------------------------------------------
(* execute: one release, in a thread of the executor *)

AtMember(x, m, l) == pc[x] = "members" /\ m \in Member /\ thread[x][m] = l
ThreadTo(x, m, l) ==
  /\ thread' = [thread EXCEPT ![x][m] = l]
  /\ UNCHANGED <<plan, drifted, evidence, pc, at, found, resolution>>

\* Mutant: the record is made before the release is copied.
StartMemberRecords(x, m) ==
  /\ AtMember(x, m, "start")
  /\ ThreadTo(x, m, IF m \in drifted THEN "failed"
                    ELSE IF record[m] # None THEN "done" ELSE "parts")
  /\ record' = IF record[m] = None THEN [record EXCEPT ![m] = at[x]] ELSE record
  /\ UNCHANGED present

\* A record that is there is returned, if both stores are still valid.
StartMember(x, m) ==
  /\ AtMember(x, m, "start")
  /\ ThreadTo(x, m, IF m \in drifted THEN "failed"
                    ELSE IF record[m] # None THEN "done" ELSE "parts")
  /\ UNCHANGED <<present, record>>

\* put_if_absent of a part that is not there yet, by one of the object workers;
\* it fails if the object drifted.
CopyPart(x, m, o) ==
  /\ AtMember(x, m, "parts") /\ o \in Part \ present[m]
  /\ \/ /\ present' = [present EXCEPT ![m] = @ \cup {o}]
        /\ ThreadTo(x, m, "parts")
     \/ m \in drifted /\ ThreadTo(x, m, "failed") /\ UNCHANGED present
  /\ UNCHANGED record

\* A second snapshot precedes the commit.
PartsCopied(x, m) ==
  /\ AtMember(x, m, "parts") /\ Part \subseteq present[m]
  /\ ThreadTo(x, m, IF m \in drifted THEN "failed" ELSE "commit")
  /\ UNCHANGED <<present, record>>

CopyCommit(x, m) ==
  /\ AtMember(x, m, "commit")
  /\ \/ /\ present' = [present EXCEPT ![m] = @ \cup {Commit}]
        /\ ThreadTo(x, m, "record")
     \/ m \in drifted /\ ThreadTo(x, m, "failed") /\ UNCHANGED present
  /\ UNCHANGED record

\* The destination release is validated; the first record stays, and is returned.
PutMemberRecord(x, m) ==
  /\ AtMember(x, m, "record")
  /\ IF m \in drifted \/ present[m] # Object
     THEN ThreadTo(x, m, "failed") /\ UNCHANGED record
     ELSE /\ record' = IF record[m] = None THEN [record EXCEPT ![m] = at[x]] ELSE record
          /\ ThreadTo(x, m, "done")
  /\ UNCHANGED present

\* Every thread ends before the first failure is raised.
JoinMembers(x) ==
  /\ pc[x] = "members"
  /\ \A m \in Member : thread[x][m] \in {"done", "failed"}
  /\ IF \E m \in Member : thread[x][m] = "failed"
     THEN Raise(x)
     ELSE To(x, "finish") /\ UNCHANGED <<found, execution>>
  /\ UNCHANGED <<plan, stores, evidence, resolution>>

-----------------------------------------------------------------------------
(* The decision and its sidecar *)

\* The contract of a batch record: no member began before the intent.
FitsIntent == \A m \in Member : record[m] >= intent

\* Mutant: the completion carries this call's own time.
BuildBatchRecordNow(x) ==
  /\ pc[x] = "finish"
  /\ IF (found[x] # None /\ found[x] # BatchRecord) \/ ~FitsIntent
     THEN Raise(x)
     ELSE /\ found' = [found EXCEPT ![x] = [BatchRecord EXCEPT !.completed_at = at[x]]]
          /\ To(x, "publish") /\ Ended(x)
  /\ UNCHANGED <<plan, stores, evidence, resolution>>

\* Evidence that was there must agree with the records of the members.
BuildBatchRecord(x) ==
  /\ pc[x] = "finish"
  /\ IF (found[x] # None /\ found[x] # BatchRecord) \/ ~FitsIntent
     THEN Raise(x)
     ELSE /\ found' = [found EXCEPT ![x] = BatchRecord]
          /\ To(x, "publish") /\ Ended(x)
  /\ UNCHANGED <<plan, stores, evidence, resolution>>

\* Mutant: the later decision replaces the earlier one.
PublishDecisionReplaces(c) ==
  /\ pc[c] = "publish"
  /\ decision' = found[c]
  /\ To(c, "ensure") /\ UNCHANGED found
  /\ UNCHANGED <<plan, stores, intent, sidecar, execution, resolution>>

\* put_if_absent: the call fails unless its own outcome is the decision.
PublishDecision(c) ==
  /\ pc[c] = "publish"
  /\ decision' = IF decision = None THEN found[c] ELSE decision
  /\ IF decision' = found[c]
     THEN To(c, "ensure") /\ UNCHANGED <<found, execution>>
     ELSE Raise(c)
  /\ UNCHANGED <<plan, stores, intent, sidecar, resolution>>

EnsureSidecar(c) ==
  /\ pc[c] = "ensure"
  /\ sidecar' = IF sidecar = None THEN found[c] ELSE sidecar
  /\ IF sidecar' = found[c]
     THEN To(c, "returned") /\ UNCHANGED <<found, execution>>
     ELSE Raise(c)
  /\ UNCHANGED <<plan, stores, intent, decision, resolution>>

-----------------------------------------------------------------------------
(* batch_status, inspect_batch and resolve_batch *)

Pass == {"look", "again", "final"}
Reading(r, m) == pc[r] \in Pass /\ m \in Member \ DOMAIN seen[r]

MemberState(m, parts, commit) ==
  LET copied == (parts \cup (IF commit THEN {Commit} ELSE {})) \cap Copies(m)
  IN  IF m \in drifted \/ (Commit \in copied /\ copied # Copies(m)) THEN <<"invalid">>
      ELSE IF copied = Copies(m) THEN <<"destination_complete">>
      ELSE IF copied = {} THEN <<"pending">>
      ELSE <<"partial", Cardinality(copied)>>

SeeMember(r, m, s) ==
  /\ seen' = [seen EXCEPT ![r] = [k \in DOMAIN seen[r] \cup {m} |->
                                    IF k = m THEN s ELSE seen[r][k]]]
  /\ UNCHANGED <<plan, stores, evidence, pc, found, execution, confirmed>>

StartLook(r) ==
  /\ intent # None /\ pc[r] \in {"idle", "confirmed", "returned", "torn"}
  /\ To(r, "look")
  /\ seen' = [seen EXCEPT ![r] = <<>>]
  /\ confirmed' = [confirmed EXCEPT ![r] = None]
  /\ found' = [found EXCEPT ![r] = None]
  /\ UNCHANGED <<plan, stores, evidence, execution, heads, outage>>

\* The stores are validated and the record is looked up; without one the parts
\* are looked up, and in a later step the commit.
ReadMember(r, m) ==
  /\ Reading(r, m) /\ heads[r] = {}
  /\ \/ m \in drifted /\ SeeMember(r, m, <<"invalid">>) /\ UNCHANGED heads
     \/ /\ m \notin drifted /\ record[m] # None
        /\ SeeMember(r, m, <<"completed">>) /\ UNCHANGED heads
     \/ /\ m \notin drifted /\ record[m] = None
        /\ heads' = [heads EXCEPT ![r] = {m} \cup (present[m] \ {Commit})]
        /\ UNCHANGED <<plan, stores, evidence, pc, found, execution, seen, confirmed>>
  /\ UNCHANGED outage

ReadCommit(r, m) ==
  /\ Reading(r, m) /\ m \in heads[r]
  /\ SeeMember(r, m, MemberState(m, heads[r] \cap Part, Commit \in present[m]))
  /\ heads' = [heads EXCEPT ![r] = {}]
  /\ UNCHANGED outage

\* An error of a store while a member is read makes the member invalid too.
ReadFails(r, m) ==
  /\ Reading(r, m) /\ (heads[r] = {} \/ m \in heads[r])
  /\ SeeMember(r, m, <<"invalid">>)
  /\ heads' = [heads EXCEPT ![r] = {}]
  /\ outage' = TRUE

Eligible(s) ==
  \/ \E m \in DOMAIN s : s[m] = <<"invalid">>
  \/ \A m \in DOMAIN s : s[m] = <<"pending">>

\* Mutant: a status is compared with itself.
PassEndsUnconfirmed(r) ==
  /\ pc[r] \in Pass /\ DOMAIN seen[r] = Member
  /\ IF decision # None \/ sidecar # None \/ ~Eligible(seen[r])
     THEN Raise(r) /\ UNCHANGED confirmed
     ELSE /\ To(r, CASE pc[r] = "look" -> "confirmed"
                     [] pc[r] = "again" -> "final"
                     [] pc[r] = "final" -> "publish")
          /\ confirmed' = [confirmed EXCEPT ![r] = seen[r]]
          /\ found' = [found EXCEPT ![r] = IF pc[r] = "final"
                                           THEN [kind |-> "resolved", by |-> r,
                                                 status |-> seen[r]]
                                           ELSE None]
  /\ seen' = [seen EXCEPT ![r] = <<>>]
  /\ UNCHANGED <<plan, stores, evidence, execution, heads, outage>>

\* The first pass is an inspection, whose digest the operator may confirm; two
\* more must find that very status before the resolution is published.
PassEnds(r) ==
  /\ pc[r] \in Pass /\ DOMAIN seen[r] = Member
  /\ LET stale == pc[r] # "look" /\ seen[r] # confirmed[r]
     IN  IF decision # None \/ sidecar # None \/ ~Eligible(seen[r]) \/ stale
         THEN Raise(r) /\ UNCHANGED confirmed
         ELSE /\ To(r, CASE pc[r] = "look" -> "confirmed"
                         [] pc[r] = "again" -> "final"
                         [] pc[r] = "final" -> "publish")
              /\ confirmed' = [confirmed EXCEPT ![r] = seen[r]]
              /\ found' = [found EXCEPT ![r] = IF pc[r] = "final"
                                               THEN Resolution(r) ELSE None]
  /\ seen' = [seen EXCEPT ![r] = <<>>]
  /\ UNCHANGED <<plan, stores, evidence, execution, heads, outage>>

Resolve(r) ==
  /\ pc[r] = "confirmed"
  /\ To(r, "decision")
  /\ UNCHANGED <<plan, stores, evidence, found, execution, resolution>>

-----------------------------------------------------------------------------
(* operations_ledger: member records are counted, then the evidence is read *)

CountRecords(r) ==
  /\ intent # None /\ pc[r] \in {"idle", "torn"}
  /\ heads' = [heads EXCEPT ![r] = {m \in Member : record[m] # None}]
  /\ To(r, "ledger")
  /\ UNCHANGED <<plan, stores, evidence, found, execution, seen, confirmed, outage>>

\* The contract of an entry refuses a completed batch without all its records.
LedgerEntry(r) ==
  /\ pc[r] = "ledger"
  /\ LET e == IF decision # None THEN decision ELSE sidecar
     IN  To(r, IF e # None /\ e.kind = "completed" /\ heads[r] # Member
               THEN "torn" ELSE "idle")
  /\ heads' = [heads EXCEPT ![r] = {}]
  /\ UNCHANGED <<plan, stores, evidence, found, execution, seen, confirmed, outage>>

-----------------------------------------------------------------------------
\* A process dies; the threads of an executor die with it.
Crash(c) ==
  /\ pc[c] \notin {"idle", "confirmed", "returned", "torn"}
  /\ Raise(c)
  /\ seen' = IF c \in Resolver THEN [seen EXCEPT ![c] = <<>>] ELSE seen
  /\ heads' = IF c \in Resolver THEN [heads EXCEPT ![c] = {}] ELSE heads
  /\ UNCHANGED <<plan, stores, evidence, confirmed, outage>>

Execute(x) ==
  \/ PutIntent(x) \/ JoinMembers(x) \/ BuildBatchRecord(x)
  \/ \E t \in Time : Begin(x, t)
  \/ \E m \in Release :
       \/ StartMember(x, m) \/ PartsCopied(x, m) \/ CopyCommit(x, m)
       \/ PutMemberRecord(x, m)
       \/ \E o \in Part : CopyPart(x, m, o)

Operate(r) ==
  \/ StartLook(r) \/ PassEnds(r) \/ Resolve(r) \/ CountRecords(r) \/ LedgerEntry(r)
  \/ \E m \in Release : ReadMember(r, m) \/ ReadCommit(r, m) \/ ReadFails(r, m)

Next ==
  \/ PlanBatch
  \/ \E m \in Release : Drift(m)
  \/ \E x \in Executor : Execute(x)
  \/ \E r \in Resolver : Operate(r)
  \/ \E c \in Caller :
       \/ ReadDecision(c) \/ ReadSidecars(c) \/ PublishDecision(c) \/ EnsureSidecar(c)
       \/ Crash(c)

Spec == Init /\ [][Next]_vars

-----------------------------------------------------------------------------
(* Properties *)

\* The abstract decision: a batch is decided once, completed or resolved, and
\* every call that returns an outcome, an executor's or a resolver's, returns
\* the one that was decided.
Returned(c) == IF pc[c] = "returned" THEN found[c] ELSE None
D == INSTANCE DecideOnce WITH value <- decision,
                              answer <- [c \in Caller |-> Returned(c)]
DecidesOnce == D!Spec

\* A completed batch is evidence of the copies: every member has its record and
\* its whole release at the destination, at the time of the decision and after.
MirroredWhole ==
  decision # None /\ decision.kind = "completed" =>
    \A m \in Member : record[m] # None /\ present[m] = Object

\* Repeated executions agree: whoever finishes the batch, at whatever time and
\* after whatever crash, builds the record that was decided.
ExecutorsAgree ==
  \A x \in Executor :
    (/\ pc[x] \in {"publish", "ensure"}
     /\ decision # None /\ decision.kind = "completed") => found[x] = decision

\* Executors that are still copying do not make a batch look broken: it is
\* abandoned as invalid only if a release differed from the plan, or a store
\* could not be read.
AbandonedFairly ==
  decision # None /\ decision.kind = "resolved" =>
    \/ drifted # {} \/ outage
    \/ \A m \in Member : decision.status[m] = <<"pending">>

\* "Repeating the original plan, operator, reason, and trust set ... continues
\* unfinished members.  Once every selected release has valid member evidence,
\* execution conditionally creates ... decision.json" (docs/object-storage.md):
\* the records of the members can always make a batch record.
RecordsFitIntent ==
  \A m \in Member : intent # None /\ record[m] # None => record[m] >= intent
=============================================================================
