---------------------------- MODULE TrajectoryShards ----------------------------
(***************************************************************************)
(* ShardedTrajectoryStore (src/agentic_rl_forge/storage/shards.py) of one  *)
(* run.  Writers put trajectories, readers finalize manifests of what is   *)
(* there, verify and export them, in several processes that share only the *)
(* directory.                                                              *)
(*                                                                         *)
(* A directory is listed while others link files into it: what was there   *)
(* when the listing began is in it, what comes during it may be.  Content  *)
(* is a member of Content, with the policy version that made it; the       *)
(* counts and times of a manifest follow from its shards, and metadata,    *)
(* which only makes another manifest of the same shards, is left out.      *)
(***************************************************************************)
EXTENDS FiniteSets

CONSTANTS Writer, Reader, Id, Content, PolicyOf, None

ASSUME ShardsAssumption == None \notin Content /\ DOMAIN PolicyOf = Content

VARIABLES
  shard,       \* the content of each trajectory's file, or None
  manifests,   \* the manifest files
  exported,    \* what each export wrote, and of which manifest
  writer,      \* the put of each writer: the file it is about to link, or None
  reader       \* the call of each reader

vars == <<shard, manifests, exported, writer, reader>>

Stored == {i \in Id : shard[i] # None}
Payloads(ids) == [i \in ids |-> shard[i]]
Policies(ids) == {PolicyOf[shard[i]] : i \in ids}

Nothing == [shards |-> <<>>, policies |-> {}]
Idle == [at |-> "idle", from |-> {}, seen |-> {}, manifest |-> Nothing, complete |-> FALSE]

Manifest == [shards : UNION {[ids -> Content] : ids \in SUBSET Id},
             policies : SUBSET {PolicyOf[x] : x \in Content}]

ReaderCall == [at : {"idle", "finalize", "refs", "link", "check", "list", "reported", "copy"},
               from : SUBSET Id, seen : SUBSET Id, manifest : Manifest, complete : BOOLEAN]

TypeOK ==
  /\ shard \in [Id -> Content \cup {None}]
  /\ manifests \subseteq Manifest
  /\ writer \in [Writer -> (Id \X Content) \cup {None}]
  /\ reader \in [Reader -> ReaderCall]

Init ==
  /\ shard = [i \in Id |-> None]
  /\ manifests = {} /\ exported = {}
  /\ writer = [w \in Writer |-> None]
  /\ reader = [r \in Reader |-> Idle]

-----------------------------------------------------------------------------
(* put *)

\* A file that is there is compared: the put returns or raises.
PutLook(w) ==
  /\ writer[w] = None
  /\ \E i \in Id \ Stored, x \in Content : writer' = [writer EXCEPT ![w] = <<i, x>>]
  /\ UNCHANGED <<shard, manifests, exported, reader>>

\* Mutant: the temporary file is renamed over the target.
RenamePayload(w) ==
  /\ writer[w] # None
  /\ shard' = [shard EXCEPT ![writer[w][1]] = writer[w][2]]
  /\ writer' = [writer EXCEPT ![w] = None]
  /\ UNCHANGED <<manifests, exported, reader>>

\* A temporary file is written and linked, unless another was linked first.
LinkPayload(w) ==
  /\ writer[w] # None
  /\ shard' = [shard EXCEPT ![writer[w][1]] = IF @ = None THEN writer[w][2] ELSE @]
  /\ writer' = [writer EXCEPT ![w] = None]
  /\ UNCHANGED <<manifests, exported, reader>>

\* A temporary file that is left behind is not listed as a shard.
WriterDies(w) ==
  /\ writer[w] # None
  /\ writer' = [writer EXCEPT ![w] = None]
  /\ UNCHANGED <<shard, manifests, exported, reader>>

-----------------------------------------------------------------------------
(* finalize, verify and export_jsonl *)

ReaderGoes(r, call) ==
  /\ reader' = [reader EXCEPT ![r] = call]
  /\ UNCHANGED <<shard, writer>>

\* What a listing that began with these files may hold now.
Listings(from) == {ids \in SUBSET Stored : from \subseteq ids}

BeginFinalize(r) ==
  /\ reader[r].at = "idle"
  /\ ReaderGoes(r, [Idle EXCEPT !.at = "finalize", !.from = Stored])
  /\ UNCHANGED <<manifests, exported>>

\* What the caller requires: a single policy, or an expected one.
Accepts(ids, single, expected) ==
  /\ ids # {}
  /\ single => Cardinality(Policies(ids)) = 1
  /\ expected # None => Policies(ids) = {expected}

\* list_trajectories, and the checks of what it lists.
ListTrajectories(r) ==
  /\ reader[r].at = "finalize"
  /\ \E ids \in Listings(reader[r].from), single \in BOOLEAN,
        expected \in {PolicyOf[x] : x \in Content} \cup {None} :
       ReaderGoes(r, IF Accepts(ids, single, expected)
                     THEN [reader[r] EXCEPT !.at = "refs", !.seen = ids,
                                            !.manifest.policies = Policies(ids)]
                     ELSE Idle)
  /\ UNCHANGED <<manifests, exported>>

\* The files are read again for their digests.
ShardRefs(r) ==
  /\ reader[r].at = "refs"
  /\ ReaderGoes(r, [reader[r] EXCEPT !.at = "link", !.manifest.shards = Payloads(reader[r].seen)])
  /\ UNCHANGED <<manifests, exported>>

\* The manifest is named by its contents; linking it again is no change.
LinkManifest(r) ==
  /\ reader[r].at = "link"
  /\ manifests' = manifests \cup {reader[r].manifest}
  /\ ReaderGoes(r, Idle)
  /\ UNCHANGED exported

\* By its ID, or the latest one: any manifest.
BeginVerify(r) ==
  /\ reader[r].at = "idle"
  /\ \E m \in manifests : ReaderGoes(r, [Idle EXCEPT !.at = "check", !.manifest = m])
  /\ UNCHANGED <<manifests, exported>>

\* Every shard the manifest names is there with the content it names.
Valid(m) == \A i \in DOMAIN m.shards : shard[i] = m.shards[i]

CheckShards(r) ==
  /\ reader[r].at = "check"
  /\ ReaderGoes(r, IF Valid(reader[r].manifest)
                   THEN [reader[r] EXCEPT !.at = "list", !.from = Stored] ELSE Idle)
  /\ UNCHANGED <<manifests, exported>>

\* Mutant: valid shards are taken for all of them.
ReportValid(r) ==
  /\ reader[r].at = "list"
  /\ \E ids \in Listings(reader[r].from) :
       ReaderGoes(r, [reader[r] EXCEPT !.at = "reported", !.seen = ids, !.complete = TRUE])
  /\ UNCHANGED <<manifests, exported>>

\* Files the manifest does not name make it incomplete.
Report(r) ==
  /\ reader[r].at = "list"
  /\ \E ids \in Listings(reader[r].from) :
       ReaderGoes(r, [reader[r] EXCEPT !.at = "reported", !.seen = ids,
                        !.complete = ids \subseteq DOMAIN reader[r].manifest.shards])
  /\ UNCHANGED <<manifests, exported>>

\* shard-verify prints the verification; an export goes on with a valid one.
Return(r) ==
  /\ reader[r].at = "reported"
  /\ \/ ReaderGoes(r, Idle)
     \/ ReaderGoes(r, [reader[r] EXCEPT !.at = "copy"])
  /\ UNCHANGED <<manifests, exported>>

\* The lines are what the files hold now; the output replaces an earlier one.
Export(r) ==
  /\ reader[r].at = "copy"
  /\ LET m == reader[r].manifest
     IN  exported' = exported \cup {[manifest |-> m, lines |-> Payloads(DOMAIN m.shards)]}
  /\ ReaderGoes(r, Idle)
  /\ UNCHANGED manifests

ReaderDies(r) ==
  /\ reader[r].at # "idle"
  /\ ReaderGoes(r, Idle)
  /\ UNCHANGED <<manifests, exported>>

-----------------------------------------------------------------------------
Write(w) == PutLook(w) \/ LinkPayload(w) \/ WriterDies(w)

Read(r) ==
  \/ BeginFinalize(r) \/ ListTrajectories(r) \/ ShardRefs(r) \/ LinkManifest(r)
  \/ BeginVerify(r) \/ CheckShards(r) \/ Report(r) \/ Return(r) \/ Export(r) \/ ReaderDies(r)

Next == (\E w \in Writer : Write(w)) \/ (\E r \in Reader : Read(r))

Spec == Init /\ [][Next]_vars

-----------------------------------------------------------------------------
(* Properties *)

\* "An older manifest can therefore remain valid while becoming incomplete after
\* more workers finish" (docs/distributed-rollouts.md): whatever is put after a
\* listing, a manifest, made of two reads of each file, and the exports of it go
\* on describing the shards and their policies as they are.
ManifestsHold ==
  /\ \A m \in manifests : Valid(m) /\ m.policies = Policies(DOMAIN m.shards)
  /\ \A e \in exported : e.lines = e.manifest.shards

\* "complete: the manifest is valid and the run has no extra shard files": a
\* verification that says so has missed nothing that was there when it listed,
\* and one that says the opposite is right for good.
CompleteCovers ==
  \A r \in Reader : reader[r].at = "reported" =>
    LET named == DOMAIN reader[r].manifest.shards
    IN  /\ reader[r].complete => reader[r].from \subseteq named
        /\ ~reader[r].complete => Stored \ named # {}
=============================================================================
