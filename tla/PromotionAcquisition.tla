------------------------ MODULE PromotionAcquisition ------------------------
(***************************************************************************)
(* How a receiver gets the artifacts of a signed promotion manifest:       *)
(* ExperimentPromotionRemoteFetcher copies a remote object, chunk by       *)
(* chunk, into a cache prefix named after its plan, and                    *)
(* ExperimentPromotionAcquirer materialises the manifest's local file and, *)
(* with a fetch record, the cached one under a prefix named after its own  *)
(* plan.  Both commands may be run by several operators, fail or die at    *)
(* any point and be run again, while the sources change under them.        *)
(*                                                                         *)
(* The manifest has one local and one remote artifact, of the content      *)
(* "signed".  A plan is named after everything it has seen: that of a      *)
(* fetch after what the source shows of its version, that of an            *)
(* acquisition after the fetch record it uses, or Unresolved.  Plans that  *)
(* fail a check for other reasons (trust, authority, limits, contracts)    *)
(* never get to do anything and are left out.                              *)
(***************************************************************************)
EXTENDS Integers, Sequences, FiniteSets

CONSTANTS
  Fetcher, Acquirer, \* processes, each running its command again and again
  Chunks,            \* chunks of the remote artifact
  Versions,          \* successive contents of the remote object
  LocalVersions,     \* successive contents of the local file
  Cases,             \* a validator, a policy, and the version to start from
  MaxDeaths         \* bound on the deaths of processes

ASSUME SourcesAssumption ==
  /\ Chunks \in Nat \ {0} /\ MaxDeaths \in Nat
  /\ Versions \in Seq({"signed", "other", "resized"}) /\ Versions # <<>>
  /\ LocalVersions \in Seq({"signed", "other"}) /\ LocalVersions # <<>>
  /\ \A c \in Cases :
       /\ c[1] \in {"etag", "dated", "versioned", "modified", "unsent", "none"}
       /\ c[2] \subseteq {"validator", "remote"}
       /\ c[3] \in 1..Len(Versions)

VARIABLES
  validator,      \* what the source shows: see Validators
  policy,         \* what the operators require: a set of Requirements
  version, local, \* indices in Versions and LocalVersions
  cache,          \* the files under each fetch prefix
  fetch,          \* the state of each fetch command
  output,         \* the files under each acquisition prefix
  acquire,        \* the state of each acquire command
  left,           \* prefixes with the temporary file of a process that died
  deaths

sources == <<version, local>>
kept    == <<validator, policy>>
fetches == <<cache, fetch>>
acquisitionVars == <<validator, policy, version, local, cache, fetch, output, acquire, left, deaths>>

\* An ETag; an ETag and a Last-Modified, of which the ETag is sent with every
\* read; a version ID, which is what is read; a Last-Modified alone, sent by the
\* HTTPS reader; one of an S3 object, which is not sent; nothing at all.  Times
\* have seconds: an object overwritten twice in one is left out.
Validators   == {"etag", "dated", "versioned", "modified", "unsent", "none"}
Requirements == {"validator", "remote"}

Plan       == 1..Len(Versions)
Unresolved == 0
Chunk      == 1..Chunks
Receipt    == Chunks + 1
FetchRecord == Chunks + 2
Absent     == "absent"
Bytes      == {"signed", "other"}

Local == 1  Remote == 2  Record == 3
\* The files of an acquisition: without a fetch record there is no remote one.
Files(k) == IF k = Unresolved THEN {Local, Record} ELSE {Local, Remote, Record}

IdleFetch   == [at |-> "idle", plan |-> 1, item |-> 1, data |-> Absent]
IdleAcquire == [at |-> "idle", plan |-> Unresolved, item |-> 1, data |-> Absent]

\* A fetch prefix has the chunks, a receipt and a record; an acquisition prefix
\* the local file, the remote one and a record.
CacheFiles == [1..FetchRecord -> Bytes \cup {Absent}]
OutputFiles == [1..Record -> Bytes \cup {Absent}]

\* The plan each command works for, and the file it has come to.
FetchCall == [at : {"idle", "planned", "prefix", "get", "put", "link"}, plan : Plan,
              item : 1..(FetchRecord + 1), data : Bytes \cup {Absent}]
AcquireCall == [at : {"idle", "planned", "prefix", "get", "link"},
                plan : {Unresolved} \cup Plan, item : 1..(Record + 1),
                data : Bytes \cup {Absent}]

AcquisitionTypeOK ==
  /\ validator \in Validators /\ policy \subseteq Requirements
  /\ version \in Plan /\ local \in 1..Len(LocalVersions)
  /\ cache \in [Plan -> CacheFiles] /\ fetch \in [Fetcher -> FetchCall]
  /\ output \in [0..Len(Versions) -> OutputFiles] /\ acquire \in [Acquirer -> AcquireCall]
  /\ left \subseteq ({"cache"} \X Plan) \cup ({"output"} \X (0..Len(Versions)))
  /\ deaths \in 0..MaxDeaths

AcquisitionInit ==
  /\ \E c \in Cases : validator = c[1] /\ policy = c[2] /\ version = c[3]
  /\ local = 1
  /\ cache = [e \in Plan |-> [i \in 1..FetchRecord |-> Absent]]
  /\ fetch = [f \in Fetcher |-> IdleFetch]
  /\ output = [k \in 0..Len(Versions) |-> [i \in 1..Record |-> Absent]]
  /\ acquire = [a \in Acquirer |-> IdleAcquire]
  /\ left = {} /\ deaths = 0

\* A prefix with a temporary file has an unexpected file.
Unexpected(place, k) ==
  \/ <<place, k>> \in left
  \/ place = "cache" /\ \E f \in Fetcher : fetch[f].at = "link" /\ fetch[f].plan = k
  \/ place = "output" /\ \E a \in Acquirer : acquire[a].at = "link" /\ acquire[a].plan = k

-----------------------------------------------------------------------------
(* The sources *)

OverwriteObject ==
  /\ version < Len(Versions) /\ version' = version + 1
  /\ UNCHANGED <<kept, local, fetches, output, acquire, left, deaths>>

OverwriteLocal ==
  /\ local < Len(LocalVersions) /\ local' = local + 1
  /\ UNCHANGED <<kept, version, fetches, output, acquire, left, deaths>>

\* What inspect shows of an object: an ETag depends on its content; a time and a
\* version ID do not.
Inspected ==
  CASE validator = "etag" -> CHOOSE v \in Plan :
         /\ Versions[v] = Versions[version]
         /\ \A w \in Plan : Versions[w] = Versions[version] => v <= w
    [] validator = "none" -> 1
    [] OTHER -> version

\* The checks of a plan that depend on the source.
FetchEligible ==
  /\ Versions[version] # "resized"
  /\ "validator" \in policy => validator # "none"

-----------------------------------------------------------------------------
(* ExperimentPromotionRemoteFetcher.execute *)

FetchAt(f, l) == fetch[f].at = l
FetchFails(f) == fetch' = [fetch EXCEPT ![f] = IdleFetch]
FetchGoes(f, l) == fetch' = [fetch EXCEPT ![f].at = l]
NextItem(f) == fetch' = [fetch EXCEPT ![f].at = "get", ![f].item = @ + 1, ![f].data = Absent]
FetchOnly == UNCHANGED <<kept, sources, output, acquire, left, deaths>>

PreviewFetch(f) ==
  /\ FetchAt(f, "idle") /\ FetchEligible
  /\ fetch' = [fetch EXCEPT ![f].at = "planned", ![f].plan = Inspected]
  /\ FetchOnly /\ UNCHANGED cache

\* execute previews again, and refuses another plan than the confirmed one.
RepeatFetchPreview(f) ==
  /\ FetchAt(f, "planned")
  /\ IF FetchEligible /\ Inspected = fetch[f].plan THEN FetchGoes(f, "prefix") ELSE FetchFails(f)
  /\ FetchOnly /\ UNCHANGED cache

CheckCachePrefix(f) ==
  /\ FetchAt(f, "prefix")
  /\ IF Unexpected("cache", fetch[f].plan) THEN FetchFails(f) ELSE FetchGoes(f, "get")
  /\ FetchOnly /\ UNCHANGED cache

Cached(f) == cache[fetch[f].plan][fetch[f].item]

HaveChunk(f) ==
  /\ FetchAt(f, "get") /\ fetch[f].item \in Chunk /\ Cached(f) # Absent
  /\ NextItem(f)
  /\ FetchOnly /\ UNCHANGED cache

\* If-Match compares the content that the ETag stands for; If-Unmodified-Since
\* the time; neither is sent for the other validators.
Refused(f) ==
  \/ validator \in {"etag", "dated"} /\ Versions[version] # Versions[fetch[f].plan]
  \/ validator = "modified" /\ version # fetch[f].plan

\* What a read returns: of a version ID that version, else the current one.
Served(f) == IF validator = "versioned" THEN Versions[fetch[f].plan] ELSE Versions[version]

\* Mutant: reads are not conditional.
ReadRangeUnconditionally(f) ==
  /\ FetchAt(f, "get") /\ fetch[f].item \in Chunk /\ Cached(f) = Absent
  /\ fetch' = [fetch EXCEPT ![f].at = "put",
                 ![f].data = IF Versions[version] = "signed" THEN "signed" ELSE "other"]
  /\ FetchOnly /\ UNCHANGED cache

ReadRange(f) ==
  /\ FetchAt(f, "get") /\ fetch[f].item \in Chunk /\ Cached(f) = Absent
  /\ ~Refused(f)
  /\ fetch' = [fetch EXCEPT ![f].at = "put",
                 ![f].data = IF Served(f) = "signed" THEN "signed" ELSE "other"]
  /\ FetchOnly /\ UNCHANGED cache

\* Refused, or a connection that fails.
ReadFails(f) ==
  /\ FetchAt(f, "get") /\ fetch[f].item \in Chunk /\ Cached(f) = Absent
  /\ FetchFails(f)
  /\ FetchOnly /\ UNCHANGED cache

\* Mutant: the receipt is written without the digest of the whole.
CheckNoDigest(f) ==
  /\ FetchAt(f, "get") /\ fetch[f].item = Receipt
  /\ fetch' = [fetch EXCEPT ![f].at = "put", ![f].data = "signed"]
  /\ FetchOnly /\ UNCHANGED cache

\* The chunks together must have the digest of the manifest.
CheckDigest(f) ==
  /\ FetchAt(f, "get") /\ fetch[f].item = Receipt
  /\ IF \A i \in Chunk : cache[fetch[f].plan][i] = "signed"
     THEN fetch' = [fetch EXCEPT ![f].at = "put", ![f].data = "signed"]
     ELSE FetchFails(f)
  /\ FetchOnly /\ UNCHANGED cache

MakeFetchRecord(f) ==
  /\ FetchAt(f, "get") /\ fetch[f].item = FetchRecord
  /\ fetch' = [fetch EXCEPT ![f].at = "put", ![f].data = "signed"]
  /\ FetchOnly /\ UNCHANGED cache

\* put_if_absent looks first; then it writes a temporary file and links it.
Put(f) ==
  /\ FetchAt(f, "put")
  /\ CASE Cached(f) = Absent        -> FetchGoes(f, "link")
       [] Cached(f) = fetch[f].data -> NextItem(f)
       [] OTHER                     -> FetchFails(f)
  /\ FetchOnly /\ UNCHANGED cache

Link(f) ==
  /\ FetchAt(f, "link")
  /\ IF Cached(f) = Absent
     THEN cache' = [cache EXCEPT ![fetch[f].plan][fetch[f].item] = fetch[f].data]
     ELSE UNCHANGED cache
  /\ IF Cached(f) \in {Absent, fetch[f].data} THEN NextItem(f) ELSE FetchFails(f)
  /\ FetchOnly

\* verify_record, which may fail for what others do in the prefix; the record
\* stays either way.
VerifyFetch(f) ==
  /\ FetchAt(f, "get") /\ fetch[f].item = FetchRecord + 1
  /\ FetchFails(f)
  /\ FetchOnly /\ UNCHANGED cache

FetchSteps(f) ==
  \/ PreviewFetch(f) \/ RepeatFetchPreview(f) \/ CheckCachePrefix(f) \/ HaveChunk(f)
  \/ ReadRange(f) \/ ReadFails(f) \/ CheckDigest(f) \/ MakeFetchRecord(f) \/ Put(f) \/ Link(f) \/ VerifyFetch(f)

-----------------------------------------------------------------------------
(* ExperimentPromotionAcquirer *)

AcquireAt(a, l) == acquire[a].at = l
AcquireFails(a) == acquire' = [acquire EXCEPT ![a] = IdleAcquire]
AcquireGoes(a, l) == acquire' = [acquire EXCEPT ![a].at = l]
NextFile(a) == acquire' = [acquire EXCEPT ![a].at = "get", ![a].item = @ + 1, ![a].data = Absent]
AcquireOnly == UNCHANGED <<kept, sources, fetches, left, deaths>>

\* verify_record of the fetch records the command is given.
RecordVerifies(e) ==
  /\ ~Unexpected("cache", e)
  /\ \A i \in 1..FetchRecord : cache[e][i] = "signed"

\* What a command reads of the local file, and of the cached remote one.
LocalBytes == LocalVersions[local]
CachedBytes(e) == IF \A i \in Chunk : cache[e][i] = "signed" THEN "signed" ELSE "other"
Resolved(k) == LocalBytes = "signed" /\ (k # Unresolved => CachedBytes(k) = "signed")

\* What a command sees of the artifacts is what the manifest says, and one that
\* no fetch record resolves is allowed to be missing.
AcquisitionEligible(k) == Resolved(k) /\ (k = Unresolved => "remote" \notin policy)

\* The fetch record that resolves the remote artifact is verified first.
PreviewAcquisition(a) ==
  /\ AcquireAt(a, "idle")
  /\ \E k \in 0..Len(Versions) :
       /\ k # Unresolved => RecordVerifies(k)
       /\ AcquisitionEligible(k)
       /\ acquire' = [acquire EXCEPT ![a].at = "planned", ![a].plan = k]
  /\ AcquireOnly /\ UNCHANGED output

RepeatAcquisitionPreview(a) ==
  /\ AcquireAt(a, "planned")
  /\ IF AcquisitionEligible(acquire[a].plan) THEN AcquireGoes(a, "prefix") ELSE AcquireFails(a)
  /\ AcquireOnly /\ UNCHANGED output

CheckOutputPrefix(a) ==
  /\ AcquireAt(a, "prefix")
  /\ IF Unexpected("output", acquire[a].plan) THEN AcquireFails(a) ELSE AcquireGoes(a, "get")
  /\ AcquireOnly /\ UNCHANGED output

Written(a) == output[acquire[a].plan][acquire[a].item]

SkipRemote(a) ==
  /\ AcquireAt(a, "get") /\ acquire[a].item = Remote /\ acquire[a].plan = Unresolved
  /\ NextFile(a)
  /\ AcquireOnly /\ UNCHANGED output

\* Mutant: files of an earlier attempt are refused.
RefuseFile(a) ==
  /\ AcquireAt(a, "get") /\ acquire[a].item \in Files(acquire[a].plan) /\ Written(a) # Absent
  /\ AcquireFails(a)
  /\ AcquireOnly /\ UNCHANGED output

\* A file that is there already is verified.
HaveFile(a) ==
  /\ AcquireAt(a, "get") /\ acquire[a].item \in Files(acquire[a].plan) /\ Written(a) # Absent
  /\ IF Written(a) = "signed" THEN NextFile(a) ELSE AcquireFails(a)
  /\ AcquireOnly /\ UNCHANGED output

\* _publish_file and _publish_remote_file copy the source into a temporary file
\* of the prefix; the record is the plan's.
CopyFile(a) ==
  /\ AcquireAt(a, "get") /\ acquire[a].item \in Files(acquire[a].plan) /\ Written(a) = Absent
  /\ acquire' = [acquire EXCEPT ![a].at = "link",
                   ![a].data = CASE acquire[a].item = Local  -> LocalBytes
                                 [] acquire[a].item = Remote -> CachedBytes(acquire[a].plan)
                                 [] OTHER                    -> "signed"]
  /\ AcquireOnly /\ UNCHANGED output

\* A source that has changed since the preview ends the command.
LinkFile(a) ==
  /\ AcquireAt(a, "link")
  /\ IF acquire[a].data = "signed" /\ Written(a) \in {Absent, "signed"}
     THEN /\ output' = [output EXCEPT ![acquire[a].plan][acquire[a].item] = "signed"]
          /\ NextFile(a)
     ELSE AcquireFails(a) /\ UNCHANGED output
  /\ AcquireOnly

\* _verify_materialization, as VerifyFetch.
VerifyAcquisition(a) ==
  /\ AcquireAt(a, "get") /\ acquire[a].item = Record + 1
  /\ AcquireFails(a)
  /\ AcquireOnly /\ UNCHANGED output

AcquireSteps(a) ==
  \/ PreviewAcquisition(a) \/ RepeatAcquisitionPreview(a) \/ CheckOutputPrefix(a)
  \/ SkipRemote(a) \/ HaveFile(a) \/ CopyFile(a) \/ LinkFile(a) \/ VerifyAcquisition(a)

-----------------------------------------------------------------------------
\* A process that is killed leaves the temporary file it is writing.
FetcherDies(f) ==
  /\ ~FetchAt(f, "idle") /\ deaths < MaxDeaths
  /\ deaths' = deaths + 1
  /\ left' = IF FetchAt(f, "link") THEN left \cup {<<"cache", fetch[f].plan>>} ELSE left
  /\ FetchFails(f)
  /\ UNCHANGED <<kept, sources, cache, output, acquire>>

AcquirerDies(a) ==
  /\ ~AcquireAt(a, "idle") /\ deaths < MaxDeaths
  /\ deaths' = deaths + 1
  /\ left' = IF AcquireAt(a, "link") THEN left \cup {<<"output", acquire[a].plan>>} ELSE left
  /\ AcquireFails(a)
  /\ UNCHANGED <<kept, sources, fetches, output>>

AcquisitionNext ==
  \/ OverwriteObject \/ OverwriteLocal
  \/ \E f \in Fetcher : FetchSteps(f) \/ FetcherDies(f)
  \/ \E a \in Acquirer : AcquireSteps(a) \/ AcquirerDies(a)

\* Operators repeat commands that failed, a process goes on until it dies, and a
\* source that is tried again and again is read at some time.
Fairness ==
  /\ \A f \in Fetcher : WF_acquisitionVars(FetchSteps(f)) /\ SF_acquisitionVars(ReadRange(f))
  /\ \A a \in Acquirer : WF_acquisitionVars(AcquireSteps(a))

AcquisitionSpec == AcquisitionInit /\ [][AcquisitionNext]_acquisitionVars /\ Fairness

-----------------------------------------------------------------------------
(* Properties *)

\* A fetch record stands for the whole artifact, and an acquisition record for
\* every file of its plan, with the signed bytes: whatever was interrupted,
\* resumed, overtaken or overwritten on the way.
RecordedWhole ==
  /\ \A e \in Plan : cache[e][FetchRecord] # Absent =>
       \A i \in 1..FetchRecord : cache[e][i] = "signed"
  /\ \A k \in 0..Len(Versions) : output[k][Record] # Absent =>
       /\ \A i \in Files(k) : output[k][i] = "signed"
       /\ k # Unresolved => cache[k][FetchRecord] # Absent

\* The chunks of a fetch are of the version that its plan names, when the
\* reader sends what it was shown: a resumed fetch never mixes two versions.
ChunksOfThePlan ==
  validator \notin {"unsent", "none"} =>
    \A e \in Plan, i \in Chunk : cache[e][i] \in {Absent, Versions[e]}

\* When the sources settle on the signed bytes a promotion arrives in the end,
\* however often commands failed, unless a killed process has left a temporary
\* file (NothingLeft) or the remote source shows no version at all.
SourcesSettled == Versions[version] = "signed" /\ LocalBytes = "signed"
Arrived == \E k \in 0..Len(Versions) : output[k][Record] # Absent
Arrives == <>[]SourcesSettled => <>(Arrived \/ left # {} \/ validator = "none")

\* "An interrupted attempt can resume from any exact subset": no prefix has a
\* file that makes every later attempt fail.
NothingLeft == left = {}
=============================================================================
