-------------------------- MODULE ReleaseTransport --------------------------
(***************************************************************************)
(* RunArtifactTransport (src/agentic_rl_forge/storage/run_transport.py):   *)
(* publication and garbage collection of one release prefix of a           *)
(* ConditionalBlobStore.  Publishers upload chunks and metadata, then      *)
(* create the decision object (commit.json) that makes the release         *)
(* visible; collectors create a tombstone under the same key before they   *)
(* delete staged objects.  Callers share nothing but the store, and every  *)
(* call to the store is a step.                                            *)
(*                                                                         *)
(* An object is its key and a version, which counts its creations and      *)
(* deletions: it is there when the version is odd, and a re-created object *)
(* has another identity (etag, modification time).  Contents follow from   *)
(* keys (chunk keys carry digests).  The retention age is left out: a      *)
(* stalled publisher is old enough at any point.                           *)
(***************************************************************************)
EXTENDS Integers, FiniteSets

CONSTANTS
  Publisher,
  Collector,      \* garbage_collect callers
  Layout,         \* transport manifests: a chunk size makes one
  LayoutOf,       \* the layout each publisher uses
  ChunksOf,       \* the chunk keys of each layout
  ManifestOf,     \* the metadata object (checksum, manifest) of each layout
  MaxVersion,     \* bound: an object is not created again past this version
  Nothing

ObjectsOf(l) == ChunksOf[l] \cup {ManifestOf[l]}
Key == UNION {ObjectsOf(l) : l \in Layout}

\* A preview is the identity of every object under the prefix.
Preview == UNION {[S -> 0..MaxVersion + 2] : S \in SUBSET Key}
Tombstone(preview) == [preview |-> preview]

ASSUME ReleaseTransportAssumption ==
  /\ LayoutOf \in [Publisher -> Layout]
  /\ MaxVersion \in Nat
  /\ \A l \in Layout : ManifestOf[l] \notin ChunksOf[l]
  /\ Nothing \notin Layout \cup Key
  /\ \A preview \in Preview : Tombstone(preview) \notin Layout \cup {Nothing}

VARIABLES
  version,    \* the staged objects
  commitKey,  \* commit.json: a layout, a tombstone, or Nothing
  recorded,   \* the completion record of the tombstone is there
  ppc,        \* where each publisher is
  placed,     \* objects a publisher has put
  verified,   \* objects it has read back
  gpc,        \* where each collector is
  approved,   \* the preview whose digest the collector confirms
  targets,    \* objects it found and has still to delete
  checked     \* the object whose identity it has just compared

publishers == <<ppc, placed, verified>>
collectors == <<gpc, approved, targets, checked>>
transportVars == <<version, commitKey, recorded, publishers, collectors>>

Present == {k \in Key : version[k] % 2 = 1}

Snapshot == [k \in Present |-> version[k]]
Tombstoned == commitKey \notin Layout \cup {Nothing}

PPC == {"idle", "upload", "commit", "check", "published", "failed"}
GPC == {"idle", "previewed", "confirm", "tombstone", "record", "list", "delete",
        "report", "collected"}

TransportTypeOK ==
  /\ version \in [Key -> 0..MaxVersion + 2]
  /\ \/ commitKey \in Layout \cup {Nothing}
     \/ commitKey = Tombstone(commitKey.preview) /\ commitKey.preview \in Preview
  /\ recorded \in BOOLEAN
  /\ ppc \in [Publisher -> PPC]
  /\ placed \in [Publisher -> SUBSET Key]
  /\ verified \in [Publisher -> SUBSET Key]
  /\ gpc \in [Collector -> GPC]
  /\ approved \in [Collector -> Preview]
  /\ targets \in [Collector -> SUBSET Key]
  /\ checked \in [Collector -> Key \cup {Nothing}]

NoPreview == [k \in {} |-> 0]

TransportInit ==
  /\ version = [k \in Key |-> 0]
  /\ commitKey = Nothing
  /\ recorded = FALSE
  /\ ppc = [p \in Publisher |-> "idle"]
  /\ placed = [p \in Publisher |-> {}]
  /\ verified = [p \in Publisher |-> {}]
  /\ gpc = [g \in Collector |-> "idle"]
  /\ approved = [g \in Collector |-> NoPreview]
  /\ targets = [g \in Collector |-> {}]
  /\ checked = [g \in Collector |-> Nothing]

Complete(l) == ObjectsOf(l) \subseteq Present

-----------------------------------------------------------------------------
(* publish *)

PublisherTo(p, l) ==
  /\ ppc' = [ppc EXCEPT ![p] = l]
  /\ UNCHANGED <<recorded, collectors>>

\* A publisher that ends forgets what it has done.
PublisherEnds(p, l) ==
  /\ PublisherTo(p, l)
  /\ placed' = [placed EXCEPT ![p] = {}]
  /\ verified' = [verified EXCEPT ![p] = {}]

\* An existing release is returned when it is this one and whole; a tombstoned
\* one is refused.
PublishStart(p) ==
  /\ ppc[p] \in {"idle", "failed"}
  /\ \/ commitKey = Nothing /\ PublisherTo(p, "upload") /\ UNCHANGED <<placed, verified>>
     \/ commitKey \in Layout /\ Complete(commitKey) /\ PublisherEnds(p, "published")
     \/ /\ Tombstoned \/ (commitKey \in Layout /\ ~Complete(commitKey))
        /\ PublisherEnds(p, "failed")
  /\ UNCHANGED <<version, commitKey>>

\* Chunks are uploaded by several threads; the metadata follows them.
MayPlace(p, k) ==
  LET l == LayoutOf[p]
  IN  \/ k \in ChunksOf[l] \ placed[p]
      \/ k = ManifestOf[l] /\ k \notin placed[p] /\ ChunksOf[l] \subseteq verified[p]

\* put_if_absent: what is there already is kept.
PutObject(p, k) ==
  /\ ppc[p] = "upload" /\ MayPlace(p, k)
  /\ IF k \in Present THEN UNCHANGED version
     ELSE /\ version[k] < MaxVersion                             \* bound
          /\ version' = [version EXCEPT ![k] = @ + 1]
  /\ placed' = [placed EXCEPT ![p] = @ \cup {k}]
  /\ UNCHANGED <<commitKey, recorded, ppc, verified, collectors>>

\* _put_verified reads back what it has put.
ReadBack(p, k) ==
  /\ ppc[p] = "upload" /\ k \in placed[p] \ verified[p]
  /\ IF k \in Present
     THEN /\ verified' = [verified EXCEPT ![p] = @ \cup {k}]
          /\ PublisherTo(p, IF k = ManifestOf[LayoutOf[p]] THEN "commit" ELSE "upload")
          /\ UNCHANGED placed
     ELSE PublisherEnds(p, "failed")
  /\ UNCHANGED <<version, commitKey>>

\* put_if_absent of the commit: another commit or a tombstone wins.
PutCommit(p) ==
  /\ ppc[p] = "commit"
  /\ IF commitKey \in {Nothing, LayoutOf[p]}
     THEN /\ commitKey' = LayoutOf[p]
          /\ PublisherTo(p, "check")
          /\ UNCHANGED <<placed, verified>>
     ELSE PublisherEnds(p, "failed") /\ UNCHANGED commitKey
  /\ UNCHANGED version

\* The committed graph is loaded and its chunks are verified.
CheckRelease(p) ==
  /\ ppc[p] = "check"
  /\ PublisherEnds(p, IF commitKey = LayoutOf[p] /\ Complete(commitKey)
                      THEN "published" ELSE "failed")
  /\ UNCHANGED <<version, commitKey>>

PublisherCrash(p) ==
  /\ ppc[p] \in {"upload", "commit", "check"}
  /\ PublisherEnds(p, "failed")
  /\ UNCHANGED <<version, commitKey>>

-----------------------------------------------------------------------------
(* preview_garbage_collection and garbage_collect *)

CollectorTo(g, l) ==
  /\ gpc' = [gpc EXCEPT ![g] = l]
  /\ UNCHANGED <<recorded, publishers>>

\* The call raises or its process dies; the operator may repeat it with the
\* digest already confirmed.
CollectorFails(g) ==
  /\ CollectorTo(g, "previewed")
  /\ targets' = [targets EXCEPT ![g] = {}]
  /\ checked' = [checked EXCEPT ![g] = Nothing]
  /\ UNCHANGED approved

\* Only a staged prefix has an eligible preview.
PreviewGc(g) ==
  /\ gpc[g] = "idle" /\ commitKey = Nothing /\ Present # {}
  /\ approved' = [approved EXCEPT ![g] = Snapshot]
  /\ CollectorTo(g, "previewed")
  /\ UNCHANGED <<version, commitKey, targets, checked>>

\* A retry resumes under the tombstone of the same preview.
SameCommand(g) == Tombstoned /\ commitKey.preview = approved[g]

StartGc(g) ==
  /\ gpc[g] = "previewed"
  /\ \/ commitKey = Nothing /\ CollectorTo(g, "confirm")
     \/ SameCommand(g) /\ CollectorTo(g, "record")
  /\ UNCHANGED <<version, commitKey, approved, targets, checked>>

\* The prefix is previewed again, and must not have changed.
Confirm(g) ==
  /\ gpc[g] = "confirm"
  /\ IF commitKey = Nothing /\ Snapshot = approved[g]
     THEN CollectorTo(g, "tombstone") /\ UNCHANGED <<approved, targets, checked>>
     ELSE CollectorFails(g)
  /\ UNCHANGED <<version, commitKey>>

\* Mutant: after a lost race the collector goes on.
PutTombstoneGoesOn(g) ==
  /\ gpc[g] = "tombstone"
  /\ commitKey' = IF commitKey = Nothing THEN Tombstone(approved[g]) ELSE commitKey
  /\ CollectorTo(g, "list")
  /\ UNCHANGED <<version, approved, targets, checked>>

\* put_if_absent of the tombstone under the key of the commit.
PutTombstone(g) ==
  /\ gpc[g] = "tombstone"
  /\ IF commitKey = Nothing \/ SameCommand(g)
     THEN /\ commitKey' = Tombstone(approved[g])
          /\ CollectorTo(g, "record")
          /\ UNCHANGED <<approved, targets, checked>>
     ELSE CollectorFails(g) /\ UNCHANGED commitKey
  /\ UNCHANGED version

\* A record that is there ends the call, if nothing is left.
ReadRecord(g) ==
  /\ gpc[g] = "record"
  /\ \/ ~recorded /\ CollectorTo(g, "list")
     \/ recorded /\ CollectorTo(g, IF Present = {} THEN "collected" ELSE "previewed")
  /\ UNCHANGED <<version, commitKey, approved, targets, checked>>

\* New objects and objects with another identity end the call.
ListTargets(g) ==
  /\ gpc[g] = "list"
  /\ IF \A k \in Present : k \in DOMAIN approved[g] /\ version[k] = approved[g][k]
     THEN /\ targets' = [targets EXCEPT ![g] = Present]
          /\ CollectorTo(g, "delete")
          /\ UNCHANGED <<approved, checked>>
     ELSE CollectorFails(g)
  /\ UNCHANGED <<version, commitKey>>

\* delete_if_match: the identity is compared with the preview ...
CheckIdentity(g, k) ==
  /\ gpc[g] = "delete" /\ k \in targets[g] /\ checked[g] = Nothing
  /\ \/ /\ k \notin Present
        /\ targets' = [targets EXCEPT ![g] = @ \ {k}]
        /\ UNCHANGED <<version, checked, approved>> /\ CollectorTo(g, "delete")
     \/ /\ k \in Present /\ version[k] # approved[g][k]
        /\ CollectorFails(g) /\ UNCHANGED version
     \/ /\ k \in Present /\ version[k] = approved[g][k]
        /\ checked' = [checked EXCEPT ![g] = k]
        /\ UNCHANGED <<version, targets, approved>> /\ CollectorTo(g, "delete")
  /\ UNCHANGED commitKey

\* ... and then what has this content is deleted: the path is unlinked, or the
\* object is deleted if it has the ETag just read.
Delete(g) ==
  /\ gpc[g] = "delete" /\ checked[g] # Nothing
  /\ version' = [version EXCEPT ![checked[g]] = IF @ % 2 = 1 THEN @ + 1 ELSE @]
  /\ targets' = [targets EXCEPT ![g] = @ \ {checked[g]}]
  /\ checked' = [checked EXCEPT ![g] = Nothing]
  /\ UNCHANGED approved /\ CollectorTo(g, "delete")
  /\ UNCHANGED commitKey

\* Mutant: the targets are taken for deleted.
AssertAbsentSkipped(g) ==
  /\ gpc[g] = "delete"
  /\ CollectorTo(g, "report")
  /\ UNCHANGED <<version, commitKey, approved, targets, checked>>

AssertAbsent(g) ==
  /\ gpc[g] = "delete" /\ targets[g] = {}
  /\ CollectorTo(g, IF Present = {} THEN "report" ELSE "previewed")
  /\ UNCHANGED <<version, commitKey, approved, targets, checked>>

\* Two collectors under one tombstone write one record.
PutRecord(g) ==
  /\ gpc[g] = "report"
  /\ recorded' = TRUE
  /\ gpc' = [gpc EXCEPT ![g] = "collected"]
  /\ UNCHANGED <<version, commitKey, publishers, approved, targets, checked>>

CollectorCrash(g) ==
  /\ gpc[g] \notin {"idle", "previewed", "collected"}
  /\ CollectorFails(g)
  /\ UNCHANGED <<version, commitKey>>

-----------------------------------------------------------------------------
Publish(p) ==
  \/ PublishStart(p) \/ PutCommit(p) \/ CheckRelease(p) \/ PublisherCrash(p)
  \/ \E k \in Key : PutObject(p, k) \/ ReadBack(p, k)

Collect(g) ==
  \/ PreviewGc(g) \/ StartGc(g) \/ Confirm(g) \/ PutTombstone(g) \/ ReadRecord(g)
  \/ ListTargets(g) \/ Delete(g) \/ AssertAbsent(g) \/ PutRecord(g)
  \/ CollectorCrash(g)
  \/ \E k \in Key : CheckIdentity(g, k)

TransportNext ==
  \/ \E p \in Publisher : Publish(p)
  \/ \E g \in Collector : Collect(g)

TransportSpec == TransportInit /\ [][TransportNext]_transportVars

-----------------------------------------------------------------------------
(* Properties *)

\* "Committed release graphs are never cleanup targets" (docs/architecture.md):
\* whatever collectors were doing when the commit won, every object it names is
\* there, for good.
CommittedComplete == commitKey \in Layout => Complete(commitKey)

\* A publisher that returned a publication published it: the decision is a
\* whole release.
PublishedVisible ==
  \A p \in Publisher : ppc[p] = "published" => commitKey \in Layout /\ Complete(commitKey)

\* "a commit and cleanup tombstone cannot both win" (README.md): the decision
\* and the record, once there, stay.
Decided ==
  /\ commitKey # Nothing => commitKey' = commitKey
  /\ recorded => recorded'
DecidedForGood == [][Decided]_transportVars

\* The decision seen by its callers: a publication answers with the release, a
\* collection with the tombstone of the preview it was given.
TransportCaller == ({"publish"} \X Publisher) \cup ({"collect"} \X Collector)

Answered(c) ==
  CASE c[1] = "publish" /\ ppc[c[2]] = "published" -> commitKey
    [] c[1] = "collect" /\ gpc[c[2]] = "collected" -> Tombstone(approved[c[2]])
    [] OTHER -> Nothing

CommitDecision == INSTANCE DecideOnce WITH
  Caller <- TransportCaller, None <- Nothing,
  value <- commitKey, answer <- [c \in TransportCaller |-> Answered(c)]

\* A release is decided once, and whoever returns, a publisher or a collector,
\* reports the decision: none returns its own wish after another won.
OutcomesAgree == CommitDecision!Spec

\* Nothing is deleted but objects the operator confirmed, and only after the
\* tombstone of that very preview won: an object of another layout, staged since,
\* is never a target.
Deletes ==
  \A k \in Present : version'[k] # version[k] =>
    Tombstoned /\ k \in DOMAIN commitKey.preview
OnlyConfirmedDeleted == [][Deletes]_transportVars

\* The completion record is evidence: every object of the preview is gone.
RecordIsEvidence ==
  recorded => Tombstoned /\ \A k \in DOMAIN commitKey.preview :
                            version[k] > commitKey.preview[k]

\* status calls a prefix invalid when "garbage collection record exists while
\* target objects remain" (run_transport.py): a collected prefix holds nothing.
CollectedStaysClean == recorded => Present = {}
=============================================================================
