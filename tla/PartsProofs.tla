------------------------------ MODULE PartsProofs ------------------------------
(***************************************************************************)
(* Theorems about the four small machines of Parts, for every value of the *)
(* constants: the shards of a run, the runs of the studio, a task of the   *)
(* agent loop and a tree search.                                           *)
(*                                                                         *)
(* TrajectoryShards: everything rests on one fact about a step: a shard    *)
(* that is there stays as it is (Kept).  A manifest that describes the     *)
(* shards once then does for good, and so does what a reader has gathered  *)
(* so far.                                                                 *)
(*                                                                         *)
(* StudioRuns: where the task of a run is, in a live process, tells what   *)
(* its row says and which of its calls are still on their way; nothing of  *)
(* a process outlives it, so that what it finds when it opens are rows.    *)
(*                                                                         *)
(* AgentLoop: the steps that are there are never changed, so that what     *)
(* ended the loop can be read from them, and the states they recorded      *)
(* only grow: each is the last one with the effects of calls made since.   *)
(*                                                                         *)
(* AgentSearch: a call starts from the state of its node with nothing else *)
(* under way (SessionRestored).  A tree adds up (AddsUp) at every node,    *)
(* whatever path is backed up next: one child of a node on the path is on  *)
(* it too, and new children are worth nothing yet.                         *)
(***************************************************************************)
EXTENDS Parts, Sequences, FiniteSetTheorems, SequenceTheorems, WellFoundedInduction, TLAPS

-----------------------------------------------------------------------------
(* The shards of a run.                                                     *)

\* A manifest of shards that are there, as they are.
Correct(m) ==
  /\ Valid(m)
  /\ DOMAIN m.shards \subseteq Stored
  /\ m.policies = Policies(DOMAIN m.shards)
  /\ m.policies # {}

Gathered(r) ==
  /\ reader[r].from \subseteq Stored
  /\ reader[r].at = "refs" =>
       /\ reader[r].seen \subseteq Stored
       /\ reader[r].manifest.policies = Policies(reader[r].seen)
       /\ reader[r].manifest.policies # {}
  /\ reader[r].at \in {"link", "check", "list", "reported", "copy"} => Correct(reader[r].manifest)

Inv ==
  /\ TypeOK
  /\ \A m \in manifests : Correct(m)
  /\ \A e \in exported : e.lines = e.manifest.shards
  /\ \A r \in Reader : Gathered(r)
  /\ CompleteCovers

\* A step leaves the shards that are there as they are.
Kept == Stored \subseteq Stored' /\ \A i \in Stored : shard'[i] = shard[i]

-----------------------------------------------------------------------------
(* Types *)

LEMMA Partial ==
  ASSUME TypeOK, NEW ids \in SUBSET Stored
  PROVE  /\ Payloads(ids) \in UNION {[x -> Content] : x \in SUBSET Id}
         /\ Payloads(ids) \in [ids -> Content]
         /\ Policies(ids) \in SUBSET {PolicyOf[x] : x \in Content}
  <1>1. ids \in SUBSET Id /\ \A i \in ids : shard[i] \in Content
    BY DEF TypeOK, Stored
  <1>2. Payloads(ids) \in [ids -> Content]
    BY <1>1 DEF Payloads
  <1>3. Policies(ids) \in SUBSET {PolicyOf[x] : x \in Content}
    BY <1>1 DEF Policies
  <1> QED BY <1>1, <1>2, <1>3

LEMMA NothingTyped == Nothing \in Manifest /\ Idle \in ReaderCall
  <1>1. <<>> \in [{} -> Content]
    OBVIOUS
  <1>2. Nothing \in Manifest
    BY <1>1 DEF Nothing, Manifest
  <1> QED BY <1>2 DEF Idle, ReaderCall

LEMMA CallTyped ==
  ASSUME TypeOK, NEW r \in Reader, NEW call \in ReaderCall, ReaderGoes(r, call),
         manifests' = manifests
  PROVE  TypeOK'
  BY DEF TypeOK, ReaderGoes

LEMMA InitInv == Init => Inv
  <1> SUFFICES ASSUME Init PROVE Inv
    OBVIOUS
  <1>1. TypeOK
    BY NothingTyped DEF Init, TypeOK
  <1>2. \A r \in Reader : reader[r] = Idle
    BY DEF Init
  <1>3. \A r \in Reader : Gathered(r)
    BY <1>2 DEF Gathered, Idle
  <1>4. CompleteCovers
    BY <1>2 DEF CompleteCovers, Idle
  <1> QED BY <1>1, <1>3, <1>4 DEF Init, Inv

-----------------------------------------------------------------------------
(* What stays *)

LEMMA WritesKeep ==
  ASSUME TypeOK, NEW w \in Writer, Write(w)
  PROVE  Kept
  <1>1. CASE shard' = shard
    BY <1>1 DEF Kept, Stored
  <1>2. CASE LinkPayload(w)
    <2>1. writer[w] \in Id \X Content
      BY <1>2 DEF LinkPayload, TypeOK
    <2>2. writer[w][1] \in Id /\ writer[w][2] \in Content /\ writer[w][2] # None
      BY <2>1, ShardsAssumption
    <2>3. \A i \in Id : shard'[i] = IF i = writer[w][1] /\ shard[i] = None
                                    THEN writer[w][2] ELSE shard[i]
      BY <1>2, <2>2 DEF LinkPayload, TypeOK
    <2> QED BY <2>2, <2>3 DEF Kept, Stored
  <1> QED BY <1>1, <1>2 DEF Write, PutLook, WriterDies

LEMMA StaysCorrect ==
  ASSUME Kept, NEW m, Correct(m)
  PROVE  Correct(m)'
  <1>1. Valid(m)'
    BY DEF Correct, Valid, Kept
  <1>2. Policies(DOMAIN m.shards)' = Policies(DOMAIN m.shards)
    BY DEF Correct, Policies, Kept
  <1> QED BY <1>1, <1>2 DEF Correct, Kept

LEMMA StaysGathered ==
  ASSUME Kept, NEW r \in Reader, Gathered(r), reader'[r] = reader[r]
  PROVE  Gathered(r)'
  <1>1. reader[r].at = "refs" => Policies(reader[r].seen)' = Policies(reader[r].seen)
    BY DEF Gathered, Policies, Kept
  <1>2. Correct(reader[r].manifest) => Correct(reader[r].manifest)'
    <2> SUFFICES ASSUME Correct(reader[r].manifest) PROVE Correct(reader[r].manifest)'
      OBVIOUS
    <2> DEFINE m == reader[r].manifest
    <2>1. m' = m
      OBVIOUS
    <2>2. Valid(m)' /\ Policies(DOMAIN m.shards)' = Policies(DOMAIN m.shards)
      BY <2>1 DEF Correct, Valid, Policies, Kept
    <2> QED BY <2>1, <2>2 DEF Correct, Kept
  <1> QED BY <1>1, <1>2 DEF Gathered, Kept

LEMMA StaysCovered ==
  ASSUME Kept, CompleteCovers, NEW r \in Reader, Gathered(r), reader'[r] = reader[r]
  PROVE  reader'[r].at = "reported" =>
           LET named == DOMAIN reader'[r].manifest.shards
           IN  /\ reader'[r].complete => reader'[r].from \subseteq named
               /\ ~reader'[r].complete => Stored' \ named # {}
  BY DEF CompleteCovers, Kept

-----------------------------------------------------------------------------
(* Steps *)

LEMMA WriteInv ==
  ASSUME Inv, NEW w \in Writer, Write(w)
  PROVE  Inv'
  <1>1. Kept
    BY WritesKeep DEF Inv
  <1>2. UNCHANGED <<manifests, exported, reader>>
    BY DEF Write, PutLook, LinkPayload, WriterDies
  <1>3. TypeOK'
    <2>1. CASE PutLook(w)
      BY <2>1 DEF PutLook, Inv, TypeOK, Stored
    <2>2. CASE LinkPayload(w)
      <3>1. writer[w][1] \in Id /\ writer[w][2] \in Content
        BY <2>2 DEF LinkPayload, Inv, TypeOK
      <3>2. shard' \in [Id -> Content \cup {None}]
        BY <2>2, <3>1 DEF LinkPayload, Inv, TypeOK
      <3> QED BY <2>2, <3>2 DEF LinkPayload, Inv, TypeOK
    <2>3. CASE WriterDies(w)
      BY <2>3 DEF WriterDies, Inv, TypeOK
    <2> QED BY <2>1, <2>2, <2>3 DEF Write
  <1>4. \A m \in manifests' : Correct(m)'
    BY <1>1, <1>2, StaysCorrect DEF Inv
  <1>5. \A r \in Reader : Gathered(r)'
    BY <1>1, <1>2, StaysGathered DEF Inv
  <1>6. CompleteCovers'
    BY <1>1, <1>2 DEF Inv, CompleteCovers, Kept
  <1> QED BY <1>2, <1>3, <1>4, <1>5, <1>6 DEF Inv

\* What a step of a reader has to show: where its own call has got to.
LEMMA ReaderInv ==
  ASSUME Inv, NEW r \in Reader, NEW call \in ReaderCall, ReaderGoes(r, call),
         manifests' = manifests, exported' = exported,
         Gathered(r)',
         call.at = "reported" =>
           /\ call.complete => call.from \subseteq DOMAIN call.manifest.shards
           /\ ~call.complete => Stored \ DOMAIN call.manifest.shards # {}
  PROVE  Inv'
  <1>1. TypeOK'
    BY CallTyped DEF Inv
  <1>2. Kept /\ Stored' = Stored
    BY DEF ReaderGoes, Kept, Stored
  <1>3. \A x \in Reader : reader'[x] = IF x = r THEN call ELSE reader[x]
    BY DEF ReaderGoes, Inv, TypeOK
  <1>4. \A m \in manifests' : Correct(m)'
    BY <1>2, StaysCorrect DEF Inv
  <1>5. \A x \in Reader : Gathered(x)'
    BY <1>2, <1>3, StaysGathered DEF Inv
  <1>6. CompleteCovers'
    BY <1>2, <1>3 DEF Inv, CompleteCovers
  <1> QED BY <1>1, <1>4, <1>5, <1>6 DEF Inv

LEMMA ReaderRests ==
  ASSUME Inv, NEW r \in Reader, ReaderGoes(r, Idle), manifests' = manifests,
         exported' = exported
  PROVE  Inv'
  <1>1. reader'[r] = Idle
    BY DEF ReaderGoes, Inv, TypeOK
  <1>2. Gathered(r)'
    BY <1>1 DEF Gathered, Idle
  <1> QED BY <1>2, NothingTyped, ReaderInv DEF Idle

LEMMA ListTrajectoriesInv ==
  ASSUME Inv, NEW r \in Reader, ListTrajectories(r)
  PROVE  Inv'
  <1>1. PICK ids \in Listings(reader[r].from), single \in BOOLEAN,
             expected \in {PolicyOf[x] : x \in Content} \cup {None} :
          ReaderGoes(r, IF Accepts(ids, single, expected)
                        THEN [reader[r] EXCEPT !.at = "refs", !.seen = ids,
                                               !.manifest.policies = Policies(ids)]
                        ELSE Idle)
    BY DEF ListTrajectories
  <1> DEFINE call == [reader[r] EXCEPT !.at = "refs", !.seen = ids,
                                       !.manifest.policies = Policies(ids)]
  <1>2. UNCHANGED <<manifests, exported>>
    BY DEF ListTrajectories
  <1>3. CASE ~Accepts(ids, single, expected)
    BY <1>1, <1>2, <1>3, ReaderRests
  <1>4. CASE Accepts(ids, single, expected)
    <2>1. ids \in SUBSET Stored /\ ids # {}
      BY <1>4 DEF Listings, Accepts
    <2>2. reader[r] \in ReaderCall /\ TypeOK /\ Gathered(r) /\ ids \in SUBSET Id
      BY <2>1 DEF Inv, TypeOK, Stored
    <2>3. Policies(ids) \in SUBSET {PolicyOf[x] : x \in Content} /\ Policies(ids) # {}
      <3>1. Policies(ids) # {}
        BY <2>1 DEF Policies
      <3> QED BY <2>1, <2>2, <3>1, Partial
    <2>4. [reader[r].manifest EXCEPT !.policies = Policies(ids)] \in Manifest
      BY <2>2, <2>3 DEF ReaderCall, Manifest
    <2>5. /\ call.at = "refs" /\ call.from = reader[r].from /\ call.seen = ids
          /\ call.manifest = [reader[r].manifest EXCEPT !.policies = Policies(ids)]
      BY <2>2 DEF ReaderCall
    <2>6. call \in ReaderCall
      BY <2>2, <2>4 DEF ReaderCall
    <2>7. ReaderGoes(r, call)
      BY <1>1, <1>4
    <2>8. reader'[r] = call /\ shard' = shard
      BY <2>2, <2>7 DEF ReaderGoes, TypeOK
    <2>9. call.manifest.policies = Policies(ids)
      BY <2>2, <2>5 DEF ReaderCall, Manifest
    <2>10. Gathered(r)'
      <3> HIDE DEF call
      <3>1. Policies(reader[r].seen)' = Policies(ids) /\ Stored' = Stored
        BY <2>5, <2>8 DEF Policies, Stored
      <3> QED BY <2>1, <2>2, <2>3, <2>5, <2>8, <2>9, <3>1 DEF Gathered
    <2> QED BY <1>2, <2>5, <2>6, <2>7, <2>10, ReaderInv
  <1> QED BY <1>3, <1>4

LEMMA ShardRefsInv ==
  ASSUME Inv, NEW r \in Reader, ShardRefs(r)
  PROVE  Inv'
  <1> DEFINE refs == Payloads(reader[r].seen)
             m    == [reader[r].manifest EXCEPT !.shards = refs]
             call == [reader[r] EXCEPT !.at = "link", !.manifest.shards = refs]
  <1>1. /\ reader[r] \in ReaderCall /\ TypeOK /\ Gathered(r)
        /\ reader[r].seen \in SUBSET Stored
        /\ reader[r].manifest.policies = Policies(reader[r].seen)
        /\ reader[r].manifest.policies # {}
    BY DEF ShardRefs, Inv, TypeOK, Gathered
  <1>2. refs \in UNION {[x -> Content] : x \in SUBSET Id} /\ DOMAIN refs = reader[r].seen
    BY <1>1, Partial
  <1>3. m \in Manifest /\ m.shards = refs /\ m.policies = reader[r].manifest.policies
    BY <1>1, <1>2 DEF ReaderCall, Manifest
  <1>4. call.at = "link" /\ call.from = reader[r].from /\ call.manifest = m
    BY <1>1 DEF ReaderCall
  <1>5. call \in ReaderCall
    BY <1>1, <1>3 DEF ReaderCall
  <1>6. ReaderGoes(r, call) /\ UNCHANGED <<manifests, exported>>
    BY DEF ShardRefs
  <1>7. reader'[r] = call /\ shard' = shard
    BY <1>1, <1>6 DEF ReaderGoes, TypeOK
  <1>8. Correct(m)
    BY <1>1, <1>2, <1>3 DEF Correct, Valid, Payloads
  <1>9. Gathered(r)'
    <2>1. reader'[r].manifest = m /\ reader'[r].at = "link" /\ reader'[r].from = reader[r].from
      BY <1>4, <1>7
    <2> HIDE DEF m, call
    <2>2. Stored' = Stored
      BY <1>7 DEF Stored
    <2>3. Valid(reader[r].manifest)'
      BY <1>7, <1>8, <2>1 DEF Correct, Valid
    <2>4. Policies(DOMAIN reader[r].manifest.shards)' = Policies(DOMAIN m.shards)
      BY <1>7, <2>1 DEF Policies
    <2>5. Correct(reader[r].manifest)'
      BY <1>8, <2>1, <2>2, <2>3, <2>4 DEF Correct
    <2> QED BY <1>1, <2>1, <2>2, <2>5 DEF Gathered
  <1> QED BY <1>4, <1>5, <1>6, <1>9, ReaderInv

LEMMA LinkManifestInv ==
  ASSUME Inv, NEW r \in Reader, LinkManifest(r)
  PROVE  Inv'
  <1>1. Correct(reader[r].manifest) /\ reader[r].manifest \in Manifest
    BY DEF LinkManifest, Inv, Gathered, TypeOK, ReaderCall
  <1>2. Kept /\ Stored' = Stored
    BY DEF LinkManifest, ReaderGoes, Kept, Stored
  <1>3. \A x \in Reader : reader'[x] = IF x = r THEN Idle ELSE reader[x]
    BY DEF LinkManifest, ReaderGoes, Inv, TypeOK
  <1>4. TypeOK'
    BY <1>1, NothingTyped DEF LinkManifest, ReaderGoes, Inv, TypeOK
  <1>5. \A m \in manifests' : Correct(m)'
    BY <1>1, <1>2, StaysCorrect DEF LinkManifest, Inv
  <1>6. \A x \in Reader : Gathered(x)'
    <2>1. Gathered(r)'
      BY <1>3 DEF Gathered, Idle
    <2> QED BY <1>2, <1>3, <2>1, StaysGathered DEF Inv
  <1>7. CompleteCovers'
    BY <1>2, <1>3 DEF Inv, CompleteCovers, Idle
  <1> QED BY <1>4, <1>5, <1>6, <1>7 DEF Inv, LinkManifest

LEMMA ExportInv ==
  ASSUME Inv, NEW r \in Reader, Export(r)
  PROVE  Inv'
  <1> DEFINE m == reader[r].manifest
             e == [manifest |-> m, lines |-> Payloads(DOMAIN m.shards)]
  <1>1. Correct(m) /\ m \in Manifest
    BY DEF Export, Inv, Gathered, TypeOK, ReaderCall
  <1>2. Payloads(DOMAIN m.shards) = m.shards
    <2>1. PICK ids \in SUBSET Id : m.shards \in [ids -> Content]
      BY <1>1 DEF Manifest
    <2> QED BY <1>1, <2>1 DEF Correct, Valid, Payloads
  <1>3. exported' = exported \cup {e} /\ manifests' = manifests /\ ReaderGoes(r, Idle)
    BY DEF Export
  <1>4. Kept /\ Stored' = Stored
    BY <1>3 DEF ReaderGoes, Kept, Stored
  <1>5. \A x \in Reader : reader'[x] = IF x = r THEN Idle ELSE reader[x]
    BY <1>3 DEF ReaderGoes, Inv, TypeOK
  <1>6. TypeOK'
    BY <1>3, NothingTyped, CallTyped DEF Inv
  <1>7. \A n \in manifests' : Correct(n)'
    BY <1>3, <1>4, StaysCorrect DEF Inv
  <1>8. \A x \in Reader : Gathered(x)'
    <2>1. Gathered(r)'
      BY <1>5 DEF Gathered, Idle
    <2> QED BY <1>4, <1>5, <2>1, StaysGathered DEF Inv
  <1>9. CompleteCovers'
    BY <1>4, <1>5 DEF Inv, CompleteCovers, Idle
  <1> QED BY <1>2, <1>3, <1>6, <1>7, <1>8, <1>9 DEF Inv

LEMMA VerifyInv ==
  ASSUME Inv, NEW r \in Reader,
         BeginVerify(r) \/ CheckShards(r) \/ Report(r) \/ Return(r)
  PROVE  Inv'
  <1>1. UNCHANGED <<manifests, exported, shard>>
    BY DEF BeginVerify, CheckShards, Report, Return, ReaderGoes
  <1>2. reader[r] \in ReaderCall /\ TypeOK /\ Gathered(r) /\ Stored \subseteq Id
    BY DEF Inv, TypeOK, Stored
  <1>3. CASE ReaderGoes(r, Idle)
    BY <1>1, <1>3, ReaderRests
  <1>4. ASSUME NEW call \in ReaderCall, ReaderGoes(r, call),
               call.at \in {"check", "list", "copy"},
               call.from \subseteq Stored, Correct(call.manifest)
        PROVE  Inv'
    <2>1. reader'[r] = call
      BY <1>2, <1>4 DEF ReaderGoes, TypeOK
    <2>2. Kept
      BY <1>1 DEF Kept, Stored
    <2>3. Correct(call.manifest)'
      BY <1>4, <2>2, StaysCorrect
    <2>4. Gathered(r)'
      BY <1>4, <2>1, <2>2, <2>3 DEF Gathered, Kept, Correct, Valid, Policies, Stored
    <2> QED BY <1>1, <1>4, <2>4, ReaderInv
  <1>5. CASE BeginVerify(r)
    <2>1. PICK m \in manifests : ReaderGoes(r, [Idle EXCEPT !.at = "check", !.manifest = m])
      BY <1>5 DEF BeginVerify
    <2>2. m \in Manifest /\ Correct(m)
      BY DEF Inv, TypeOK
    <2> DEFINE call == [Idle EXCEPT !.at = "check", !.manifest = m]
    <2>3. call \in ReaderCall /\ call.at = "check" /\ call.manifest = m
      BY <2>2, NothingTyped DEF ReaderCall
    <2>4. call.from = {}
      BY DEF Idle
    <2>5. ReaderGoes(r, call)
      BY <2>1
    <2> HIDE DEF call
    <2> QED BY <1>4, <2>2, <2>3, <2>4, <2>5
  <1>6. CASE CheckShards(r)
    <2> DEFINE call == [reader[r] EXCEPT !.at = "list", !.from = Stored]
    <2>1. call \in ReaderCall /\ call.at = "list" /\ call.from = Stored
            /\ call.manifest = reader[r].manifest
      BY <1>2 DEF ReaderCall
    <2>2. Correct(reader[r].manifest)
      BY <1>2, <1>6 DEF CheckShards, Gathered
    <2>3. ReaderGoes(r, call) \/ ReaderGoes(r, Idle)
      BY <1>6 DEF CheckShards
    <2> HIDE DEF call
    <2> QED BY <1>3, <1>4, <2>1, <2>2, <2>3
  <1>7. CASE Return(r)
    <2> DEFINE call == [reader[r] EXCEPT !.at = "copy"]
    <2>1. call \in ReaderCall /\ call.at = "copy" /\ call.from = reader[r].from
            /\ call.manifest = reader[r].manifest
      BY <1>2 DEF ReaderCall
    <2>2. Correct(reader[r].manifest) /\ reader[r].from \subseteq Stored
      BY <1>2, <1>7 DEF Return, Gathered
    <2>3. ReaderGoes(r, call) \/ ReaderGoes(r, Idle)
      BY <1>7 DEF Return
    <2> HIDE DEF call
    <2> QED BY <1>3, <1>4, <2>1, <2>2, <2>3
  <1>8. CASE Report(r)
    <2> DEFINE named == DOMAIN reader[r].manifest.shards
    <2>1. PICK ids \in Listings(reader[r].from) :
            ReaderGoes(r, [reader[r] EXCEPT !.at = "reported", !.seen = ids,
                             !.complete = ids \subseteq named])
      BY <1>8 DEF Report
    <2> DEFINE call == [reader[r] EXCEPT !.at = "reported", !.seen = ids,
                                         !.complete = ids \subseteq named]
    <2>2. ids \in SUBSET Stored /\ reader[r].from \subseteq ids
      BY DEF Listings
    <2>3. /\ call \in ReaderCall /\ call.at = "reported" /\ call.from = reader[r].from
          /\ call.manifest = reader[r].manifest /\ call.complete = (ids \subseteq named)
      BY <1>2, <2>2 DEF ReaderCall
    <2>4. Correct(reader[r].manifest) /\ reader[r].from \subseteq Stored
      BY <1>2, <1>8 DEF Report, Gathered
    <2>5. ReaderGoes(r, call)
      BY <2>1
    <2> HIDE DEF call
    <2>6. reader'[r] = call
      BY <1>2, <2>5 DEF ReaderGoes, TypeOK
    <2>7. Gathered(r)'
      <3>1. Kept /\ Stored' = Stored
        BY <1>1 DEF Kept, Stored
      <3>2. Correct(reader[r].manifest)'
        <4>1. Correct(reader[r].manifest)
          BY <2>4
        <4>2. reader'[r].manifest = reader[r].manifest
          BY <2>3, <2>6
        <4> QED BY <1>1, <4>1, <4>2 DEF Correct, Valid, Policies, Stored
      <3>3. reader'[r].from \subseteq Stored' /\ reader'[r].at = "reported"
        BY <2>3, <2>4, <2>6, <3>1
      <3> QED BY <3>2, <3>3 DEF Gathered
    <2>8. /\ call.complete => call.from \subseteq DOMAIN call.manifest.shards
          /\ ~call.complete => Stored \ DOMAIN call.manifest.shards # {}
      BY <2>2, <2>3
    <2> QED BY <1>1, <2>3, <2>5, <2>7, <2>8, ReaderInv
  <1> QED BY <1>5, <1>6, <1>7, <1>8

LEMMA ReadInv ==
  ASSUME Inv, NEW r \in Reader, Read(r)
  PROVE  Inv'
  <1>1. CASE BeginFinalize(r)
    <2> DEFINE call == [Idle EXCEPT !.at = "finalize", !.from = Stored]
    <2>1. Idle \in ReaderCall /\ Stored \in SUBSET Id
      BY NothingTyped DEF Stored
    <2>2. call.at = "finalize" /\ call.from = Stored
      BY <2>1 DEF ReaderCall
    <2>3. call \in ReaderCall
      BY <2>1 DEF ReaderCall
    <2>4. ReaderGoes(r, call) /\ UNCHANGED <<manifests, exported>>
      BY <1>1 DEF BeginFinalize
    <2>5. reader'[r] = call /\ shard' = shard
      BY <2>4 DEF ReaderGoes, Inv, TypeOK
    <2>6. Gathered(r)'
      BY <2>2, <2>5 DEF Gathered, Stored
    <2> QED BY <2>2, <2>3, <2>4, <2>6, ReaderInv
  <1>2. CASE ReaderDies(r)
    BY <1>2, ReaderRests DEF ReaderDies
  <1> QED BY <1>1, <1>2, ListTrajectoriesInv, ShardRefsInv, LinkManifestInv, VerifyInv,
             ExportInv DEF Read

LEMMA NextInv ==
  ASSUME Inv, [Next]_vars
  PROVE  Inv'
  <1>1. CASE \E w \in Writer : Write(w)
    BY <1>1, WriteInv
  <1>2. CASE \E r \in Reader : Read(r)
    BY <1>2, ReadInv
  <1>3. CASE UNCHANGED vars
    <2>1. Kept /\ UNCHANGED <<manifests, exported, reader, writer, shard>>
      BY <1>3 DEF vars, Kept, Stored
    <2>2. TypeOK'
      BY <2>1 DEF Inv, TypeOK
    <2>3. \A r \in Reader : Gathered(r)'
      BY <2>1, StaysGathered DEF Inv
    <2>4. \A m \in manifests' : Correct(m)'
      BY <2>1, StaysCorrect DEF Inv
    <2>5. CompleteCovers'
      BY <2>1 DEF Inv, CompleteCovers, Stored
    <2> QED BY <2>1, <2>2, <2>3, <2>4, <2>5 DEF Inv
  <1> QED BY <1>1, <1>2, <1>3 DEF Next

LEMMA InvHolds == Spec => []Inv
  <1>1. Init => Inv
    BY InitInv
  <1>2. Inv /\ [Next]_vars => Inv'
    BY NextInv
  <1> QED BY <1>1, <1>2, PTL DEF Spec

-----------------------------------------------------------------------------
(* Theorems *)

\* Every variable has its type: manifests and calls name shards of the run.
THEOREM TypeCorrect == Spec => []TypeOK
  <1>1. Inv => TypeOK
    BY DEF Inv
  <1> QED BY <1>1, InvHolds, PTL

\* finalize and export_jsonl: what was written of the shards goes on describing
\* them, whoever puts, lists or dies meanwhile.
THEOREM ManifestsStand == Spec => []ManifestsHold
  <1>1. Inv => ManifestsHold
    BY DEF Inv, ManifestsHold, Correct
  <1> QED BY <1>1, InvHolds, PTL

\* verify: "complete" has missed nothing that was there when it listed.
THEOREM VerificationsCover == Spec => []CompleteCovers
  <1>1. Inv => CompleteCovers
    BY DEF Inv
  <1> QED BY <1>1, InvHolds, PTL

-----------------------------------------------------------------------------
(* The runs of the studio.                                                  *)

Serving   == {"closing", "sweeping", "closed"}
Executing == {"claiming", "working", "stopping"}

\* Nothing of a process outlives it: what there is before it opens are the records.
Fresh ==
  process \in {"down", "recovering"} =>
    /\ pending = {}
    /\ \A r \in Run : request[r] = "none" /\ task[r] = "none" /\ claim[r] = "none" /\ read[r] = "unread"

\* A handler that creates a run has it to itself until it hands it on.
Handed ==
  \A r \in Run :
    /\ record[r] = "absent" => request[r] = "none" /\ task[r] = "none" /\ claim[r] = "none"
    /\ request[r] \in {"enqueue", "failing"} => task[r] = "none" /\ claim[r] = "none" /\ r \notin pending
    /\ request[r] = "enqueue" => record[r] = "queued"
    /\ request[r] = "failing" => process \in Serving

\* What a task has made of the record of its run.
Executes ==
  \A r \in Run :
    /\ task[r] \in Studio!Live => process = "open"
    /\ task[r] = "waiting" => record[r] = "queued" /\ claim[r] = "none"
    /\ task[r] = "claiming" => \/ record[r] = "queued" /\ claim[r] = "thread"
                               \/ record[r] = "queued" /\ claim[r] = "unsaved"
                               \/ record[r] = "running" /\ claim[r] = "claimed"
    /\ task[r] \in {"working", "stopping"} => record[r] = "running" /\ claim[r] = "claimed"

\* Whoever has read a record in order to fail the run is the last to write it: the
\* run's task is gone, and a run that was active has not succeeded since.
ReadsHold ==
  /\ pending # {} => process \in {"closing", "sweeping"}
  /\ process = "sweeping" => \A r \in pending : task[r] \in {"none", "unsaved"}
  /\ \A r \in Run :
       read[r] # "unread" =>
         /\ Studio!Failing(r)
         /\ read[r] \in Studio!Active => record[r] \in Studio!Active \cup {"failed"}

\* The slot is of the one task that executes a run.
SlotHeld == \A r \in Run : task[r] \in Executing => slot = r
OneExecutes == \A q, r \in Run : task[q] \in Executing /\ task[r] \in Executing => q = r

StudioInv ==
  Studio!TypeOK /\ Fresh /\ Handed /\ Executes /\ ReadsHold /\ Studio!ActiveOwned

-----------------------------------------------------------------------------

LEMMA StudioInit == Studio!Init => StudioInv /\ SlotHeld
  BY DEF Studio!Init, Studio!All, StudioInv, Studio!TypeOK, Fresh, Handed, Executes, ReadsHold,
     Studio!ActiveOwned, SlotHeld, Executing, Studio!Status, Studio!Active, Studio!Terminal, Studio!Live

LEMMA StudioTypes ==
  ASSUME Studio!TypeOK, [Studio!Next]_Studio!vars
  PROVE  Studio!TypeOK'
  <1> USE DEF Studio!TypeOK, Studio!Status, Studio!Active, Studio!Terminal, Studio!Live, Studio!Save
  <1>1. CASE UNCHANGED Studio!vars
    BY <1>1 DEF Studio!vars
  <1>2. CASE Studio!Start \/ Studio!Die \/ Studio!Close
    BY <1>2 DEF Studio!Start, Studio!Die, Studio!Close, Studio!All
  <1>3. CASE Studio!Open \/ Studio!Gathered \/ Studio!Swept
    BY <1>3 DEF Studio!Open, Studio!Gathered, Studio!Swept
  <1>4. CASE \E r \in Run : Studio!Recover(r) \/ Studio!Create(r)
    BY <1>4 DEF Studio!Recover, Studio!Create
  <1>5. CASE \E r \in Run : Studio!FailReads(r) \/ Studio!FailWrites(r) \/ Studio!FailIsUnsaved(r) \/ Studio!Enqueue(r)
    BY <1>5 DEF Studio!FailReads, Studio!FailWrites, Studio!FailIsUnsaved, Studio!Enqueue
  <1>6. CASE \E r \in Run : Studio!TakeSlot(r) \/ Studio!ClaimQueued(r) \/ Studio!Claimed(r)
    BY <1>6 DEF Studio!TakeSlot, Studio!ClaimQueued, Studio!Claimed, Studio!Leaves
  <1>7. CASE \E r \in Run : Studio!Finish(r) \/ Studio!Stopping(r) \/ Studio!Cancelled(r)
    BY <1>7 DEF Studio!Finish, Studio!Stopping, Studio!End, Studio!Cancelled, Studio!Leaves
  <1> QED BY <1>1, <1>2, <1>3, <1>4, <1>5, <1>6, <1>7 DEF Studio!Next, Studio!Lifespan, Studio!Work

\* One step of one run touches that run only.
LEMMA StudioSteps ==
  ASSUME StudioInv, [Studio!Next]_Studio!vars
  PROVE  StudioInv'
  <1> USE DEF StudioInv, Studio!TypeOK, Studio!Status, Studio!Active, Studio!Terminal, Studio!Live,
              Studio!Save, Fresh, Handed, Executes, ReadsHold, Studio!ActiveOwned, Studio!Failing, Serving
  <1>0. Studio!TypeOK'
    BY StudioTypes
  <1>1. CASE UNCHANGED Studio!vars
    BY <1>1, <1>0 DEF Studio!vars
  <1>2. CASE Studio!Start \/ Studio!Die
    BY <1>2, <1>0 DEF Studio!Start, Studio!Die, Studio!All
  <1>3. CASE Studio!Close
    BY <1>3, <1>0 DEF Studio!Close
  <1>4. CASE Studio!Open \/ Studio!Gathered \/ Studio!Swept
    BY <1>4, <1>0 DEF Studio!Open, Studio!Gathered, Studio!Swept
  <1>5. ASSUME NEW r \in Run, Studio!Recover(r) PROVE StudioInv'
    BY <1>5, <1>0 DEF Studio!Recover
  <1>6. ASSUME NEW r \in Run, Studio!Create(r) PROVE StudioInv'
    BY <1>6, <1>0 DEF Studio!Create
  <1>7. ASSUME NEW r \in Run, Studio!FailReads(r) PROVE StudioInv'
    BY <1>7, <1>0 DEF Studio!FailReads
  <1>8. ASSUME NEW r \in Run, Studio!FailWrites(r) \/ Studio!FailIsUnsaved(r) PROVE StudioInv'
    BY <1>8, <1>0 DEF Studio!FailWrites, Studio!FailIsUnsaved
  <1>9. ASSUME NEW r \in Run, Studio!Enqueue(r) PROVE StudioInv'
    BY <1>9, <1>0 DEF Studio!Enqueue
  <1>10. ASSUME NEW r \in Run, Studio!TakeSlot(r) PROVE StudioInv'
    BY <1>10, <1>0 DEF Studio!TakeSlot
  <1>11. ASSUME NEW r \in Run, Studio!ClaimQueued(r) PROVE StudioInv'
    BY <1>11, <1>0 DEF Studio!ClaimQueued
  <1>12. ASSUME NEW r \in Run, Studio!Claimed(r) PROVE StudioInv'
    BY <1>12, <1>0 DEF Studio!Claimed, Studio!Leaves
  <1>13. ASSUME NEW r \in Run, Studio!Finish(r) PROVE StudioInv'
    BY <1>13, <1>0 DEF Studio!Finish, Studio!End, Studio!Leaves
  <1>14. ASSUME NEW r \in Run, Studio!Stopping(r) PROVE StudioInv'
    BY <1>14, <1>0 DEF Studio!Stopping, Studio!End, Studio!Leaves
  <1>15. ASSUME NEW r \in Run, Studio!Cancelled(r) PROVE StudioInv'
    BY <1>15, <1>0 DEF Studio!Cancelled, Studio!Leaves
  <1> QED BY <1>1, <1>2, <1>3, <1>4, <1>5, <1>6, <1>7, <1>8, <1>9, <1>10, <1>11, <1>12, <1>13,
             <1>14, <1>15 DEF Studio!Next, Studio!Lifespan, Studio!Work

LEMMA SlotSteps ==
  ASSUME Studio!StudioRunsAssumption, StudioInv, SlotHeld, [Studio!Next]_Studio!vars
  PROVE  SlotHeld'
  <1> USE DEF Studio!TypeOK, SlotHeld, Executing, StudioInv, Executes
  <1>1. CASE UNCHANGED Studio!vars
    BY <1>1 DEF Studio!vars
  <1>2. CASE Studio!Start \/ Studio!Die \/ Studio!Close \/ Studio!Lifespan
    BY <1>2 DEF Studio!Start, Studio!Die, Studio!All, Studio!Close, Studio!Lifespan, Studio!Open,
       Studio!Gathered, Studio!Swept, Studio!Recover
  <1>3. ASSUME NEW r \in Run,
               Studio!Create(r) \/ Studio!FailReads(r) \/ Studio!FailWrites(r) \/ Studio!FailIsUnsaved(r) \/ Studio!Enqueue(r)
        PROVE  SlotHeld'
    BY <1>3 DEF Studio!Create, Studio!FailReads, Studio!FailWrites, Studio!FailIsUnsaved, Studio!Enqueue
  <1>4. ASSUME NEW r \in Run, Studio!TakeSlot(r) PROVE SlotHeld'
    BY <1>4 DEF Studio!TakeSlot, Studio!StudioRunsAssumption
  <1>5. ASSUME NEW r \in Run, Studio!ClaimQueued(r) PROVE SlotHeld'
    BY <1>5 DEF Studio!ClaimQueued
  <1>6. ASSUME NEW r \in Run,
               Studio!Claimed(r) \/ Studio!Finish(r) \/ Studio!Stopping(r) \/ Studio!Cancelled(r)
        PROVE  SlotHeld'
    BY <1>6 DEF Studio!Claimed, Studio!Finish, Studio!Stopping, Studio!End, Studio!Cancelled, Studio!Leaves
  <1> QED BY <1>1, <1>2, <1>3, <1>4, <1>5, <1>6 DEF Studio!Next, Studio!Work

LEMMA StudioInvHolds == Studio!Spec => []StudioInv
  <1>1. Studio!Init => StudioInv
    BY StudioInit
  <1>2. StudioInv /\ [Studio!Next]_Studio!vars => StudioInv'
    BY StudioSteps
  <1> QED BY <1>1, <1>2, PTL DEF Studio!Spec

\* Every variable of StudioRuns keeps its type.
THEOREM StudioTypeCorrect == Studio!Spec => []Studio!TypeOK
  <1>1. StudioInv => Studio!TypeOK
    BY DEF StudioInv
  <1> QED BY <1>1, StudioInvHolds, PTL

LEMMA StudioActiveOwned == Studio!Spec => []Studio!ActiveOwned
  <1>1. StudioInv => Studio!ActiveOwned
    BY DEF StudioInv
  <1> QED BY <1>1, StudioInvHolds, PTL

LEMMA TerminalStep ==
  ASSUME StudioInv, [Studio!Next]_Studio!vars
  PROVE  Studio!TerminalStays
  <1> USE DEF StudioInv, Studio!TypeOK, Studio!Active, Studio!Terminal, Studio!Save, Studio!TerminalStays
  <1>1. CASE UNCHANGED record
    BY <1>1
  <1>2. ASSUME NEW r \in Run, Studio!Recover(r) \/ Studio!Create(r) PROVE Studio!TerminalStays
    BY <1>2 DEF Studio!Recover, Studio!Create
  <1>3. ASSUME NEW r \in Run, Studio!FailWrites(r) PROVE Studio!TerminalStays
    BY <1>3 DEF Studio!FailWrites, ReadsHold
  <1>4. ASSUME NEW r \in Run, Studio!ClaimQueued(r) PROVE Studio!TerminalStays
    BY <1>4 DEF Studio!ClaimQueued
  <1>5. ASSUME NEW r \in Run, Studio!Finish(r) \/ Studio!Stopping(r) PROVE Studio!TerminalStays
    BY <1>5 DEF Studio!Finish, Studio!Stopping, Studio!End, Executes
  <1> QED
    BY <1>1, <1>2, <1>3, <1>4, <1>5
    DEF Studio!Next, Studio!vars, Studio!Start, Studio!Die, Studio!Close, Studio!Lifespan, Studio!Open,
        Studio!Gathered, Studio!Swept, Studio!Work, Studio!FailReads, Studio!FailIsUnsaved, Studio!Enqueue, Studio!TakeSlot,
        Studio!Claimed, Studio!Cancelled

LEMMA StudioEndedStay == Studio!Spec => Studio!TerminalForGood
  <1>1. StudioInv /\ [Studio!Next]_Studio!vars => [Studio!TerminalStays]_Studio!vars
    BY TerminalStep
  <1> QED BY <1>1, StudioInvHolds, PTL DEF Studio!Spec, Studio!TerminalForGood

\* The studio's only slot: no two runs execute at the same time, also while a
\* cancelled one is still stopping.
THEOREM OneAtATime == ASSUME Studio!StudioRunsAssumption PROVE Studio!Spec => []OneExecutes
  <1>1. Studio!Init => SlotHeld
    BY StudioInit
  <1>2. StudioInv /\ SlotHeld /\ [Studio!Next]_Studio!vars => SlotHeld'
    BY SlotSteps
  <1>3. SlotHeld => OneExecutes
    BY DEF SlotHeld, OneExecutes
  <1> QED BY <1>1, <1>2, <1>3, StudioInvHolds, PTL DEF Studio!Spec

-----------------------------------------------------------------------------
(* A task of the agent loop.                                                *)

Stepping == {"before", "generate", "execute", "after"}

\* Where the loop is tells what there is of the step.
StepUnderWay ==
  /\ stage \in {"start"} \cup Stepping => status = "running" /\ ~ error /\ Len(steps) < MaxSteps
  /\ stage = "start" => steps = <<>> /\ conversation = [open |-> FALSE, state |-> <<>>, revision |-> 0, late |-> {}]
  /\ stage = "execute" => doing.action \in Loop!Tool /\ doing.ok
  /\ stage \in {"execute", "after"} => doing \in [action : Loop!Action, ok : BOOLEAN]

\* The first n steps gave the loop no reason to end.
Passed(n) ==
  \A i \in 1..n :
    /\ LoopKind[steps[i].action] \in {"write", "read"}
    /\ Loop!Repeats(SubSeq(steps, 1, i)) < RepeatLimit

\* The steps have come to a limit, without an answer.
CutOff ==
  /\ steps # <<>> /\ LoopKind[steps[Len(steps)].action] \in {"write", "read"}
  /\ Loop!Repeats(steps) >= RepeatLimit \/ Len(steps) = MaxSteps

\* An end the loop has come to has its reason in the steps.
EndJustified ==
  /\ status # "running"
  /\ status = "error" <=> error
  /\ error => Passed(Len(steps))
  /\ status = "succeeded" => steps # <<>> /\ LoopKind[steps[Len(steps)].action] = "final"
  /\ status = "failed" => steps # <<>> /\ LoopKind[steps[Len(steps)].action] \in {"final", "invalid"}
  /\ status = "truncated" => CutOff
  /\ Passed(Len(steps) - 1)

LoopEnds ==
  /\ stage \in {"start"} \cup Stepping => Passed(Len(steps))
  /\ stage \in {"score", "close", "returned"} => EndJustified
  /\ stage = "returned" => trajectory = [status |-> status, error |-> error, steps |-> steps]

LoopInv == Loop!TypeOK /\ StepUnderWay /\ LoopEnds

-----------------------------------------------------------------------------

Lates == SUBSET ((1..MaxSteps) \X Loop!Tool)

LEMMA SessionFields ==
  Loop!Session = [open : BOOLEAN, state : Seq(Loop!Tool), revision : Nat, late : Lates]
  BY DEF Loop!Session, Lates

LEMMA SessionChanges ==
  ASSUME NEW s \in Loop!Session, NEW q \in Seq(Loop!Tool), NEW late \in Lates
  PROVE  /\ [s EXCEPT !.state = q] \in Loop!Session
         /\ [[s EXCEPT !.state = q] EXCEPT !.revision = @ + 1] \in Loop!Session
         /\ [s EXCEPT !.late = late] \in Loop!Session
         /\ [s EXCEPT !.state = q, !.late = late] \in Loop!Session
  <1> USE SessionFields
  <1>1. [s EXCEPT !.state = q] \in Loop!Session
    OBVIOUS
  <1>2. \A t \in Loop!Session : [t EXCEPT !.revision = @ + 1] \in Loop!Session
    OBVIOUS
  <1>3. [s EXCEPT !.late = late] \in Loop!Session
    OBVIOUS
  <1>4. [s EXCEPT !.state = q, !.late = late] \in Loop!Session
    OBVIOUS
  <1> QED BY <1>1, <1>2, <1>3, <1>4

\* A set of natural numbers that is not empty has a least member.
LEMMA Least ==
  ASSUME NEW S, S \subseteq Nat, S # {}
  PROVE  \E i \in S : \A j \in S : i <= j
  <1> DEFINE R == OpToRel(<, Nat)
  <1>1. IsWellFoundedOn(R, Nat)
    BY NatLessThanWellFounded
  <1>2. \A x, y \in Nat : <<x, y>> \in R <=> x < y
    BY DEF OpToRel
  <1> HIDE DEF R
  <1>3. PICK i \in S : \A j \in S : ~(<<j, i>> \in R)
    BY <1>1, WFMin
  <1>4. \A j \in S : i <= j
    <2> SUFFICES ASSUME NEW j \in S PROVE i <= j
      OBVIOUS
    <2>1. ~(j < i)
      BY <1>2, <1>3
    <2> QED BY <2>1
  <1> QED BY <1>4

LEMMA RepeatsCounts ==
  ASSUME NEW all, all \in Seq(Loop!Step)
  PROVE  Loop!Repeats(all) \in Nat
  <1> DEFINE n == Len(all)
  <1> DEFINE same == {i \in 1..n : \A j \in i..n : all[j].action = all[n].action}
  <1>1. CASE n = 0
    BY <1>1 DEF Loop!Repeats
  <1>2. CASE n # 0
    <2>1. n \in Nat /\ n \in same /\ same \subseteq Nat
      BY <1>2
    <2>2. \E i \in same : \A j \in same : i <= j
      BY <2>1, Least
    <2> DEFINE k == CHOOSE i \in same : \A j \in same : i <= j
    <2>3. Loop!Repeats(all) = n + 1 - k
      BY <1>2 DEF Loop!Repeats
    <2>4. k \in same
      <3> HIDE DEF same
      <3> QED BY <2>2
    <2> QED BY <2>1, <2>3, <2>4
  <1> QED BY <1>1, <1>2

LEMMA LoopInit == ASSUME Loop!LoopAssumption PROVE Loop!Init => LoopInv
  <1> SUFFICES ASSUME Loop!Init PROVE LoopInv
    OBVIOUS
  <1> USE DEF Loop!LoopAssumption, Loop!Init, Loop!NoSnapshot, Loop!Nothing
  <1>1. Loop!TypeOK
    <2>1. <<>> \in Seq(Loop!Tool) /\ <<>> \in Seq(Loop!Step) /\ {} \in Lates
      BY DEF Lates
    <2>2. conversation \in Loop!Session /\ before \in Loop!Snapshots
      BY <2>1, SessionFields DEF Loop!Snapshots
    <2>3. Len(steps) <= MaxSteps
      OBVIOUS
    <2>4. status \in Loop!Status /\ error \in BOOLEAN
      BY DEF Loop!Status
    <2> HIDE DEF Loop!LoopAssumption, Loop!NoSnapshot
    <2> QED BY <2>1, <2>2, <2>3, <2>4 DEF Loop!TypeOK, Loop!Ended
  <1>2. StepUnderWay
    BY DEF StepUnderWay, Stepping
  <1>3. LoopEnds
    BY DEF LoopEnds, Stepping, Passed
  <1> QED BY <1>1, <1>2, <1>3 DEF LoopInv

LEMMA LoopTypes ==
  ASSUME Loop!LoopAssumption, Loop!TypeOK, StepUnderWay, LoopEnds, [Loop!Next]_Loop!vars
  PROVE  Loop!TypeOK'
  <1> USE DEF Loop!LoopAssumption, Loop!TypeOK, Loop!Status, Loop!Ended
  <1>0. Loop!Snapshot \in Loop!Snapshots
    BY DEF Loop!Session, Loop!Snapshot, Loop!Snapshots
  <1>1. CASE UNCHANGED Loop!vars
    BY <1>1 DEF Loop!vars
  <1>2. CASE Loop!CreateSession
    BY <1>2 DEF Loop!CreateSession, Loop!Session
  <1>3. CASE Loop!TakeBefore
    BY <1>3, <1>0 DEF Loop!TakeBefore
  <1>4. CASE Loop!Generate
    BY <1>4 DEF Loop!Generate
  <1>5. CASE Loop!Execute
    <2> DEFINE call == doing.action
    <2> DEFINE acted == [conversation EXCEPT !.state = Append(@, call)]
    <2>1. call \in Loop!Tool /\ doing \in [action : Loop!Action, ok : BOOLEAN]
      BY <1>5 DEF Loop!Execute, StepUnderWay
    <2>2. Append(conversation.state, call) \in Seq(Loop!Tool)
      BY <2>1 DEF Loop!Session
    <2>3. acted \in Loop!Session /\ [acted EXCEPT !.revision = @ + 1] \in Loop!Session
      BY <2>2, SessionChanges, SessionFields
    <2>4. [conversation EXCEPT !.late = @ \cup {<<Len(steps) + 1, call>>}] \in Loop!Session
      <3>1. Len(steps) + 1 \in 1..MaxSteps
        BY <1>5 DEF Loop!Execute, StepUnderWay, Stepping
      <3>2. conversation.late \cup {<<Len(steps) + 1, call>>} \in Lates
        BY <2>1, <3>1, SessionFields DEF Lates
      <3> QED BY <3>2, SessionChanges, SessionFields
    <2>5. conversation' \in Loop!Session
      BY <1>5, <2>3, <2>4 DEF Loop!Execute
    <2>6. doing' \in [action : Loop!Action, ok : BOOLEAN]
      BY <1>5, <2>1 DEF Loop!Execute
    <2> QED BY <1>5, <2>5, <2>6 DEF Loop!Execute
  <1>6. CASE Loop!LateEffect
    <2>1. PICK x \in conversation.late :
            conversation' = [conversation EXCEPT !.state = Append(@, x[2]), !.late = @ \ {x}]
      BY <1>6 DEF Loop!LateEffect
    <2>2. Append(conversation.state, x[2]) \in Seq(Loop!Tool)
      BY <2>1 DEF Loop!Session
    <2>3. conversation.late \ {x} \in Lates
      BY SessionFields DEF Lates
    <2>4. conversation' \in Loop!Session
      BY <2>1, <2>2, <2>3, SessionChanges, SessionFields
    <2> QED BY <1>6, <2>4 DEF Loop!LateEffect
  <1>7. CASE Loop!EndStep
    <2> DEFINE step == [action |-> doing.action, ok |-> doing.ok, before |-> before, after |-> Loop!Snapshot]
    <2>1. step \in Loop!Step
      BY <1>7, <1>0 DEF Loop!EndStep, StepUnderWay, Loop!Step
    <2>2. steps' \in Seq(Loop!Step) /\ Len(steps') = Len(steps) + 1
      BY <1>7, <2>1 DEF Loop!EndStep
    <2>3. Len(steps') <= MaxSteps
      BY <1>7, <2>2 DEF Loop!EndStep, StepUnderWay, Stepping
    <2>4. status' \in Loop!Status
      BY <1>7 DEF Loop!EndStep, Loop!Outcome
    <2> QED BY <1>7, <2>2, <2>3, <2>4 DEF Loop!EndStep, Loop!NoSnapshot, Loop!Snapshots, Loop!Nothing
  <1>8. CASE Loop!StepRaises
    BY <1>8 DEF Loop!StepRaises
  <1>9. CASE Loop!ScoreFinal
    BY <1>9 DEF Loop!ScoreFinal
  <1>10. CASE Loop!CloseSession
    BY <1>10, SessionFields DEF Loop!CloseSession, LoopEnds, EndJustified, Loop!Trajectory
  <1>11. CASE Loop!Cancel
    BY <1>11 DEF Loop!Cancel
  <1> QED BY <1>1, <1>2, <1>3, <1>4, <1>5, <1>6, <1>7, <1>8, <1>9, <1>10, <1>11 DEF Loop!Next

\* The steps there are stay where they are when another one is appended.
LEMMA StepAppended ==
  ASSUME NEW T, NEW all \in Seq(T), NEW e \in T, NEW new, new = Append(all, e)
  PROVE  /\ new \in Seq(T) /\ Len(new) = Len(all) + 1 /\ new[Len(all) + 1] = e
         /\ \A i \in 1..Len(all) : new[i] = all[i] /\ SubSeq(new, 1, i) = SubSeq(all, 1, i)
         /\ SubSeq(new, 1, Len(all) + 1) = new
  <1>1. /\ new \in Seq(T) /\ Len(new) = Len(all) + 1 /\ new[Len(all) + 1] = e
        /\ \A i \in 1..Len(all) : new[i] = all[i]
    BY AppendProperties
  <1>2. \A i \in 1..Len(all) : SubSeq(new, 1, i) = SubSeq(all, 1, i)
    BY <1>1
  <1>3. SubSeq(new, 1, Len(all) + 1) = new
    BY <1>1
  <1> QED BY <1>1, <1>2, <1>3

LEMMA LoopSteps ==
  ASSUME Loop!LoopAssumption, LoopInv, [Loop!Next]_Loop!vars
  PROVE  StepUnderWay' /\ LoopEnds'
  <1> USE DEF LoopInv, Loop!TypeOK, Loop!Ended, Stepping
  <1> USE DEF StepUnderWay, LoopEnds, EndJustified, Passed, CutOff
  <1>1. CASE UNCHANGED Loop!vars
    BY <1>1 DEF Loop!vars
  <1>2. CASE Loop!CreateSession
    BY <1>2 DEF Loop!CreateSession
  <1>3. CASE Loop!TakeBefore \/ Loop!Generate
    <2>1. CASE Loop!TakeBefore
      BY <2>1 DEF Loop!TakeBefore
    <2>2. CASE Loop!Generate
      <3>1. PICK a \in Loop!Action :
              /\ doing' = [action |-> a, ok |-> TRUE]
              /\ stage' = IF a \in Loop!Tool THEN "execute" ELSE "after"
        BY <2>2 DEF Loop!Generate
      <3> QED BY <2>2, <3>1 DEF Loop!Generate
    <2> QED BY <1>3, <2>1, <2>2
  <1>4. CASE Loop!Execute
    BY <1>4 DEF Loop!Execute
  <1>5. CASE Loop!LateEffect
    BY <1>5 DEF Loop!LateEffect
  <1>6. CASE Loop!EndStep
    <2> DEFINE step == [action |-> doing.action, ok |-> doing.ok, before |-> before, after |-> Loop!Snapshot]
    <2> DEFINE n == Len(steps)
    <2>1. step \in Loop!Step
      BY <1>6 DEF Loop!EndStep, Loop!Step, Loop!Snapshot, Loop!Session, Loop!Snapshots
    <2>2. steps' = Append(steps, step)
      BY <1>6 DEF Loop!EndStep
    <2> HIDE DEF step
    <2>3. /\ steps' \in Seq(Loop!Step) /\ Len(steps') = n + 1
          /\ \A i \in 1..n : steps'[i] = steps[i] /\ SubSeq(steps', 1, i) = SubSeq(steps, 1, i)
          /\ SubSeq(steps', 1, n + 1) = steps'
      BY <2>1, <2>2, StepAppended
    <2>4. n < MaxSteps /\ Passed(n) /\ ~ error /\ error' = error /\ n \in Nat
      BY <1>6 DEF Loop!EndStep
    <2>5. Loop!Repeats(steps') \in Nat
      BY <2>3, RepeatsCounts
    <2>6. LoopKind[steps'[n + 1].action] \in {"write", "read", "final", "invalid"}
      <3>1. steps'[n + 1] \in Loop!Step
        BY <2>3, <2>4
      <3> QED BY <3>1 DEF Loop!LoopAssumption, Loop!Step
    <2>7. \A i \in 1..n : /\ LoopKind[steps'[i].action] \in {"write", "read"}
                          /\ Loop!Repeats(SubSeq(steps', 1, i)) < RepeatLimit
      <3> HIDE DEF LoopInv, Loop!TypeOK, StepUnderWay, LoopEnds, EndJustified
      <3> QED BY <2>3, <2>4
    <2>8. CASE status' = "running"
      <3>1. /\ LoopKind[steps'[n + 1].action] \notin {"final", "invalid"}
            /\ ~ (Loop!Repeats(steps') >= RepeatLimit) /\ n + 1 # MaxSteps
        BY <1>6, <2>3, <2>8 DEF Loop!EndStep, Loop!Outcome
      <3>2. Loop!Repeats(steps') < RepeatLimit
        BY <2>5, <3>1 DEF Loop!LoopAssumption
      <3>3. Passed(Len(steps))'
        <4> SUFFICES ASSUME NEW i \in 1..(n + 1)
                     PROVE  /\ LoopKind[steps'[i].action] \in {"write", "read"}
                            /\ Loop!Repeats(SubSeq(steps', 1, i)) < RepeatLimit
          BY <2>3
        <4>1. CASE i \in 1..n
          BY <2>7, <4>1
        <4>2. CASE i = n + 1
          BY <2>3, <2>6, <3>1, <3>2, <4>2
        <4> QED BY <2>4, <4>1, <4>2
      <3>4. n + 1 < MaxSteps
        BY <2>4, <3>1 DEF Loop!LoopAssumption
      <3>5. stage' = "before" /\ ~ error'
        BY <1>6, <2>4, <2>8 DEF Loop!EndStep
      <3> HIDE DEF Passed, LoopInv, Loop!TypeOK
      <3> QED BY <2>3, <2>8, <3>3, <3>4, <3>5
    <2>9. CASE status' # "running"
      <3>1. status' \in {"failed", "truncated"} /\ stage' = "score" /\ ~ error'
        BY <1>6, <2>4, <2>9 DEF Loop!EndStep, Loop!Outcome
      <3>2. status' = "failed" => LoopKind[steps'[n + 1].action] \in {"final", "invalid"}
        BY <1>6, <2>3 DEF Loop!EndStep, Loop!Outcome
      <3>3. Len(steps') - 1 = n /\ Len(steps') = n + 1 /\ steps' # <<>>
        BY <2>3, <2>4
      <3>4. Passed(Len(steps) - 1)'
        BY <2>7, <3>3
      <3>5. status' = "truncated" =>
              /\ LoopKind[steps'[n + 1].action] \in {"write", "read"}
              /\ Loop!Repeats(steps') >= RepeatLimit \/ Len(steps') = MaxSteps
        BY <1>6, <2>3, <2>6 DEF Loop!EndStep, Loop!Outcome
      <3> HIDE DEF Passed, LoopInv, Loop!TypeOK
      <3> QED BY <3>1, <3>2, <3>3, <3>4, <3>5
    <2> QED BY <2>8, <2>9
  <1>7. CASE Loop!StepRaises
    BY <1>7 DEF Loop!StepRaises
  <1>8. CASE Loop!ScoreFinal
    BY <1>8 DEF Loop!ScoreFinal
  <1>9. CASE Loop!CloseSession \/ Loop!Cancel
    BY <1>9 DEF Loop!CloseSession, Loop!Cancel
  <1> QED BY <1>1, <1>2, <1>3, <1>4, <1>5, <1>6, <1>7, <1>8, <1>9 DEF Loop!Next

LEMMA LoopInvHolds == ASSUME Loop!LoopAssumption PROVE Loop!Spec => []LoopInv
  <1>1. Loop!Init => LoopInv
    BY LoopInit
  <1>2. LoopInv /\ [Loop!Next]_Loop!vars => LoopInv'
    BY LoopTypes, LoopSteps DEF LoopInv
  <1> QED BY <1>1, <1>2, PTL DEF Loop!Spec

\* Every variable of AgentLoop keeps its type; the loop takes at most MaxSteps steps.
THEOREM LoopTypeCorrect == ASSUME Loop!LoopAssumption PROVE Loop!Spec => []Loop!TypeOK
  <1>1. LoopInv => Loop!TypeOK
    BY DEF LoopInv
  <1> QED BY <1>1, LoopInvHolds, PTL

LEMMA LoopEndsTruthful == ASSUME Loop!LoopAssumption PROVE Loop!Spec => []Loop!TrajectoriesTruthful
  <1>1. LoopInv => Loop!TrajectoriesTruthful
    BY DEF LoopInv, LoopEnds, EndJustified, Passed, CutOff, Loop!TypeOK, Loop!TrajectoriesTruthful, Loop!Last
  <1> QED BY <1>1, LoopInvHolds, PTL

-----------------------------------------------------------------------------
(* What the calls of a trajectory did *)

\* The calls among the first n that wrote and succeeded, those of a among them, and
\* the calls of a that may still have their effect.
Succeeded(n) == {i \in 1..n : LoopKind[steps[i].action] = "write" /\ steps[i].ok}
Won(a, n)    == Loop!Calls(a, n) \cap Succeeded(n)
Late(a)      == {x \in conversation.late : x[2] = a}

\* The call that has been made and is in no step yet.
Made(a) == IF stage = "after" /\ doing.action = a THEN 1 ELSE 0
MadeOk(a) == IF stage = "after" /\ doing.action = a /\ doing.ok /\ LoopKind[a] = "write" THEN 1 ELSE 0
MadeWrite == IF stage = "after" /\ doing.ok /\ LoopKind[doing.action] = "write" THEN 1 ELSE 0

Prefix(s, t) == Len(s) <= Len(t) /\ \A i \in 1..Len(s) : t[i] = s[i]

Grown ==
  /\ \A n \in 2..Len(steps) : Prefix(steps[n - 1].after.state, steps[n].before.state)
  /\ stage \in Stepping /\ steps # <<>> =>
       /\ Prefix(steps[Len(steps)].after.state, conversation.state)
       /\ stage # "before" => Prefix(steps[Len(steps)].after.state, before.state)

\* Only writes are in the state, or may still come into it; the late calls are calls
\* of steps there were.
OnlyWrites ==
  /\ \A i \in 1..Len(conversation.state) : LoopKind[conversation.state[i]] = "write"
  /\ \A x \in conversation.late :
       /\ LoopKind[x[2]] = "write"
       /\ stage \in Stepping \ {"after"} => x[1] <= Len(steps)
       /\ stage = "after" => x[1] <= Len(steps) + 1

\* A step's snapshot accounts for the calls up to it.
Accounted(n) ==
  /\ steps[n].after.revision = Cardinality(Succeeded(n))
  /\ \A a \in Loop!Tool :
       /\ Cardinality(Won(a, n)) <= Loop!Effects(a, steps[n].after.state)
       /\ Loop!Effects(a, steps[n].after.state) <= Cardinality(Loop!Calls(a, n))
       /\ LoopKind[a] # "write" => Loop!Effects(a, steps[n].after.state) = 0

\* So does the session, with the call that is in no step yet and what late calls
\* may still do.
Current ==
  stage \in {"start"} \cup Stepping =>
    /\ conversation.revision = Cardinality(Succeeded(Len(steps))) + MadeWrite
    /\ \A a \in Loop!Tool :
         /\ Cardinality(Won(a, Len(steps))) + MadeOk(a) <= Loop!Effects(a, conversation.state)
         /\ Loop!Effects(a, conversation.state) + Cardinality(Late(a))
              <= Cardinality(Loop!Calls(a, Len(steps))) + Made(a)

Accounts == Grown /\ OnlyWrites /\ Current /\ \A n \in 1..Len(steps) : Accounted(n)

LEMMA SameCardinality == \A S : Loop!Cardinality(S) = Cardinality(S)
  BY DEF Loop!Cardinality, Cardinality

\* One more number makes a set of numbers one larger.
LEMMA CountUp ==
  ASSUME NEW n \in Nat, NEW S, S \subseteq 1..n
  PROVE  Cardinality(S) \in Nat /\ Cardinality(S \cup {n + 1}) = Cardinality(S) + 1
  <1>1. IsFiniteSet(S)
    <2>1. IsFiniteSet(1..n) /\ S \in SUBSET (1..n)
      BY FS_Interval
    <2> QED BY <2>1, FS_Subset
  <1>2. Cardinality(S) \in Nat
    BY <1>1, FS_CardinalityType
  <1>3. n + 1 \notin S
    OBVIOUS
  <1>4. Cardinality(S \cup {n + 1}) = Cardinality(S) + 1
    BY <1>1, <1>3, FS_AddElement
  <1> QED BY <1>2, <1>4

LEMMA EffectsCount ==
  ASSUME NEW state \in Seq(Loop!Tool), NEW a, NEW b \in Loop!Tool
  PROVE  /\ Loop!Effects(a, state) \in Nat
         /\ Loop!Effects(a, Append(state, b)) = Loop!Effects(a, state) + IF a = b THEN 1 ELSE 0
  <1> DEFINE S == {i \in DOMAIN state : state[i] = a}
             next == Append(state, b)
             T == {i \in DOMAIN next : next[i] = a}
             n == Len(state)
  <1>1. n \in Nat /\ S \subseteq 1..n
    OBVIOUS
  <1>2. /\ DOMAIN next = 1..(n + 1) /\ next[n + 1] = b
        /\ \A i \in 1..n : next[i] = state[i]
    BY AppendProperties
  <1>3. T = IF a = b THEN S \cup {n + 1} ELSE S
    <2>1. DOMAIN state = 1..n
      OBVIOUS
    <2> HIDE DEF next, n
    <2> QED BY <1>1, <1>2, <2>1
  <1>4. Cardinality(S) \in Nat /\ Cardinality(S \cup {n + 1}) = Cardinality(S) + 1
    <2> HIDE DEF S, n
    <2> QED BY <1>1, CountUp
  <1>5. Cardinality(T) = Cardinality(S) + IF a = b THEN 1 ELSE 0
    <2> HIDE DEF S, T, n
    <2> QED BY <1>3, <1>4
  <1>6. Loop!Effects(a, state) = Cardinality(S) /\ Loop!Effects(a, next) = Cardinality(T)
    BY SameCardinality DEF Loop!Effects
  <1> HIDE DEF S, T
  <1> QED BY <1>4, <1>5, <1>6

LEMMA NoEffects == \A a : Loop!Effects(a, <<>>) = 0
  <1> SUFFICES ASSUME NEW a PROVE Loop!Effects(a, <<>>) = 0
    OBVIOUS
  <1>1. {i \in DOMAIN <<>> : <<>>[i] = a} = {}
    OBVIOUS
  <1> QED BY <1>1, FS_EmptySet, SameCardinality DEF Loop!Effects

LEMMA PrefixGrows ==
  ASSUME NEW T, NEW s \in Seq(T), NEW t \in Seq(T), NEW b \in T
  PROVE  Prefix(t, t) /\ (Prefix(s, t) => Prefix(s, Append(t, b)))
  BY AppendProperties DEF Prefix

LEMMA LateTyped ==
  ASSUME Loop!TypeOK, NEW x \in conversation.late
  PROVE  x[1] \in Nat /\ x[2] \in Loop!Tool /\ x = <<x[1], x[2]>>
  BY SessionFields DEF Loop!TypeOK, Lates

LEMMA LateFinite ==
  ASSUME Loop!LoopAssumption, Loop!TypeOK, NEW a
  PROVE  IsFiniteSet(Late(a)) /\ Cardinality(Late(a)) \in Nat
  <1>1. \A x \in conversation.late : x \in (1..MaxSteps) \X Loop!Tool
    BY SessionFields DEF Loop!TypeOK, Lates
  <1>2. IsFiniteSet(1..MaxSteps)
    BY FS_Interval DEF Loop!LoopAssumption
  <1>3. IsFiniteSet({x[1] : x \in Late(a)})
    <2>1. {x[1] : x \in Late(a)} \subseteq 1..MaxSteps
      BY <1>1 DEF Late
    <2> QED BY <1>2, <2>1, FS_Subset
  <1> DEFINE f == [i \in {x[1] : x \in Late(a)} |-> <<i, a>>]
  <1>4. \A x \in Late(a) : x = <<x[1], a>>
    BY <1>1 DEF Late
  <1>5. f \in Surjection({x[1] : x \in Late(a)}, Late(a))
    BY <1>4 DEF Surjection
  <1>6. IsFiniteSet(Late(a))
    BY <1>3, <1>5, FS_Surjection
  <1> QED BY <1>6, FS_CardinalityType

\* Sets of steps that the first n steps decide.
LEMMA CallsCount ==
  ASSUME Loop!TypeOK, NEW n \in 0..Len(steps), NEW a
  PROVE  /\ Cardinality(Loop!Calls(a, n)) \in Nat /\ Loop!Calls(a, n) \subseteq 1..n
         /\ Cardinality(Succeeded(n)) \in Nat /\ Succeeded(n) \subseteq 1..n
         /\ Cardinality(Won(a, n)) \in Nat /\ Won(a, n) \subseteq 1..n
  <1>1. Loop!Calls(a, n) \subseteq 1..n /\ Succeeded(n) \subseteq 1..n /\ Won(a, n) \subseteq 1..n
    BY DEF Loop!Calls, Succeeded, Won
  <1>2. IsFiniteSet(1..n)
    BY FS_Interval DEF Loop!TypeOK
  <1> QED BY <1>1, <1>2, FS_Subset, FS_CardinalityType

LEMMA AccountsInit == Loop!Init => Accounts
  <1> SUFFICES ASSUME Loop!Init PROVE Accounts
    OBVIOUS
  <1> USE DEF Loop!Init
  <1>1. Len(steps) = 0 /\ Len(conversation.state) = 0 /\ conversation.late = {} /\ stage = "start"
    OBVIOUS
  <1>2. Succeeded(0) = {} /\ \A a : Won(a, 0) = {} /\ Loop!Calls(a, 0) = {} /\ Late(a) = {}
    BY <1>1 DEF Succeeded, Won, Loop!Calls, Late
  <1>3. Current
    <2>1. MadeWrite = 0 /\ \A a : Made(a) = 0 /\ MadeOk(a) = 0
      BY <1>1 DEF Made, MadeOk, MadeWrite
    <2>2. conversation.revision = 0 /\ \A a : Loop!Effects(a, conversation.state) = 0
      BY NoEffects
    <2>3. /\ Cardinality(Succeeded(Len(steps))) = 0
          /\ \A a : /\ Cardinality(Won(a, Len(steps))) = 0
                   /\ Cardinality(Loop!Calls(a, Len(steps))) = 0
                   /\ Cardinality(Late(a)) = 0
      <3> HIDE DEF Loop!Init
      <3> QED BY <1>1, <1>2, FS_EmptySet
    <2> HIDE DEF Loop!Init
    <2> QED BY <2>1, <2>2, <2>3 DEF Current
  <1>4. Grown /\ OnlyWrites /\ \A n \in 1..Len(steps) : Accounted(n)
    BY <1>1 DEF Grown, OnlyWrites, Stepping
  <1> QED BY <1>3, <1>4 DEF Accounts

LEMMA SameSteps ==
  ASSUME steps' = steps
  PROVE  /\ \A n : Accounted(n)' <=> Accounted(n)
         /\ \A n : Succeeded(n)' = Succeeded(n)
         /\ \A a, n : Loop!Calls(a, n)' = Loop!Calls(a, n) /\ Won(a, n)' = Won(a, n)
  <1>1. \A n : Succeeded(n)' = Succeeded(n)
    BY DEF Succeeded
  <1>2. \A a, n : Loop!Calls(a, n)' = Loop!Calls(a, n) /\ Won(a, n)' = Won(a, n)
    BY DEF Succeeded, Won, Loop!Calls
  <1>3. \A n : Accounted(n)' <=> Accounted(n)
    BY <1>1, <1>2 DEF Accounted, Loop!Effects
  <1> QED BY <1>1, <1>2, <1>3

\* A step that leaves the steps and what the session counts alone.
LEMMA QuietSteps ==
  ASSUME LoopInv, Accounts, steps' = steps, conversation'.state = conversation.state,
         conversation'.late = conversation.late, conversation'.revision = conversation.revision,
         stage' = "start" => stage = "start",
         stage' \in Stepping =>
           /\ stage \in ({"start"} \cup Stepping) \ {"after"} \/ (stage = "after" /\ stage' = "after" /\ doing' = doing)
           /\ stage' = "after" => stage = "after" \/ doing'.action \in Loop!Action \ Loop!Tool
           /\ stage' = "before" => stage \in {"start", "before"}
           /\ stage' \in Stepping \ {"before"} =>
                \/ before' = before /\ stage \in Stepping \ {"before"}
                \/ before'.state = conversation.state /\ stage = "before"
  PROVE  Accounts'
  <1>1. \A a : Late(a)' = Late(a)
    BY DEF Late
  <1>2. Current'
    <2>1. ASSUME stage' \in {"start"} \cup Stepping
          PROVE  /\ stage \in {"start"} \cup Stepping /\ MadeWrite' = MadeWrite
                 /\ \A a \in Loop!Tool : Made(a)' = Made(a) /\ MadeOk(a)' = MadeOk(a)
      <3>1. stage \in {"start"} \cup Stepping
        BY <2>1 DEF Stepping
      <3>2. CASE stage' # "after"
        BY <2>1, <3>1, <3>2 DEF Made, MadeOk, MadeWrite, Stepping
      <3>3. CASE stage' = "after" /\ stage = "after"
        BY <3>3 DEF Made, MadeOk, MadeWrite, Stepping
      <3>4. CASE stage' = "after" /\ stage # "after"
        <4>1. doing'.action \in Loop!Action \ Loop!Tool
          BY <3>4 DEF Stepping
        <4>2. LoopKind[doing'.action] # "write"
          BY <4>1 DEF Loop!Tool
        <4> QED BY <3>1, <3>4, <4>1, <4>2 DEF Made, MadeOk, MadeWrite
      <3> QED BY <3>2, <3>3, <3>4
    <2> QED BY <1>1, <2>1, SameSteps DEF Current, Accounts
  <1>3. Grown'
    <2>1. stage = "start" => steps = <<>>
      BY DEF LoopInv, StepUnderWay
    <2>2. \A n \in 2..Len(steps) : Prefix(steps[n - 1].after.state, steps[n].before.state)
      BY DEF Accounts, Grown
    <2>3. ASSUME stage' \in Stepping, steps # <<>>
          PROVE  /\ Prefix(steps[Len(steps)].after.state, conversation'.state)
                 /\ stage' # "before" => Prefix(steps[Len(steps)].after.state, before'.state)
      <3>1. stage \in Stepping
        BY <2>1, <2>3 DEF Stepping
      <3>2. stage' # "before" => \/ before' = before /\ stage # "before"
                                 \/ before'.state = conversation.state
        BY <2>3
      <3> QED BY <2>3, <3>1, <3>2 DEF Accounts, Grown
    <2> QED BY <2>2, <2>3 DEF Grown
  <1>4. OnlyWrites'
    <2>1. stage = "start" => conversation.late = {}
      BY DEF LoopInv, StepUnderWay
    <2>2. Len(steps) \in Nat /\ \A x \in conversation.late : x[1] \in Nat
      BY LateTyped DEF LoopInv, Loop!TypeOK
    <2> QED BY <2>1, <2>2 DEF OnlyWrites, Accounts, Stepping
  <1>5. (\A n \in 1..Len(steps) : Accounted(n))'
    BY SameSteps DEF Accounts
  <1> QED BY <1>2, <1>3, <1>4, <1>5 DEF Accounts

\* The session grows by one effect at most: what there is of the trajectory stays.
LEMMA SessionGrows ==
  ASSUME LoopInv, Accounts, NEW b \in Loop!Tool, LoopKind[b] = "write", steps' = steps,
         conversation'.state \in {conversation.state, Append(conversation.state, b)},
         before' = before,
         stage' \in Stepping => stage \in Stepping /\ (stage = "before" <=> stage' = "before")
  PROVE  /\ Grown'
         /\ \A i \in 1..Len(conversation'.state) : LoopKind[conversation'.state[i]] = "write"
         /\ \A n \in 1..Len(steps') : Accounted(n)'
  <1>1. conversation.state \in Seq(Loop!Tool)
    BY DEF LoopInv, Loop!TypeOK, Loop!Session
  <1>2. \A n \in 1..Len(steps) : steps[n].after.state \in Seq(Loop!Tool) /\ steps[n].before.state \in Seq(Loop!Tool)
    <2>1. \A n \in 1..Len(steps) : steps[n] \in Loop!Step
      BY DEF LoopInv, Loop!TypeOK
    <2> QED BY <2>1 DEF Loop!Step, Loop!Snapshots
  <1>3. Grown'
    <2>1. \A n \in 2..Len(steps) : Prefix(steps[n - 1].after.state, steps[n].before.state)
      BY DEF Accounts, Grown
    <2>2. ASSUME stage' \in Stepping, steps # <<>>
          PROVE  /\ Prefix(steps[Len(steps)].after.state, conversation'.state)
                 /\ stage' # "before" => Prefix(steps[Len(steps)].after.state, before'.state)
      <3>1. /\ Prefix(steps[Len(steps)].after.state, conversation.state)
            /\ stage # "before" => Prefix(steps[Len(steps)].after.state, before.state)
        BY <2>2 DEF Accounts, Grown
      <3>2. Len(steps) \in 1..Len(steps)
        BY <2>2 DEF LoopInv, Loop!TypeOK
      <3>3. steps[Len(steps)].after.state \in Seq(Loop!Tool)
        BY <1>2, <3>2
      <3>4. Prefix(steps[Len(steps)].after.state, Append(conversation.state, b))
        BY <1>1, <3>1, <3>3, PrefixGrows
      <3> QED BY <2>2, <3>1, <3>4
    <2> QED BY <2>1, <2>2 DEF Grown
  <1>4. \A i \in 1..Len(conversation'.state) : LoopKind[conversation'.state[i]] = "write"
    <2>1. \A i \in 1..Len(conversation.state) : LoopKind[conversation.state[i]] = "write"
      BY DEF Accounts, OnlyWrites
    <2>2. CASE conversation'.state = Append(conversation.state, b)
      BY <1>1, <2>1, <2>2, AppendProperties
    <2> QED BY <2>1, <2>2
  <1>5. \A n \in 1..Len(steps') : Accounted(n)'
    BY SameSteps DEF Accounts
  <1> QED BY <1>3, <1>4, <1>5

LEMMA ExecuteAccounts ==
  ASSUME Loop!LoopAssumption, LoopInv, Accounts, Loop!Execute
  PROVE  Accounts'
  <1> DEFINE b == doing.action
             n == Len(steps)
  <1>1. /\ stage = "execute" /\ stage' = "after" /\ b \in Loop!Tool /\ doing.ok /\ doing'.action = b
        /\ doing' \in [action : Loop!Action, ok : BOOLEAN] /\ steps' = steps /\ before' = before
    BY DEF Loop!Execute, LoopInv, StepUnderWay
  <1>2. n \in Nat /\ conversation.state \in Seq(Loop!Tool) /\ conversation.revision \in Nat
    BY DEF LoopInv, Loop!TypeOK, Loop!Session
  <1>3. /\ conversation.revision = Cardinality(Succeeded(n))
        /\ \A a \in Loop!Tool :
             /\ Cardinality(Won(a, n)) <= Loop!Effects(a, conversation.state)
             /\ Loop!Effects(a, conversation.state) + Cardinality(Late(a)) <= Cardinality(Loop!Calls(a, n))
    <2>1. MadeWrite = 0 /\ \A a : Made(a) = 0 /\ MadeOk(a) = 0
      BY <1>1 DEF MadeWrite, Made, MadeOk
    <2>2. stage \in Stepping
      BY <1>1 DEF Stepping
    <2>3. Cardinality(Succeeded(n)) \in Nat /\ \A a : Cardinality(Won(a, n)) \in Nat /\ Cardinality(Loop!Calls(a, n)) \in Nat
      BY <1>2, CallsCount DEF LoopInv
    <2> HIDE DEF n
    <2> QED BY <2>1, <2>2, <2>3 DEF Current, Accounts, n
  <1>4. /\ Cardinality(Succeeded(n)) \in Nat
        /\ \A a : /\ Cardinality(Won(a, n)) \in Nat /\ Cardinality(Loop!Calls(a, n)) \in Nat
                 /\ Cardinality(Late(a)) \in Nat /\ IsFiniteSet(Late(a))
                 /\ Loop!Effects(a, conversation.state) \in Nat
    <2>1. n \in 0..Len(steps) /\ Loop!TypeOK
      BY <1>2 DEF LoopInv
    <2>2. \A a : Loop!Effects(a, conversation.state) \in Nat
      BY <1>1, <1>2, EffectsCount
    <2>3. \A a : Cardinality(Late(a)) \in Nat /\ IsFiniteSet(Late(a))
      BY <2>1, LateFinite
    <2> HIDE DEF n
    <2> QED BY <2>1, <2>2, <2>3, CallsCount
  <1>5. \A x \in conversation.late : LoopKind[x[2]] = "write" /\ x[1] <= n
    BY <1>1 DEF Accounts, OnlyWrites, Stepping
  <1>6. /\ Succeeded(n)' = Succeeded(n)
        /\ \A a : Loop!Calls(a, n)' = Loop!Calls(a, n) /\ Won(a, n)' = Won(a, n)
    <2>1. n' = n
      BY <1>1
    <2> HIDE DEF n
    <2> QED BY <1>1, <2>1 DEF Succeeded, Won, Loop!Calls
  \* The call had its effect at once, may have it late, or had none.
  <1> DEFINE Did(effect, late) ==
        /\ effect + late <= 1 /\ (effect + late = 1 => LoopKind[b] = "write")
        /\ doing'.ok /\ LoopKind[b] = "write" => effect = 1
        /\ conversation'.revision = conversation.revision
                 + IF doing'.ok /\ LoopKind[b] = "write" THEN 1 ELSE 0
        /\ conversation'.state = IF effect = 1 THEN Append(conversation.state, b) ELSE conversation.state
        /\ conversation'.late = IF late = 1 THEN conversation.late \cup {<<n + 1, b>>} ELSE conversation.late
  <1>7. \E effect, late \in {0, 1} : Did(effect, late)
    <2> DEFINE acted == [conversation EXCEPT !.state = Append(@, b)]
    <2>1. conversation \in Loop!Session
      BY DEF LoopInv, Loop!TypeOK
    <2>2. CASE LoopKind[b] = "read" /\ conversation' = conversation
      <3>1. Did(0, 0)
        BY <1>2, <2>2
      <3> HIDE DEF Did
      <3> QED BY <3>1
    <2>3. CASE LoopKind[b] = "write" /\ conversation' = [acted EXCEPT !.revision = @ + 1] /\ doing' = doing
      <3>1. Did(1, 0)
        BY <1>1, <2>1, <2>3, SessionFields
      <3> HIDE DEF Did
      <3> QED BY <3>1
    <2>4. CASE LoopKind[b] = "write" /\ ~ doing'.ok /\ conversation' = conversation
      <3>1. Did(0, 0)
        BY <1>2, <2>4
      <3> HIDE DEF Did
      <3> QED BY <3>1
    <2>5. CASE LoopKind[b] = "write" /\ ~ doing'.ok /\ conversation' = acted
      <3>1. Did(1, 0)
        BY <1>2, <2>1, <2>5, SessionFields
      <3> HIDE DEF Did
      <3> QED BY <3>1
    <2>6. CASE LoopKind[b] = "write" /\ ~ doing'.ok
               /\ conversation' = [conversation EXCEPT !.late = @ \cup {<<n + 1, b>>}]
      <3>1. Did(0, 1)
        BY <1>2, <2>1, <2>6, SessionFields
      <3> HIDE DEF Did
      <3> QED BY <3>1
    <2>7. \/ LoopKind[b] = "read" /\ conversation' = conversation
          \/ LoopKind[b] = "write" /\ conversation' = [acted EXCEPT !.revision = @ + 1] /\ doing' = doing
          \/ LoopKind[b] = "write" /\ doing' = [doing EXCEPT !.ok = FALSE]
               /\ conversation' \in {conversation, acted, [conversation EXCEPT !.late = @ \cup {<<n + 1, b>>}]}
      BY DEF Loop!Execute
    <2>8. doing' = [doing EXCEPT !.ok = FALSE] => ~ doing'.ok
      BY <1>1 DEF LoopInv, StepUnderWay
    <2> HIDE DEF Did, b, n, acted
    <2> QED BY <2>2, <2>3, <2>4, <2>5, <2>6, <2>7, <2>8
  <1>8. PICK effect \in {0, 1}, late \in {0, 1} : Did(effect, late)
    BY <1>7
  <1>9. Current' /\ \A x \in conversation'.late : LoopKind[x[2]] = "write" /\ x[1] <= n + 1
    <2>1. \A x \in conversation'.late : LoopKind[x[2]] = "write" /\ x[1] <= n + 1
      <3>1. \A x \in conversation.late : x[1] \in Nat /\ x[1] <= n
        BY <1>5, LateTyped DEF LoopInv
      <3> HIDE DEF n
      <3> QED BY <1>2, <1>5, <1>8, <3>1
    <2>2. conversation'.revision = Cardinality(Succeeded(n)') + MadeWrite'
      BY <1>1, <1>3, <1>6, <1>8 DEF MadeWrite
    <2>3. ASSUME NEW a \in Loop!Tool
          PROVE  /\ Cardinality(Won(a, n)') + MadeOk(a)' <= Loop!Effects(a, conversation'.state)
                 /\ Loop!Effects(a, conversation'.state) + Cardinality(Late(a)')
                      <= Cardinality(Loop!Calls(a, n)') + Made(a)'
      <3>1. Loop!Effects(a, conversation'.state)
              = Loop!Effects(a, conversation.state) + IF a = b THEN effect ELSE 0
        BY <1>1, <1>2, <1>4, <1>8, EffectsCount
      <3>2. Cardinality(Late(a)') = Cardinality(Late(a)) + IF a = b THEN late ELSE 0
        <4>1. CASE a = b /\ late = 1
          <5>1. Late(a)' = Late(a) \cup {<<n + 1, b>>}
            BY <1>8, <4>1 DEF Late
          <5>2. <<n + 1, b>> \notin Late(a)
            BY <1>2, <1>5 DEF Late
          <5> HIDE DEF n
          <5> QED BY <1>4, <4>1, <5>1, <5>2, FS_AddElement
        <4>2. CASE ~ (a = b /\ late = 1)
          <5>1. Late(a)' = Late(a)
            BY <1>8, <4>2 DEF Late
          <5> QED BY <1>4, <1>8, <4>2, <5>1
        <4> QED BY <4>1, <4>2
      <3>3. Made(a)' = IF a = b THEN 1 ELSE 0
        BY <1>1 DEF Made
      <3>4. MadeOk(a)' <= IF a = b THEN effect ELSE 0
        BY <1>1, <1>8 DEF MadeOk
      <3>5. MadeOk(a)' \in {0, 1}
        BY DEF MadeOk
      <3> HIDE DEF n
      <3>6. Won(a, n)' = Won(a, n) /\ Loop!Calls(a, n)' = Loop!Calls(a, n)
        BY <1>6
      <3> QED BY <1>3, <1>4, <1>8, <3>1, <3>2, <3>3, <3>4, <3>5, <3>6
    <2> QED BY <2>1, <2>2, <2>3 DEF Current
  <1>10. Grown' /\ OnlyWrites' /\ \A k \in 1..Len(steps') : Accounted(k)'
    <2>1. CASE LoopKind[b] = "write"
      <3>1. /\ Grown'
            /\ \A i \in 1..Len(conversation'.state) : LoopKind[conversation'.state[i]] = "write"
            /\ \A k \in 1..Len(steps') : Accounted(k)'
        BY <1>1, <1>8, <2>1, SessionGrows DEF Stepping
      <3> QED BY <1>1, <1>9, <3>1 DEF OnlyWrites
    <2>2. CASE LoopKind[b] # "write"
      <3>1. conversation'.state = conversation.state
        BY <1>8, <2>2
      <3>2. Grown'
        BY <1>1, <3>1 DEF Accounts, Grown, Stepping
      <3>3. \A k \in 1..Len(steps') : Accounted(k)'
        BY <1>1, SameSteps DEF Accounts
      <3> QED BY <1>1, <1>9, <3>1, <3>2, <3>3 DEF Accounts, OnlyWrites
    <2> QED BY <2>1, <2>2
  <1> QED BY <1>9, <1>10 DEF Accounts

LEMMA LateAccounts ==
  ASSUME Loop!LoopAssumption, LoopInv, Accounts, Loop!LateEffect
  PROVE  Accounts'
  <1> DEFINE n == Len(steps)
  <1>1. PICK x \in conversation.late :
          conversation' = [conversation EXCEPT !.state = Append(@, x[2]), !.late = @ \ {x}]
    BY DEF Loop!LateEffect
  <1>2. /\ steps' = steps /\ doing' = doing /\ before' = before /\ stage' = stage
    BY DEF Loop!LateEffect
  <1>3. /\ n \in Nat /\ conversation.state \in Seq(Loop!Tool) /\ conversation \in Loop!Session
        /\ x[2] \in Loop!Tool /\ LoopKind[x[2]] = "write" /\ x = <<x[1], x[2]>>
    BY LateTyped DEF LoopInv, Loop!TypeOK, Loop!Session, Accounts, OnlyWrites
  <1>4. /\ conversation'.state = Append(conversation.state, x[2])
        /\ conversation'.late = conversation.late \ {x}
        /\ conversation'.revision = conversation.revision
    BY <1>1, <1>3, SessionFields
  <1>5. /\ MadeWrite' = MadeWrite /\ \A a : Made(a)' = Made(a) /\ MadeOk(a)' = MadeOk(a)
    BY <1>2 DEF MadeWrite, Made, MadeOk
  <1>6. ASSUME NEW a \in Loop!Tool
        PROVE  /\ Loop!Effects(a, conversation'.state) + Cardinality(Late(a)')
                     = Loop!Effects(a, conversation.state) + Cardinality(Late(a))
               /\ Loop!Effects(a, conversation.state) <= Loop!Effects(a, conversation'.state)
               /\ Loop!Effects(a, conversation.state) \in Nat /\ Loop!Effects(a, conversation'.state) \in Nat
    <2>1. /\ Loop!Effects(a, conversation.state) \in Nat
          /\ Loop!Effects(a, conversation'.state) = Loop!Effects(a, conversation.state) + IF a = x[2] THEN 1 ELSE 0
      BY <1>3, <1>4, EffectsCount
    <2>2. Cardinality(Late(a)) \in Nat /\ IsFiniteSet(Late(a))
      BY LateFinite DEF LoopInv
    <2>3. Cardinality(Late(a)') = Cardinality(Late(a)) - IF a = x[2] THEN 1 ELSE 0
      <3>1. CASE a = x[2]
        <4>1. Late(a)' = Late(a) \ {x} /\ x \in Late(a)
          BY <1>4, <3>1 DEF Late
        <4> QED BY <2>2, <3>1, <4>1, FS_RemoveElement
      <3>2. CASE a # x[2]
        <4>1. Late(a)' = Late(a)
          BY <1>4, <3>2 DEF Late
        <4> QED BY <2>2, <3>2, <4>1
      <3> QED BY <3>1, <3>2
    <2> QED BY <2>1, <2>2, <2>3
  <1>7. Current'
    <2> SUFFICES ASSUME stage' \in {"start"} \cup Stepping
                 PROVE  /\ conversation'.revision = Cardinality(Succeeded(n)') + MadeWrite'
                        /\ \A a \in Loop!Tool :
                             /\ Cardinality(Won(a, n)') + MadeOk(a)' <= Loop!Effects(a, conversation'.state)
                             /\ Loop!Effects(a, conversation'.state) + Cardinality(Late(a)')
                                  <= Cardinality(Loop!Calls(a, n)') + Made(a)'
      BY DEF Current
    <2>1. n' = n
      BY <1>2
    <2> HIDE DEF n
    <2>2. Succeeded(n)' = Succeeded(n) /\ \A a : Won(a, n)' = Won(a, n) /\ Loop!Calls(a, n)' = Loop!Calls(a, n)
      BY <1>2, <2>1 DEF Succeeded, Won, Loop!Calls
    <2>3. /\ conversation.revision = Cardinality(Succeeded(n)) + MadeWrite
          /\ \A a \in Loop!Tool :
               /\ Cardinality(Won(a, n)) + MadeOk(a) <= Loop!Effects(a, conversation.state)
               /\ Loop!Effects(a, conversation.state) + Cardinality(Late(a)) <= Cardinality(Loop!Calls(a, n)) + Made(a)
      BY <1>2 DEF Accounts, Current, n
    <2>4. \A a : Cardinality(Won(a, n)) \in Nat /\ MadeOk(a) \in {0, 1}
      <3>1. n \in 0..Len(steps) /\ Loop!TypeOK
        BY <1>3 DEF LoopInv, n
      <3>2. \A a : Cardinality(Won(a, n)) \in Nat
        BY <3>1, CallsCount
      <3> QED BY <3>2 DEF MadeOk
    <2> QED
      <3>1. conversation'.revision = Cardinality(Succeeded(n)') + MadeWrite'
        BY <1>4, <1>5, <2>2, <2>3
      <3>2. ASSUME NEW a \in Loop!Tool
            PROVE  /\ Cardinality(Won(a, n)') + MadeOk(a)' <= Loop!Effects(a, conversation'.state)
                   /\ Loop!Effects(a, conversation'.state) + Cardinality(Late(a)')
                        <= Cardinality(Loop!Calls(a, n)') + Made(a)'
        BY <1>5, <1>6, <2>2, <2>3, <2>4
      <3> QED BY <3>1, <3>2
  <1>8. /\ Grown'
        /\ \A i \in 1..Len(conversation'.state) : LoopKind[conversation'.state[i]] = "write"
        /\ \A k \in 1..Len(steps') : Accounted(k)'
    BY <1>2, <1>3, <1>4, SessionGrows
  <1>9. OnlyWrites'
    BY <1>2, <1>4, <1>8 DEF Accounts, OnlyWrites
  <1> QED BY <1>7, <1>8, <1>9 DEF Accounts

LEMMA EndStepAccounts ==
  ASSUME Loop!LoopAssumption, LoopInv, Accounts, Loop!EndStep
  PROVE  Accounts'
  <1> DEFINE n == Len(steps)
             step == [action |-> doing.action, ok |-> doing.ok, before |-> before, after |-> Loop!Snapshot]
  <1>1. /\ steps' = Append(steps, step) /\ conversation' = conversation
        /\ stage = "after" /\ stage' \in {"before", "score"}
    BY DEF Loop!EndStep
  <1>2. /\ step \in Loop!Step /\ step.action = doing.action /\ step.ok = doing.ok
        /\ step.before = before /\ step.after.state = conversation.state
        /\ step.after.revision = conversation.revision
    BY <1>1 DEF LoopInv, StepUnderWay, Loop!TypeOK, Loop!Step, Loop!Snapshot, Loop!Session, Loop!Snapshots
  <1> HIDE DEF step
  <1>3. /\ n \in Nat /\ Len(steps') = n + 1 /\ steps'[n + 1] = step
        /\ \A i \in 1..n : steps'[i] = steps[i]
    BY <1>1, <1>2, StepAppended DEF LoopInv, Loop!TypeOK
  <1>4. ASSUME NEW k \in 0..n
        PROVE  /\ Succeeded(k)' = Succeeded(k)
               /\ \A a : Loop!Calls(a, k)' = Loop!Calls(a, k) /\ Won(a, k)' = Won(a, k)
    <2>1. \A i \in 1..k : steps'[i] = steps[i]
      BY <1>3
    <2> QED BY <2>1 DEF Succeeded, Won, Loop!Calls
  <1> DEFINE NewSucceeded == {i \in 1..(n + 1) : LoopKind[steps'[i].action] = "write" /\ steps'[i].ok}
             NewCalls(a) == {i \in 1..(n + 1) : steps'[i].action = a}
  <1>5. /\ Cardinality(NewSucceeded) = Cardinality(Succeeded(n)) + MadeWrite
        /\ \A a : /\ Cardinality(NewCalls(a)) = Cardinality(Loop!Calls(a, n)) + Made(a)
                 /\ Cardinality(NewCalls(a) \cap NewSucceeded) = Cardinality(Won(a, n)) + MadeOk(a)
    <2>1. /\ 1..(n + 1) = (1..n) \cup {n + 1}
          /\ n + 1 \notin 1..n
      BY <1>3
    <2>2. n \in 0..Len(steps) /\ Loop!TypeOK
      BY <1>3 DEF LoopInv
    <2>3. NewSucceeded = IF LoopKind[step.action] = "write" /\ step.ok THEN Succeeded(n) \cup {n + 1} ELSE Succeeded(n)
      BY <1>3, <2>1 DEF Succeeded
    <2>4. \A a : NewCalls(a) = IF step.action = a THEN Loop!Calls(a, n) \cup {n + 1} ELSE Loop!Calls(a, n)
      BY <1>3, <2>1 DEF Loop!Calls
    <2>5. \A a : NewCalls(a) \cap NewSucceeded =
            IF step.action = a /\ LoopKind[step.action] = "write" /\ step.ok THEN Won(a, n) \cup {n + 1} ELSE Won(a, n)
      BY <1>3, <2>1 DEF Loop!Calls, Succeeded, Won
    <2> HIDE DEF n, NewSucceeded, NewCalls
    <2>6. /\ Cardinality(Succeeded(n)) \in Nat
          /\ Cardinality(Succeeded(n) \cup {n + 1}) = Cardinality(Succeeded(n)) + 1
      BY <1>3, <2>2, CallsCount, CountUp
    <2>7. ASSUME NEW a
          PROVE  /\ Cardinality(Loop!Calls(a, n)) \in Nat /\ Cardinality(Won(a, n)) \in Nat
                 /\ Cardinality(Loop!Calls(a, n) \cup {n + 1}) = Cardinality(Loop!Calls(a, n)) + 1
                 /\ Cardinality(Won(a, n) \cup {n + 1}) = Cardinality(Won(a, n)) + 1
      BY <1>3, <2>2, CallsCount, CountUp
    <2>8. Cardinality(NewSucceeded) = Cardinality(Succeeded(n)) + MadeWrite
      BY <1>1, <1>2, <2>3, <2>6 DEF MadeWrite
    <2>9. ASSUME NEW a PROVE Cardinality(NewCalls(a)) = Cardinality(Loop!Calls(a, n)) + Made(a)
      <3>1. CASE step.action = a
        <4>1. NewCalls(a) = Loop!Calls(a, n) \cup {n + 1}
          BY <2>4, <3>1
        <4>2. Cardinality(NewCalls(a)) = Cardinality(Loop!Calls(a, n)) + 1
          BY <2>7, <4>1
        <4> QED BY <1>1, <1>2, <3>1, <4>2 DEF Made
      <3>2. CASE step.action # a
        <4>1. NewCalls(a) = Loop!Calls(a, n)
          BY <2>4, <3>2
        <4>2. Cardinality(NewCalls(a)) = Cardinality(Loop!Calls(a, n)) /\ Cardinality(Loop!Calls(a, n)) \in Nat
          BY <2>7, <4>1
        <4> QED BY <1>1, <1>2, <3>2, <4>2 DEF Made
      <3> QED BY <3>1, <3>2
    <2>10. ASSUME NEW a
           PROVE  Cardinality(NewCalls(a) \cap NewSucceeded) = Cardinality(Won(a, n)) + MadeOk(a)
      <3>1. CASE step.action = a /\ LoopKind[step.action] = "write" /\ step.ok
        <4>1. NewCalls(a) \cap NewSucceeded = Won(a, n) \cup {n + 1}
          BY <2>5, <3>1
        <4>2. Cardinality(NewCalls(a) \cap NewSucceeded) = Cardinality(Won(a, n)) + 1
          BY <2>7, <4>1
        <4> QED BY <1>1, <1>2, <3>1, <4>2 DEF MadeOk
      <3>2. CASE ~ (step.action = a /\ LoopKind[step.action] = "write" /\ step.ok)
        <4>1. NewCalls(a) \cap NewSucceeded = Won(a, n)
          BY <2>5, <3>2
        <4>2. /\ Cardinality(NewCalls(a) \cap NewSucceeded) = Cardinality(Won(a, n))
              /\ Cardinality(Won(a, n)) \in Nat
          BY <2>7, <4>1
        <4> QED BY <1>1, <1>2, <3>2, <4>2 DEF MadeOk
      <3> QED BY <3>1, <3>2
    <2> QED BY <2>8, <2>9, <2>10
  <1>6. /\ conversation.revision = Cardinality(NewSucceeded)
        /\ \A a \in Loop!Tool :
             /\ Cardinality(NewCalls(a) \cap NewSucceeded) <= Loop!Effects(a, conversation.state)
             /\ Loop!Effects(a, conversation.state) + Cardinality(Late(a)) <= Cardinality(NewCalls(a))
    <2>1. stage \in Stepping
      BY <1>1 DEF Stepping
    <2> HIDE DEF NewSucceeded, NewCalls
    <2> QED BY <1>5, <2>1 DEF Accounts, Current
  <1>7. ASSUME NEW a \in Loop!Tool
        PROVE  /\ Loop!Effects(a, conversation.state) <= Cardinality(NewCalls(a))
               /\ LoopKind[a] # "write" => Loop!Effects(a, conversation.state) = 0
    <2>1. conversation.state \in Seq(Loop!Tool)
      BY DEF LoopInv, Loop!TypeOK, Loop!Session
    <2>2. Loop!Effects(a, conversation.state) \in Nat /\ Cardinality(Late(a)) \in Nat
      BY <2>1, EffectsCount, LateFinite DEF LoopInv
    <2>3. Cardinality(NewCalls(a)) \in Nat
      <3>1. NewCalls(a) \in SUBSET (1..(n + 1)) /\ IsFiniteSet(1..(n + 1))
        BY <1>3, FS_Interval
      <3> HIDE DEF NewCalls, n
      <3> QED BY <3>1, FS_Subset, FS_CardinalityType
    <2>4. ASSUME LoopKind[a] # "write" PROVE Loop!Effects(a, conversation.state) = 0
      <3>1. {i \in DOMAIN conversation.state : conversation.state[i] = a} = {}
        BY <2>1, <2>4 DEF Accounts, OnlyWrites
      <3> QED BY <3>1, FS_EmptySet, SameCardinality DEF Loop!Effects
    <2> HIDE DEF NewCalls, NewSucceeded, n
    <2>5. Loop!Effects(a, conversation.state) + Cardinality(Late(a)) <= Cardinality(NewCalls(a))
      BY <1>6
    <2>6. Loop!Effects(a, conversation.state) <= Cardinality(NewCalls(a))
      BY <2>2, <2>3, <2>5
    <2> QED BY <2>4, <2>6
  <1>8. ASSUME NEW k, k = n + 1
        PROVE  /\ Succeeded(k)' = NewSucceeded
               /\ \A a : Loop!Calls(a, k)' = NewCalls(a) /\ Won(a, k)' = NewCalls(a) \cap NewSucceeded
    BY <1>8 DEF Succeeded, Won, Loop!Calls
  <1> HIDE DEF NewSucceeded, NewCalls, n
  <1>9. (\A k \in 1..Len(steps) : Accounted(k))'
    <2> SUFFICES ASSUME NEW k \in 1..(n + 1) PROVE Accounted(k)'
      BY <1>3
    <2>1. CASE k = n + 1
      <3>1. steps'[k].after.state = conversation.state /\ steps'[k].after.revision = conversation.revision
        BY <1>2, <1>3, <2>1
      <3> QED BY <1>6, <1>7, <1>8, <2>1, <3>1 DEF Accounted
    <2>2. CASE k # n + 1
      <3>1. k \in 1..n /\ k \in 0..n
        BY <1>3, <2>2
      <3>2. Accounted(k) /\ steps'[k] = steps[k]
        BY <1>3, <3>1 DEF Accounts, n
      <3> QED BY <1>4, <3>1, <3>2 DEF Accounted
    <2> QED BY <2>1, <2>2
  <1>10. Current'
    <2> SUFFICES ASSUME stage' = "before" PROVE Current'
      BY <1>1 DEF Current, Stepping
    <2>1. MadeWrite' = 0 /\ \A a : Made(a)' = 0 /\ MadeOk(a)' = 0 /\ Late(a)' = Late(a)
      BY <1>1 DEF MadeWrite, Made, MadeOk, Late
    <2>2. /\ Succeeded(Len(steps))' = NewSucceeded
          /\ \A a : /\ Loop!Calls(a, Len(steps))' = NewCalls(a)
                   /\ Won(a, Len(steps))' = NewCalls(a) \cap NewSucceeded
      BY <1>3 DEF Succeeded, Won, Loop!Calls, NewSucceeded, NewCalls
    <2>3. ASSUME NEW a
          PROVE  /\ Cardinality(NewSucceeded) \in Nat /\ Cardinality(NewCalls(a)) \in Nat
                 /\ Cardinality(NewCalls(a) \cap NewSucceeded) \in Nat
      <3>1. /\ NewSucceeded \in SUBSET (1..(n + 1)) /\ NewCalls(a) \in SUBSET (1..(n + 1))
            /\ NewCalls(a) \cap NewSucceeded \in SUBSET (1..(n + 1)) /\ IsFiniteSet(1..(n + 1))
        BY <1>3, FS_Interval DEF NewSucceeded, NewCalls
      <3> QED BY <3>1, FS_Subset, FS_CardinalityType
    <2>4. /\ Cardinality(Succeeded(Len(steps))') = Cardinality(NewSucceeded)
          /\ \A a : /\ Cardinality(Loop!Calls(a, Len(steps))') = Cardinality(NewCalls(a))
                   /\ Cardinality(Won(a, Len(steps))') = Cardinality(NewCalls(a) \cap NewSucceeded)
                   /\ Cardinality(Late(a)') = Cardinality(Late(a))
      BY <2>1, <2>2
    <2>5. conversation'.revision = Cardinality(Succeeded(Len(steps))') + MadeWrite'
      <3>1. Cardinality(NewSucceeded) \in Nat
        BY <2>3
      <3> QED BY <1>1, <1>6, <2>1, <2>4, <3>1
    <2>6. ASSUME NEW a \in Loop!Tool
          PROVE  /\ Cardinality(Won(a, Len(steps))') + MadeOk(a)' <= Loop!Effects(a, conversation'.state)
                 /\ Loop!Effects(a, conversation'.state) + Cardinality(Late(a)')
                      <= Cardinality(Loop!Calls(a, Len(steps))') + Made(a)'
      <3>1. /\ Cardinality(NewCalls(a) \cap NewSucceeded) <= Loop!Effects(a, conversation'.state)
            /\ Loop!Effects(a, conversation'.state) + Cardinality(Late(a)) <= Cardinality(NewCalls(a))
        BY <1>1, <1>6
      <3>2. Cardinality(NewCalls(a)) \in Nat /\ Cardinality(NewCalls(a) \cap NewSucceeded) \in Nat
        BY <2>3
      <3>3. MadeOk(a)' = 0 /\ Made(a)' = 0
        BY <2>1
      <3>4. /\ Cardinality(Loop!Calls(a, Len(steps))') = Cardinality(NewCalls(a))
            /\ Cardinality(Won(a, Len(steps))') = Cardinality(NewCalls(a) \cap NewSucceeded)
            /\ Cardinality(Late(a)') = Cardinality(Late(a))
        BY <2>4
      <3> QED BY <3>1, <3>2, <3>3, <3>4
    <2> QED BY <2>5, <2>6 DEF Current
  <1>11. Grown'
    <2>1. \A k \in 1..n : steps[k].after.state \in Seq(Loop!Tool)
      <3>1. \A k \in 1..n : steps[k] \in Loop!Step
        BY DEF LoopInv, Loop!TypeOK, n
      <3> QED BY <3>1 DEF Loop!Step, Loop!Snapshots
    <2>2. ASSUME NEW k \in 2..(n + 1)
          PROVE  Prefix(steps'[k - 1].after.state, steps'[k].before.state)
      <3>1. CASE k = n + 1
        <4>1. k - 1 = n /\ n \in 1..n /\ steps # <<>>
          BY <1>3, <3>1 DEF n, LoopInv, Loop!TypeOK
        <4>2. steps'[k - 1] = steps[n] /\ steps'[k].before = before
          BY <1>2, <1>3, <3>1, <4>1
        <4>3. Prefix(steps[n].after.state, before.state)
          BY <1>1, <4>1 DEF Accounts, Grown, Stepping, n
        <4> QED BY <4>2, <4>3
      <3>2. CASE k # n + 1
        <4>1. k \in 2..n /\ k \in 1..n /\ k - 1 \in 1..n
          BY <1>3, <3>2
        <4>2. steps'[k - 1] = steps[k - 1] /\ steps'[k] = steps[k]
          BY <1>3, <4>1
        <4> QED BY <4>1, <4>2 DEF Accounts, Grown, n
      <3> QED BY <3>1, <3>2
    <2>3. Prefix(conversation.state, conversation.state)
      BY PrefixGrows DEF Prefix, LoopInv, Loop!TypeOK, Loop!Session
    <2>4. steps'[Len(steps')].after.state = conversation.state
      BY <1>2, <1>3
    <2>5. stage' \in Stepping => stage' = "before"
      BY <1>1 DEF Stepping
    <2> QED BY <1>1, <1>3, <2>2, <2>3, <2>4, <2>5 DEF Grown
  <1>12. OnlyWrites'
    BY <1>1, <1>3 DEF Accounts, OnlyWrites, Stepping, n
  <1> QED BY <1>9, <1>10, <1>11, <1>12 DEF Accounts

LEMMA AccountsSteps ==
  ASSUME Loop!LoopAssumption, LoopInv, Accounts, [Loop!Next]_Loop!vars
  PROVE  Accounts'
  <1> USE DEF Loop!Ended
  <1>1. CASE UNCHANGED Loop!vars
    BY <1>1, QuietSteps DEF Loop!vars, Stepping
  <1>2. CASE Loop!CreateSession
    <2>1. /\ conversation'.state = conversation.state /\ conversation'.late = conversation.late
          /\ conversation'.revision = conversation.revision
      BY <1>2, SessionFields DEF Loop!CreateSession, LoopInv, Loop!TypeOK
    <2> QED BY <1>2, <2>1, QuietSteps DEF Loop!CreateSession, Stepping
  <1>3. CASE Loop!TakeBefore
    BY <1>3, QuietSteps DEF Loop!TakeBefore, Stepping, Loop!Snapshot
  <1>4. CASE Loop!Generate
    BY <1>4, QuietSteps DEF Loop!Generate, Stepping
  <1>5. CASE Loop!Execute
    BY <1>5, ExecuteAccounts
  <1>6. CASE Loop!LateEffect
    BY <1>6, LateAccounts
  <1>7. CASE Loop!EndStep
    BY <1>7, EndStepAccounts
  <1>8. CASE Loop!CloseSession
    <2>1. /\ conversation'.state = conversation.state /\ conversation'.late = conversation.late
          /\ conversation'.revision = conversation.revision
      BY <1>8, SessionFields DEF Loop!CloseSession, LoopInv, Loop!TypeOK
    <2> QED BY <1>8, <2>1, QuietSteps DEF Loop!CloseSession, Stepping
  <1>9. CASE Loop!StepRaises \/ Loop!ScoreFinal \/ Loop!Cancel
    BY <1>9, QuietSteps DEF Loop!StepRaises, Loop!ScoreFinal, Loop!Cancel, Stepping
  <1> QED BY <1>1, <1>2, <1>3, <1>4, <1>5, <1>6, <1>7, <1>8, <1>9 DEF Loop!Next

LEMMA AccountsHold ==
  ASSUME LoopInv, Accounts
  PROVE  Loop!EffectsAccounted
  <1>1. \A n \in 1..Len(steps) : steps[n] \in Loop!Step
    BY DEF LoopInv, Loop!TypeOK
  <1>2. Len(steps) \in Nat
    BY DEF LoopInv, Loop!TypeOK
  <1> SUFFICES ASSUME NEW n \in 1..Len(steps)
               PROVE  LET s == steps[n]
                      IN  /\ n > 1 => SubSeq(s.before.state, 1, Len(steps[n - 1].after.state)) = steps[n - 1].after.state
                          /\ s.after.revision = Cardinality(Succeeded(n))
                          /\ \A a \in Loop!Tool : Loop!Effects(a, s.after.state) \in
                               Cardinality(Won(a, n))..(IF LoopKind[a] = "write" THEN Cardinality(Loop!Calls(a, n)) ELSE 0)
    BY SameCardinality DEF Loop!EffectsAccounted, Succeeded, Won
  <1>3. ASSUME n > 1
        PROVE  SubSeq(steps[n].before.state, 1, Len(steps[n - 1].after.state)) = steps[n - 1].after.state
    <2> DEFINE s == steps[n - 1].after.state
               t == steps[n].before.state
    <2>1. s \in Seq(Loop!Tool) /\ t \in Seq(Loop!Tool)
      <3>1. steps[n - 1] \in Loop!Step /\ steps[n] \in Loop!Step
        BY <1>1, <1>2, <1>3
      <3> QED BY <3>1 DEF Loop!Step, Loop!Snapshots
    <2>2. Prefix(s, t)
      BY <1>2, <1>3 DEF Accounts, Grown
    <2> HIDE DEF s, t
    <2>3. SubSeq(t, 1, Len(s)) = s
      BY <2>1, <2>2 DEF Prefix
    <2> QED BY <2>3 DEF s, t
  <1>4. ASSUME NEW a \in Loop!Tool
        PROVE  Loop!Effects(a, steps[n].after.state) \in
                 Cardinality(Won(a, n))..(IF LoopKind[a] = "write" THEN Cardinality(Loop!Calls(a, n)) ELSE 0)
    <2>1. steps[n].after.state \in Seq(Loop!Tool)
      BY <1>1 DEF Loop!Step, Loop!Snapshots
    <2>2. Loop!Effects(a, steps[n].after.state) \in Nat
      BY <2>1, EffectsCount
    <2>3. n \in 0..Len(steps) /\ Loop!TypeOK
      BY <1>2 DEF LoopInv
    <2>4. Cardinality(Won(a, n)) \in Nat /\ Cardinality(Loop!Calls(a, n)) \in Nat
      BY <2>3, CallsCount
    <2> QED BY <2>2, <2>4 DEF Accounts, Accounted
  <1> QED BY <1>3, <1>4 DEF Accounts, Accounted

LEMMA LoopAccounted == ASSUME Loop!LoopAssumption PROVE Loop!Spec => []Loop!EffectsAccounted
  <1>1. Loop!Init => Accounts
    BY AccountsInit
  <1>2. LoopInv /\ Accounts /\ [Loop!Next]_Loop!vars => Accounts'
    BY AccountsSteps
  <1>3. LoopInv /\ Accounts => Loop!EffectsAccounted
    BY AccountsHold
  <1> QED BY <1>1, <1>2, <1>3, LoopInvHolds, PTL DEF Loop!Spec

-----------------------------------------------------------------------------
(* A tree search.                                                           *)

\* What a node may be: its fields, whatever its value has come to.
Shaped(n) ==
  n = [state |-> n.state, reward |-> n.reward, terminal |-> n.terminal, score |-> n.score,
       visits |-> n.visits, value |-> n.value, expanded |-> n.expanded]

\* The states that the action a can lead to from the node the search has come to.
Branch(a) == {tree[here].state, Append(tree[here].state, a)}

Rooted ==
  /\ DOMAIN tree \subseteq Seq(Search!Action) /\ <<>> \in DOMAIN tree /\ here \in DOMAIN tree
  /\ \A path \in DOMAIN tree : Shaped(tree[path]) /\ tree[path].state \in Seq(Search!Action)
  /\ \A path \in DOMAIN tree \ {<<>>} : Search!Parent(path) \in DOMAIN tree

\* The transitions that were tried from here, the last of them with no state yet.
Tried ==
  /\ DOMAIN made \subseteq Search!Action /\ candidates \subseteq Search!Action
  /\ at \in {"select", "found"} => DOMAIN made = {}
  /\ at \in {"expand", "execute", "snapshot", "score"} =>
       \A a \in DOMAIN made :
         /\ Shaped(made[a])
         /\ made[a].state \in Branch(a) \/ (at = "snapshot" /\ made[a].state = "unknown")

\* A call starts from the state of the node, with the effects of no other one under
\* way, and may still have its own.
SessionRestored ==
  /\ session \in Search!Session
  /\ at = "execute" => session = [state |-> tree[here].state, late |-> {}]
  /\ at = "snapshot" =>
       \E a \in DOMAIN made :
         /\ \A b \in DOMAIN made : made[b].state = "unknown" => b = a
         /\ \/ session.state = tree[here].state /\ session.late \subseteq {a}
            \/ session.state = Append(tree[here].state, a) /\ session.late = {}

SearchInv == Rooted /\ Tried /\ SessionRestored /\ Search!BranchesIsolated

-----------------------------------------------------------------------------

LEMMA NodeExpands ==
  ASSUME NEW n, Shaped(n), NEW z, NEW m, m = [n EXCEPT !.expanded = z]
  PROVE  Shaped(m) /\ m.state = n.state
  <1> DEFINE Nodes == [state : {n.state}, reward : {n.reward}, terminal : {n.terminal}, score : {n.score},
                       visits : {n.visits}, value : {n.value}, expanded : {n.expanded, z}]
  <1>1. n \in Nodes
    BY DEF Shaped
  <1>2. m \in Nodes
    BY <1>1
  <1> QED BY <1>2 DEF Shaped

LEMMA NodeScored ==
  ASSUME NEW n, Shaped(n), NEW z, NEW m, m = [n EXCEPT !.score = z]
  PROVE  Shaped(m) /\ m.state = n.state
  <1> DEFINE Nodes == [state : {n.state}, reward : {n.reward}, terminal : {n.terminal}, score : {n.score, z},
                       visits : {n.visits}, value : {n.value}, expanded : {n.expanded}]
  <1>1. n \in Nodes
    BY DEF Shaped
  <1>2. m \in Nodes
    BY <1>1
  <1> QED BY <1>2 DEF Shaped

LEMMA NodeReached ==
  ASSUME NEW n, Shaped(n), NEW z, NEW m, m = [n EXCEPT !.state = z]
  PROVE  Shaped(m) /\ m.state = z
  <1> DEFINE Nodes == [state : {n.state, z}, reward : {n.reward}, terminal : {n.terminal}, score : {n.score},
                       visits : {n.visits}, value : {n.value}, expanded : {n.expanded}]
  <1>1. n \in Nodes
    BY DEF Shaped
  <1>2. m \in Nodes /\ m.state = z
    BY <1>1
  <1> QED BY <1>2 DEF Shaped

LEMMA NewNode ==
  ASSUME NEW state, NEW reward, NEW terminal, NEW score
  PROVE  /\ Shaped(Search!Node(state, reward, terminal, score))
         /\ Search!Node(state, reward, terminal, score).state = state
  BY DEF Shaped, Search!Node

LEMMA ChildPath ==
  ASSUME NEW path \in Seq(Search!Action), NEW a \in Search!Action
  PROVE  /\ Append(path, a) \in Seq(Search!Action) /\ Append(path, a) # <<>>
         /\ Append(path, a)[Len(Append(path, a))] = a
         /\ Search!Parent(Append(path, a)) = path
  <1>1. /\ Append(path, a) \in Seq(Search!Action) /\ Append(path, a) # <<>>
        /\ Len(Append(path, a)) = Len(path) + 1 /\ Append(path, a)[Len(path) + 1] = a
        /\ \A i \in 1..Len(path) : Append(path, a)[i] = path[i]
    BY AppendProperties
  <1>2. SubSeq(Append(path, a), 1, Len(path)) = path
    BY <1>1
  <1>3. Len(path) + 1 - 1 = Len(path)
    OBVIOUS
  <1> QED BY <1>1, <1>2, <1>3 DEF Search!Parent

\* A backup keeps the states of the nodes.
LEMMA BackupRoots ==
  ASSUME SearchInv, NEW nodes, NEW path, Search!Backup(nodes, path),
         DOMAIN nodes \subseteq Seq(Search!Action), <<>> \in DOMAIN nodes,
         \A p \in DOMAIN nodes : Shaped(nodes[p]) /\ nodes[p].state \in Seq(Search!Action),
         \A p \in DOMAIN nodes \ {<<>>} :
           /\ Search!Parent(p) \in DOMAIN nodes
           /\ nodes[p].state \in {nodes[Search!Parent(p)].state, Append(nodes[Search!Parent(p)].state, p[Len(p)])}
  PROVE  SearchInv'
  <1>1. /\ DOMAIN tree' = DOMAIN nodes
        /\ \A p \in DOMAIN nodes : Shaped(tree'[p]) /\ tree'[p].state = nodes[p].state
    <2>1. DOMAIN tree' = DOMAIN nodes
      BY DEF Search!Backup
    <2>2. ASSUME NEW p \in DOMAIN nodes
          PROVE  Shaped(tree'[p]) /\ tree'[p].state = nodes[p].state
      <3> DEFINE onPath == p \in {SubSeq(path, 1, i) : i \in 0..Len(path)}
      <3>1. tree'[p] = IF onPath
                         THEN [nodes[p] EXCEPT !.visits = @ + 1, !.value = @ + Search!ValueAt(nodes, path, Len(p))]
                         ELSE nodes[p]
        BY DEF Search!Backup
      <3> HIDE DEF onPath
      <3>2. Shaped(nodes[p])
        BY <2>2
      <3>3. CASE onPath
        <4> DEFINE x == nodes[p].visits + 1
                   y == nodes[p].value + Search!ValueAt(nodes, path, Len(p))
        <4>1. tree'[p] = [nodes[p] EXCEPT !.visits = x, !.value = y]
          BY <3>1, <3>3
        <4> HIDE DEF x, y
        <4> DEFINE n == nodes[p]
                   m == tree'[p]
        <4>2. Shaped(n) /\ m = [n EXCEPT !.visits = x, !.value = y]
          BY <3>2, <4>1
        <4> HIDE DEF n, m
        <4> DEFINE Nodes == [state : {n.state}, reward : {n.reward}, terminal : {n.terminal}, score : {n.score},
                             visits : {n.visits, x}, value : {n.value, y}, expanded : {n.expanded}]
        <4>3. n \in Nodes
          BY <4>2 DEF Shaped
        <4>4. m \in Nodes
          BY <4>2, <4>3
        <4>5. Shaped(m) /\ m.state = n.state
          BY <4>4 DEF Shaped
        <4> QED BY <4>5 DEF n, m
      <3>4. CASE ~ onPath
        BY <3>1, <3>2, <3>4
      <3> QED BY <3>3, <3>4
    <2> QED BY <2>1, <2>2
  <1>2. /\ here' = <<>> /\ at' = "select" /\ candidates' = {} /\ made' = <<>> /\ session' = session
    BY DEF Search!Backup
  <1>3. Rooted'
    BY <1>1, <1>2 DEF Rooted
  <1>4. Tried'
    BY <1>2 DEF Tried
  <1>5. SessionRestored'
    BY <1>2 DEF SearchInv, SessionRestored
  <1>6. Search!BranchesIsolated'
    BY <1>1 DEF Search!BranchesIsolated
  <1> QED BY <1>3, <1>4, <1>5, <1>6 DEF SearchInv

\* The session and the transitions are all that a step changes.
LEMMA TreeRests ==
  ASSUME SearchInv, tree' = tree, here' = here
  PROVE  Rooted' /\ Search!BranchesIsolated' /\ \A a : Branch(a)' = Branch(a)
  BY DEF SearchInv, Rooted, Search!BranchesIsolated, Search!Parent, Branch

LEMMA SearchInit == Search!Init => SearchInv
  <1> SUFFICES ASSUME Search!Init PROVE SearchInv
    OBVIOUS
  <1>1. PICK score \in Score : tree = [path \in {<<>>} |-> Search!Node(<<>>, 0, FALSE, score)]
    BY DEF Search!Init
  <1>2. /\ session = [state |-> <<>>, late |-> {}] /\ at = "select" /\ here = <<>>
        /\ candidates = {} /\ made = <<>>
    BY DEF Search!Init
  <1>3. <<>> \in Seq(Search!Action)
    OBVIOUS
  <1>4. Rooted
    <2> DEFINE root == Search!Node(<<>>, 0, FALSE, score)
    <2>1. Shaped(root) /\ root.state = <<>>
      BY NewNode
    <2> HIDE DEF root
    <2>2. DOMAIN tree = {<<>>} /\ tree[<<>>] = root
      BY <1>1 DEF root
    <2> QED BY <1>2, <1>3, <2>1, <2>2 DEF Rooted
  <1>5. Tried
    BY <1>2 DEF Tried
  <1>6. SessionRestored
    BY <1>2, <1>3 DEF SessionRestored, Search!Session
  <1>7. Search!BranchesIsolated
    BY <1>1 DEF Search!BranchesIsolated
  <1> QED BY <1>4, <1>5, <1>6, <1>7 DEF SearchInv

LEMMA SearchSteps ==
  ASSUME Search!SearchAssumption, SearchInv, [Search!Next]_Search!vars
  PROVE  SearchInv'
  <1>1. CASE UNCHANGED Search!vars
    BY <1>1, TreeRests DEF Search!vars, SearchInv, Tried, SessionRestored, Search!Session
  <1>2. CASE Search!SelectChild
    <2>1. PICK a \in Search!Action : Append(here, a) \in DOMAIN tree /\ here' = Append(here, a)
      BY <1>2 DEF Search!SelectChild, Search!Children
    <2>2. tree' = tree /\ session' = session /\ at = "select" /\ at' = "select" /\ candidates' = candidates /\ made' = made
      BY <1>2 DEF Search!SelectChild
    <2>3. Rooted'
      BY <2>1, <2>2 DEF SearchInv, Rooted, Search!Parent
    <2>4. Tried' /\ SessionRestored'
      BY <2>2 DEF SearchInv, Tried, SessionRestored
    <2>5. Search!BranchesIsolated'
      BY <2>2 DEF SearchInv, Search!BranchesIsolated, Search!Parent
    <2> QED BY <2>3, <2>4, <2>5 DEF SearchInv
  <1>3. CASE Search!RevisitLeaf
    <2>1. Search!Backup(tree, here)
      BY <1>3 DEF Search!RevisitLeaf
    <2> QED BY <2>1, BackupRoots DEF SearchInv, Rooted, Search!BranchesIsolated
  <1>4. CASE Search!Propose
    <2>1. CASE Search!Backup([tree EXCEPT ![here].expanded = TRUE], here)
      <3> DEFINE nodes == [tree EXCEPT ![here].expanded = TRUE]
      <3>1. /\ DOMAIN nodes = DOMAIN tree
            /\ \A p \in DOMAIN tree : nodes[p] = IF p = here THEN [tree[p] EXCEPT !.expanded = TRUE] ELSE tree[p]
        BY DEF SearchInv, Rooted
      <3>2. Search!Backup(nodes, here)
        BY <2>1
      <3> HIDE DEF nodes
      <3>3. \A p \in DOMAIN tree : Shaped(nodes[p]) /\ nodes[p].state = tree[p].state
        <4>1. ASSUME NEW p \in DOMAIN tree
              PROVE  Shaped(nodes[p]) /\ nodes[p].state = tree[p].state
          <5>1. Shaped(tree[p])
            BY DEF SearchInv, Rooted
          <5>2. CASE p = here
            <6>1. nodes[p] = [tree[p] EXCEPT !.expanded = TRUE]
              BY <3>1, <5>2
            <6> QED BY <5>1, <6>1, NodeExpands
          <5>3. CASE p # here
            BY <3>1, <5>1, <5>3
          <5> QED BY <5>2, <5>3
        <4> QED BY <4>1
      <3> QED BY <3>1, <3>2, <3>3, BackupRoots DEF SearchInv, Rooted, Search!BranchesIsolated
    <2>2. CASE \E proposed \in Search!Proposals :
                 /\ candidates' = proposed /\ at' = "expand"
                 /\ UNCHANGED <<tree, session, here, made, budget, done>>
      <3>1. at = "select" /\ candidates' \subseteq Search!Action
        BY <1>4, <2>2 DEF Search!Propose, Search!Proposals
      <3> QED BY <2>2, <3>1, TreeRests DEF SearchInv, Tried, SessionRestored
    <2> QED BY <1>4, <2>1, <2>2 DEF Search!Propose
  <1>5. CASE Search!BeginTransition
    <2>1. /\ session' = [state |-> tree[here].state, late |-> {}] /\ at = "expand" /\ at' = "execute"
          /\ tree' = tree /\ here' = here /\ candidates' = candidates /\ made' = made
      BY <1>5 DEF Search!BeginTransition, Search!Restore
    <2>2. tree[here].state \in Seq(Search!Action)
      BY DEF SearchInv, Rooted
    <2>3. SessionRestored'
      BY <2>1, <2>2 DEF SessionRestored, Search!Session
    <2>4. Tried'
      BY <2>1, TreeRests DEF SearchInv, Tried
    <2> QED BY <2>1, <2>3, <2>4, TreeRests DEF SearchInv
  <1>6. ASSUME NEW a \in Search!Action, NEW ok \in BOOLEAN, Search!Try(a, ok)
        PROVE  SearchInv'
    <2>1. /\ at = "execute" /\ at' = "snapshot" /\ tree' = tree /\ here' = here /\ a \in candidates
          /\ candidates' = candidates \ {a} /\ session = [state |-> tree[here].state, late |-> {}]
      BY <1>6 DEF Search!Try, SearchInv, SessionRestored
    <2>2. \/ session' = [session EXCEPT !.state = Append(@, a)]
          \/ session' = [session EXCEPT !.late = @ \cup {a}]
          \/ session' = session
      BY <1>6 DEF Search!Try, Search!Execute
    <2>3. PICK new :
            /\ Shaped(new) /\ new.state = "unknown"
            /\ made' = [b \in DOMAIN made \cup {a} |-> IF b = a THEN new ELSE made[b]]
      BY <1>6, NewNode DEF Search!Try
    <2>4. \A b \in DOMAIN made : Shaped(made[b]) /\ made[b].state \in Branch(b)
      BY <2>1 DEF SearchInv, Tried
    <2>5. /\ tree[here].state \in Seq(Search!Action)
          /\ \A b \in Search!Action : Append(tree[here].state, b) \in Seq(Search!Action)
      BY AppendProperties DEF SearchInv, Rooted
    <2>6. \A b \in DOMAIN made : made[b].state # "unknown"
      BY <2>4, <2>5 DEF Branch, SearchInv, Tried, Search!SearchAssumption
    <2>7. Tried'
      BY <2>1, <2>3, <2>4, TreeRests DEF SearchInv, Tried
    <2>8. /\ session' \in Search!Session
          /\ \/ session'.state = tree[here].state /\ session'.late \subseteq {a}
             \/ session'.state = Append(tree[here].state, a) /\ session'.late = {}
      <3>1. session \in Search!Session /\ session.state = tree[here].state /\ session.late = {}
        BY <2>1 DEF SearchInv, SessionRestored
      <3>2. CASE session' = [session EXCEPT !.state = Append(@, a)]
        <4>1. session'.state = Append(tree[here].state, a) /\ session'.late = {}
          BY <3>1, <3>2 DEF Search!Session
        <4>2. session' \in Search!Session
          BY <2>5, <3>1, <3>2, <4>1 DEF Search!Session
        <4> QED BY <4>1, <4>2
      <3>3. CASE session' = [session EXCEPT !.late = @ \cup {a}]
        BY <3>1, <3>3 DEF Search!Session
      <3>4. CASE session' = session
        BY <3>1, <3>4
      <3> QED BY <2>2, <3>2, <3>3, <3>4
    <2>9. SessionRestored'
      BY <2>1, <2>3, <2>6, <2>8 DEF SessionRestored, Search!Session
    <2> QED BY <2>1, <2>7, <2>9, TreeRests DEF SearchInv
  <1>7. ASSUME NEW a \in Search!Action, Search!LateEffect(a)
        PROVE  SearchInv'
    <2>1. /\ a \in session.late /\ session' = [state |-> Append(session.state, a), late |-> session.late \ {a}]
          /\ tree' = tree /\ at' = at /\ here' = here /\ candidates' = candidates /\ made' = made
      BY <1>7 DEF Search!LateEffect
    <2>2. session' \in Search!Session
      BY <2>1, AppendProperties DEF SearchInv, SessionRestored, Search!Session
    <2>3. session'.state = Append(session.state, a) /\ session'.late = session.late \ {a}
      BY <2>1
    <2>4. ASSUME at = "snapshot"
          PROVE  \E b \in DOMAIN made :
                   /\ \A c \in DOMAIN made : made[c].state = "unknown" => c = b
                   /\ session'.state = Append(tree[here].state, b) /\ session'.late = {}
      BY <2>1, <2>3, <2>4 DEF SearchInv, SessionRestored
    <2>5. at # "execute"
      BY <2>1 DEF SearchInv, SessionRestored
    <2>6. SessionRestored'
      BY <2>1, <2>2, <2>4, <2>5 DEF SessionRestored
    <2>7. Tried'
      BY <2>1, TreeRests DEF SearchInv, Tried
    <2> QED BY <2>1, <2>6, <2>7, TreeRests DEF SearchInv
  <1>8. CASE Search!EndTransition
    <2>1. /\ at = "snapshot" /\ at' \in {"score", "expand"} /\ tree' = tree /\ here' = here
          /\ session' = session /\ candidates' = candidates
          /\ made' = [b \in DOMAIN made |->
               IF made[b].state = "unknown" THEN [made[b] EXCEPT !.state = session.state] ELSE made[b]]
      BY <1>8 DEF Search!EndTransition
    <2>2. PICK a \in DOMAIN made :
            /\ \A b \in DOMAIN made : made[b].state = "unknown" => b = a
            /\ session.state \in {tree[here].state, Append(tree[here].state, a)}
      BY <2>1 DEF SearchInv, SessionRestored
    <2>3. \A b \in DOMAIN made : Shaped(made'[b]) /\ made'[b].state \in Branch(b)
      <3> SUFFICES ASSUME NEW b \in DOMAIN made
                   PROVE  Shaped(made'[b]) /\ made'[b].state \in Branch(b)
        OBVIOUS
      <3>1. Shaped(made[b]) /\ (made[b].state \in Branch(b) \/ made[b].state = "unknown")
        BY <2>1 DEF SearchInv, Tried
      <3>2. CASE made[b].state = "unknown"
        <4>1. made'[b] = [made[b] EXCEPT !.state = session.state] /\ b = a
          BY <2>1, <2>2, <3>2
        <4>2. Shaped(made'[b]) /\ made'[b].state = session.state
          BY <3>1, <4>1, NodeReached
        <4> QED BY <2>2, <4>1, <4>2 DEF Branch
      <3>3. CASE made[b].state # "unknown"
        BY <2>1, <3>1, <3>3
      <3> QED BY <3>2, <3>3
    <2>4. Tried'
      BY <2>1, <2>3, TreeRests DEF SearchInv, Tried
    <2>5. SessionRestored'
      BY <2>1 DEF SearchInv, SessionRestored
    <2> QED BY <2>1, <2>4, <2>5, TreeRests DEF SearchInv
  <1>9. CASE Search!Expand
    <2>1. PICK scores \in [DOMAIN made -> Score] :
            \E viable \in Search!Viable(scores) : \E a \in viable :
              Search!Backup(
                [p \in DOMAIN tree \cup {Append(here, b) : b \in viable} |->
                   IF p = here THEN [tree[p] EXCEPT !.expanded = TRUE]
                   ELSE IF p \in DOMAIN tree THEN tree[p]
                   ELSE LET b == p[Len(p)] IN [made[b] EXCEPT !.score = scores[b]]],
                Append(here, a))
      BY <1>9 DEF Search!Expand
    <2>a. PICK viable \in Search!Viable(scores) : \E a \in viable :
              Search!Backup(
                [p \in DOMAIN tree \cup {Append(here, b) : b \in viable} |->
                   IF p = here THEN [tree[p] EXCEPT !.expanded = TRUE]
                   ELSE IF p \in DOMAIN tree THEN tree[p]
                   ELSE LET b == p[Len(p)] IN [made[b] EXCEPT !.score = scores[b]]],
                Append(here, a))
      BY <2>1
    <2>2. PICK a \in viable :
              Search!Backup(
                [p \in DOMAIN tree \cup {Append(here, b) : b \in viable} |->
                   IF p = here THEN [tree[p] EXCEPT !.expanded = TRUE]
                   ELSE IF p \in DOMAIN tree THEN tree[p]
                   ELSE LET b == p[Len(p)] IN [made[b] EXCEPT !.score = scores[b]]],
                Append(here, a))
      BY <2>a
    <2> DEFINE nodes == [p \in DOMAIN tree \cup {Append(here, b) : b \in viable} |->
                   IF p = here THEN [tree[p] EXCEPT !.expanded = TRUE]
                   ELSE IF p \in DOMAIN tree THEN tree[p]
                   ELSE LET b == p[Len(p)] IN [made[b] EXCEPT !.score = scores[b]]]
    <2>3. viable \subseteq DOMAIN made
      BY DEF Search!Viable
    <2>4. /\ here \in Seq(Search!Action) /\ here \in DOMAIN tree /\ DOMAIN tree \subseteq Seq(Search!Action)
          /\ viable \subseteq Search!Action
          /\ \A p \in DOMAIN tree : Shaped(tree[p]) /\ tree[p].state \in Seq(Search!Action)
          /\ \A b \in viable : Shaped(made[b]) /\ made[b].state \in Branch(b)
      BY <1>9, <2>3 DEF Search!Expand, SearchInv, Rooted, Tried
    <2>5. \A b \in viable : /\ Append(here, b) \in Seq(Search!Action) /\ Append(here, b) # <<>>
                            /\ Append(here, b)[Len(Append(here, b))] = b
                            /\ Search!Parent(Append(here, b)) = here
      BY <2>4, ChildPath
    <2>6. DOMAIN nodes = DOMAIN tree \cup {Append(here, b) : b \in viable}
      OBVIOUS
    <2>7. \A p \in DOMAIN tree : Shaped(nodes[p]) /\ nodes[p].state = tree[p].state
      <3>1. \A p \in DOMAIN tree : nodes[p] = IF p = here THEN [tree[p] EXCEPT !.expanded = TRUE] ELSE tree[p]
        BY <2>6
      <3> HIDE DEF nodes
      <3>2. ASSUME NEW p \in DOMAIN tree
            PROVE  Shaped(nodes[p]) /\ nodes[p].state = tree[p].state
        <4>1. Shaped(tree[p])
          BY <2>4
        <4>2. CASE p = here
          <5>1. nodes[p] = [tree[p] EXCEPT !.expanded = TRUE]
            BY <3>1, <4>2
          <5> QED BY <4>1, <5>1, NodeExpands
        <4>3. CASE p # here
          BY <3>1, <4>1, <4>3
        <4> QED BY <4>2, <4>3
      <3> QED BY <3>2
    <2>8. ASSUME NEW b \in viable, Append(here, b) \notin DOMAIN tree
          PROVE  Shaped(nodes[Append(here, b)]) /\ nodes[Append(here, b)].state \in Branch(b)
      <3>1. nodes[Append(here, b)] = [made[b] EXCEPT !.score = scores[b]]
        BY <2>4, <2>5, <2>6, <2>8
      <3>2. Shaped(made[b]) /\ made[b].state \in Branch(b)
        BY <2>4
      <3> HIDE DEF nodes
      <3> QED BY <3>1, <3>2, NodeScored
    <2>9. Search!Backup(nodes, Append(here, a))
      BY <2>2
    <2> HIDE DEF nodes
    <2>10. \A b \in viable : Branch(b) \subseteq Seq(Search!Action)
      BY <2>4, AppendProperties DEF Branch
    <2>11. /\ DOMAIN nodes \subseteq Seq(Search!Action) /\ <<>> \in DOMAIN nodes
           /\ \A p \in DOMAIN nodes : Shaped(nodes[p]) /\ nodes[p].state \in Seq(Search!Action)
      <3>1. <<>> \in DOMAIN nodes
        BY <2>6 DEF SearchInv, Rooted
      <3>2. ASSUME NEW p \in DOMAIN nodes
            PROVE  p \in Seq(Search!Action) /\ Shaped(nodes[p]) /\ nodes[p].state \in Seq(Search!Action)
        <4>1. CASE p \in DOMAIN tree
          BY <2>4, <2>7, <4>1
        <4>2. CASE p \notin DOMAIN tree
          <5>1. PICK b \in viable : p = Append(here, b)
            BY <2>6, <3>2, <4>2
          <5> QED BY <2>5, <2>8, <2>10, <4>2, <5>1
        <4> QED BY <4>1, <4>2
      <3> QED BY <3>1, <3>2
    <2>12. ASSUME NEW p \in DOMAIN nodes \ {<<>>}
           PROVE  /\ Search!Parent(p) \in DOMAIN nodes
                  /\ nodes[p].state \in {nodes[Search!Parent(p)].state, Append(nodes[Search!Parent(p)].state, p[Len(p)])}
      <3>1. CASE p \in DOMAIN tree
        <4>1. Search!Parent(p) \in DOMAIN tree
          BY <3>1 DEF SearchInv, Rooted
        <4>2. tree[p].state \in {tree[Search!Parent(p)].state, Append(tree[Search!Parent(p)].state, p[Len(p)])}
          BY <3>1 DEF SearchInv, Search!BranchesIsolated
        <4> QED BY <2>6, <2>7, <3>1, <4>1, <4>2
      <3>2. CASE p \notin DOMAIN tree
        <4>1. PICK b \in viable : p = Append(here, b)
          BY <2>6, <3>2
        <4>2. Search!Parent(p) = here /\ p[Len(p)] = b
          BY <2>5, <4>1
        <4>3. nodes[here].state = tree[here].state /\ here \in DOMAIN nodes
          BY <2>4, <2>6, <2>7
        <4>4. nodes[p].state \in {tree[here].state, Append(tree[here].state, b)}
          BY <2>8, <3>2, <4>1 DEF Branch
        <4> QED BY <4>2, <4>3, <4>4
      <3> QED BY <3>1, <3>2
    <2> QED BY <2>9, <2>11, <2>12, BackupRoots
  <1>10. CASE Search!Finish \/ Search!Fail
    <2>1. /\ tree' = tree /\ here' = here /\ session' = session /\ candidates' = candidates /\ made' = made
          /\ at' = "raised" \/ (at = "select" /\ at' = "found")
      BY <1>10 DEF Search!Finish, Search!Fail
    <2> QED BY <2>1, TreeRests DEF SearchInv, Tried, SessionRestored
  <1> QED BY <1>1, <1>2, <1>3, <1>4, <1>5, <1>6, <1>7, <1>8, <1>9, <1>10 DEF Search!Next

LEMMA SearchIsolated ==
  ASSUME Search!SearchAssumption PROVE Search!Spec => []Search!BranchesIsolated
  <1>1. Search!Init => SearchInv
    BY SearchInit
  <1>2. SearchInv /\ [Search!Next]_Search!vars => SearchInv'
    BY SearchSteps
  <1>3. SearchInv => Search!BranchesIsolated
    BY DEF SearchInv
  <1> QED BY <1>1, <1>2, <1>3, PTL DEF Search!Spec

-----------------------------------------------------------------------------
(* Sums over finite sets.                                                   *)

Total(base, f, S) == Search!FoldFunctionOnSet(+, base, f, S)

\* h holds the partial sums of the fold, which takes the elements in the order of CHOOSE.
First(s) == CHOOSE x \in s : TRUE
Totals(h, base, f, S) ==
  h = [s \in SUBSET S |-> IF s = {} THEN base ELSE f[First(s)] + h[s \ {First(s)}]]

\* The fold of the community modules, which chooses a function of partial sums.
LEMMA TotalDef ==
  ASSUME NEW base, NEW f, NEW S
  PROVE  Total(base, f, S) = (CHOOSE h : Totals(h, base, f, S))[S]
  BY DEF Total, Search!FoldFunctionOnSet, Search!MapThenFoldSet, Totals, First

\* Induction over the subsets of a finite set: what holds of a set when it holds of
\* the smaller ones within it holds of all.
LEMMA SubsetInduction ==
  ASSUME NEW S, IsFiniteSet(S), NEW P,
         \A s \in SUBSET S : (\A t \in SUBSET s : t # s => t \in P) => s \in P
  PROVE  SUBSET S \subseteq P
  <1> SUFFICES ASSUME (SUBSET S) \ P # {} PROVE FALSE
    OBVIOUS
  <1> DEFINE Sizes == {Cardinality(s) : s \in (SUBSET S) \ P}
  <1>1. \A s \in SUBSET S : IsFiniteSet(s) /\ Cardinality(s) \in Nat
    BY FS_Subset, FS_CardinalityType
  <1>2. PICK n \in Sizes : \A m \in Sizes : n <= m
    <2>1. Sizes \subseteq Nat /\ Sizes # {}
      BY <1>1
    <2> QED BY <2>1, Least
  <1>3. PICK s \in (SUBSET S) \ P : n = Cardinality(s)
    BY <1>2
  <1>4. ASSUME NEW t \in SUBSET s, t # s PROVE t \in P
    <2>1. Cardinality(t) < Cardinality(s)
      BY <1>1, <1>4, FS_Subset
    <2>2. t \notin P => Cardinality(t) \in Sizes
      OBVIOUS
    <2>3. Cardinality(t) \in Nat /\ Cardinality(s) \in Nat
      BY <1>1
    <2> QED BY <1>2, <1>3, <2>1, <2>2, <2>3
  <1> QED BY <1>3, <1>4

LEMMA FirstIn == ASSUME NEW s, s # {} PROVE First(s) \in s
  BY DEF First

\* What the sums within a set are does not depend on the set they are made for.
LEMMA TotalsAgree ==
  ASSUME NEW base, NEW f, NEW S, NEW T, NEW U, NEW g, NEW h,
         Totals(g, base, f, S), Totals(h, base, f, T), U \subseteq S, U \subseteq T, IsFiniteSet(U)
  PROVE  g[U] = h[U]
  <1> DEFINE P == {u \in SUBSET U : g[u] = h[u]}
  <1>1. \A u \in SUBSET U : /\ g[u] = IF u = {} THEN base ELSE f[First(u)] + g[u \ {First(u)}]
                            /\ h[u] = IF u = {} THEN base ELSE f[First(u)] + h[u \ {First(u)}]
    <2>1. \A u \in SUBSET S : g[u] = IF u = {} THEN base ELSE f[First(u)] + g[u \ {First(u)}]
      BY DEF Totals
    <2>2. \A u \in SUBSET T : h[u] = IF u = {} THEN base ELSE f[First(u)] + h[u \ {First(u)}]
      BY DEF Totals
    <2> QED BY <2>1, <2>2
  <1>2. ASSUME NEW u \in SUBSET U, \A t \in SUBSET u : t # u => t \in P
        PROVE  u \in P
    <2>1. CASE u = {}
      BY <1>1, <2>1
    <2>2. CASE u # {}
      <3>1. u \ {First(u)} \in SUBSET u /\ u \ {First(u)} # u
        BY <2>2, FirstIn
      <3>2. g[u \ {First(u)}] = h[u \ {First(u)}]
        BY <1>2, <3>1
      <3> QED BY <1>1, <2>2, <3>2
    <2> QED BY <2>1, <2>2
  <1> HIDE DEF P
  <1>3. SUBSET U \subseteq P
    BY <1>2, SubsetInduction
  <1> QED BY <1>3 DEF P

\* There are partial sums: those of the smaller sets are put together.
LEMMA TotalsExist ==
  ASSUME NEW base, NEW f, NEW S, IsFiniteSet(S)
  PROVE  \E h : Totals(h, base, f, S)
  <1> DEFINE P == {s \in SUBSET S : \E h : Totals(h, base, f, s)}
             H(s) == CHOOSE h : Totals(h, base, f, s)
  <1>1. ASSUME NEW s \in SUBSET S, \A t \in SUBSET s : t # s => t \in P
        PROVE  s \in P
    <2> DEFINE rest(u) == u \ {First(u)}
               g == [u \in SUBSET s |-> IF u = {} THEN base ELSE f[First(u)] + H(rest(u))[rest(u)]]
    <2>1. \A t \in SUBSET s : t # s => Totals(H(t), base, f, t)
      BY <1>1
    <2>2. \A u \in SUBSET s : u # {} => rest(u) \in SUBSET s /\ rest(u) # s
      BY FirstIn
    <2>3. ASSUME NEW u \in SUBSET s, u # {}
          PROVE  H(rest(u))[rest(u)] = g[rest(u)]
      <3> DEFINE t == rest(u)
      <3>1. t \in SUBSET s /\ t # s /\ Totals(H(t), base, f, t)
        BY <2>1, <2>2, <2>3
      <3>2. H(t)[t] = IF t = {} THEN base ELSE f[First(t)] + H(t)[rest(t)]
        <4>1. \A h : Totals(h, base, f, t) =>
                     h[t] = IF t = {} THEN base ELSE f[First(t)] + h[t \ {First(t)}]
          BY DEF Totals
        <4> HIDE DEF H
        <4> QED BY <3>1, <4>1
      <3>3. CASE t = {}
        BY <3>1, <3>2, <3>3
      <3>4. CASE t # {}
        <4>1. /\ rest(t) \in SUBSET s /\ rest(t) # s /\ rest(t) \subseteq t
              /\ Totals(H(rest(t)), base, f, rest(t)) /\ IsFiniteSet(rest(t))
          BY <2>1, <2>2, <3>1, <3>4, FS_Subset
        <4> HIDE DEF H
        <4>2. H(t)[rest(t)] = H(rest(t))[rest(t)]
          BY <3>1, <4>1, TotalsAgree
        <4> QED BY <3>1, <3>2, <3>4, <4>2
      <3> QED BY <3>3, <3>4
    <2>4. Totals(g, base, f, s)
      <3> HIDE DEF H
      <3>1. g = [u \in SUBSET s |-> IF u = {} THEN base ELSE f[First(u)] + g[u \ {First(u)}]]
        BY <2>3
      <3> HIDE DEF g
      <3> QED BY <3>1 DEF Totals
    <2> QED BY <2>4
  <1> HIDE DEF P
  <1>2. SUBSET S \subseteq P
    BY <1>1, SubsetInduction
  <1> QED BY <1>2 DEF P

\* The fold of a finite set: of the empty one, and of another one the element that
\* is taken and what is left.
LEMMA TotalUnfolds ==
  ASSUME NEW base, NEW f, NEW S, IsFiniteSet(S)
  PROVE  /\ S = {} => Total(base, f, S) = base
         /\ S # {} => Total(base, f, S) = f[First(S)] + Total(base, f, S \ {First(S)})
  <1> DEFINE T == S \ {First(S)}
             g == CHOOSE h : Totals(h, base, f, S)
             h == CHOOSE h : Totals(h, base, f, T)
  <1>1. IsFiniteSet(T)
    BY FS_Subset
  <1>2. Totals(g, base, f, S) /\ Totals(h, base, f, T)
    BY <1>1, TotalsExist
  <1>3. Total(base, f, S) = g[S] /\ Total(base, f, T) = h[T]
    BY TotalDef
  <1> HIDE DEF g, h
  <1>4. g[T] = h[T]
    BY <1>1, <1>2, TotalsAgree
  <1>5. g[S] = IF S = {} THEN base ELSE f[First(S)] + g[T]
    BY <1>2 DEF Totals
  <1> QED BY <1>3, <1>4, <1>5

LEMMA TotalIsInt ==
  ASSUME NEW base \in Int, NEW f, NEW S, IsFiniteSet(S), \A x \in S : f[x] \in Int
  PROVE  Total(base, f, S) \in Int
  <1> DEFINE P == {s \in SUBSET S : Total(base, f, s) \in Int}
  <1>1. ASSUME NEW s \in SUBSET S, \A t \in SUBSET s : t # s => t \in P
        PROVE  s \in P
    <2>1. IsFiniteSet(s)
      BY FS_Subset
    <2>2. CASE s = {}
      BY <2>1, <2>2, TotalUnfolds
    <2>3. CASE s # {}
      <3>1. First(s) \in s /\ s \ {First(s)} \in SUBSET s /\ s \ {First(s)} # s
        BY <2>3, FirstIn
      <3>2. Total(base, f, s) = f[First(s)] + Total(base, f, s \ {First(s)})
        BY <2>1, <2>3, TotalUnfolds
      <3> QED BY <1>1, <3>1, <3>2
    <2> QED BY <2>2, <2>3
  <1> HIDE DEF P
  <1>2. SUBSET S \subseteq P
    BY <1>1, SubsetInduction
  <1> QED BY <1>2 DEF P

\* Any element can be taken first.
LEMMA TotalTakes ==
  ASSUME NEW base \in Int, NEW f, NEW S, IsFiniteSet(S), \A x \in S : f[x] \in Int, NEW x \in S
  PROVE  Total(base, f, S) = f[x] + Total(base, f, S \ {x})
  <1> DEFINE P == {s \in SUBSET S : \A y \in s : Total(base, f, s) = f[y] + Total(base, f, s \ {y})}
  <1>1. ASSUME NEW s \in SUBSET S, \A t \in SUBSET s : t # s => t \in P, NEW y \in s
        PROVE  Total(base, f, s) = f[y] + Total(base, f, s \ {y})
    <2> DEFINE z == First(s)
    <2>1. IsFiniteSet(s) /\ z \in s
      BY FS_Subset, FirstIn
    <2> HIDE DEF z
    <2>2. Total(base, f, s) = f[z] + Total(base, f, s \ {z})
      BY <2>1, TotalUnfolds DEF z
    <2>3. CASE y = z
      BY <2>2, <2>3
    <2>4. CASE y # z
      <3>1. s \ {z} \in P /\ s \ {y} \in P
        BY <1>1, <2>1
      <3>2. Total(base, f, s \ {z}) = f[y] + Total(base, f, (s \ {z}) \ {y})
        BY <3>1, <2>4
      <3>3. Total(base, f, s \ {y}) = f[z] + Total(base, f, (s \ {y}) \ {z})
        BY <3>1, <2>1, <2>4
      <3>4. (s \ {z}) \ {y} = (s \ {y}) \ {z}
        OBVIOUS
      <3>5. Total(base, f, (s \ {y}) \ {z}) \in Int
        <4>1. IsFiniteSet((s \ {y}) \ {z}) /\ \A w \in (s \ {y}) \ {z} : f[w] \in Int
          BY FS_Subset
        <4> QED BY <4>1, TotalIsInt
      <3>6. f[y] \in Int /\ f[z] \in Int
        BY <2>1
      <3> DEFINE rest == Total(base, f, (s \ {y}) \ {z})
      <3>7. /\ Total(base, f, s) = f[z] + (f[y] + rest)
            /\ Total(base, f, s \ {y}) = f[z] + rest
        BY <2>2, <3>2, <3>3, <3>4
      <3> HIDE DEF P, rest
      <3>8. rest \in Int
        BY <3>5 DEF rest
      <3> QED BY <3>6, <3>7, <3>8
    <2> QED BY <2>3, <2>4
  <1>2. \A s \in SUBSET S : (\A t \in SUBSET s : t # s => t \in P) => s \in P
    <2> SUFFICES ASSUME NEW s \in SUBSET S, \A t \in SUBSET s : t # s => t \in P PROVE s \in P
      OBVIOUS
    <2> QED BY <1>1
  <1> HIDE DEF P
  <1>3. SUBSET S \subseteq P
    BY <1>2, SubsetInduction
  <1>4. S \in P
    BY <1>3
  <1> QED BY <1>4 DEF P

\* Functions that agree on a set have the same sum over it.
LEMMA TotalsSame ==
  ASSUME NEW base, NEW f, NEW g, NEW S, IsFiniteSet(S), \A x \in S : f[x] = g[x]
  PROVE  Total(base, f, S) = Total(base, g, S)
  <1> DEFINE P == {s \in SUBSET S : Total(base, f, s) = Total(base, g, s)}
  <1>1. ASSUME NEW s \in SUBSET S, \A t \in SUBSET s : t # s => t \in P
        PROVE  s \in P
    <2>1. IsFiniteSet(s)
      BY FS_Subset
    <2>2. CASE s = {}
      <3>1. Total(base, f, s) = base
        BY <2>1, <2>2, TotalUnfolds
      <3>2. Total(base, g, s) = base
        BY <2>1, <2>2, TotalUnfolds
      <3> QED BY <3>1, <3>2
    <2>3. CASE s # {}
      <3>1. First(s) \in s /\ s \ {First(s)} \in SUBSET s /\ s \ {First(s)} # s
        BY <2>3, FirstIn
      <3>2. Total(base, f, s) = f[First(s)] + Total(base, f, s \ {First(s)})
        BY <2>1, <2>3, TotalUnfolds
      <3>3. Total(base, g, s) = g[First(s)] + Total(base, g, s \ {First(s)})
        BY <2>1, <2>3, TotalUnfolds
      <3> QED BY <1>1, <3>1, <3>2, <3>3
    <2> QED BY <2>2, <2>3
  <1> HIDE DEF P
  <1>2. SUBSET S \subseteq P
    BY <1>1, SubsetInduction
  <1> QED BY <1>2 DEF P

\* One that differs in an element has a sum that differs by as much.
LEMMA TotalDiffers ==
  ASSUME NEW base \in Int, NEW f, NEW g, NEW S, IsFiniteSet(S), NEW x \in S,
         \A y \in S : f[y] \in Int /\ g[y] \in Int, \A y \in S \ {x} : g[y] = f[y]
  PROVE  Total(base, g, S) = Total(base, f, S) + g[x] - f[x]
  <1>1. IsFiniteSet(S \ {x})
    BY FS_Subset
  <1>2. Total(base, g, S \ {x}) = Total(base, f, S \ {x})
    BY <1>1, TotalsSame
  <1>3. Total(base, f, S \ {x}) \in Int
    BY <1>1, TotalIsInt
  <1>4. Total(base, f, S) = f[x] + Total(base, f, S \ {x})
    BY TotalTakes
  <1>5. Total(base, g, S) = g[x] + Total(base, g, S \ {x})
    BY TotalTakes
  <1> QED BY <1>2, <1>3, <1>4, <1>5

LEMMA TotalOfZeros ==
  ASSUME NEW f, NEW S, IsFiniteSet(S), \A x \in S : f[x] = 0
  PROVE  Total(0, f, S) = 0
  <1> DEFINE P == {s \in SUBSET S : Total(0, f, s) = 0}
  <1>1. ASSUME NEW s \in SUBSET S, \A t \in SUBSET s : t # s => t \in P
        PROVE  s \in P
    <2>1. IsFiniteSet(s)
      BY FS_Subset
    <2>2. CASE s = {}
      BY <2>1, <2>2, TotalUnfolds
    <2>3. CASE s # {}
      <3>1. First(s) \in s /\ s \ {First(s)} \in SUBSET s /\ s \ {First(s)} # s
        BY <2>3, FirstIn
      <3>2. Total(0, f, s) = f[First(s)] + Total(0, f, s \ {First(s)})
        BY <2>1, <2>3, TotalUnfolds
      <3> QED BY <1>1, <3>1, <3>2
    <2> QED BY <2>2, <2>3
  <1> HIDE DEF P
  <1>2. SUBSET S \subseteq P
    BY <1>1, SubsetInduction
  <1> QED BY <1>2 DEF P

-----------------------------------------------------------------------------
(* Visits and values of a tree.                                             *)

ChildrenIn(t, p) == {a \in Search!Action : Append(p, a) \in DOMAIN t}
VisitsOf(t, p) == [a \in ChildrenIn(t, p) |-> t[Append(p, a)].visits]
ValuesOf(t, p) == [a \in ChildrenIn(t, p) |-> t[Append(p, a)].value]
Own(t, p) == t[p].visits - Total(0, VisitsOf(t, p), ChildrenIn(t, p))

\* A node that the search would expand.
Waiting(t, p) == ~ t[p].terminal /\ Len(p) < MaxDepth /\ ~ t[p].expanded

WellFormed(t) ==
  /\ DOMAIN t \subseteq Seq(Search!Action) /\ <<>> \in DOMAIN t /\ t[<<>>].reward = 0
  /\ \A p \in DOMAIN t :
       /\ Len(p) <= MaxDepth /\ t[p] \in Search!Transition
       /\ \A i \in 0..Len(p) : SubSeq(p, 1, i) \in DOMAIN t
       /\ IsFiniteSet(ChildrenIn(t, p))

OwnAllowed(p) == IF p = <<>> THEN {0} ELSE {0, 1}

Balanced(t, p) ==
  ChildrenIn(t, p) # {} =>
    /\ ~ t[p].terminal /\ t[p].expanded
    /\ Own(t, p) \in OwnAllowed(p)
    /\ t[p].value = Total(0, ValuesOf(t, p), ChildrenIn(t, p))
                      + t[p].visits * t[p].reward + Own(t, p) * 20 * t[p].score

\* It was the end of one simulation at most: that which made it.
Visited(t, p) ==
  Waiting(t, p) =>
    /\ t[p].visits \in OwnAllowed(p)
    /\ t[p].value = t[p].visits * (t[p].reward + 20 * t[p].score)

AddsUp(t) == WellFormed(t) /\ \A p \in DOMAIN t : Balanced(t, p) /\ Visited(t, p)

Prefixes(path) == {SubSeq(path, 1, i) : i \in 0..Len(path)}

LEMMA PrefixLength ==
  ASSUME NEW A, NEW path \in Seq(A), NEW i \in 0..Len(path)
  PROVE  /\ SubSeq(path, 1, i) \in Seq(A) /\ Len(SubSeq(path, 1, i)) = i
         /\ \A j \in 1..i : SubSeq(path, 1, i)[j] = path[j]
  <1>1. \A j \in 1..i : path[j] \in A
    OBVIOUS
  <1> QED BY <1>1, SubSeqProperties

\* The prefix of a path that follows a shorter one is that of its next action.
LEMMA NextOnPath ==
  ASSUME NEW A, NEW path \in Seq(A), NEW p \in Seq(A), NEW a \in A
  PROVE  Append(p, a) \in Prefixes(path) <=>
           p \in Prefixes(path) /\ Len(p) < Len(path) /\ a = path[Len(p) + 1]
  <1>1. /\ Append(p, a) \in Seq(A) /\ Len(Append(p, a)) = Len(p) + 1
        /\ \A j \in 1..Len(p) : Append(p, a)[j] = p[j]
        /\ Append(p, a)[Len(p) + 1] = a
    BY AppendProperties
  <1>2. Len(p) \in Nat /\ Len(path) \in Nat
    OBVIOUS
  <1>3. ASSUME Append(p, a) \in Prefixes(path)
        PROVE  p \in Prefixes(path) /\ Len(p) < Len(path) /\ a = path[Len(p) + 1]
    <2>1. PICK i \in 0..Len(path) : Append(p, a) = SubSeq(path, 1, i)
      BY <1>3 DEF Prefixes
    <2>2. i = Len(p) + 1 /\ \A j \in 1..i : Append(p, a)[j] = path[j]
      BY <1>1, <2>1, PrefixLength
    <2>3. a = path[Len(p) + 1] /\ \A j \in 1..Len(p) : p[j] = path[j]
      BY <1>1, <1>2, <2>2
    <2>4. Len(p) \in 0..Len(path) /\ Len(p) < Len(path)
      BY <1>2, <2>2
    <2>5. SubSeq(path, 1, Len(p)) = p
      <3>1. /\ SubSeq(path, 1, Len(p)) \in Seq(A) /\ Len(SubSeq(path, 1, Len(p))) = Len(p)
            /\ \A j \in 1..Len(p) : SubSeq(path, 1, Len(p))[j] = path[j]
        BY <2>4, PrefixLength
      <3> QED BY <2>3, <3>1
    <2>6. p \in Prefixes(path)
      BY <2>4, <2>5 DEF Prefixes
    <2> QED BY <2>3, <2>4, <2>6
  <1>4. ASSUME p \in Prefixes(path), Len(p) < Len(path), a = path[Len(p) + 1]
        PROVE  Append(p, a) \in Prefixes(path)
    <2>1. PICK i \in 0..Len(path) : p = SubSeq(path, 1, i)
      BY <1>4 DEF Prefixes
    <2>2. i = Len(p) /\ i + 1 \in 0..Len(path) /\ \A j \in 1..i : p[j] = path[j]
      BY <1>2, <1>4, <2>1, PrefixLength
    <2>3. /\ SubSeq(path, 1, i + 1) \in Seq(A) /\ Len(SubSeq(path, 1, i + 1)) = i + 1
          /\ \A j \in 1..(i + 1) : SubSeq(path, 1, i + 1)[j] = path[j]
      BY <2>2, PrefixLength
    <2>4. Append(p, a) = SubSeq(path, 1, i + 1)
      BY <1>1, <1>2, <1>4, <2>2, <2>3
    <2> QED BY <2>2, <2>4 DEF Prefixes
  <1> QED BY <1>3, <1>4

\* What a node of a path is given is its own reward and what the next one is given.
LEMMA ValueFromBelow ==
  ASSUME NEW t, WellFormed(t), NEW path \in DOMAIN t
  PROVE  /\ \A d \in 0..Len(path) : Search!ValueAt(t, path, d) \in Int
         /\ Search!ValueAt(t, path, Len(path)) = t[path].reward + Search!LeafValue(t, path)
         /\ \A d \in 0..Len(path) : d < Len(path) =>
              Search!ValueAt(t, path, d) = t[SubSeq(path, 1, d)].reward + Search!ValueAt(t, path, d + 1)
  <1> DEFINE leaf == Search!LeafValue(t, path)
             rewards == [i \in 1..Len(path) |-> t[SubSeq(path, 1, i)].reward]
             from(d) == (IF d = 0 THEN 1 ELSE d)..Len(path)
             value(d) == Total(leaf, rewards, from(d))
  <1>1. path \in Seq(Search!Action) /\ Len(path) \in Nat /\ t[path] \in Search!Transition
    BY DEF WellFormed
  <1>2. leaf \in Int
    BY <1>1 DEF Search!LeafValue, Search!Transition
  <1>3. \A i \in 1..Len(path) : rewards[i] = t[SubSeq(path, 1, i)].reward /\ rewards[i] \in Int
    <2> SUFFICES ASSUME NEW i \in 1..Len(path) PROVE t[SubSeq(path, 1, i)].reward \in Int
      OBVIOUS
    <2>1. SubSeq(path, 1, i) \in DOMAIN t
      BY DEF WellFormed
    <2>2. t[SubSeq(path, 1, i)] \in Search!Transition
      BY <2>1 DEF WellFormed
    <2> QED BY <2>2 DEF Search!Transition
  <1>4. ASSUME NEW d PROVE Search!ValueAt(t, path, d) = value(d)
    BY DEF Search!ValueAt, Total, Search!FoldFunctionOnSet, Search!MapThenFoldSet
  <1>5. \A d \in 0..Len(path) :
          from(d) \subseteq 1..Len(path) /\ IsFiniteSet(from(d))
    <2> SUFFICES ASSUME NEW d \in 0..Len(path)
                 PROVE  from(d) \subseteq 1..Len(path) /\ IsFiniteSet(from(d))
      OBVIOUS
    <2>1. from(d) \subseteq 1..Len(path)
      BY <1>1
    <2>2. IsFiniteSet(1..Len(path))
      BY <1>1, FS_Interval
    <2> QED BY <2>1, <2>2, FS_Subset
  <1> HIDE DEF leaf, rewards
  <1>6. \A d \in 0..Len(path) : value(d) \in Int
    BY <1>2, <1>3, <1>5, TotalIsInt
  <1>7. ASSUME NEW d \in 1..Len(path)
        PROVE  value(d) = rewards[d] + Total(leaf, rewards, (d + 1)..Len(path))
    <2>1. from(d) = d..Len(path) /\ d \in from(d) /\ from(d) \ {d} = (d + 1)..Len(path)
      BY <1>1
    <2>2. IsFiniteSet(from(d)) /\ \A x \in from(d) : rewards[x] \in Int
      BY <1>3, <1>5
    <2> HIDE DEF from
    <2>3. Total(leaf, rewards, from(d)) = rewards[d] + Total(leaf, rewards, from(d) \ {d})
      BY <1>2, <2>1, <2>2, TotalTakes
    <2> QED BY <2>1, <2>3
  <1>8. value(Len(path)) = t[path].reward + leaf
    <2>1. CASE path = <<>>
      <3>1. from(Len(path)) = {} /\ IsFiniteSet({})
        BY <2>1, FS_EmptySet
      <3>2. value(Len(path)) = leaf
        BY <3>1, TotalUnfolds
      <3> QED BY <1>2, <2>1, <3>2 DEF WellFormed
    <2>2. CASE path # <<>>
      <3>1. Len(path) \in 1..Len(path) /\ (Len(path) + 1)..Len(path) = {} /\ IsFiniteSet({})
        BY <1>1, <2>2, FS_EmptySet
      <3>2. Total(leaf, rewards, (Len(path) + 1)..Len(path)) = leaf
        BY <3>1, TotalUnfolds
      <3>3. rewards[Len(path)] = t[path].reward
        BY <1>1, <1>3, <3>1, SubSeqFull
      <3> QED BY <1>7, <3>1, <3>2, <3>3
    <2> QED BY <2>1, <2>2
  <1>9. ASSUME NEW d \in 0..Len(path), d < Len(path)
        PROVE  value(d) = t[SubSeq(path, 1, d)].reward + value(d + 1)
    <2>1. from(d + 1) = (d + 1)..Len(path) /\ d + 1 \in 0..Len(path)
      BY <1>1, <1>9
    <2>2. CASE d = 0
      <3>1. from(d) = from(d + 1)
        BY <2>2
      <3>2. SubSeq(path, 1, d) = <<>>
        BY <2>2, SubSeqEmpty
      <3>3. value(d + 1) \in Int
        BY <1>6, <2>1
      <3>4. t[SubSeq(path, 1, d)].reward = 0 /\ value(d) = value(d + 1)
        BY <3>1, <3>2 DEF WellFormed
      <3> HIDE DEF value
      <3> QED BY <3>3, <3>4
    <2>3. CASE d # 0
      <3>1. d \in 1..Len(path)
        BY <1>1, <2>3
      <3> QED BY <1>3, <1>7, <2>1, <3>1
    <2> QED BY <2>2, <2>3
  <1> QED BY <1>4, <1>6, <1>8, <1>9 DEF leaf

\* u is t after a backup along path.
BackedUp(u, t, path) ==
  u = [p \in DOMAIN t |->
        IF p \in Prefixes(path)
          THEN [t[p] EXCEPT !.visits = @ + 1, !.value = @ + Search!ValueAt(t, path, Len(p))]
          ELSE t[p]]

\* What a backup does to the fields of a node.
LEMMA BackedUpNodes ==
  ASSUME NEW t, NEW u, NEW path, WellFormed(t), path \in DOMAIN t, BackedUp(u, t, path)
  PROVE  /\ DOMAIN u = DOMAIN t
         /\ \A p \in DOMAIN t :
              /\ u[p] \in Search!Transition
              /\ u[p].reward = t[p].reward /\ u[p].terminal = t[p].terminal
              /\ u[p].score = t[p].score /\ u[p].expanded = t[p].expanded
              /\ p \in Prefixes(path) =>
                   /\ u[p].visits = t[p].visits + 1
                   /\ u[p].value = t[p].value + Search!ValueAt(t, path, Len(p))
              /\ p \notin Prefixes(path) => u[p] = t[p]
  <1>1. DOMAIN u = DOMAIN t
    BY DEF BackedUp
  <1>2. ASSUME NEW p \in DOMAIN t
        PROVE  /\ u[p] \in Search!Transition
               /\ u[p].reward = t[p].reward /\ u[p].terminal = t[p].terminal
               /\ u[p].score = t[p].score /\ u[p].expanded = t[p].expanded
               /\ p \in Prefixes(path) =>
                    /\ u[p].visits = t[p].visits + 1
                    /\ u[p].value = t[p].value + Search!ValueAt(t, path, Len(p))
               /\ p \notin Prefixes(path) => u[p] = t[p]
    <2>1. t[p] \in Search!Transition /\ t[p].visits \in Nat /\ t[p].value \in Int
      BY DEF WellFormed, Search!Transition
    <2>2. CASE p \in Prefixes(path)
      <3> DEFINE x == t[p].visits + 1
                 y == t[p].value + Search!ValueAt(t, path, Len(p))
      <3>1. u[p] = [t[p] EXCEPT !.visits = x, !.value = y]
        BY <2>2 DEF BackedUp
      <3>2. PICK i \in 0..Len(path) : p = SubSeq(path, 1, i)
        BY <2>2 DEF Prefixes
      <3>3. Len(p) = i
        BY <3>2, PrefixLength DEF WellFormed
      <3>4. x \in Nat /\ y \in Int
        BY <2>1, <3>3, ValueFromBelow
      <3> DEFINE n == t[p]
                 m == u[p]
      <3>5. n \in Search!Transition /\ m = [n EXCEPT !.visits = x, !.value = y]
        BY <2>1, <3>1
      <3> HIDE DEF x, y, n, m
      <3>6. /\ m \in Search!Transition /\ m.visits = x /\ m.value = y
            /\ m.reward = n.reward /\ m.terminal = n.terminal
            /\ m.score = n.score /\ m.expanded = n.expanded
        BY <3>4, <3>5 DEF Search!Transition
      <3>7. /\ u[p] \in Search!Transition /\ u[p].visits = x /\ u[p].value = y
            /\ u[p].reward = t[p].reward /\ u[p].terminal = t[p].terminal
            /\ u[p].score = t[p].score /\ u[p].expanded = t[p].expanded
        BY <3>6 DEF n, m
      <3> QED BY <2>2, <3>7 DEF x, y
    <2>3. CASE p \notin Prefixes(path)
      BY <2>1, <2>3 DEF BackedUp
    <2> QED BY <2>2, <2>3
  <1> QED BY <1>1, <1>2

\* A backup leaves the sums as they were: of a node on the path one child is, and it
\* is given what the node is, but for the node's own reward.
LEMMA BackedUpAdds ==
  ASSUME NEW t, NEW u, NEW path, AddsUp(t), path \in DOMAIN t, BackedUp(u, t, path),
         ChildrenIn(t, path) = {},
         Waiting(t, path) => path # <<>> /\ t[path].visits = 0
  PROVE  AddsUp(u) /\ u[<<>>].visits = t[<<>>].visits + 1
  <1> DEFINE At(d) == Search!ValueAt(t, path, d)
  <1>1. WellFormed(t) /\ path \in Seq(Search!Action) /\ Len(path) \in Nat
    BY DEF AddsUp, WellFormed
  <1>2. /\ DOMAIN u = DOMAIN t
        /\ \A p \in DOMAIN t :
             /\ u[p] \in Search!Transition
             /\ u[p].reward = t[p].reward /\ u[p].terminal = t[p].terminal
             /\ u[p].score = t[p].score /\ u[p].expanded = t[p].expanded
             /\ p \in Prefixes(path) =>
                  u[p].visits = t[p].visits + 1 /\ u[p].value = t[p].value + At(Len(p))
             /\ p \notin Prefixes(path) => u[p] = t[p]
    BY <1>1, BackedUpNodes
  <1> HIDE DEF At
  <1>3. \A p : ChildrenIn(u, p) = ChildrenIn(t, p)
    BY <1>2 DEF ChildrenIn
  <1>4. <<>> \in Prefixes(path) /\ path \in Prefixes(path)
    <2>1. SubSeq(path, 1, 0) = <<>> /\ SubSeq(path, 1, Len(path)) = path
      BY <1>1, SubSeqEmpty, SubSeqFull
    <2>2. 0 \in 0..Len(path) /\ Len(path) \in 0..Len(path)
      BY <1>1
    <2> QED BY <2>1, <2>2 DEF Prefixes
  <1>5. WellFormed(u)
    BY <1>1, <1>2, <1>3 DEF WellFormed
  <1>6. ASSUME NEW p \in DOMAIN t
        PROVE  /\ p \in Seq(Search!Action) /\ Len(p) \in Nat
               /\ t[p].visits \in Nat /\ t[p].value \in Int /\ t[p].reward \in Int /\ t[p].score \in Int
               /\ IsFiniteSet(ChildrenIn(t, p))
               /\ \A a \in ChildrenIn(t, p) :
                    /\ Append(p, a) \in DOMAIN t
                    /\ VisitsOf(t, p)[a] = t[Append(p, a)].visits /\ VisitsOf(t, p)[a] \in Int
                    /\ ValuesOf(t, p)[a] = t[Append(p, a)].value /\ ValuesOf(t, p)[a] \in Int
                    /\ VisitsOf(u, p)[a] = u[Append(p, a)].visits /\ VisitsOf(u, p)[a] \in Int
                    /\ ValuesOf(u, p)[a] = u[Append(p, a)].value /\ ValuesOf(u, p)[a] \in Int
    <2>1. /\ p \in Seq(Search!Action) /\ Len(p) \in Nat
          /\ t[p] \in Search!Transition /\ IsFiniteSet(ChildrenIn(t, p))
      BY <1>1 DEF WellFormed
    <2>2. t[p].visits \in Nat /\ t[p].value \in Int /\ t[p].reward \in Int /\ t[p].score \in Int
      BY <2>1 DEF Search!Transition
    <2>3. ASSUME NEW a \in ChildrenIn(t, p)
          PROVE  /\ Append(p, a) \in DOMAIN t
                 /\ VisitsOf(t, p)[a] = t[Append(p, a)].visits /\ VisitsOf(t, p)[a] \in Int
                 /\ ValuesOf(t, p)[a] = t[Append(p, a)].value /\ ValuesOf(t, p)[a] \in Int
                 /\ VisitsOf(u, p)[a] = u[Append(p, a)].visits /\ VisitsOf(u, p)[a] \in Int
                 /\ ValuesOf(u, p)[a] = u[Append(p, a)].value /\ ValuesOf(u, p)[a] \in Int
      <3> DEFINE q == Append(p, a)
      <3>1. q \in DOMAIN t
        BY DEF ChildrenIn
      <3> HIDE DEF q
      <3>2. t[q] \in Search!Transition /\ u[q] \in Search!Transition
        BY <1>1, <1>2, <3>1 DEF WellFormed
      <3>3. t[q].visits \in Int /\ t[q].value \in Int /\ u[q].visits \in Int /\ u[q].value \in Int
        BY <3>2 DEF Search!Transition
      <3>4. /\ VisitsOf(t, p)[a] = t[q].visits /\ ValuesOf(t, p)[a] = t[q].value
            /\ VisitsOf(u, p)[a] = u[q].visits /\ ValuesOf(u, p)[a] = u[q].value
        BY <1>3 DEF VisitsOf, ValuesOf, q
      <3> QED BY <3>1, <3>3, <3>4 DEF q
    <2> QED BY <2>1, <2>2, <2>3
  <1>7. ASSUME NEW p \in DOMAIN t, ChildrenIn(t, p) # {}
        PROVE  Balanced(u, p) /\ ~ Waiting(u, p)
    <2> DEFINE Below == ChildrenIn(t, p)
               visits == Total(0, VisitsOf(t, p), Below)
               values == Total(0, ValuesOf(t, p), Below)
               v == t[p].visits
               r == t[p].reward
               s == t[p].score
    <2>1. /\ ~ t[p].terminal /\ t[p].expanded /\ v - visits \in OwnAllowed(p)
          /\ t[p].value = values + v * r + (v - visits) * 20 * s
      BY <1>7 DEF AddsUp, Balanced, Own
    <2>2. /\ visits \in Int /\ values \in Int /\ v \in Int /\ r \in Int /\ s \in Int
          /\ IsFiniteSet(Below)
      BY <1>6, TotalIsInt
    <2>3. /\ ~ u[p].terminal /\ u[p].expanded /\ u[p].reward = r /\ u[p].score = s
          /\ ChildrenIn(u, p) = Below
      BY <1>2, <1>3, <2>1
    <2>4. \A a \in Below : a \in Search!Action
      BY DEF ChildrenIn
    <2>5. CASE p \in Prefixes(path)
      <3>1. PICK i \in 0..Len(path) : p = SubSeq(path, 1, i)
        BY <2>5 DEF Prefixes
      <3>2. i = Len(p) /\ Len(p) < Len(path)
        <4>1. i = Len(p)
          BY <1>1, <3>1, PrefixLength
        <4>2. i # Len(path)
          BY <1>1, <1>7, <3>1, SubSeqFull
        <4> QED BY <1>1, <4>1, <4>2
      <3> DEFINE next == path[Len(p) + 1]
                 d == Len(p)
      <3>3. next \in Search!Action /\ Append(p, next) \in Prefixes(path)
        <4>1. next \in Search!Action
          BY <1>1, <1>6, <3>2
        <4> QED BY <1>1, <1>6, <2>5, <3>2, <4>1, NextOnPath
      <3>4. next \in Below
        <4>1. PICK j \in 0..Len(path) : Append(p, next) = SubSeq(path, 1, j)
          BY <3>3 DEF Prefixes
        <4>2. Append(p, next) \in DOMAIN t
          BY <1>1, <4>1 DEF WellFormed
        <4> QED BY <3>3, <4>2 DEF ChildrenIn
      <3>5. Len(Append(p, next)) = d + 1
        BY <1>6, <3>3, AppendProperties
      <3>6. \A a \in Below \ {next} : Append(p, a) \notin Prefixes(path)
        BY <1>1, <1>6, <2>4, NextOnPath
      <3> HIDE DEF next
      <3>7. /\ VisitsOf(u, p)[next] = VisitsOf(t, p)[next] + 1
            /\ ValuesOf(u, p)[next] = ValuesOf(t, p)[next] + At(d + 1)
        <4> DEFINE q == Append(p, next)
        <4>1. /\ q \in DOMAIN t /\ q \in Prefixes(path) /\ Len(q) = d + 1
              /\ VisitsOf(t, p)[next] = t[q].visits /\ ValuesOf(t, p)[next] = t[q].value
              /\ VisitsOf(u, p)[next] = u[q].visits /\ ValuesOf(u, p)[next] = u[q].value
          BY <1>6, <3>3, <3>4, <3>5
        <4> HIDE DEF q
        <4> QED BY <1>2, <4>1
      <3>8. \A a \in Below \ {next} :
              VisitsOf(u, p)[a] = VisitsOf(t, p)[a] /\ ValuesOf(u, p)[a] = ValuesOf(t, p)[a]
        BY <1>2, <1>6, <3>6
      <3>9. At(d) \in Int /\ At(d + 1) \in Int /\ At(d) = r + At(d + 1)
        <4>1. d \in 0..Len(path) /\ d + 1 \in 0..Len(path)
          BY <1>1, <1>6, <3>2
        <4> QED BY <1>1, <3>1, <3>2, <4>1, ValueFromBelow DEF At
      <3>10. Total(0, VisitsOf(u, p), Below) = visits + 1
        <4> DEFINE f == VisitsOf(t, p)
                   g == VisitsOf(u, p)
        <4>1. \A a \in Below : f[a] \in Int /\ g[a] \in Int
          BY <1>6
        <4>2. next \in Below /\ \A a \in Below \ {next} : g[a] = f[a]
          BY <3>4, <3>8
        <4>3. g[next] = f[next] + 1 /\ visits = Total(0, f, Below)
          BY <3>7
        <4> HIDE DEF f, g, Below, visits
        <4>4. Total(0, g, Below) = Total(0, f, Below) + g[next] - f[next]
          BY <2>2, <4>1, <4>2, TotalDiffers
        <4>5. f[next] \in Int
          BY <4>1, <4>2
        <4>6. Total(0, g, Below) = visits + 1
          BY <2>2, <4>3, <4>4, <4>5
        <4> QED BY <4>6 DEF g
      <3>11. Total(0, ValuesOf(u, p), Below) = values + At(d + 1)
        <4> DEFINE f == ValuesOf(t, p)
                   g == ValuesOf(u, p)
        <4>1. \A a \in Below : f[a] \in Int /\ g[a] \in Int
          BY <1>6
        <4>2. next \in Below /\ \A a \in Below \ {next} : g[a] = f[a]
          BY <3>4, <3>8
        <4>3. g[next] = f[next] + At(d + 1) /\ values = Total(0, f, Below)
          BY <3>7
        <4> HIDE DEF f, g, Below, values
        <4>4. Total(0, g, Below) = Total(0, f, Below) + g[next] - f[next]
          BY <2>2, <4>1, <4>2, TotalDiffers
        <4>5. f[next] \in Int
          BY <4>1, <4>2
        <4>6. Total(0, g, Below) = values + At(d + 1)
          BY <2>2, <3>9, <4>3, <4>4, <4>5
        <4> QED BY <4>6 DEF g
      <3>12. u[p].visits = v + 1 /\ u[p].value = t[p].value + At(d)
        BY <1>2, <2>5
      <3> HIDE DEF v, r, s, visits, values, d
      <3>13. Own(u, p) = v - visits
        BY <2>2, <2>3, <3>10, <3>12 DEF Own
      <3>14. (v + 1) * r = v * r + r
        BY <2>2
      <3>15. v * r \in Int /\ (v - visits) * 20 * s \in Int
        BY <2>2
      <3> DEFINE x == v * r
                 y == (v - visits) * 20 * s
      <3>16. u[p].value = (values + x + y) + (r + At(d + 1))
        BY <2>1, <3>9, <3>12
      <3>17. x \in Int /\ y \in Int
        BY <3>15
      <3> HIDE DEF x, y
      <3>18. u[p].value = (values + At(d + 1)) + (x + r) + y
        BY <2>2, <3>9, <3>16, <3>17
      <3>19. u[p].value = Total(0, ValuesOf(u, p), Below)
                            + u[p].visits * u[p].reward + Own(u, p) * 20 * u[p].score
        BY <2>3, <3>11, <3>12, <3>13, <3>14, <3>18 DEF x, y
      <3> QED BY <2>1, <2>3, <3>13, <3>19 DEF Balanced, Waiting
    <2>6. CASE p \notin Prefixes(path)
      <3>1. \A a \in Below : Append(p, a) \notin Prefixes(path)
        BY <1>1, <1>6, <2>4, <2>6, NextOnPath
      <3>2. \A a \in Below :
              VisitsOf(u, p)[a] = VisitsOf(t, p)[a] /\ ValuesOf(u, p)[a] = ValuesOf(t, p)[a]
        BY <1>2, <1>6, <3>1
      <3>3. Total(0, VisitsOf(u, p), Below) = visits
        BY <2>2, <3>2, TotalsSame
      <3>4. Total(0, ValuesOf(u, p), Below) = values
        BY <2>2, <3>2, TotalsSame
      <3>5. u[p] = t[p]
        BY <1>2, <2>6
      <3> HIDE DEF visits, values
      <3> QED BY <2>1, <2>3, <3>3, <3>4, <3>5 DEF Balanced, Waiting, Own
    <2> QED BY <2>5, <2>6
  <1>8. ASSUME NEW p \in DOMAIN t, ChildrenIn(t, p) = {}
        PROVE  Balanced(u, p) /\ Visited(u, p)
    <2>1. Balanced(u, p)
      BY <1>3, <1>8 DEF Balanced
    <2>2. CASE p = path
      <3> SUFFICES ASSUME Waiting(u, p) PROVE Visited(u, p)
        BY <2>1 DEF Visited
      <3>1. Waiting(t, path)
        BY <1>2, <2>2 DEF Waiting
      <3>2. path # <<>> /\ t[path].visits = 0 /\ t[path].value = 0
        BY <1>6, <3>1 DEF AddsUp, Visited
      <3>3. At(Len(path)) = t[path].reward + 20 * t[path].score
        BY <1>1, <3>1, ValueFromBelow DEF At, Waiting, Search!LeafValue
      <3>4. u[path].visits = 1 /\ u[path].value = t[path].reward + 20 * t[path].score
        BY <1>2, <1>4, <1>6, <3>2, <3>3
      <3> QED BY <1>2, <1>6, <2>2, <3>2, <3>4 DEF Visited, OwnAllowed
    <2>3. CASE p # path
      <3>1. p \notin Prefixes(path)
        <4> SUFFICES ASSUME p \in Prefixes(path) PROVE FALSE
          OBVIOUS
        <4>1. PICK i \in 0..Len(path) : p = SubSeq(path, 1, i)
          BY DEF Prefixes
        <4>2. i = Len(p) /\ i < Len(path)
          BY <1>1, <2>3, <4>1, PrefixLength, SubSeqFull
        <4> DEFINE next == path[Len(p) + 1]
        <4>3. next \in Search!Action
          BY <1>1, <1>6, <4>2
        <4>4. Append(p, next) \in Prefixes(path)
          BY <1>1, <1>6, <4>2, <4>3, NextOnPath
        <4>5. Append(p, next) \in DOMAIN t
          BY <1>1, <4>4 DEF WellFormed, Prefixes
        <4> QED BY <1>8, <4>3, <4>5 DEF ChildrenIn
      <3> QED BY <1>2, <2>1, <3>1 DEF AddsUp, Visited, Waiting
    <2> QED BY <2>1, <2>2, <2>3
  <1>9. \A p \in DOMAIN t : Balanced(u, p) /\ Visited(u, p)
    BY <1>7, <1>8 DEF Visited
  <1>10. u[<<>>].visits = t[<<>>].visits + 1
    BY <1>1, <1>2, <1>4 DEF WellFormed
  <1> QED BY <1>2, <1>5, <1>9, <1>10 DEF AddsUp

\* u is t with new nodes, the children in B of its node at, which had none.
Sprouted(u, t, p, B) ==
  /\ DOMAIN u = DOMAIN t \cup {Append(p, b) : b \in B}
  /\ u[p] = [t[p] EXCEPT !.expanded = TRUE]
  /\ \A q \in DOMAIN t \ {p} : u[q] = t[q]
  /\ \A b \in B : LET n == u[Append(p, b)] IN n \in Search!Transition /\ n.visits = 0 /\ n.value = 0

\* New nodes have no visits and no value, so that sums stay as they were: the visits
\* that their parent had are its own.
LEMMA SproutedAdds ==
  ASSUME NEW t, NEW u, NEW p \in DOMAIN t, NEW B, AddsUp(t), Waiting(t, p),
         B \subseteq Search!Action, IsFiniteSet(B), Sprouted(u, t, p, B)
  PROVE  /\ AddsUp(u) /\ ChildrenIn(u, p) = B
         /\ \A b \in B : ChildrenIn(u, Append(p, b)) = {}
         /\ u[<<>>].visits = t[<<>>].visits
  <1>1. /\ WellFormed(t) /\ p \in Seq(Search!Action) /\ Len(p) \in Nat /\ t[p] \in Search!Transition
        /\ Len(p) < MaxDepth /\ DOMAIN t \subseteq Seq(Search!Action)
    BY DEF AddsUp, WellFormed, Waiting
  <1>2. ChildrenIn(t, p) = {}
    BY DEF AddsUp, Balanced, Waiting
  <1>3. \A b \in Search!Action :
          /\ Append(p, b) \in Seq(Search!Action) /\ Len(Append(p, b)) = Len(p) + 1 /\ Append(p, b) # <<>>
          /\ Append(p, b)[Len(p) + 1] = b /\ \A i \in 1..Len(p) : Append(p, b)[i] = p[i]
    BY <1>1, AppendProperties
  <1>4. \A b \in Search!Action : Append(p, b) \notin DOMAIN t
    BY <1>2 DEF ChildrenIn
  <1>5. ASSUME NEW q \in Seq(Search!Action), NEW a \in Search!Action, NEW b \in Search!Action,
               Append(q, a) = Append(p, b)
        PROVE  q = p /\ a = b
    <2>1. /\ Append(q, a) \in Seq(Search!Action) /\ Len(Append(q, a)) = Len(q) + 1
          /\ Append(q, a)[Len(q) + 1] = a /\ \A i \in 1..Len(q) : Append(q, a)[i] = q[i]
      BY AppendProperties
    <2>2. Len(q) = Len(p) /\ \A i \in 1..Len(q) : q[i] = p[i]
      <3>1. Len(q) \in Nat
        OBVIOUS
      <3> QED BY <1>1, <1>3, <1>5, <2>1, <3>1
    <2>3. q = p
      BY <1>1, <2>2, SeqEqual
    <2> QED BY <1>3, <1>5, <2>1, <2>3
  <1>6. ASSUME NEW q \in DOMAIN t, q # p
        PROVE  u[q] = t[q] /\ ChildrenIn(u, q) = ChildrenIn(t, q)
    <2>1. u[q] = t[q]
      BY <1>6 DEF Sprouted
    <2>2. \A a \in Search!Action : Append(q, a) \in DOMAIN u <=> Append(q, a) \in DOMAIN t
      BY <1>1, <1>5, <1>6 DEF Sprouted
    <2> QED BY <2>1, <2>2 DEF ChildrenIn
  <1>7. ChildrenIn(u, p) = B
    <2>1. \A a \in Search!Action : Append(p, a) \in DOMAIN u <=> a \in B
      <3> SUFFICES ASSUME NEW a \in Search!Action PROVE Append(p, a) \in DOMAIN u <=> a \in B
        OBVIOUS
      <3>1. \A b \in B : Append(p, a) = Append(p, b) => a = b
        BY <1>1, <1>5
      <3> QED BY <1>4, <3>1 DEF Sprouted
    <2> QED BY <2>1 DEF ChildrenIn
  <1>8. ASSUME NEW b \in B PROVE ChildrenIn(u, Append(p, b)) = {}
    <2> SUFFICES ASSUME NEW a \in Search!Action, Append(Append(p, b), a) \in DOMAIN u PROVE FALSE
      BY DEF ChildrenIn
    <2> DEFINE q == Append(p, b)
    <2>1. q \in Seq(Search!Action) /\ q \notin DOMAIN t /\ q # p /\ Len(q) = Len(p) + 1
      BY <1>1, <1>3, <1>4
    <2> HIDE DEF q
    <2>2. /\ Append(q, a) \in Seq(Search!Action) /\ Len(Append(q, a)) = Len(q) + 1
          /\ \A i \in 1..Len(q) : Append(q, a)[i] = q[i]
      BY <2>1, AppendProperties
    <2>3. Append(q, a) \notin DOMAIN t
      <3> SUFFICES ASSUME Append(q, a) \in DOMAIN t PROVE FALSE
        OBVIOUS
      <3>1. Len(q) \in 0..Len(Append(q, a))
        BY <2>1, <2>2
      <3>2. SubSeq(Append(q, a), 1, Len(q)) \in DOMAIN t
        BY <1>1, <3>1 DEF WellFormed
      <3>3. SubSeq(Append(q, a), 1, Len(q)) = q
        <4>1. /\ SubSeq(Append(q, a), 1, Len(q)) \in Seq(Search!Action)
              /\ Len(SubSeq(Append(q, a), 1, Len(q))) = Len(q)
              /\ \A i \in 1..Len(q) : SubSeq(Append(q, a), 1, Len(q))[i] = Append(q, a)[i]
          BY <2>2, <3>1, PrefixLength
        <4> QED BY <2>1, <2>2, <4>1, SeqEqual
      <3> QED BY <2>1, <3>2, <3>3
    <2>4. PICK c \in B : Append(q, a) = Append(p, c)
      BY <2>3 DEF Sprouted, q
    <2> QED BY <1>5, <2>1, <2>4
  <1>9. /\ u[p] \in Search!Transition /\ u[p].expanded /\ u[p].visits = t[p].visits
        /\ u[p].value = t[p].value /\ u[p].reward = t[p].reward /\ u[p].terminal = t[p].terminal
        /\ u[p].score = t[p].score
    BY <1>1 DEF Sprouted, Search!Transition
  <1>10. WellFormed(u)
    <2>1. DOMAIN u \subseteq Seq(Search!Action) /\ <<>> \in DOMAIN u /\ u[<<>>].reward = 0
      <3>1. u[<<>>].reward = 0
        BY <1>1, <1>6, <1>9 DEF WellFormed
      <3>2. /\ DOMAIN t \subseteq Seq(Search!Action) /\ <<>> \in DOMAIN t
            /\ DOMAIN u = DOMAIN t \cup {Append(p, b) : b \in B}
        BY <1>1 DEF WellFormed, Sprouted
      <3>3. \A b \in B : Append(p, b) \in Seq(Search!Action)
        BY <1>1, <1>3, <3>2
      <3> QED BY <3>1, <3>2, <3>3
    <2>2. ASSUME NEW q \in DOMAIN t
          PROVE  /\ Len(q) <= MaxDepth /\ u[q] \in Search!Transition
                 /\ \A i \in 0..Len(q) : SubSeq(q, 1, i) \in DOMAIN u
                 /\ IsFiniteSet(ChildrenIn(u, q))
      BY <1>1, <1>6, <1>7, <1>9 DEF WellFormed, Sprouted
    <2>3. ASSUME NEW b \in B
          PROVE  /\ Len(Append(p, b)) <= MaxDepth /\ u[Append(p, b)] \in Search!Transition
                 /\ \A i \in 0..Len(Append(p, b)) : SubSeq(Append(p, b), 1, i) \in DOMAIN u
                 /\ IsFiniteSet(ChildrenIn(u, Append(p, b)))
      <3> DEFINE q == Append(p, b)
      <3>1. /\ q \in Seq(Search!Action) /\ Len(q) = Len(p) + 1 /\ q \in DOMAIN u
            /\ \A i \in 1..Len(p) : q[i] = p[i]
        BY <1>3 DEF Sprouted
      <3>2. u[q] \in Search!Transition /\ IsFiniteSet(ChildrenIn(u, q))
        BY <1>8, FS_EmptySet DEF Sprouted
      <3> HIDE DEF q
      <3>3. Len(q) <= MaxDepth
        BY <1>1, <3>1, PartsAssumption DEF Search!SearchAssumption
      <3>4. ASSUME NEW i \in 0..Len(q) PROVE SubSeq(q, 1, i) \in DOMAIN u
        <4>1. CASE i = Len(q)
          BY <3>1, <4>1, SubSeqFull
        <4>2. CASE i # Len(q)
          <5>1. i \in 0..Len(p)
            BY <1>1, <3>1, <4>2
          <5>2. /\ SubSeq(q, 1, i) \in Seq(Search!Action) /\ Len(SubSeq(q, 1, i)) = i
                /\ \A j \in 1..i : SubSeq(q, 1, i)[j] = q[j]
            BY <3>1, PrefixLength
          <5>3. /\ SubSeq(p, 1, i) \in Seq(Search!Action) /\ Len(SubSeq(p, 1, i)) = i
                /\ \A j \in 1..i : SubSeq(p, 1, i)[j] = p[j]
            BY <1>1, <5>1, PrefixLength
          <5>4. \A j \in 1..i : p[j] = q[j]
            BY <1>1, <3>1, <5>1
          <5>5. SubSeq(q, 1, i) = SubSeq(p, 1, i)
            BY <5>2, <5>3, <5>4, SeqEqual
          <5> QED BY <1>1, <5>1, <5>5 DEF WellFormed, Sprouted
        <4> QED BY <4>1, <4>2
      <3> QED BY <3>2, <3>3, <3>4 DEF q
    <2>4. \A q \in DOMAIN u : q \in DOMAIN t \/ \E b \in B : q = Append(p, b)
      BY DEF Sprouted
    <2> QED BY <2>1, <2>2, <2>3, <2>4 DEF WellFormed
  <1>11. Balanced(u, p) /\ Visited(u, p)
    <2> DEFINE f == VisitsOf(u, p)
               g == ValuesOf(u, p)
    <2>1. \A b \in B : f[b] = 0 /\ g[b] = 0
      BY <1>7 DEF VisitsOf, ValuesOf, Sprouted
    <2> HIDE DEF f, g
    <2>2. Total(0, f, B) = 0 /\ Total(0, g, B) = 0
      <3>1. Total(0, f, B) = 0
        BY <2>1, TotalOfZeros
      <3>2. Total(0, g, B) = 0
        BY <2>1, TotalOfZeros
      <3> QED BY <3>1, <3>2
    <2> DEFINE v == t[p].visits
               r == t[p].reward
               s == t[p].score
    <2>3. v \in Nat /\ r \in Int /\ s \in Int
      BY <1>1 DEF Search!Transition
    <2>4. v \in OwnAllowed(p) /\ t[p].value = v * (r + 20 * s)
      BY DEF AddsUp, Visited
    <2>5. Own(u, p) = v
      BY <1>7, <1>9, <2>2, <2>3 DEF Own, f
    <2>6. t[p].value = 0 + v * r + v * 20 * s
      <3>1. v = 0 \/ v = 1
        BY <2>4 DEF OwnAllowed
      <3> HIDE DEF v, r, s
      <3>2. CASE v = 0
        BY <2>3, <2>4, <3>2
      <3>3. CASE v = 1
        BY <2>3, <2>4, <3>3
      <3> QED BY <3>1, <3>2, <3>3
    <2>7. ~ t[p].terminal
      BY DEF Waiting
    <2> QED BY <1>7, <1>9, <2>2, <2>4, <2>5, <2>6, <2>7 DEF Balanced, Visited, Waiting, f, g
  <1>12. ASSUME NEW q \in DOMAIN t, q # p PROVE Balanced(u, q) /\ Visited(u, q)
    <2>1. u[q] = t[q] /\ ChildrenIn(u, q) = ChildrenIn(t, q)
      BY <1>6, <1>12
    <2>2. VisitsOf(u, q) = VisitsOf(t, q) /\ ValuesOf(u, q) = ValuesOf(t, q)
      <3>1. ASSUME NEW a \in ChildrenIn(t, q)
            PROVE  /\ u[Append(q, a)].visits = t[Append(q, a)].visits
                   /\ u[Append(q, a)].value = t[Append(q, a)].value
        <4>1. Append(q, a) \in DOMAIN t
          BY DEF ChildrenIn
        <4>2. CASE Append(q, a) # p
          BY <1>6, <4>1, <4>2
        <4>3. CASE Append(q, a) = p
          BY <1>9, <4>3
        <4> QED BY <4>2, <4>3
      <3> QED BY <2>1, <3>1 DEF VisitsOf, ValuesOf
    <2> QED BY <2>1, <2>2 DEF AddsUp, Balanced, Visited, Waiting, Own
  <1>13. ASSUME NEW b \in B PROVE Balanced(u, Append(p, b)) /\ Visited(u, Append(p, b))
    <2> DEFINE q == Append(p, b)
    <2>1. u[q] \in Search!Transition /\ u[q].visits = 0 /\ u[q].value = 0
      BY DEF Sprouted
    <2>2. ChildrenIn(u, q) = {}
      BY <1>8
    <2> HIDE DEF q
    <2>3. 0 * (u[q].reward + 20 * u[q].score) = 0
      BY <2>1 DEF Search!Transition
    <2>4. Balanced(u, q) /\ Visited(u, q)
      BY <2>1, <2>2, <2>3 DEF Balanced, Visited, OwnAllowed
    <2> QED BY <2>4 DEF q
  <1>14. \A q \in DOMAIN u : Balanced(u, q) /\ Visited(u, q)
    BY <1>11, <1>12, <1>13 DEF Sprouted
  <1>15. u[<<>>].visits = t[<<>>].visits
    BY <1>1, <1>6, <1>9 DEF WellFormed
  <1> QED BY <1>7, <1>8, <1>10, <1>14, <1>15 DEF AddsUp

\* A transition that was tried: its node has not been visited.
Attempt == [state : Seq(Search!Action) \cup {"unknown"}, reward : -7..0, terminal : BOOLEAN,
            score : -1..1, visits : {0}, value : {0}, expanded : {FALSE}]

\* The root is visited once by each simulation, and between proposals and scores the
\* node is one that waits to be expanded.
SumsInv ==
  /\ AddsUp(tree) /\ tree[<<>>].visits = done
  /\ done <= budget /\ budget \in MinSimulations..MaxSimulations
  /\ at \in {"select", "expand", "execute", "snapshot", "score", "found", "raised"}
  /\ at \in {"expand", "execute", "snapshot", "score"} => Waiting(tree, here) /\ done < budget
  /\ IsFiniteSet(candidates) /\ IsFiniteSet(DOMAIN made)
  /\ \A a \in DOMAIN made : made[a] \in Attempt

LEMMA Limits ==
  /\ MinSimulations \in Nat /\ MaxSimulations \in Nat /\ MaxDepth \in Nat \ {0}
  /\ Score \subseteq -1..1 /\ MinSimulations >= 1 /\ MinSimulations <= MaxSimulations
  BY PartsAssumption DEF Search!SearchAssumption

\* A budget is within its limits, however it is rounded.
LEMMA InterpolateBounds ==
  ASSUME NEW lower \in Nat, NEW upper \in Nat, lower <= upper, NEW tenths \in 0..10
  PROVE  Search!Interpolate(lower, upper, tenths) \in lower..upper
  <1> DEFINE scaled == 10 * lower + tenths * (upper - lower)
  <1>1. scaled \in Int /\ 10 * lower <= scaled /\ scaled <= 10 * upper
    <2> DEFINE w == upper - lower
    <2>1. w \in Nat /\ upper = lower + w
      OBVIOUS
    <2>2. tenths \in {0, 1, 2, 3, 4, 5, 6, 7, 8, 9, 10}
      OBVIOUS
    <2> HIDE DEF w
    <2>3. 0 <= tenths * w /\ tenths * w <= 10 * w /\ tenths * w \in Int
      BY <2>1, <2>2
    <2>4. scaled = 10 * lower + tenths * w
      BY DEF w
    <2> QED BY <2>1, <2>3, <2>4
  <1> HIDE DEF scaled
  <1> DEFINE tens == scaled \div 10
             up == scaled % 10 > 5 \/ (scaled % 10 = 5 /\ tens % 2 = 1)
  <1>2. scaled = 10 * tens + (scaled % 10) /\ scaled % 10 \in 0..9 /\ tens \in Int
    BY <1>1
  <1>3. Search!Interpolate(lower, upper, tenths) = tens + (IF up THEN 1 ELSE 0)
    BY DEF Search!Interpolate, scaled
  <1>4. up => scaled % 10 >= 5
    BY <1>2
  <1> HIDE DEF up, tens
  <1> QED BY <1>1, <1>2, <1>3, <1>4

LEMMA SumsInit == Search!Init => SumsInv
  <1> SUFFICES ASSUME Search!Init PROVE SumsInv
    OBVIOUS
  <1>1. PICK score \in Score : tree = [path \in {<<>>} |-> Search!Node(<<>>, 0, FALSE, score)]
    BY DEF Search!Init
  <1>2. /\ at = "select" /\ candidates = {} /\ made = <<>> /\ done = 0
    BY DEF Search!Init
  <1> DEFINE root == Search!Node(<<>>, 0, FALSE, score)
  <1>3. /\ root \in Search!Transition /\ root.reward = 0 /\ root.visits = 0 /\ root.value = 0
        /\ root.score \in Int
    BY Limits DEF Search!Node, Search!Transition
  <1> HIDE DEF root
  <1>4. DOMAIN tree = {<<>>} /\ tree[<<>>] = root
    BY <1>1 DEF root
  <1>5. ChildrenIn(tree, <<>>) = {}
    <2>1. \A a \in Search!Action : Append(<<>>, a) # <<>>
      OBVIOUS
    <2> QED BY <1>4, <2>1 DEF ChildrenIn
  <1>6. WellFormed(tree)
    <2>1. <<>> \in Seq(Search!Action) /\ Len(<<>>) = 0
      OBVIOUS
    <2>2. \A i \in 0..0 : SubSeq(<<>>, 1, i) = <<>>
      BY SubSeqEmpty
    <2>3. IsFiniteSet(ChildrenIn(tree, <<>>)) /\ 0 <= MaxDepth
      BY <1>5, FS_EmptySet, Limits
    <2>4. \A i \in 0..0 : SubSeq(<<>>, 1, i) \in DOMAIN tree
      BY <1>4, <2>2
    <2> QED BY <1>3, <1>4, <2>1, <2>3, <2>4 DEF WellFormed
  <1>7. Balanced(tree, <<>>) /\ Visited(tree, <<>>)
    <2>1. 0 * (root.reward + 20 * root.score) = 0
      BY <1>3
    <2> QED BY <1>3, <1>4, <1>5, <2>1 DEF Balanced, Visited, OwnAllowed
  <1>8. PICK tenths \in 0..10 : budget = Search!Interpolate(MinSimulations, MaxSimulations, tenths)
    BY DEF Search!Init
  <1>9. budget \in MinSimulations..MaxSimulations /\ 0 <= budget
    <2>1. MinSimulations \in Nat /\ MaxSimulations \in Nat /\ MinSimulations <= MaxSimulations
      BY Limits
    <2>2. budget \in MinSimulations..MaxSimulations
      BY <1>8, <2>1, InterpolateBounds
    <2> QED BY <2>1, <2>2
  <1>10. IsFiniteSet(candidates) /\ IsFiniteSet(DOMAIN made) /\ DOMAIN made = {}
    BY <1>2, FS_EmptySet
  <1> QED BY <1>2, <1>3, <1>4, <1>6, <1>7, <1>9, <1>10 DEF SumsInv, AddsUp

LEMMA BackupSums ==
  ASSUME SumsInv, NEW nodes, NEW path, Search!Backup(nodes, path), done < budget,
         AddsUp(nodes), nodes[<<>>].visits = done, path \in DOMAIN nodes, ChildrenIn(nodes, path) = {},
         Waiting(nodes, path) => path # <<>> /\ nodes[path].visits = 0
  PROVE  SumsInv'
  <1>1. BackedUp(tree', nodes, path)
    BY DEF Search!Backup, BackedUp, Prefixes
  <1>2. AddsUp(tree') /\ tree'[<<>>].visits = done + 1
    BY <1>1, BackedUpAdds
  <1>3. AddsUp(tree)'
    BY <1>2
  <1>4. done' = done + 1 /\ at' = "select" /\ candidates' = {} /\ made' = <<>> /\ budget' = budget
    BY DEF Search!Backup
  <1>5. IsFiniteSet({}) /\ DOMAIN <<>> = {}
    BY FS_EmptySet
  <1>6. done \in Nat /\ budget \in Nat
    <2>1. tree[<<>>] \in Search!Transition
      BY DEF SumsInv, AddsUp, WellFormed
    <2> QED BY <2>1, Limits DEF SumsInv, Search!Transition
  <1> QED BY <1>2, <1>3, <1>4, <1>5, <1>6 DEF SumsInv

\* A transition with a state is a node.
LEMMA AttemptNode ==
  ASSUME NEW n \in Attempt, n.state \in Seq(Search!Action)
  PROVE  n \in Search!Transition /\ n.visits = 0 /\ n.value = 0
  <1> DEFINE a == n.state
             r == n.reward
             z == n.terminal
             c == n.score
  <1>1. n = [state |-> a, reward |-> r, terminal |-> z, score |-> c,
             visits |-> 0, value |-> 0, expanded |-> FALSE]
    BY DEF Attempt
  <1>2. a \in Seq(Search!Action) /\ r \in -7..0 /\ z \in BOOLEAN /\ c \in -1..1
    BY DEF Attempt
  <1> HIDE DEF a, r, z, c
  <1>3. [state |-> a, reward |-> r, terminal |-> z, score |-> c,
         visits |-> 0, value |-> 0, expanded |-> FALSE] \in Search!Transition
    BY <1>2 DEF Search!Transition
  <1>4. n \in Search!Transition
    BY <1>1, <1>3
  <1> QED BY <1>1, <1>4

LEMMA SumsSteps ==
  ASSUME SearchInv, SumsInv, [Search!Next]_Search!vars
  PROVE  SumsInv'
  <1>1. /\ WellFormed(tree) /\ here \in DOMAIN tree /\ here \in Seq(Search!Action)
        /\ done \in Nat /\ budget \in Nat
        /\ \A path : Search!Children(path) = ChildrenIn(tree, path)
        /\ \A path : Search!CanExpand(path) <=> Waiting(tree, path)
    <2>1. WellFormed(tree) /\ here \in DOMAIN tree /\ here \in Seq(Search!Action)
      BY DEF SumsInv, AddsUp, SearchInv, Rooted
    <2>2. tree[<<>>] \in Search!Transition
      BY <2>1 DEF WellFormed
    <2>3. done \in Nat /\ budget \in Nat
      BY <2>2, Limits DEF SumsInv, Search!Transition
    <2>4. \A path : Search!Children(path) = ChildrenIn(tree, path)
      BY DEF Search!Children, ChildrenIn
    <2>5. \A path : Search!CanExpand(path) <=> Waiting(tree, path)
      BY DEF Search!CanExpand, Waiting
    <2> QED BY <2>1, <2>3, <2>4, <2>5
  <1>2. ASSUME UNCHANGED <<tree, budget, done>>,
               at' \in {"select", "expand", "execute", "snapshot", "score", "found", "raised"},
               at' \in {"expand", "execute", "snapshot", "score"} =>
                 Waiting(tree, here') /\ done < budget,
               IsFiniteSet(candidates'), IsFiniteSet(DOMAIN made'),
               \A a \in DOMAIN made' : made'[a] \in Attempt
        PROVE  SumsInv'
    <2>1. AddsUp(tree)' /\ (tree[<<>>].visits = done)'
      BY <1>2 DEF SumsInv
    <2>2. (at \in {"expand", "execute", "snapshot", "score"} => Waiting(tree, here) /\ done < budget)'
      BY <1>2
    <2> QED BY <1>2, <2>1, <2>2 DEF SumsInv
  <1>3. CASE UNCHANGED Search!vars
    BY <1>2, <1>3 DEF Search!vars, SumsInv
  <1>4. CASE Search!SelectChild
    BY <1>2, <1>4 DEF Search!SelectChild, SumsInv
  <1>5. CASE Search!RevisitLeaf
    <2>1. Search!Backup(tree, here) /\ done < budget /\ ~ Waiting(tree, here)
      BY <1>1, <1>5 DEF Search!RevisitLeaf
    <2>2. ChildrenIn(tree, here) = {}
      BY <1>1, <1>5 DEF Search!RevisitLeaf, SumsInv, AddsUp, Balanced
    <2> QED BY <1>1, <2>1, <2>2, BackupSums DEF SumsInv
  <1>6. CASE Search!Propose
    <2>1. at = "select" /\ done < budget /\ Waiting(tree, here)
      BY <1>1, <1>6 DEF Search!Propose
    <2>2. CASE Search!Backup([tree EXCEPT ![here].expanded = TRUE], here)
      <3> DEFINE nodes == [tree EXCEPT ![here].expanded = TRUE]
      <3>1. Sprouted(nodes, tree, here, {})
        BY <1>1 DEF Sprouted
      <3>2. Search!Backup(nodes, here) /\ nodes[here].expanded /\ here \in DOMAIN nodes
        <4>1. nodes[here] = [tree[here] EXCEPT !.expanded = TRUE] /\ tree[here] \in Search!Transition
          BY <1>1 DEF WellFormed
        <4> QED BY <1>1, <2>2, <4>1 DEF Search!Transition
      <3> HIDE DEF nodes
      <3>3. AddsUp(nodes) /\ ChildrenIn(nodes, here) = {} /\ nodes[<<>>].visits = tree[<<>>].visits
        BY <1>1, <2>1, <3>1, FS_EmptySet, SproutedAdds DEF SumsInv
      <3>4. nodes[<<>>].visits = done /\ ~ Waiting(nodes, here)
        BY <3>2, <3>3 DEF SumsInv, Waiting
      <3> QED BY <2>1, <3>2, <3>3, <3>4, BackupSums
    <2>3. CASE \E proposed \in Search!Proposals :
                 /\ candidates' = proposed /\ at' = "expand"
                 /\ UNCHANGED <<tree, session, here, made, budget, done>>
      <3>1. IsFiniteSet(candidates')
        <4>1. \A proposed \in Search!Proposals : IsFiniteSet(proposed)
          BY DEF Search!Proposals, Search!IsFiniteSet, IsFiniteSet
        <4> QED BY <2>3, <4>1
      <3> QED BY <1>2, <2>1, <2>3, <3>1 DEF SumsInv
    <2> QED BY <1>6, <2>2, <2>3 DEF Search!Propose
  <1>7. CASE Search!BeginTransition
    BY <1>2, <1>7 DEF Search!BeginTransition, SumsInv
  <1>8. ASSUME NEW a \in Search!Action, NEW ok \in BOOLEAN, Search!Try(a, ok)
        PROVE  SumsInv'
    <2>1. /\ UNCHANGED <<tree, here, budget, done>> /\ at = "execute" /\ at' = "snapshot"
          /\ candidates' = candidates \ {a}
      BY <1>8 DEF Search!Try
    <2>2. PICK new \in Attempt :
            made' = [b \in DOMAIN made \cup {a} |-> IF b = a THEN new ELSE made[b]]
      <3> DEFINE reward == (IF ok THEN 0 ELSE -2) - (IF SearchKind[a] = "invalid" THEN 5 ELSE 0)
                 terminal == SearchKind[a] \in {"final", "invalid"} \/ Len(here) + 1 >= DomainDepth
      <3>1. reward \in -7..0 /\ terminal \in BOOLEAN
        OBVIOUS
      <3>2. made' = [b \in DOMAIN made \cup {a} |->
                      IF b = a THEN Search!Node("unknown", reward, terminal, 0) ELSE made[b]]
        BY <1>8 DEF Search!Try
      <3> HIDE DEF reward, terminal
      <3>3. Search!Node("unknown", reward, terminal, 0) \in Attempt
        BY <3>1 DEF Search!Node, Attempt
      <3> QED BY <3>2, <3>3
    <2>3. /\ IsFiniteSet(candidates') /\ IsFiniteSet(DOMAIN made')
          /\ \A b \in DOMAIN made' : made'[b] \in Attempt
      <3>1. IsFiniteSet(candidates')
        BY <2>1, FS_Subset DEF SumsInv
      <3>2. IsFiniteSet(DOMAIN made')
        BY <2>2, FS_AddElement DEF SumsInv
      <3> QED BY <2>2, <3>1, <3>2 DEF SumsInv
    <2> QED BY <1>2, <2>1, <2>3 DEF SumsInv
  <1>9. ASSUME NEW a \in Search!Action, Search!LateEffect(a)
        PROVE  SumsInv'
    BY <1>2, <1>9 DEF Search!LateEffect, SumsInv
  <1>10. CASE Search!EndTransition
    <2>1. /\ UNCHANGED <<tree, here, candidates, budget, done>> /\ at = "snapshot"
          /\ at' \in {"score", "expand"}
          /\ made' = [b \in DOMAIN made |->
               IF made[b].state = "unknown" THEN [made[b] EXCEPT !.state = session.state] ELSE made[b]]
      BY <1>10 DEF Search!EndTransition
    <2>2. session.state \in Seq(Search!Action)
      BY DEF SearchInv, SessionRestored, Search!Session
    <2>3. \A b \in DOMAIN made : made'[b] \in Attempt
      BY <2>1, <2>2 DEF SumsInv, Attempt
    <2> QED BY <1>2, <2>1, <2>3 DEF SumsInv
  <1>11. CASE Search!Expand
    <2>1. PICK scores \in [DOMAIN made -> Score] :
            \E viable \in Search!Viable(scores) : \E a \in viable :
              Search!Backup(
                [p \in DOMAIN tree \cup {Append(here, b) : b \in viable} |->
                   IF p = here THEN [tree[p] EXCEPT !.expanded = TRUE]
                   ELSE IF p \in DOMAIN tree THEN tree[p]
                   ELSE LET b == p[Len(p)] IN [made[b] EXCEPT !.score = scores[b]]],
                Append(here, a))
      BY <1>11 DEF Search!Expand
    <2>2. PICK viable \in Search!Viable(scores) : \E a \in viable :
              Search!Backup(
                [p \in DOMAIN tree \cup {Append(here, b) : b \in viable} |->
                   IF p = here THEN [tree[p] EXCEPT !.expanded = TRUE]
                   ELSE IF p \in DOMAIN tree THEN tree[p]
                   ELSE LET b == p[Len(p)] IN [made[b] EXCEPT !.score = scores[b]]],
                Append(here, a))
      BY <2>1
    <2> DEFINE nodes == [p \in DOMAIN tree \cup {Append(here, b) : b \in viable} |->
                   IF p = here THEN [tree[p] EXCEPT !.expanded = TRUE]
                   ELSE IF p \in DOMAIN tree THEN tree[p]
                   ELSE LET b == p[Len(p)] IN [made[b] EXCEPT !.score = scores[b]]]
    <2>3. PICK a \in viable : Search!Backup(nodes, Append(here, a))
      BY <2>2
    <2>4. /\ at = "score" /\ done < budget /\ Waiting(tree, here)
          /\ viable \subseteq DOMAIN made /\ viable \subseteq Search!Action /\ IsFiniteSet(viable)
      <3>1. at = "score" /\ done < budget /\ Waiting(tree, here)
        BY <1>11 DEF Search!Expand, SumsInv
      <3>2. viable \subseteq DOMAIN made
        BY DEF Search!Viable
      <3> QED BY <3>1, <3>2, FS_Subset DEF SumsInv, SearchInv, Tried
    <2>5. ASSUME NEW b \in viable
          PROVE  [made[b] EXCEPT !.score = scores[b]] \in
                   {n \in Search!Transition : n.visits = 0 /\ n.value = 0}
      <3>1. made[b] \in Attempt /\ made[b].state \in Seq(Search!Action)
        <4>1. made[b] \in Attempt
          BY <2>4 DEF SumsInv
        <4>2. /\ made[b].state \in Branch(b) /\ b \in Search!Action
              /\ tree[here].state \in Seq(Search!Action)
          BY <1>1, <2>4 DEF SearchInv, Tried, Rooted
        <4>3. Append(tree[here].state, b) \in Seq(Search!Action)
          BY <4>2, AppendProperties
        <4> QED BY <4>1, <4>2, <4>3 DEF Branch
      <3>2. scores[b] \in -1..1
        BY <2>1, <2>4, Limits
      <3> DEFINE n == made[b]
                 z == scores[b]
                 m == [n EXCEPT !.score = z]
      <3>3. n \in Attempt /\ n.state \in Seq(Search!Action) /\ z \in -1..1
        BY <3>1, <3>2
      <3> HIDE DEF n, z
      <3>4. n \in Search!Transition /\ n.visits = 0 /\ n.value = 0
        BY <3>3, AttemptNode
      <3>5. m \in Search!Transition /\ m.visits = 0 /\ m.value = 0
        BY <3>3, <3>4 DEF Search!Transition
      <3> QED BY <3>5 DEF n, z
    <2>6. ASSUME NEW b \in viable
          PROVE  /\ Append(here, b) \notin DOMAIN tree /\ Append(here, b) # here
                 /\ nodes[Append(here, b)] = [made[b] EXCEPT !.score = scores[b]]
      <3>1. Append(here, b) \notin DOMAIN tree
        BY <2>4 DEF SumsInv, AddsUp, Balanced, Waiting, ChildrenIn, SearchInv, Rooted
      <3>2. Append(here, b)[Len(Append(here, b))] = b
        BY <1>1, <2>4, ChildPath
      <3> QED BY <1>1, <3>1, <3>2
    <2>7. Sprouted(nodes, tree, here, viable)
      <3>1. DOMAIN nodes = DOMAIN tree \cup {Append(here, b) : b \in viable}
        OBVIOUS
      <3>2. nodes[here] = [tree[here] EXCEPT !.expanded = TRUE]
        BY <1>1
      <3>3. \A q \in DOMAIN tree \ {here} : nodes[q] = tree[q]
        OBVIOUS
      <3> HIDE DEF nodes
      <3> QED BY <2>5, <2>6, <3>1, <3>2, <3>3 DEF Sprouted
    <2> HIDE DEF nodes
    <2>8. /\ AddsUp(nodes) /\ ChildrenIn(nodes, Append(here, a)) = {}
          /\ nodes[<<>>].visits = tree[<<>>].visits
      BY <1>1, <2>4, <2>7, SproutedAdds DEF SumsInv
    <2>9. /\ Append(here, a) \in DOMAIN nodes /\ Append(here, a) # <<>>
          /\ nodes[Append(here, a)].visits = 0
      BY <1>1, <2>4, <2>7, ChildPath DEF Sprouted
    <2> QED BY <2>3, <2>4, <2>8, <2>9, BackupSums DEF SumsInv
  <1>12. CASE Search!Finish \/ Search!Fail
    BY <1>2, <1>12 DEF Search!Finish, Search!Fail, SumsInv
  <1> QED BY <1>3, <1>4, <1>5, <1>6, <1>7, <1>8, <1>9, <1>10, <1>11, <1>12 DEF Search!Next

LEMMA SumsTell ==
  ASSUME SearchInv, SumsInv
  PROVE  Search!TypeOK /\ Search!VisitsAddUp /\ Search!ValuesAddUp
  <1>1. Search!TypeOK
    <2>1. \A path \in DOMAIN tree :
            /\ path \in Seq(Search!Action) /\ Len(path) <= MaxDepth
            /\ path # <<>> => Search!Parent(path) \in DOMAIN tree
            /\ tree[path] \in Search!Transition
      BY DEF SearchInv, Rooted, SumsInv, AddsUp, WellFormed
    <2>2. session \in Search!Session /\ here \in DOMAIN tree /\ candidates \subseteq Search!Action
          /\ DOMAIN made \subseteq Search!Action
      BY DEF SearchInv, Rooted, Tried, SessionRestored
    <2>3. ASSUME NEW a \in DOMAIN made, made[a].state # "unknown" PROVE made[a] \in Search!Transition
      <3> DEFINE n == made[a]
      <3>1. n \in Attempt /\ n.state # "unknown"
        BY <2>3 DEF SumsInv
      <3> HIDE DEF n
      <3>2. n.state \in Seq(Search!Action)
        BY <3>1 DEF Attempt
      <3>3. n \in Search!Transition
        BY <3>1, <3>2, AttemptNode
      <3> QED BY <3>3 DEF n
    <2> QED BY <2>1, <2>2, <2>3 DEF Search!TypeOK, SumsInv
  <1>2. \A path : Search!Children(path) = ChildrenIn(tree, path)
    BY DEF Search!Children, ChildrenIn
  <1>3. ASSUME NEW path PROVE Search!OwnVisits(path) = Own(tree, path)
    BY DEF Search!OwnVisits, Own, VisitsOf, Search!Children, ChildrenIn, Total,
           Search!FoldFunctionOnSet, Search!MapThenFoldSet
  <1>4. Search!VisitsAddUp
    BY <1>2, <1>3 DEF Search!VisitsAddUp, SumsInv, AddsUp, Balanced, OwnAllowed
  <1>5. Search!ValuesAddUp
    <2> DEFINE Values(path) ==
                 Search!FoldFunctionOnSet(+, 0, [a \in Search!Children(path) |-> tree[Append(path, a)].value],
                                          Search!Children(path))
    <2> SUFFICES ASSUME NEW path \in DOMAIN tree, Search!Children(path) # {}
                 PROVE  tree[path].value =
                          Values(path) + tree[path].visits * tree[path].reward
                            + Search!OwnVisits(path) * 20 * tree[path].score
      BY DEF Search!ValuesAddUp
    <2>1. tree[path].value =
            Total(0, ValuesOf(tree, path), ChildrenIn(tree, path))
              + tree[path].visits * tree[path].reward + Own(tree, path) * 20 * tree[path].score
      BY <1>2 DEF SumsInv, AddsUp, Balanced
    <2>2. Values(path) = Total(0, ValuesOf(tree, path), ChildrenIn(tree, path))
      BY DEF ValuesOf, Search!Children, ChildrenIn, Total,
             Search!FoldFunctionOnSet, Search!MapThenFoldSet
    <2> HIDE DEF Values
    <2> QED BY <1>3, <2>1, <2>2
  <1> QED BY <1>1, <1>4, <1>5

LEMMA SearchAddsUp ==
  Search!Spec => [](Search!TypeOK /\ Search!VisitsAddUp /\ Search!ValuesAddUp)
  <1>1. Search!Init => SearchInv /\ SumsInv
    BY SearchInit, SumsInit
  <1>2. SearchInv /\ SumsInv /\ [Search!Next]_Search!vars => (SearchInv /\ SumsInv)'
    BY SearchSteps, SumsSteps, PartsAssumption
  <1>3. SearchInv /\ SumsInv => Search!TypeOK /\ Search!VisitsAddUp /\ Search!ValuesAddUp
    BY SumsTell
  <1> QED BY <1>1, <1>2, <1>3, PTL DEF Search!Spec

-----------------------------------------------------------------------------
(* The parts together *)

\* A behaviour of Parts is one of each part: those that it is not of rest.
LEMMA LoopOfParts == PartsSpec => Loop!Spec
  <1>1. PartsInit => Loop!Init
    BY DEF PartsInit
  <1>2. [PartsNext]_PartsVars => [Loop!Next]_Loop!vars
    BY DEF PartsNext, PartsVars, ofLoop, InLoop, InSearch, InStudio, InShards, Loop!Next, Loop!vars
  <1> QED BY <1>1, <1>2, PTL DEF PartsSpec, Loop!Spec

LEMMA SearchOfParts == PartsSpec => Search!Spec
  <1>1. PartsInit => Search!Init
    BY DEF PartsInit
  <1>2. [PartsNext]_PartsVars => [Search!Next]_Search!vars
    BY DEF PartsNext, PartsVars, ofSearch, InLoop, InSearch, InStudio, InShards, Search!Next,
       Search!vars
  <1> QED BY <1>1, <1>2, PTL DEF PartsSpec, Search!Spec

LEMMA StudioOfParts == PartsSpec => Studio!Spec
  <1>1. PartsInit => Studio!Init
    BY DEF PartsInit
  <1>2. [PartsNext]_PartsVars => [Studio!Next]_Studio!vars
    BY DEF PartsNext, PartsVars, ofStudio, InLoop, InSearch, InStudio, InShards, Studio!Next,
       Studio!vars, Studio!Lifespan, Studio!Work
  <1> QED BY <1>1, <1>2, PTL DEF PartsSpec, Studio!Spec

\* While the studio serves, a run that its row shows as queued or running has the
\* handler that is creating it, or its task, to end it, for any number of runs and
\* whatever was cancelled, failed or killed before.
THEOREM ActiveRunsOwned == PartsSpec => []ActiveOwned
  BY StudioOfParts, StudioActiveOwned DEF ActiveOwned

\* A run that has ended stays as it is, though threads of cancelled tasks, failing
\* handlers and a process that closes still act on what they have read of it.
THEOREM EndedRunsStay == PartsSpec => TerminalForGood
  BY StudioOfParts, StudioEndedStay DEF TerminalForGood

\* What a returned trajectory says of its end is what its steps show, for any tools
\* and limits: run stops at the first reason to stop that it meets.
THEOREM EndsTruthful == PartsSpec => []TrajectoriesTruthful
  BY LoopOfParts, LoopEndsTruthful, PartsAssumption DEF TrajectoriesTruthful

\* The snapshots of a trajectory tell what its calls did, for any tools and number
\* of steps: states only grow, with the effect of each successful call once and of
\* each failed one at most once, though it may come late; the revision counts the
\* successful ones.
THEOREM CallsAccounted == PartsSpec => []EffectsAccounted
  BY LoopOfParts, LoopAccounted, PartsAssumption DEF EffectsAccounted

\* The state of a node is that of its parent with at most its own action's effect,
\* for any number of simulations and tools, however late the threads of other
\* branches have theirs: every transition starts from a copy of the snapshot.
THEOREM BranchesStayIsolated == PartsSpec => []BranchesIsolated
  BY SearchOfParts, SearchIsolated, PartsAssumption DEF BranchesIsolated

\* The tree, the budget and what was tried stay what the code means them to be.
THEOREM SearchTypeCorrect == PartsSpec => []Search!TypeOK
  BY SearchOfParts, SearchAddsUp, PTL

\* The visits of a node are those of its children and at most one of its own, those
\* of the root the simulations, for any tree that a search can grow: a node is the
\* end of a simulation before it is expanded once at most.
THEOREM VisitsAreOfChildren == PartsSpec => []VisitsAddUp
  BY SearchOfParts, SearchAddsUp, PTL DEF VisitsAddUp

\* The value of a node is the sum of its children's, its reward for each of its
\* visits and its own score for the one that ended in it: whatever was explored, a
\* backup gives to every node above what it gives to the end of the path.
THEOREM ValuesAreBackedUp == PartsSpec => []ValuesAddUp
  BY SearchOfParts, SearchAddsUp, PTL DEF ValuesAddUp
================================================================================
