---------------------------- MODULE PromotionProofs ----------------------------
(***************************************************************************)
(* Theorems about promotion: about ExperimentPromotion, for any stages,    *)
(* runners, operators, contents of files and policy, and about             *)
(* PromotionAcquisition, for any operators, number of chunks, contents of  *)
(* the sources and deaths.                                                 *)
(*                                                                         *)
(* A record of a stage is created once and stays (Kept).  So what a reader *)
(* concludes from a record it has seen stays true however old its report   *)
(* is: a stage reported as succeeded has a record (ReaderKnows), an        *)
(* operator who has an index has the records of all stages, and one who    *)
(* has come past the artifacts has found them to agree (PromoterKnows).    *)
(*                                                                         *)
(* Of an acquisition, every file is created once and no command writes a   *)
(* file before those that it vouches for: a receipt comes after the chunks *)
(* it is the digest of, a record after the receipt (CacheSound,            *)
(* OutputSound).  So what a command has found of its prefix still holds    *)
(* when it links its next file (FetchKnows, AcquireKnows), and another     *)
(* command in the same prefix, or one that died in it, can only have done  *)
(* some of the same.                                                       *)
(***************************************************************************)
EXTENDS ExperimentPromotion, PromotionAcquisition, Sequences, WellFoundedInduction, TLAPS

-----------------------------------------------------------------------------
(* A trial, its reports and its promotion.                                  *)

\* What the evidence of a set of input or output files may be.
Gathered   == {<<>>} \cup UNION {[S -> Given] : S \in SUBSET File}
Recordings == {NoRecord} \cup UNION {Records(s) : s \in Stage}
RunCall == [at : {"idle", "look", "inputs", "reuse", "command", "collect", "publish"},
            stage : Stage, done : SUBSET Stage, saw : Recordings,
            inputs : Gathered, outputs : Gathered]

\* A runner holds the evidence of the inputs, then of the outputs of its stage.
Holds(r) ==
  /\ run[r].at \in {"command", "collect", "publish"} => run[r].inputs \in [Reads[run[r].stage] -> Given]
  /\ run[r].at = "publish" => run[r].outputs \in [Writes[run[r].stage] -> Given]

Stored ==
  /\ TypeOK
  /\ record \in [Stage -> Recordings]
  /\ run \in [Runner -> RunCall]
  /\ \A r \in Runner : Holds(r)

Known(s) == record[s] # NoRecord

ReaderKnows(x) ==
  /\ \A s \in Stage : reading[x].seen[s] \in Succeeded => Known(s)
  /\ reading[x].at \in {"outputs", "gates"} => Known(reading[x].stage)

PromoterKnows(p) ==
  /\ promoter[p].index # Unseen => Eligible(promoter[p].index) /\ \A s \in Stage : Known(s)
  /\ promoter[p].at \notin {"idle", "index"} => promoter[p].index # Unseen
  /\ promoter[p].at \in {"current", "decide"} => Merged
  /\ promoter[p].at \in {"sidecars", "report", "last"} => decision # NoDecision

Decided ==
  /\ PromotedCoherent
  /\ sidecars.first => decision # NoDecision

Inv ==
  /\ Stored /\ PromotionTypeOK
  /\ \A x \in Reader : ReaderKnows(x) /\ PromoterKnows(x)
  /\ Decided

\* What no step of the system does to the records.
Kept == \A s \in Stage : Known(s) => record'[s] = record[s]

-----------------------------------------------------------------------------
LEMMA Parameters ==
  /\ Stages \in Nat \ {0} /\ 1 \in Stage /\ Stage \subseteq Nat
  /\ \A s \in Stage : Writes[s] # {}
  /\ MaxCrashes \in Nat
  BY PlanAssumption DEF Stage

LEMMA EvidenceGathered ==
  /\ <<>> \in Gathered
  /\ \A S \in SUBSET File : [S -> Given] \subseteq Gathered
  /\ NoRecord \in Recordings
  /\ \A s \in Stage : Records(s) \subseteq Recordings
  BY DEF Gathered, Recordings

\* A record names an output, which the absence of a record does not.
LEMMA RecordsAreRecords ==
  ASSUME NEW s \in Stage, NEW v \in Records(s)
  PROVE  v # NoRecord
  <1>1. DOMAIN v.outputs = Writes[s]
    BY DEF Records
  <1>2. DOMAIN NoRecord.outputs = {}
    BY DEF NoRecord
  <1> QED BY <1>1, <1>2, Parameters

\* The trial goes on at a later stage, or is over.
LEMMA NextStageLater ==
  ASSUME NEW s \in 1..(Stages + 1), NEW done
  PROVE  NextStage(s, done) \in s..(Stages + 1)
  <1> DEFINE R == OpToRel(<, Nat)
             Free(t) == t = Stages + 1 \/ DependsOn[t] \subseteq done
             T == {t \in s..(Stages + 1) : Free(t)}
  <1>1. IsWellFoundedOn(R, Nat)
    BY NatLessThanWellFounded
  <1>2. \A x, y \in Nat : <<x, y>> \in R <=> x < y
    BY DEF OpToRel
  <1> HIDE DEF R
  <1>3. T \subseteq Nat /\ T # {}
    <2>1. Stages + 1 \in s..(Stages + 1) /\ s..(Stages + 1) \subseteq Nat
      BY Parameters
    <2> QED BY <2>1
  <1>4. PICK t \in T : \A y \in T : ~(<<y, t>> \in R)
    <2> HIDE DEF T
    <2> QED BY <1>1, <1>3, WFMin
  <1>5. \A u \in s..(t - 1) : ~ DependsOn[u] \subseteq done
    <2> SUFFICES ASSUME NEW u \in s..(t - 1), DependsOn[u] \subseteq done PROVE FALSE
      OBVIOUS
    <2>1. t \in Nat /\ u \in Nat /\ u < t /\ u \in s..(Stages + 1)
      BY <1>3, Parameters
    <2>2. u \in T
      BY <2>1
    <2> QED BY <1>2, <1>4, <2>1, <2>2
  <1> HIDE DEF R
  <1> QED BY <1>4, <1>5 DEF NextStage

\* A runner leaves its stage idle or for a later one, with nothing in its hands.
LEMMA Leaving ==
  ASSUME Stored, NEW r \in Runner, NEW done \in SUBSET Stage, Leave(r, done)
  PROVE  \E e \in RunCall : e.at \in {"idle", "look"} /\ run' = [run EXCEPT ![r] = e]
  <1> DEFINE next == NextStage(run[r].stage + 1, done)
             e == IF next > Stages THEN IdleRun
                  ELSE [IdleRun EXCEPT !.at = "look", !.stage = next, !.done = done]
  <1>1. run[r].stage \in Stage
    BY DEF Stored, RunCall
  <1>2. run[r].stage + 1 \in 1..(Stages + 1)
    BY <1>1, Parameters DEF Stage
  <1>3. next \in (run[r].stage + 1)..(Stages + 1)
    BY <1>2, NextStageLater
  <1> HIDE DEF next
  <1>4. ~(next > Stages) => next \in Stage
    BY <1>1, <1>3, Parameters DEF Stage
  <1>5. IdleRun \in RunCall /\ IdleRun.at = "idle"
    BY Parameters, EvidenceGathered DEF IdleRun, RunCall
  <1>6. e \in RunCall /\ e.at \in {"idle", "look"}
    BY <1>4, <1>5, EvidenceGathered DEF RunCall, IdleRun
  <1>7. run' = [run EXCEPT ![r] = e]
    BY DEF Leave, next
  <1> QED BY <1>6, <1>7

\* What collecting the evidence of a set of files gives.
LEMMA EvidenceTyped ==
  ASSUME TypeOK, NEW S \in SUBSET File
  PROVE  Evidence(S) \in [S -> Given]
  BY DEF TypeOK, Evidence

LEMMA StageFiles ==
  ASSUME NEW s \in Stage
  PROVE  Reads[s] \in SUBSET File /\ Writes[s] \in SUBSET File
  BY DEF File, Artifacts

-----------------------------------------------------------------------------
(* The steps of runners.                                                     *)

\* Steps that leave everything but what one runner does, and attempts, alone.
LEMMA OnlyRunner ==
  ASSUME Stored, NEW r \in Runner, NEW e \in RunCall, run' = [run EXCEPT ![r] = e],
         e.at \in {"command", "collect", "publish"} => e.inputs \in [Reads[e.stage] -> Given],
         e.at = "publish" => e.outputs \in [Writes[e.stage] -> Given],
         UNCHANGED <<files, record, reading, crashes>>,
         attempted' \subseteq Stage, orphans' \subseteq Stage
  PROVE  Stored'
  <1>1. run' \in [Runner -> RunCall]
    BY DEF Stored
  <1>2. \A x \in Runner : Holds(x)'
    BY DEF Stored, Holds
  <1>3. TypeOK'
    BY <1>1, Parameters DEF Stored, TypeOK, RunCall, Attempts, Stage
  <1> QED BY <1>1, <1>2, <1>3 DEF Stored

LEMMA LeavingStored ==
  ASSUME Stored, NEW r \in Runner, NEW done \in SUBSET Stage, Leave(r, done),
         UNCHANGED <<files, record, reading, crashes, orphans>>, attempted' \subseteq Stage
  PROVE  Stored'
  <1>1. PICK e \in RunCall : e.at \in {"idle", "look"} /\ run' = [run EXCEPT ![r] = e]
    BY Leaving
  <1>2. orphans' \subseteq Stage
    BY DEF Stored, TypeOK
  <1> QED BY <1>1, <1>2, OnlyRunner

LEMMA RunnerTyped ==
  ASSUME Stored, NEW r \in Runner
  PROVE  /\ run[r] \in RunCall /\ run[r].stage \in Stage /\ run[r].done \in SUBSET Stage
         /\ run \in [Runner -> RunCall]
         /\ attempted \subseteq Stage /\ attempted \cup {run[r].stage} \subseteq Stage
         /\ orphans \subseteq Stage
  BY DEF Stored, RunCall, TypeOK, Attempts

LEMMA BeginTrialStored ==
  ASSUME Stored, NEW r \in Runner, BeginTrial(r) PROVE Stored'
  <1> DEFINE e == [IdleRun EXCEPT !.at = "look"]
  <1>1. e \in RunCall /\ e.at = "look" /\ run' = [run EXCEPT ![r] = e]
    BY Parameters, EvidenceGathered DEF BeginTrial, RunCall, IdleRun
  <1> HIDE DEF e
  <1> QED BY <1>1, OnlyRunner, RunnerTyped DEF BeginTrial, stored

LEMMA LoadRecordStored ==
  ASSUME Stored, NEW r \in Runner, LoadRecord(r) PROVE Stored'
  <1> DEFINE e == [run[r] EXCEPT !.at = "inputs", !.saw = record[run[r].stage]]
  <1>1. record[run[r].stage] \in Recordings
    BY RunnerTyped DEF Stored
  <1>2. e \in RunCall /\ e.at = "inputs" /\ run' = [run EXCEPT ![r] = e]
    BY <1>1, RunnerTyped DEF LoadRecord, RunCall
  <1> HIDE DEF e
  <1> QED BY <1>2, OnlyRunner, RunnerTyped DEF LoadRecord, stored

LEMMA CollectInputsStored ==
  ASSUME Stored, NEW r \in Runner, CollectInputs(r) PROVE Stored'
  <1> DEFINE s == run[r].stage
             inputs == Evidence(Reads[s])
  <1>0. UNCHANGED <<files, record, reading, crashes, orphans>> /\ TypeOK /\ s \in Stage
    BY RunnerTyped DEF CollectInputs, Stored
  <1>1. CASE attempted' = attempted \cup {s} /\ Leave(r, run[r].done)
    BY <1>0, <1>1, RunnerTyped, LeavingStored
  <1>2. CASE UNCHANGED attempted /\ Leave(r, run[r].done)
    BY <1>0, <1>2, RunnerTyped, LeavingStored
  <1>3. CASE Whole(s, Reads[s]) /\ run' = [run EXCEPT ![r].at = "command", ![r].inputs = inputs] /\ UNCHANGED attempted
    <2> DEFINE e == [run[r] EXCEPT !.at = "command", !.inputs = inputs]
    <2>1. inputs \in [Reads[s] -> Given] /\ inputs \in Gathered
      BY <1>0, <1>3, StageFiles, EvidenceTyped, EvidenceGathered
    <2> HIDE DEF inputs
    <2>2. e \in RunCall /\ e.at = "command" /\ e.inputs = inputs /\ e.stage = s /\ run' = [run EXCEPT ![r] = e]
      BY <1>3, <2>1, RunnerTyped DEF RunCall
    <2> HIDE DEF e
    <2> QED BY <1>0, <1>3, <2>1, <2>2, OnlyRunner, RunnerTyped
  <1>4. CASE run' = [run EXCEPT ![r].at = "reuse"] /\ UNCHANGED attempted
    <2> DEFINE e == [run[r] EXCEPT !.at = "reuse"]
    <2>1. e \in RunCall /\ e.at = "reuse" /\ run' = [run EXCEPT ![r] = e]
      BY <1>4, RunnerTyped DEF RunCall
    <2> HIDE DEF e
    <2> QED BY <1>0, <1>4, <2>1, OnlyRunner, RunnerTyped
  <1> QED BY <1>1, <1>2, <1>3, <1>4 DEF CollectInputs

LEMMA ReuseStored ==
  ASSUME Stored, NEW r \in Runner, Reuse(r) PROVE Stored'
  <1> DEFINE done == IF Whole(run[r].stage, Writes[run[r].stage]) /\ Evidence(Writes[run[r].stage]) = run[r].saw.outputs
                       THEN run[r].done \cup {run[r].stage} ELSE run[r].done
  <1>1. done \in SUBSET Stage /\ Leave(r, done)
    BY RunnerTyped DEF Reuse
  <1> HIDE DEF done
  <1> QED BY <1>1, RunnerTyped, LeavingStored DEF Reuse, stored

LEMMA CommandWritesStored ==
  ASSUME Stored, NEW s \in Stage, NEW f \in Writes[s], NEW c \in Given, CommandWrites(s, f, c)
  PROVE  Stored'
  <1>1. files' \in [File -> Given]
    BY DEF CommandWrites, Stored, TypeOK
  <1> QED BY <1>1 DEF CommandWrites, stored, processes, Stored, TypeOK, Holds

LEMMA CommandEndsStored ==
  ASSUME Stored, NEW r \in Runner, CommandSucceeds(r) \/ CommandFails(r) PROVE Stored'
  <1>1. CASE CommandSucceeds(r)
    <2> DEFINE e == [run[r] EXCEPT !.at = "collect"]
    <2>1. e \in RunCall /\ e.at = "collect" /\ e.inputs = run[r].inputs /\ e.stage = run[r].stage
          /\ run' = [run EXCEPT ![r] = e]
      BY <1>1, RunnerTyped DEF CommandSucceeds, RunCall
    <2>2. run[r].inputs \in [Reads[run[r].stage] -> Given]
      BY <1>1 DEF CommandSucceeds, At, Stored, Holds
    <2> HIDE DEF e
    <2> QED BY <1>1, <2>1, <2>2, OnlyRunner, RunnerTyped DEF CommandSucceeds, stored
  <1>2. CASE CommandFails(r)
    BY <1>2, RunnerTyped, LeavingStored DEF CommandFails
  <1> QED BY <1>1, <1>2

LEMMA CollectOutputsStored ==
  ASSUME Stored, NEW r \in Runner, CollectOutputs(r) PROVE Stored'
  <1> DEFINE s == run[r].stage
             outputs == Evidence(Writes[s])
  <1>0. UNCHANGED <<files, record, reading, crashes, orphans>> /\ TypeOK /\ s \in Stage /\ At(r, "collect")
    BY RunnerTyped DEF CollectOutputs, Stored
  <1>1. CASE attempted' = attempted \cup {s} /\ Leave(r, run[r].done)
    BY <1>0, <1>1, RunnerTyped, LeavingStored
  <1>2. CASE Whole(s, Writes[s]) /\ run' = [run EXCEPT ![r].at = "publish", ![r].outputs = outputs] /\ UNCHANGED attempted
    <2> DEFINE e == [run[r] EXCEPT !.at = "publish", !.outputs = outputs]
    <2>1. outputs \in [Writes[s] -> Given] /\ outputs \in Gathered
      BY <1>0, <1>2, StageFiles, EvidenceTyped, EvidenceGathered
    <2> HIDE DEF outputs
    <2>2. /\ e \in RunCall /\ e.at = "publish" /\ e.inputs = run[r].inputs /\ e.outputs = outputs
          /\ e.stage = s /\ run' = [run EXCEPT ![r] = e]
      BY <1>2, <2>1, RunnerTyped DEF RunCall
    <2>3. run[r].inputs \in [Reads[s] -> Given]
      BY <1>0 DEF At, Stored, Holds
    <2> HIDE DEF e
    <2> QED BY <1>0, <1>2, <2>1, <2>2, <2>3, OnlyRunner, RunnerTyped
  <1> QED BY <1>1, <1>2 DEF CollectOutputs

\* A record is put where there is none, and names its outputs.
LEMMA PutRecordStored ==
  ASSUME Stored, NEW r \in Runner, PutRecord(r) PROVE Stored' /\ Kept
  <1> DEFINE s == run[r].stage
             mine == [inputs |-> run[r].inputs, outputs |-> run[r].outputs]
             done == IF record'[s] = mine THEN run[r].done \cup {s} ELSE run[r].done
  <1>1. s \in Stage /\ mine \in Records(s)
    BY RunnerTyped DEF PutRecord, At, Stored, Holds, Records
  <1>2. mine # NoRecord /\ mine \in Recordings
    BY <1>1, RecordsAreRecords, EvidenceGathered
  <1>3. /\ record' = IF record[s] = NoRecord THEN [record EXCEPT ![s] = mine] ELSE record
        /\ Leave(r, done)
        /\ UNCHANGED <<files, attempted, orphans, reading, crashes>>
    BY DEF PutRecord
  <1>4. done \in SUBSET Stage
    BY RunnerTyped
  <1> HIDE DEF mine, done
  <1>5. record' \in [Stage -> Recordings] /\ Kept
    BY <1>1, <1>2, <1>3 DEF Stored, Kept, Known
  <1>6. PICK e \in RunCall : e.at \in {"idle", "look"} /\ run' = [run EXCEPT ![r] = e]
    BY <1>3, <1>4, Leaving
  <1>7. run' \in [Runner -> RunCall]
    BY <1>6 DEF Stored
  <1>8. \A x \in Runner : Holds(x)'
    BY <1>6 DEF Stored, Holds
  <1>9. TypeOK'
    <2>1. \A t \in Stage : (record[t] = NoRecord \/ record[t] \in Records(t))'
      BY <1>1, <1>3 DEF Stored, TypeOK, Records
    <2> QED BY <1>3, <1>7, <2>1, Parameters DEF Stored, TypeOK, RunCall, Stage
  <1> QED BY <1>5, <1>7, <1>8, <1>9 DEF Stored

LEMMA CrashStored ==
  ASSUME Stored, NEW r \in Runner, Crash(r) PROVE Stored'
  <1>1. IdleRun \in RunCall /\ IdleRun.at = "idle"
    BY Parameters, EvidenceGathered DEF IdleRun, RunCall
  <1>2. run' \in [Runner -> RunCall] /\ \A x \in Runner : Holds(x)'
    BY <1>1 DEF Stored, Crash, Holds
  <1>3. orphans' \subseteq Stage /\ crashes' \in 0..MaxCrashes
    <2>1. orphans' \subseteq Stage
      BY RunnerTyped DEF Crash
    <2>2. crashes' \in 0..MaxCrashes
      BY Parameters DEF Crash, Stored, TypeOK
    <2> QED BY <2>1, <2>2
  <1>4. TypeOK'
    BY <1>2, <1>3, Parameters DEF Crash, stored, Stored, TypeOK, RunCall, Stage
  <1> QED BY <1>2, <1>4 DEF Stored, Crash, stored

LEMMA RunStepStored ==
  ASSUME Stored, RunSteps
  PROVE  Stored' /\ Kept /\ reading' = reading
  <1>1. ASSUME NEW r \in Runner,
               \/ BeginTrial(r) \/ LoadRecord(r) \/ CollectInputs(r) \/ Reuse(r) \/ CommandSucceeds(r)
               \/ CommandFails(r) \/ CollectOutputs(r) \/ PutRecord(r) \/ Crash(r)
        PROVE  Stored' /\ Kept /\ reading' = reading
    <2>1. Stored'
      BY <1>1, BeginTrialStored, LoadRecordStored, CollectInputsStored, ReuseStored, CommandEndsStored,
         CollectOutputsStored, PutRecordStored, CrashStored
    <2>2. CASE PutRecord(r)
      BY <2>1, <2>2, PutRecordStored DEF PutRecord
    <2>3. CASE ~ PutRecord(r)
      <3>1. record' = record /\ reading' = reading
        BY <1>1, <2>3 DEF BeginTrial, LoadRecord, CollectInputs, Reuse, CommandSucceeds, CommandFails,
           CollectOutputs, Crash, stored
      <3> QED BY <2>1, <3>1 DEF Kept
    <2> QED BY <2>2, <2>3
  <1>2. ASSUME NEW s \in Stage, OrphanEnds(s)
        PROVE  Stored' /\ Kept /\ reading' = reading
    BY <1>2 DEF OrphanEnds, stored, Stored, TypeOK, Holds, Kept
  <1>3. ASSUME NEW s \in Stage, NEW f \in Writes[s], NEW c \in Given, CommandWrites(s, f, c)
        PROVE  Stored' /\ Kept /\ reading' = reading
    BY <1>3, CommandWritesStored DEF CommandWrites, stored, Kept
  <1> QED BY <1>1, <1>2, <1>3 DEF RunSteps

-----------------------------------------------------------------------------
(* The steps of readers.                                                     *)

LEMMA ReaderTyped ==
  ASSUME Stored, NEW x \in Reader
  PROVE  /\ reading \in [Reader -> Reading] /\ reading[x] \in Reading
         /\ reading[x].stage \in Stage /\ reading[x].seen \in [Stage -> Seen]
  BY DEF Stored, TypeOK, Reading

\* Steps that leave everything but one report in the making alone.
LEMMA OnlyReading ==
  ASSUME Stored, NEW x \in Reader, NEW e \in Reading, reading' = [reading EXCEPT ![x] = e],
         UNCHANGED <<files, stored, processes>>
  PROVE  Stored'
  <1>1. reading' \in [Reader -> Reading]
    BY DEF Stored, TypeOK
  <1> QED BY <1>1 DEF stored, processes, Stored, TypeOK, Holds

LEMMA SummariseTyped ==
  ASSUME Stored, NEW x \in Reader, NEW what \in Seen, Summarise(x, what)
  PROVE  \E e \in Reading :
           /\ reading' = [reading EXCEPT ![x] = e]
           /\ e.at \in {"inputs", "report"}
           /\ e.seen = [reading[x].seen EXCEPT ![reading[x].stage] = what]
  <1> DEFINE s == reading[x].stage
             said == [reading[x].seen EXCEPT ![s] = what]
             e == IF s = Stages THEN [at |-> "report", stage |-> 1, seen |-> said]
                  ELSE [at |-> "inputs", stage |-> s + 1, seen |-> said]
  <1>1. s \in Stage /\ said \in [Stage -> Seen]
    BY ReaderTyped
  <1> HIDE DEF said
  <1>2. s # Stages => s + 1 \in Stage
    BY <1>1, Parameters DEF Stage
  <1>3. e \in Reading /\ e.at \in {"inputs", "report"} /\ e.seen = said
    BY <1>1, <1>2, Parameters DEF Reading
  <1>4. reading' = [reading EXCEPT ![x] = e]
    BY DEF Summarise, said
  <1> QED BY <1>3, <1>4 DEF said

\* What a step of a reader leaves: its report, and the records it has seen.
LEMMA ReadStepStored ==
  ASSUME Inv, NEW x \in Reader, ReadSteps(x)
  PROVE  /\ Stored' /\ Kept /\ record' = record
         /\ \A y \in Reader : ReaderKnows(y)'
  <1>0. Stored /\ ReaderKnows(x) /\ UNCHANGED <<files, stored, processes>>
    BY DEF Inv, ReadSteps, PassOver, ReadInputs, ReadOutputs, EvaluateGates
  <1>1. SUFFICES \E e \in Reading :
           /\ reading' = [reading EXCEPT ![x] = e]
           /\ \A s \in Stage : e.seen[s] \in Succeeded => Known(s)
           /\ e.at \in {"outputs", "gates"} => Known(e.stage)
    <2>1. PICK e \in Reading :
           /\ reading' = [reading EXCEPT ![x] = e]
           /\ \A s \in Stage : e.seen[s] \in Succeeded => Known(s)
           /\ e.at \in {"outputs", "gates"} => Known(e.stage)
      BY <1>1
    <2>2. Stored'
      BY <1>0, <2>1, OnlyReading
    <2>3. record' = record /\ Kept
      BY <1>0 DEF stored, Kept
    <2>4. ASSUME NEW y \in Reader PROVE ReaderKnows(y)'
      <3>1. ReaderKnows(y) /\ reading \in [Reader -> Reading]
        BY <1>0, ReaderTyped DEF Inv
      <3>2. \A s : Known(s)' = Known(s)
        BY <2>3 DEF Known
      <3>3. reading'[y] = IF y = x THEN e ELSE reading[y]
        BY <2>1, <3>1
      <3> QED BY <2>1, <3>1, <3>2, <3>3 DEF ReaderKnows
    <2> QED BY <2>2, <2>3, <2>4
  <1>2. ASSUME NEW what \in Seen, Summarise(x, what), what \in Succeeded => Known(reading[x].stage)
        PROVE  \E e \in Reading :
           /\ reading' = [reading EXCEPT ![x] = e]
           /\ \A s \in Stage : e.seen[s] \in Succeeded => Known(s)
           /\ e.at \in {"outputs", "gates"} => Known(e.stage)
    <2>1. PICK e \in Reading :
           /\ reading' = [reading EXCEPT ![x] = e]
           /\ e.at \in {"inputs", "report"}
           /\ e.seen = [reading[x].seen EXCEPT ![reading[x].stage] = what]
      BY <1>0, <1>2, SummariseTyped
    <2>2. \A s \in Stage : e.seen[s] = IF s = reading[x].stage THEN what ELSE reading[x].seen[s]
      BY <1>0, <2>1, ReaderTyped
    <2>3. \A s \in Stage : e.seen[s] \in Succeeded => Known(s)
      BY <1>0, <1>2, <2>2 DEF ReaderKnows
    <2> QED BY <2>1, <2>3
  <1>3. ASSUME NEW where \in {"outputs", "gates"}, reading' = [reading EXCEPT ![x].at = where],
               Known(reading[x].stage)
        PROVE  \E e \in Reading :
           /\ reading' = [reading EXCEPT ![x] = e]
           /\ \A s \in Stage : e.seen[s] \in Succeeded => Known(s)
           /\ e.at \in {"outputs", "gates"} => Known(e.stage)
    <2> DEFINE e == [reading[x] EXCEPT !.at = where]
    <2>1. e \in Reading /\ reading' = [reading EXCEPT ![x] = e]
      BY <1>0, <1>3, ReaderTyped DEF Reading
    <2>2. e.seen = reading[x].seen /\ e.stage = reading[x].stage
      BY <1>0, ReaderTyped DEF Reading
    <2> HIDE DEF e
    <2> QED BY <1>0, <1>3, <2>1, <2>2 DEF ReaderKnows
  <1>4. CASE PassOver(x)
    BY <1>2, <1>4 DEF PassOver, Seen, Succeeded
  <1>5. CASE ReadInputs(x)
    <2>1. CASE record[reading[x].stage] = NoRecord
               /\ Summarise(x, IF reading[x].stage \in attempted THEN "failed" ELSE "pending")
      BY <1>2, <2>1 DEF Seen, Succeeded
    <2>2. CASE Summarise(x, "invalid")
      BY <1>2, <2>2 DEF Seen, Succeeded
    <2>3. CASE record[reading[x].stage] # NoRecord /\ reading' = [reading EXCEPT ![x].at = "outputs"]
      BY <1>3, <2>3 DEF Known
    <2> QED BY <1>5, <2>1, <2>2, <2>3 DEF ReadInputs
  <1>6. CASE ReadOutputs(x)
    <2>1. Known(reading[x].stage)
      BY <1>0, <1>6 DEF ReadOutputs, ReaderKnows
    <2>2. CASE Summarise(x, "invalid")
      BY <1>2, <2>2 DEF Seen, Succeeded
    <2>3. CASE reading' = [reading EXCEPT ![x].at = "gates"]
      BY <1>3, <2>1, <2>3
    <2> QED BY <1>6, <2>2, <2>3 DEF ReadOutputs
  <1>7. CASE EvaluateGates(x)
    <2>1. Known(reading[x].stage)
      BY <1>0, <1>7 DEF EvaluateGates, ReaderKnows
    <2>2. PICK what \in {"passed", "regressed"} : Summarise(x, what)
      BY <1>7 DEF EvaluateGates
    <2> QED BY <1>2, <2>1, <2>2 DEF Seen, Succeeded
  <1> QED BY <1>4, <1>5, <1>6, <1>7 DEF ReadSteps

-----------------------------------------------------------------------------
(* What is known stays known.                                                *)

\* Where every stage has a record, no record changes any more, and with the
\* records neither does what is said of the artifacts.
LEMMA AllKnown ==
  ASSUME Stored, Stored', Kept, \A s \in Stage : Known(s)
  PROVE  /\ record' = record /\ \A s \in Stage : Known(s)'
         /\ Merged' = Merged
         /\ \A s : References(s)' = References(s)
  <1>1. record' = record
    BY DEF Kept, Stored
  <1>2. \A s \in Stage : Known(s)'
    BY <1>1 DEF Known
  <1>3. \A s : References(s)' = References(s)
    BY <1>1 DEF References
  <1>4. Merged' = Merged
    BY <1>3 DEF Merged, Manifest
  <1> QED BY <1>1, <1>2, <1>3, <1>4

\* What every step leaves to a command that it does not touch.
LEMMA PromoterStillKnows ==
  ASSUME Stored, Stored', Kept, NEW p \in Reader, PromoterKnows(p),
         promoter'[p] = promoter[p], decision # NoDecision => decision' # NoDecision
  PROVE  PromoterKnows(p)'
  <1>1. CASE promoter[p].index = Unseen
    BY <1>1 DEF PromoterKnows
  <1>2. CASE promoter[p].index # Unseen
    <2>1. \A s \in Stage : Known(s)
      BY <1>2 DEF PromoterKnows
    <2>2. Merged' = Merged /\ \A s \in Stage : Known(s)'
      BY <2>1, AllKnown
    <2> QED BY <2>2 DEF PromoterKnows
  <1> QED BY <1>1, <1>2

LEMMA DecidedStays ==
  ASSUME Stored, Stored', Kept, Decided, UNCHANGED promoted
  PROVE  Decided'
  <1>1. CASE decision = NoDecision
    BY <1>1 DEF Decided, promoted, PromotedCoherent
  <1>2. CASE decision # NoDecision
    <2>1. \A s \in Stage : Known(s)
      BY <1>2 DEF Decided, PromotedCoherent, Known
    <2>2. record' = record /\ \A s : References(s)' = References(s)
      BY <2>1, AllKnown
    <2> QED BY <2>2 DEF Decided, promoted, PromotedCoherent
  <1> QED BY <1>1, <1>2

LEMMA ReadersStillKnow ==
  ASSUME \A x \in Reader : ReaderKnows(x), Kept, reading' = reading, reading \in [Reader -> Reading]
  PROVE  \A x \in Reader : ReaderKnows(x)'
  <1> SUFFICES ASSUME NEW x \in Reader PROVE ReaderKnows(x)'
    OBVIOUS
  <1>1. \A s \in Stage : Known(s) => Known(s)'
    BY DEF Kept, Known
  <1>2. reading[x].stage \in Stage
    BY DEF Reading
  <1> QED BY <1>1, <1>2 DEF ReaderKnows

\* The trial's own steps.
LEMMA RunStep ==
  ASSUME Inv, UNCHANGED <<promoter, promoted, promoterCrashes>>,
         Stored' /\ Kept, \A x \in Reader : ReaderKnows(x)'
  PROVE  Inv'
  <1>1. PromotionTypeOK'
    BY DEF Inv, PromotionTypeOK, promoted
  <1>2. Decided'
    BY DecidedStays DEF Inv
  <1>3. \A p \in Reader : PromoterKnows(p)'
    BY PromoterStillKnows DEF Inv, promoted
  <1> QED BY <1>1, <1>2, <1>3 DEF Inv

-----------------------------------------------------------------------------
(* The steps of operators.                                                   *)

\* A command that leaves the trial alone and changes what it has itself: its
\* new state, and the report it begins, keeps or drops.
LEMMA PromoterStep ==
  ASSUME Inv, NEW p \in Reader, NEW q \in Preview, Go(p, q),
         \/ reading' = reading
         \/ \E where \in {"idle", "inputs"} :
              reading' = [reading EXCEPT ![p] = [IdleReading EXCEPT !.at = where]],
         UNCHANGED <<files, stored, processes>>,
         decision # NoDecision => decision' = decision
  PROVE  /\ Stored' /\ Kept /\ record' = record
         /\ promoter' \in [Reader -> Preview]
         /\ \A x \in Reader : ReaderKnows(x)'
         /\ \A x \in Reader \ {p} : PromoterKnows(x)'
         /\ promoter'[p] = q
  <1>1. Stored /\ reading \in [Reader -> Reading] /\ \A x \in Reader : ReaderKnows(x) /\ PromoterKnows(x)
    BY ReaderTyped DEF Inv, Stored, TypeOK
  <1>2. record' = record /\ Kept /\ \A s : Known(s)' = Known(s)
    BY DEF stored, Kept, Known
  <1>3. promoter' \in [Reader -> Preview] /\ promoter'[p] = q /\ \A x \in Reader \ {p} : promoter'[x] = promoter[x]
    BY DEF Inv, PromotionTypeOK, Go
  <1>4. Stored' /\ \A x \in Reader : ReaderKnows(x)'
    <2>1. CASE reading' = reading
      <3>1. Stored'
        BY <1>1, <2>1 DEF stored, processes, Stored, TypeOK, Holds
      <3> QED BY <1>1, <1>2, <2>1, <3>1, ReadersStillKnow
    <2>2. ASSUME NEW where \in {"idle", "inputs"},
                 reading' = [reading EXCEPT ![p] = [IdleReading EXCEPT !.at = where]]
          PROVE  Stored' /\ \A x \in Reader : ReaderKnows(x)'
      <3> DEFINE e == [IdleReading EXCEPT !.at = where]
      <3>1. e \in Reading /\ e.at = where /\ e.seen = [s \in Stage |-> "unread"]
        BY Parameters DEF Reading, IdleReading, Seen
      <3>2. reading' = [reading EXCEPT ![p] = e]
        BY <2>2
      <3> HIDE DEF e
      <3>3. Stored'
        BY <1>1, <3>1, <3>2, OnlyReading
      <3>4. ASSUME NEW x \in Reader PROVE ReaderKnows(x)'
        <4>1. CASE x = p
          BY <1>1, <3>1, <3>2, <4>1 DEF ReaderKnows, Succeeded
        <4>2. CASE x # p
          <5>1. reading'[x] = reading[x] /\ ReaderKnows(x)
            BY <1>1, <3>2, <4>2
          <5> QED BY <1>2, <5>1 DEF ReaderKnows
        <4> QED BY <4>1, <4>2
      <3> QED BY <3>3, <3>4
    <2> QED BY <2>1, <2>2
  <1>5. \A x \in Reader \ {p} : PromoterKnows(x)'
    BY <1>1, <1>2, <1>3, <1>4, PromoterStillKnows
  <1> QED BY <1>2, <1>3, <1>4, <1>5

\* Such a command that writes nothing.
LEMMA QuietPromoterStep ==
  ASSUME Inv, NEW p \in Reader, NEW q \in Preview, Go(p, q),
         \/ reading' = reading
         \/ \E where \in {"idle", "inputs"} :
              reading' = [reading EXCEPT ![p] = [IdleReading EXCEPT !.at = where]],
         UNCHANGED <<files, stored, processes, promoted>>, promoterCrashes' \in 0..MaxPromoterCrashes,
         q.index # Unseen => Eligible(q.index) /\ \A s \in Stage : Known(s),
         q.at \notin {"idle", "index"} => q.index # Unseen,
         q.at \in {"current", "decide"} => Merged,
         q.at \in {"sidecars", "report", "last"} => decision # NoDecision
  PROVE  Inv'
  <1>1. /\ Stored' /\ Kept /\ record' = record
        /\ promoter' \in [Reader -> Preview]
        /\ \A x \in Reader : ReaderKnows(x)'
        /\ \A x \in Reader \ {p} : PromoterKnows(x)'
        /\ promoter'[p] = q
    BY PromoterStep DEF promoted
  <1>2. PromotionTypeOK'
    BY <1>1 DEF Inv, PromotionTypeOK, promoted
  <1>3. Decided'
    BY <1>1, DecidedStays DEF Inv
  <1>4. PromoterKnows(p)'
    <2>1. Merged' = Merged /\ \A s : Known(s)' = Known(s)
      BY <1>1 DEF Merged, Manifest, References, Known
    <2> QED BY <1>1, <2>1 DEF PromoterKnows, promoted
  <1> QED BY <1>1, <1>2, <1>3, <1>4 DEF Inv

LEMMA PromoterTyped ==
  ASSUME Inv, NEW p \in Reader
  PROVE  /\ promoter[p] \in Preview /\ promoter[p].stage \in Stage /\ promoter[p].round \in 0..Recomputations
         /\ promoter[p].index \in [Stage -> Seen] /\ promoter[p].reviewed \in BOOLEAN
         /\ PromoterKnows(p) /\ ReaderKnows(p)
         /\ reading[p].seen \in [Stage -> Seen]
         /\ promoterCrashes \in 0..MaxPromoterCrashes
  BY ReaderTyped DEF Inv, PromotionTypeOK, Preview

LEMMA IdleTyped ==
  /\ Idle \in Preview /\ Idle.index = Unseen /\ Idle.at = "idle"
  /\ Unseen \in [Stage -> Seen]
  BY Parameters, PolicyAssumption DEF Idle, Preview, Unseen, Seen

\* A trial that may be promoted has succeeded in every stage.
LEMMA EligibleSucceeded ==
  ASSUME NEW report \in [Stage -> Seen], Eligible(report)
  PROVE  \A s \in Stage : report[s] \in Succeeded
  BY DEF Eligible, EligibleStates, TrialState

LEMMA Rounds == 0 \in 0..Recomputations /\ 1 \in 0..Recomputations
  BY PolicyAssumption

LEMMA StoppedTyped ==
  ASSUME NEW new \in Preview
  PROVE  LET q == [new EXCEPT !.at = "idle", !.round = 0, !.stage = 1]
         IN  q \in Preview /\ q.at = "idle" /\ q.index = new.index /\ q.reviewed = new.reviewed
  BY Parameters, Rounds DEF Preview

\* A command that comes to an end and writes nothing.
LEMMA QuietStop ==
  ASSUME Inv, NEW p \in Reader, NEW new \in Preview, Stop(p, new),
         UNCHANGED <<files, stored, processes, promoted>>, promoterCrashes' \in 0..MaxPromoterCrashes,
         new.index # Unseen => Eligible(new.index) /\ \A s \in Stage : Known(s)
  PROVE  Inv'
  <1> DEFINE q == [new EXCEPT !.at = "idle", !.round = 0, !.stage = 1]
  <1>1. q \in Preview /\ q.at = "idle" /\ q.index = new.index
    BY StoppedTyped
  <1>2. Go(p, q)
    BY DEF Stop
  <1>3. reading' = [reading EXCEPT ![p] = [IdleReading EXCEPT !.at = "idle"]]
    BY DEF Stop, IdleReading
  <1> HIDE DEF q
  <1> QED BY <1>1, <1>2, <1>3, QuietPromoterStep

\* A command that goes on to the next stage with what it has.
LEMMA NextStageTyped ==
  ASSUME Inv, NEW p \in Reader, promoter[p].stage < Stages
  PROVE  LET q == [promoter[p] EXCEPT !.stage = promoter[p].stage + 1]
         IN  q \in Preview /\ q.index = promoter[p].index /\ q.at = promoter[p].at
  <1>1. promoter[p].stage + 1 \in Stage
    BY PromoterTyped, Parameters DEF Stage
  <1> QED BY <1>1, PromoterTyped DEF Preview

LEMMA IndexSteps ==
  ASSUME Inv, NEW p \in Reader, StartIndex(p) \/ ReadMetrics(p) \/ BuildIndex(p) \/ StartPreview(p) \/ PromoterDies(p)
  PROVE  Inv'
  <1>1. CASE StartIndex(p)
    <2> DEFINE q == [Idle EXCEPT !.at = "index"]
    <2>1. q \in Preview /\ q.at = "index" /\ q.index = Unseen
      BY IdleTyped DEF Preview
    <2>2. Go(p, q) /\ reading' = [reading EXCEPT ![p] = [IdleReading EXCEPT !.at = "inputs"]]
      BY <1>1 DEF StartIndex, GoRead
    <2> HIDE DEF q
    <2> QED BY <1>1, <2>1, <2>2, QuietPromoterStep, PromoterTyped DEF StartIndex
  <1>2. CASE BuildIndex(p)
    <2> DEFINE new == IF Clean(p, Stages) /\ Ranked(seen(p)) THEN [Idle EXCEPT !.index = seen(p)] ELSE Idle
    <2>1. new \in Preview
      BY IdleTyped, PromoterTyped DEF Preview, seen
    <2>2. new.index # Unseen => Eligible(new.index) /\ \A s \in Stage : Known(s)
      <3>1. CASE Clean(p, Stages) /\ Ranked(seen(p))
        <4>1. new.index = seen(p) /\ Eligible(seen(p))
          BY <3>1, IdleTyped DEF Preview, Ranked, Eligible
        <4>2. \A s \in Stage : Known(s)
          BY <4>1, EligibleSucceeded, PromoterTyped DEF ReaderKnows, seen
        <4> QED BY <4>1, <4>2
      <3>2. CASE ~ (Clean(p, Stages) /\ Ranked(seen(p)))
        BY <3>2, IdleTyped
      <3> QED BY <3>1, <3>2
    <2>3. Stop(p, new)
      BY <1>2 DEF BuildIndex
    <2> HIDE DEF new
    <2> QED BY <1>2, <2>1, <2>2, <2>3, QuietStop, PromoterTyped DEF BuildIndex
  <1>3. CASE StartPreview(p)
    <2> DEFINE q == [promoter[p] EXCEPT !.at = "preview", !.round = IF promoter[p].reviewed THEN 1 ELSE 0]
    <2>1. q \in Preview /\ q.at = "preview" /\ q.index = promoter[p].index
      <3> DEFINE n == IF promoter[p].reviewed THEN 1 ELSE 0
      <3>1. n \in 0..Recomputations
        BY Rounds
      <3> HIDE DEF n
      <3>2. q = [promoter[p] EXCEPT !.at = "preview", !.round = n]
        BY DEF n
      <3> HIDE DEF q
      <3> QED BY <3>1, <3>2, PromoterTyped DEF Preview
    <2>2. Go(p, q) /\ reading' = [reading EXCEPT ![p] = [IdleReading EXCEPT !.at = "inputs"]]
      BY <1>3 DEF StartPreview, GoRead
    <2> HIDE DEF q
    <2> QED BY <1>3, <2>1, <2>2, QuietPromoterStep, PromoterTyped DEF StartPreview, PromoterKnows
  <1>4. CASE PromoterDies(p)
    <2>1. promoterCrashes' \in 0..MaxPromoterCrashes
      BY <1>4, PromoterTyped, PolicyAssumption DEF PromoterDies
    <2> QED BY <1>4, <2>1, QuietStop, PromoterTyped DEF PromoterDies, PromoterKnows
  <1>5. CASE ReadMetrics(p)
    <2> DEFINE q == promoter[p]
               e == [q EXCEPT !.stage = q.stage + 1]
    <2>0. /\ q.at \in {"index", "current"} /\ q.stage < Stages
          /\ UNCHANGED <<files, stored, processes, promoted>> /\ promoterCrashes' \in 0..MaxPromoterCrashes
      BY <1>5, PromoterTyped DEF ReadMetrics, Has, Is
    <2>1. CASE Go(p, e) /\ UNCHANGED reading
      <3>1. e \in Preview /\ e.index = q.index /\ e.at = q.at
        BY <2>0, NextStageTyped
      <3>2. Go(p, e) /\ UNCHANGED reading
        BY <2>1
      <3> HIDE DEF e
      <3> QED BY <2>0, <3>1, <3>2, QuietPromoterStep, PromoterTyped DEF PromoterKnows
    <2>2. CASE Stop(p, q)
      BY <2>0, <2>2, QuietStop, PromoterTyped DEF PromoterKnows
    <2> QED BY <1>5, <2>1, <2>2 DEF ReadMetrics
  <1> QED BY <1>1, <1>2, <1>3, <1>4, <1>5

LEMMA PreviewSteps ==
  ASSUME Inv, NEW p \in Reader, CollectArtifacts(p) \/ CheckCurrentIndex(p)
  PROVE  Inv'
  <1> DEFINE q == promoter[p]
  <1>0. /\ q.at \in {"preview", "current"} /\ q.index # Unseen
        /\ Eligible(q.index) /\ \A s \in Stage : Known(s)
        /\ UNCHANGED <<files, stored, processes, promoted>>
        /\ promoterCrashes' \in 0..MaxPromoterCrashes
    BY PromoterTyped DEF CollectArtifacts, CheckCurrentIndex, Has, Is, PromoterKnows
  <1>1. ASSUME Stop(p, q) PROVE Inv'
    BY <1>0, <1>1, QuietStop, PromoterTyped
  <1>2. ASSUME NEW e \in Preview, e.index = q.index, e.at \in {"preview", "current", "decide"},
               e.at \in {"current", "decide"} => Merged, GoRead(p, e) \/ (Go(p, e) /\ UNCHANGED reading)
        PROVE  Inv'
    BY <1>0, <1>2, QuietPromoterStep DEF GoRead
  <1>3. CASE CollectArtifacts(p)
    <2>1. CASE q.stage < Stages /\ Go(p, [q EXCEPT !.stage = q.stage + 1]) /\ UNCHANGED reading
      <3> DEFINE e == [q EXCEPT !.stage = q.stage + 1]
      <3>1. q.at = "preview"
        BY <1>3 DEF CollectArtifacts, Has, Is
      <3>2. e \in Preview /\ e.index = q.index /\ e.at = "preview"
        BY <2>1, <3>1, NextStageTyped
      <3>3. Go(p, e) /\ UNCHANGED reading
        BY <2>1
      <3> HIDE DEF e
      <3> QED BY <1>2, <3>2, <3>3
    <2>2. CASE Merged /\ GoRead(p, [q EXCEPT !.at = "current", !.stage = 1])
      <3> DEFINE e == [q EXCEPT !.at = "current", !.stage = 1]
      <3>1. e \in Preview /\ e.index = q.index /\ e.at = "current"
        BY PromoterTyped, Parameters DEF Preview
      <3>2. GoRead(p, e)
        BY <2>2
      <3> HIDE DEF e
      <3> QED BY <1>2, <2>2, <3>1, <3>2
    <2>3. CASE Stop(p, q)
      BY <1>1, <2>3
    <2> QED BY <1>3, <2>1, <2>2, <2>3 DEF CollectArtifacts
  <1>4. CASE CheckCurrentIndex(p)
    <2>0. Merged
      BY <1>4, PromoterTyped DEF CheckCurrentIndex, Has, Is, PromoterKnows
    <2>1. CASE Stop(p, [q EXCEPT !.reviewed = TRUE])
      <3> DEFINE e == [q EXCEPT !.reviewed = TRUE]
      <3>1. e \in Preview /\ e.index = q.index
        BY PromoterTyped DEF Preview
      <3>2. Stop(p, e)
        BY <2>1
      <3> HIDE DEF e
      <3> QED BY <1>0, <3>1, <3>2, QuietStop
    <2>2. CASE q.round < Recomputations /\ GoRead(p, [q EXCEPT !.at = "preview", !.round = q.round + 1, !.stage = 1])
      <3> DEFINE e == [q EXCEPT !.at = "preview", !.round = q.round + 1, !.stage = 1]
      <3>1. q.round + 1 \in 0..Recomputations
        BY <2>2, PromoterTyped, PolicyAssumption
      <3>2. e \in Preview /\ e.index = q.index /\ e.at = "preview"
        BY <3>1, PromoterTyped, Parameters DEF Preview
      <3>3. GoRead(p, e)
        BY <2>2
      <3> HIDE DEF e
      <3> QED BY <1>2, <3>2, <3>3
    <2>3. CASE Go(p, [q EXCEPT !.at = "decide"]) /\ UNCHANGED reading
      <3> DEFINE e == [q EXCEPT !.at = "decide"]
      <3>1. e \in Preview /\ e.index = q.index /\ e.at = "decide"
        BY PromoterTyped DEF Preview
      <3>2. Go(p, e) /\ UNCHANGED reading
        BY <2>3
      <3> HIDE DEF e
      <3> QED BY <1>2, <2>0, <3>1, <3>2
    <2>4. CASE Stop(p, q)
      BY <1>1, <2>4
    <2> QED BY <1>4, <2>1, <2>2, <2>3, <2>4 DEF CheckCurrentIndex
  <1> QED BY <1>3, <1>4

\* The manifest is made of references.
LEMMA ManifestTyped ==
  ASSUME Stored, \A s \in Stage : Known(s)
  PROVE  Manifest \in SUBSET Reference
  <1> SUFFICES ASSUME NEW s \in Stage PROVE References(s) \subseteq Reference
    BY DEF Manifest
  <1>1. record[s] \in Records(s)
    BY DEF Stored, TypeOK, Known
  <1>2. ASSUME NEW S \in SUBSET Artifacts(s), NEW evidence \in [S -> Given]
        PROVE  Referred(s, evidence) \subseteq Reference
    <2>1. ASSUME NEW f \in S, evidence[f] # Missing
          PROVE  [file |-> f, kind |-> Kind[s][f], content |-> evidence[f]] \in Reference
      <3>1. f \in File /\ evidence[f] \in Content
        BY <2>1 DEF File, Given
      <3>2. Kind[s][f] \in DOMAIN Fits
        BY PlanAssumption
      <3> QED BY <3>1, <3>2 DEF Reference
    <2> QED BY <2>1 DEF Referred
  <1>3. Referred(s, record[s].inputs) \subseteq Reference
    BY <1>1, <1>2 DEF Records, Artifacts
  <1>4. Referred(s, record[s].outputs) \subseteq Reference
    BY <1>1, <1>2 DEF Records, Artifacts
  <1> QED BY <1>3, <1>4 DEF References

LEMMA PutDecisionStep ==
  ASSUME Inv, NEW p \in Reader, PutDecision(p)
  PROVE  Inv'
  <1> DEFINE mine == [by |-> ToString(p), seen |-> promoter[p].index, manifest |-> Manifest]
             e == [promoter[p] EXCEPT !.at = "sidecars"]
             i == [promoter[p] EXCEPT !.at = "idle", !.round = 0, !.stage = 1]
  <1>0. /\ Stored /\ promoter[p].at = "decide" /\ promoter[p].index # Unseen
        /\ Eligible(promoter[p].index) /\ Merged
        /\ \A s \in Stage : Known(s)
    BY PromoterTyped DEF Inv, PutDecision, Is, PromoterKnows
  <1>1. /\ decision' = IF decision = NoDecision THEN mine ELSE decision
        /\ UNCHANGED <<files, stored, processes, sidecars, archive, promoterCrashes>>
        /\ IF decision' = mine THEN GoRead(p, e) ELSE Stop(p, promoter[p])
    BY DEF PutDecision
  <1>2. mine \in PromotionRecord /\ mine # NoDecision
    BY <1>0, ManifestTyped, PromoterTyped DEF PromotionRecord, NoDecision
  <1>3. decision' # NoDecision /\ decision' \in PromotionRecord
        /\ (decision # NoDecision => decision' = decision)
    BY <1>1, <1>2 DEF Inv, PromotionTypeOK
  <1>4. /\ mine.seen = promoter[p].index /\ mine.manifest = Manifest
    OBVIOUS
  <1> HIDE DEF mine
  <1>5. PICK q \in Preview :
          /\ Go(p, q) /\ q.index = promoter[p].index /\ q.at \in {"idle", "sidecars"}
          /\ \E where \in {"idle", "inputs"} :
               reading' = [reading EXCEPT ![p] = [IdleReading EXCEPT !.at = where]]
    <2>1. CASE GoRead(p, e)
      <3>1. e \in Preview /\ e.index = promoter[p].index /\ e.at = "sidecars"
        BY PromoterTyped DEF Preview
      <3> QED BY <2>1, <3>1 DEF GoRead
    <2>2. CASE Stop(p, promoter[p])
      <3>1. i \in Preview /\ i.at = "idle" /\ i.index = promoter[p].index
        BY PromoterTyped, StoppedTyped
      <3>2. Go(p, i) /\ reading' = [reading EXCEPT ![p] = [IdleReading EXCEPT !.at = "idle"]]
        BY <2>2 DEF Stop, IdleReading
      <3> HIDE DEF i
      <3> QED BY <3>1, <3>2
    <2> QED BY <1>1, <2>1, <2>2
  <1>6. /\ Stored' /\ Kept /\ record' = record
        /\ promoter' \in [Reader -> Preview]
        /\ \A x \in Reader : ReaderKnows(x)'
        /\ \A x \in Reader \ {p} : PromoterKnows(x)'
        /\ promoter'[p] = q
    BY <1>1, <1>3, <1>5, PromoterStep
  <1>7. PromotionTypeOK'
    BY <1>1, <1>3, <1>6 DEF Inv, PromotionTypeOK
  <1>8. PromoterKnows(p)'
    BY <1>0, <1>3, <1>5, <1>6 DEF PromoterKnows, Known
  <1>9. Decided'
    <2>1. /\ \A s \in Stage : Known(s)' 
          /\ \A s : References(s)' = References(s)
      BY <1>0, <1>6, AllKnown
    <2>2. CASE decision = NoDecision
      <3>1. decision' = mine /\ archive' = archive /\ sidecars' = sidecars
        BY <1>1, <2>2
      <3>2. PromotedCoherent'
        BY <1>0, <1>4, <2>1, <3>1 DEF PromotedCoherent, Known, Merged, Manifest
      <3> QED BY <1>3, <3>1, <3>2 DEF Decided
    <2>3. CASE decision # NoDecision
      BY <1>1, <1>6, <2>3, DecidedStays DEF Inv, promoted
    <2> QED BY <2>2, <2>3
  <1> QED BY <1>6, <1>7, <1>8, <1>9 DEF Inv

\* The files after the decision.
LEMMA SidecarSteps ==
  ASSUME Inv, NEW p \in Reader, PutFirstSidecars(p) \/ PutReport(p) \/ PutLastSidecars(p)
  PROVE  Inv'
  <1> DEFINE i == [promoter[p] EXCEPT !.at = "idle", !.round = 0, !.stage = 1]
  <1>0. /\ promoter[p].at \in {"sidecars", "report", "last"} /\ promoter[p].index # Unseen
        /\ Eligible(promoter[p].index) /\ decision # NoDecision
        /\ \A s \in Stage : Known(s)
        /\ UNCHANGED <<files, stored, processes, decision, archive, promoterCrashes>>
    BY PromoterTyped DEF PutFirstSidecars, PutReport, PutLastSidecars, Has, Is, PromoterKnows
  <1>1. sidecars' \in Sidecars
    <2>1. sidecars \in Sidecars
      BY DEF Inv, PromotionTypeOK
    <2>2. CASE PutFirstSidecars(p)
      BY <2>1, <2>2 DEF PutFirstSidecars, Sidecars
    <2>3. CASE PutReport(p)
      BY <2>1, <2>3, PromoterTyped DEF PutReport, Sidecars, seen
    <2>4. CASE PutLastSidecars(p)
      BY <2>1, <2>4 DEF PutLastSidecars, Sidecars
    <2> QED BY <2>2, <2>3, <2>4
  <1>2. PICK q \in Preview :
          /\ Go(p, q) /\ q.index = promoter[p].index /\ q.at \in {"idle", "report", "last"}
          /\ \/ reading' = reading
             \/ \E where \in {"idle", "inputs"} :
                  reading' = [reading EXCEPT ![p] = [IdleReading EXCEPT !.at = where]]
    <2>1. CASE Stop(p, promoter[p])
      <3>1. i \in Preview /\ i.at = "idle" /\ i.index = promoter[p].index
        BY PromoterTyped, StoppedTyped
      <3>2. Go(p, i) /\ reading' = [reading EXCEPT ![p] = [IdleReading EXCEPT !.at = "idle"]]
        BY <2>1 DEF Stop, IdleReading
      <3> HIDE DEF i
      <3> QED BY <3>1, <3>2
    <2>2. ASSUME NEW where \in {"report", "last"}, Go(p, [promoter[p] EXCEPT !.at = where]), UNCHANGED reading
          PROVE  \E q \in Preview :
                   /\ Go(p, q) /\ q.index = promoter[p].index /\ q.at \in {"idle", "report", "last"}
                   /\ reading' = reading
      <3> DEFINE e == [promoter[p] EXCEPT !.at = where]
      <3>1. e \in Preview /\ e.at = where /\ e.index = promoter[p].index
        BY PromoterTyped DEF Preview
      <3>2. Go(p, e)
        BY <2>2
      <3> HIDE DEF e
      <3> QED BY <2>2, <3>1, <3>2
    <2> QED BY <2>1, <2>2 DEF PutFirstSidecars, PutReport, PutLastSidecars
  <1>3. /\ Stored' /\ Kept /\ record' = record
        /\ promoter' \in [Reader -> Preview]
        /\ \A x \in Reader : ReaderKnows(x)'
        /\ \A x \in Reader \ {p} : PromoterKnows(x)'
        /\ promoter'[p] = q
    BY <1>0, <1>2, PromoterStep
  <1>4. PromotionTypeOK'
    BY <1>0, <1>1, <1>3 DEF Inv, PromotionTypeOK
  <1>5. PromoterKnows(p)'
    BY <1>0, <1>2, <1>3 DEF PromoterKnows, Known
  <1>6. Decided'
    <2>1. /\ \A s \in Stage : Known(s)' 
          /\ \A s : References(s)' = References(s)
      BY <1>0, <1>3, AllKnown DEF Inv
    <2> QED BY <1>0, <2>1 DEF Inv, Decided, PromotedCoherent, Known
  <1> QED BY <1>3, <1>4, <1>5, <1>6 DEF Inv

\* The archive is made of the sidecars there are, when they are the decided ones.
LEMMA PackStep ==
  ASSUME Inv, Pack
  PROVE  Inv'
  <1>1. UNCHANGED <<files, record, attempted, run, orphans, reading, crashes, promoter, decision, sidecars, promoterCrashes>>
    BY DEF Pack, vars
  <1>2. archive' \in [Stage -> Seen]
    BY DEF Pack, PayloadsValid, Inv, PromotionTypeOK, Sidecars
  <1>3. Stored' /\ \A x \in Reader : ReaderKnows(x)' /\ PromoterKnows(x)'
    BY <1>1 DEF Inv, Stored, TypeOK, Holds, ReaderKnows, PromoterKnows, Known, Merged, Manifest, References
  <1>4. PromotionTypeOK' /\ Decided'
    BY <1>1, <1>2 DEF Inv, PromotionTypeOK, Decided, PromotedCoherent, References
  <1> QED BY <1>3, <1>4 DEF Inv

-----------------------------------------------------------------------------
LEMMA InvInit == PromotionInit => Inv
  <1> SUFFICES ASSUME PromotionInit PROVE Inv
    OBVIOUS
  <1> USE DEF PromotionInit
  <1>1. IdleRun \in RunCall /\ IdleReading \in Reading /\ IdleReading.at = "idle" /\ IdleRun.at = "idle"
    BY Parameters, EvidenceGathered DEF IdleRun, RunCall, IdleReading, Reading, Seen
  <1>2. Stored
    <2>1. record \in [Stage -> Recordings] /\ run \in [Runner -> RunCall] /\ \A r \in Runner : Holds(r)
      BY <1>1, EvidenceGathered DEF Init, Holds
    <2>2. TypeOK
      BY <1>1, <2>1, Parameters DEF Init, TypeOK, Attempts, RunCall, Stage
    <2> QED BY <2>1, <2>2 DEF Stored
  <1>3. PromotionTypeOK
    BY IdleTyped, PolicyAssumption DEF PromotionTypeOK, Sidecars
  <1>4. \A x \in Reader : ReaderKnows(x) /\ PromoterKnows(x)
    BY <1>1, IdleTyped DEF Init, ReaderKnows, PromoterKnows, IdleReading, Succeeded
  <1>5. Decided
    BY DEF Decided, PromotedCoherent
  <1> QED BY <1>2, <1>3, <1>4, <1>5 DEF Inv

LEMMA InvStep == Inv /\ [PromotionNext]_allVars => Inv'
  <1> SUFFICES ASSUME Inv, [PromotionNext]_allVars PROVE Inv'
    OBVIOUS
  <1>1. CASE RunSteps /\ UNCHANGED <<promoter, promoted, promoterCrashes>>
    <2>1. Stored' /\ Kept /\ reading' = reading
      BY <1>1, RunStepStored DEF Inv
    <2>2. \A x \in Reader : ReaderKnows(x)'
      BY <2>1, ReadersStillKnow, ReaderTyped DEF Inv, Stored, TypeOK
    <2> QED BY <1>1, <2>1, <2>2, RunStep
  <1>2. CASE Pack
    BY <1>2, PackStep
  <1>3. ASSUME NEW p \in Reader, ReadSteps(p) /\ UNCHANGED <<promoter, promoted, promoterCrashes>> PROVE Inv'
    BY <1>3, ReadStepStored, RunStep
  <1>4. ASSUME NEW p \in Reader,
               \/ StartIndex(p) \/ ReadMetrics(p) \/ BuildIndex(p) \/ StartPreview(p) \/ CollectArtifacts(p)
               \/ CheckCurrentIndex(p) \/ PutDecision(p) \/ PutFirstSidecars(p) \/ PutReport(p)
               \/ PutLastSidecars(p) \/ PromoterDies(p)
        PROVE  Inv'
    BY <1>4, IndexSteps, PreviewSteps, PutDecisionStep, SidecarSteps
  <1>5. CASE UNCHANGED allVars
    <2>1. UNCHANGED <<files, record, attempted, run, orphans, reading, crashes, promoter, decision, sidecars,
                      archive, promoterCrashes>>
      BY <1>5 DEF allVars, vars, promoted
    <2>2. Stored' /\ Kept /\ \A x \in Reader : ReaderKnows(x)'
      BY <2>1 DEF Inv, Stored, TypeOK, Holds, ReaderKnows, Known, Kept
    <2> QED BY <2>1, <2>2, RunStep DEF promoted
  <1> QED BY <1>1, <1>2, <1>3, <1>4, <1>5 DEF PromotionNext

LEMMA Invariance == PromotionSpec => []Inv
  BY InvInit, InvStep, PTL DEF PromotionSpec

\* The trial's variables and those of the operators keep their types.
THEOREM TypeCorrect == PromotionSpec => [](TypeOK /\ PromotionTypeOK)
  <1>1. Inv => TypeOK /\ PromotionTypeOK
    BY DEF Inv, Stored
  <1> QED BY <1>1, Invariance, PTL

\* A decision is about one consistent set of artifacts, for any number of
\* stages, runners and operators, however often commands rewrite the files and
\* whoever dies: records are created once, and a promoter compares them.
THEOREM DecisionsCoherent == PromotionSpec => []PromotedCoherent
  <1>1. Inv => PromotedCoherent
    BY DEF Inv, Decided
  <1> QED BY <1>1, Invariance, PTL

-----------------------------------------------------------------------------
(* A settled trial.                                                          *)

\* A runner that is not about to start a command for want of a record.
Calm(r) == ~ At(r, "command") /\ (At(r, "inputs") => run[r].saw # NoRecord)

LEMMA SettledMeans ==
  ASSUME Stored, Settled
  PROVE  orphans = {} /\ (\A r \in Runner : Calm(r)) /\ \A s \in Stage : Valid(s)
  <1>1. orphans \subseteq Stage /\ \A r \in Runner : run[r].stage \in Stage
    BY RunnerTyped DEF Stored, TypeOK
  <1>2. \A r \in Runner : Calm(r)
    BY <1>1 DEF Settled, Unsettled, Running, Calm
  <1> QED BY <1>1, <1>2 DEF Settled, Unsettled, Running

\* Steps of runners that leave files and records alone, and no command behind.
LEMMA CalmSteps ==
  ASSUME Stored, Stored', Settled, files' = files, record' = record, orphans' = {},
         NEW r \in Runner, \A x \in Runner \ {r} : run'[x] = run[x], Calm(r)'
  PROVE  Settled'
  <1>1. \A s \in Stage : Valid(s)'
    BY SettledMeans DEF Valid, Evidence
  <1>2. \A x \in Runner : Calm(x)'
    BY SettledMeans DEF Calm, At
  <1>3. \A s \in Stage : ~ Unsettled(s)'
    BY <1>2 DEF Unsettled, Running, Calm, At
  <1> QED BY <1>1, <1>3 DEF Settled

LEMMA SettledRunStep ==
  ASSUME Stored, Settled, RunSteps PROVE Settled'
  <1>0. /\ Stored' /\ Kept /\ orphans = {} /\ \A r \in Runner : Calm(r)
        /\ \A s \in Stage : Valid(s)
    BY RunStepStored, SettledMeans
  <1>1. ASSUME NEW r \in Runner, NEW done \in SUBSET Stage, Leave(r, done),
               files' = files, record' = record, orphans' = {}
        PROVE  Settled'
    <2>1. PICK e \in RunCall : e.at \in {"idle", "look"} /\ run' = [run EXCEPT ![r] = e]
      BY <1>1, Leaving
    <2>2. Calm(r)' /\ \A x \in Runner \ {r} : run'[x] = run[x]
      BY <2>1, RunnerTyped DEF Calm, At
    <2> QED BY <1>0, <1>1, <2>2, CalmSteps
  <1>2. ASSUME NEW r \in Runner,
               \/ BeginTrial(r) \/ LoadRecord(r) \/ CollectInputs(r) \/ Reuse(r) \/ CommandSucceeds(r)
               \/ CommandFails(r) \/ CollectOutputs(r) \/ PutRecord(r) \/ Crash(r)
        PROVE  Settled'
    <2>0. run \in [Runner -> RunCall] /\ run[r].stage \in Stage /\ run[r].done \in SUBSET Stage
          /\ run[r].done \cup {run[r].stage} \in SUBSET Stage /\ ~ At(r, "command")
          /\ (At(r, "inputs") => run[r].saw # NoRecord)
      BY <1>0, RunnerTyped DEF Calm
    <2>1. CASE BeginTrial(r) \/ LoadRecord(r) \/ Crash(r)
      <3>1. files' = files /\ record' = record /\ orphans' = {}
        BY <1>0, <2>0, <2>1 DEF BeginTrial, LoadRecord, Crash, stored
      <3>2. \A x \in Runner \ {r} : run'[x] = run[x]
        BY <2>0, <2>1 DEF BeginTrial, LoadRecord, Crash
      <3>3. CASE BeginTrial(r) \/ Crash(r)
        BY <1>0, <2>0, <3>1, <3>2, <3>3, CalmSteps DEF BeginTrial, Crash, IdleRun, Calm, At
      <3>4. CASE LoadRecord(r)
        <4>1. record[run[r].stage] # NoRecord
          BY <1>0, <2>0 DEF Valid
        <4>2. run'[r] = [run[r] EXCEPT !.at = "inputs", !.saw = record[run[r].stage]]
          BY <2>0, <3>4 DEF LoadRecord
        <4>3. run'[r].at = "inputs" /\ run'[r].saw = record[run[r].stage]
          BY <2>0, <4>2 DEF RunCall
        <4>4. Calm(r)'
          BY <4>1, <4>3 DEF Calm, At
        <4> QED BY <1>0, <3>1, <3>2, <4>4, CalmSteps
      <3> QED BY <2>1, <3>3, <3>4
    <2>2. CASE CollectInputs(r)
      <3>1. files' = files /\ record' = record /\ orphans' = {} /\ run[r].saw # NoRecord
        BY <1>0, <2>0, <2>2 DEF CollectInputs
      <3>2. CASE Leave(r, run[r].done)
        BY <1>1, <2>0, <3>1, <3>2
      <3>3. CASE run' = [run EXCEPT ![r].at = "reuse"]
        <4>1. Calm(r)' /\ \A x \in Runner \ {r} : run'[x] = run[x]
          BY <2>0, <3>3 DEF Calm, At, RunCall
        <4> QED BY <1>0, <3>1, <4>1, CalmSteps
      <3> QED BY <2>2, <3>1, <3>2, <3>3 DEF CollectInputs
    <2>3. CASE Reuse(r)
      <3> DEFINE done == IF Whole(run[r].stage, Writes[run[r].stage]) /\ Evidence(Writes[run[r].stage]) = run[r].saw.outputs
                           THEN run[r].done \cup {run[r].stage} ELSE run[r].done
      <3>1. Leave(r, done) /\ done \in SUBSET Stage
        BY <2>0, <2>3 DEF Reuse
      <3>2. files' = files /\ record' = record /\ orphans' = {}
        BY <1>0, <2>3 DEF Reuse, stored
      <3> HIDE DEF done
      <3> QED BY <1>1, <3>1, <3>2
    <2>4. CASE CommandSucceeds(r) \/ CommandFails(r)
      BY <2>0, <2>4 DEF CommandSucceeds, CommandFails
    <2>5. CASE CollectOutputs(r)
      <3>1. files' = files /\ record' = record /\ orphans' = {}
        BY <1>0, <2>5 DEF CollectOutputs
      <3>2. CASE Leave(r, run[r].done)
        BY <1>1, <2>0, <3>1, <3>2
      <3>3. CASE run' = [run EXCEPT ![r].at = "publish", ![r].outputs = Evidence(Writes[run[r].stage])]
        <4>1. Calm(r)' /\ \A x \in Runner \ {r} : run'[x] = run[x]
          BY <2>0, <3>3 DEF Calm, At, RunCall
        <4> QED BY <1>0, <3>1, <4>1, CalmSteps
      <3> QED BY <2>5, <3>2, <3>3 DEF CollectOutputs
    <2>6. CASE PutRecord(r)
      <3> DEFINE done == IF record'[run[r].stage] = [inputs |-> run[r].inputs, outputs |-> run[r].outputs]
                           THEN run[r].done \cup {run[r].stage} ELSE run[r].done
      <3>1. record' = record
        BY <1>0, <2>0, <2>6 DEF PutRecord, Valid
      <3>2. Leave(r, done) /\ done \in SUBSET Stage /\ files' = files /\ orphans' = {}
        BY <1>0, <2>0, <2>6 DEF PutRecord
      <3> HIDE DEF done
      <3> QED BY <1>1, <3>1, <3>2
    <2> QED BY <1>2, <2>1, <2>2, <2>3, <2>4, <2>5, <2>6
  <1>3. ASSUME NEW s \in Stage, OrphanEnds(s) PROVE Settled'
    BY <1>0, <1>3 DEF OrphanEnds
  <1>4. ASSUME NEW s \in Stage, NEW f \in Writes[s], NEW c \in Given, CommandWrites(s, f, c)
        PROVE  Settled'
    BY <1>4 DEF CommandWrites, Settled, Unsettled
  <1> QED BY <1>2, <1>3, <1>4 DEF RunSteps

\* Once all records are there and match the files, and no command is left from
\* before, no run, report, promotion or death starts a command again.
THEOREM SettledTrialStays == PromotionSpec => SettledStays
  <1>1. ASSUME Inv, [PromotionNext]_allVars PROVE [Settled => Settled']_vars
    <2>1. CASE RunSteps
      BY <1>1, <2>1, SettledRunStep DEF Inv
    <2>2. CASE UNCHANGED <<files, stored, processes>>
      <3>1. UNCHANGED <<files, record, run, orphans>>
        BY <2>2 DEF stored, processes
      <3> QED BY <3>1 DEF Settled, Unsettled, Running, Valid, Evidence, At
    <2>3. CASE UNCHANGED allVars
      BY <2>3 DEF allVars
    <2>4. ASSUME NEW p \in Reader, ReadSteps(p) PROVE UNCHANGED <<files, stored, processes>>
      BY <2>4 DEF ReadSteps, PassOver, ReadInputs, ReadOutputs, EvaluateGates
    <2>5. ASSUME NEW p \in Reader,
               \/ StartIndex(p) \/ ReadMetrics(p) \/ BuildIndex(p) \/ StartPreview(p) \/ CollectArtifacts(p)
               \/ CheckCurrentIndex(p) \/ PutDecision(p) \/ PutFirstSidecars(p) \/ PutReport(p)
               \/ PutLastSidecars(p) \/ PromoterDies(p)
          PROVE  UNCHANGED <<files, stored, processes>>
      BY <2>5 DEF StartIndex, ReadMetrics, BuildIndex, StartPreview, CollectArtifacts, CheckCurrentIndex, PutDecision,
         PutFirstSidecars, PutReport, PutLastSidecars, PromoterDies
    <2>6. CASE Pack
      BY <2>6 DEF Pack, vars
    <2> QED BY <1>1, <2>1, <2>2, <2>3, <2>4, <2>5, <2>6 DEF PromotionNext
  <1> QED BY <1>1, Invariance, PTL DEF PromotionSpec, SettledStays

-----------------------------------------------------------------------------
(* The acquisition of a promoted release.                                   *)

\* The reader sends the validator that the plan is named after.
Conditional == validator \notin {"unsent", "none"}

\* The receipt vouches for the chunks, and the record for the receipt.
CacheSound ==
  \A e \in Plan :
    /\ cache[e][Receipt] # Absent =>
         cache[e][Receipt] = "signed" /\ \A i \in Chunk : cache[e][i] = "signed"
    /\ cache[e][FetchRecord] # Absent =>
         cache[e][FetchRecord] = "signed" /\ cache[e][Receipt] # Absent

FetchKnows(f) ==
  LET c == fetch[f]  there == cache[fetch[f].plan] IN
    /\ c.at \in {"idle", "planned", "prefix"} => c.item = 1
    /\ c.at # "idle" /\ Conditional => Versions[c.plan] \in Bytes
    /\ c.at = "get" /\ c.item = FetchRecord => there[Receipt] # Absent
    /\ c.at \in {"put", "link"} =>
         /\ c.item \in 1..FetchRecord /\ c.data # Absent
         /\ c.item \in Chunk /\ Conditional => c.data = Versions[c.plan]
         /\ c.item = Receipt => c.data = "signed" /\ \A i \in Chunk : there[i] = "signed"
         /\ c.item = FetchRecord => c.data = "signed" /\ there[Receipt] # Absent

\* An acquisition writes signed bytes only, its record last.
OutputSound ==
  \A k \in 0..Len(Versions) :
    /\ \A i \in 1..Record : output[k][i] \in {Absent, "signed"}
    /\ output[k][Record] # Absent =>
         /\ \A i \in Files(k) : output[k][i] # Absent
         /\ k # Unresolved => cache[k][FetchRecord] # Absent

AcquireKnows(a) ==
  LET c == acquire[a] IN
    /\ c.at \in {"idle", "planned", "prefix"} => c.item = 1
    /\ c.at # "idle" /\ c.plan # Unresolved => cache[c.plan][FetchRecord] # Absent
    /\ c.at \in {"get", "link"} =>
         \A i \in Files(c.plan) : i < c.item => output[c.plan][i] # Absent
    /\ c.at = "link" => c.item \in Files(c.plan)

AcquisitionInv ==
  /\ AcquisitionTypeOK
  /\ CacheSound /\ ChunksOfThePlan
  /\ \A f \in Fetcher : FetchKnows(f)
  /\ OutputSound
  /\ \A a \in Acquirer : AcquireKnows(a)

-----------------------------------------------------------------------------
(* Facts about the constants.                                               *)

LEMMA Sizes ==
  /\ Chunks \in Nat \ {0} /\ Receipt = Chunks + 1 /\ FetchRecord = Chunks + 2
  /\ Chunk = 1..Chunks /\ Chunk \subseteq 1..FetchRecord
  /\ Receipt \in 1..FetchRecord /\ FetchRecord \in 1..FetchRecord
  /\ Receipt \notin Chunk /\ FetchRecord \notin Chunk /\ Receipt # FetchRecord
  /\ Len(Versions) \in Nat \ {0} /\ Plan = 1..Len(Versions) /\ Plan \subseteq 0..Len(Versions)
  /\ Unresolved \in 0..Len(Versions) /\ Unresolved \notin Plan
  BY SourcesAssumption DEF Receipt, FetchRecord, Chunk, Plan, Unresolved

LEMMA VersionTypes ==
  /\ \A e \in Plan : Versions[e] \in {"signed", "other", "resized"}
  /\ Len(LocalVersions) \in Nat \ {0}
  /\ \A l \in 1..Len(LocalVersions) : LocalVersions[l] \in Bytes
  BY SourcesAssumption DEF Plan, Bytes

LEMMA FirstVersion ==
  ASSUME NEW v \in Plan
  PROVE  \E u \in Plan : /\ Versions[u] = Versions[v]
                         /\ \A w \in Plan : Versions[w] = Versions[v] => u <= w
  <1> DEFINE Same == {w \in Plan : Versions[w] = Versions[v]}
             R == OpToRel(<, Nat)
  <1>1. Same \subseteq Nat /\ Same # {}
    BY Sizes
  <1>2. IsWellFoundedOn(R, Nat)
    BY NatLessThanWellFounded
  <1> HIDE DEF R
  <1>3. PICK u \in Same : \A w \in Same : <<w, u>> \notin R
    BY <1>1, <1>2, WFMin
  <1>4. \A w \in Same : ~(w < u)
    BY <1>1, <1>3 DEF R, OpToRel
  <1> QED BY <1>1, <1>4, Sizes

\* The plan that a conditional reader's source is named after has its content.
LEMMA EvidenceTells ==
  ASSUME AcquisitionTypeOK
  PROVE  Inspected \in Plan /\ (Conditional => Versions[Inspected] = Versions[version])
  <1>1. version \in Plan /\ validator \in Validators
    BY DEF AcquisitionTypeOK
  <1>2. CASE validator = "etag"
    <2> DEFINE First(u) == /\ Versions[u] = Versions[version]
                           /\ \A w \in Plan : Versions[w] = Versions[version] => u <= w
    <2>1. \E u \in Plan : First(u)
      BY <1>1, FirstVersion
    <2>2. Inspected = CHOOSE u \in Plan : First(u)
      BY <1>2 DEF Inspected
    <2>3. Inspected \in Plan /\ First(Inspected)
      BY <2>1, <2>2
    <2> QED BY <2>3
  <1>3. CASE validator = "none"
    BY <1>3, Sizes DEF Inspected, Conditional
  <1>4. CASE validator \notin {"etag", "none"}
    BY <1>1, <1>4 DEF Inspected, Validators
  <1> QED BY <1>2, <1>3, <1>4

-----------------------------------------------------------------------------
(* Files are created once.                                                  *)

CacheGrows ==
  \A e \in Plan, i \in 1..FetchRecord :
    cache[e][i] # Absent => cache'[e][i] = cache[e][i]

OutputGrows ==
  \A k \in 0..Len(Versions), i \in 1..Record :
    output[k][i] # Absent => output'[k][i] = output[k][i]

LEMMA FetchKept ==
  ASSUME AcquisitionTypeOK, NEW f \in Fetcher, FetchKnows(f), CacheGrows,
         fetch'[f] = fetch[f], UNCHANGED validator
  PROVE  FetchKnows(f)'
  <1>1. fetch[f].plan \in Plan
    BY DEF AcquisitionTypeOK, FetchCall
  <1>2. \A i \in 1..FetchRecord : cache[fetch[f].plan][i] # Absent =>
          cache'[fetch[f].plan][i] = cache[fetch[f].plan][i]
    BY <1>1 DEF CacheGrows
  <1> QED BY <1>2, Sizes DEF FetchKnows, Conditional, Absent

LEMMA AcquireKept ==
  ASSUME AcquisitionTypeOK, NEW a \in Acquirer, AcquireKnows(a), CacheGrows, OutputGrows,
         acquire'[a] = acquire[a]
  PROVE  AcquireKnows(a)'
  <1>1. acquire[a].plan \in 0..Len(Versions) /\ (acquire[a].plan # Unresolved => acquire[a].plan \in Plan)
    BY Sizes DEF AcquisitionTypeOK, AcquireCall, Unresolved
  <1>2. \A i \in 1..Record : output[acquire[a].plan][i] # Absent =>
          output'[acquire[a].plan][i] # Absent
    BY <1>1 DEF OutputGrows
  <1>3. acquire[a].plan # Unresolved /\ cache[acquire[a].plan][FetchRecord] # Absent =>
          cache'[acquire[a].plan][FetchRecord] # Absent
    BY <1>1, Sizes DEF CacheGrows
  <1>4. \A k : Files(k) \subseteq 1..Record
    BY DEF Files, Local, Remote, Record
  <1> QED BY <1>2, <1>3, <1>4 DEF AcquireKnows

LEMMA OutputStays ==
  ASSUME AcquisitionTypeOK, OutputSound, CacheGrows, UNCHANGED output
  PROVE  OutputSound'
  BY Sizes DEF OutputSound, CacheGrows, Unresolved

\* What remains to be shown of a step that links no file.
LEMMA NothingLinked ==
  ASSUME AcquisitionInv, AcquisitionTypeOK', UNCHANGED <<validator, cache, output>>,
         \A f \in Fetcher : fetch'[f] = fetch[f] \/ FetchKnows(f)',
         \A a \in Acquirer : acquire'[a] = acquire[a] \/ AcquireKnows(a)'
  PROVE  AcquisitionInv'
  <1>1. CacheGrows /\ OutputGrows
    BY DEF CacheGrows, OutputGrows
  <1>2. CacheSound' /\ ChunksOfThePlan'
    BY DEF AcquisitionInv, CacheSound, ChunksOfThePlan
  <1>3. OutputSound'
    BY <1>1, OutputStays DEF AcquisitionInv
  <1>4. \A f \in Fetcher : FetchKnows(f)'
    BY <1>1, FetchKept DEF AcquisitionInv
  <1>5. \A a \in Acquirer : AcquireKnows(a)'
    BY <1>1, AcquireKept DEF AcquisitionInv
  <1> QED BY <1>2, <1>3, <1>4, <1>5 DEF AcquisitionInv

LEMMA SourcesInv ==
  ASSUME AcquisitionInv, OverwriteObject \/ OverwriteLocal
  PROVE  AcquisitionInv'
  <1>1. UNCHANGED <<validator, policy, cache, fetch, output, acquire, left, deaths>>
    BY DEF OverwriteObject, OverwriteLocal, kept, fetches
  <1>2. version' \in Plan /\ local' \in 1..Len(LocalVersions)
    BY Sizes, VersionTypes DEF AcquisitionInv, AcquisitionTypeOK, OverwriteObject,
       OverwriteLocal
  <1>3. AcquisitionTypeOK'
    BY <1>1, <1>2 DEF AcquisitionInv, AcquisitionTypeOK
  <1> QED BY <1>1, <1>3, NothingLinked

-----------------------------------------------------------------------------
(* Fetches                                                                  *)

\* What remains to be shown of a step of a fetch command that links no file.
LEMMA FetchStep ==
  ASSUME AcquisitionInv, NEW f \in Fetcher, NEW c \in FetchCall, fetch' = [fetch EXCEPT ![f] = c],
         UNCHANGED <<kept, sources, cache, output, acquire>>,
         left' \subseteq left \cup {<<"cache", fetch[f].plan>>}, deaths' \in 0..MaxDeaths,
         FetchKnows(f)'
  PROVE  AcquisitionInv'
  <1>1. fetch' \in [Fetcher -> FetchCall] /\ \A g \in Fetcher \ {f} : fetch'[g] = fetch[g]
    BY DEF AcquisitionInv, AcquisitionTypeOK
  <1>2. left' \subseteq ({"cache"} \X Plan) \cup ({"output"} \X (0..Len(Versions)))
    BY DEF AcquisitionInv, AcquisitionTypeOK, FetchCall
  <1>3. AcquisitionTypeOK'
    BY <1>1, <1>2 DEF AcquisitionInv, AcquisitionTypeOK, kept, sources
  <1> QED BY <1>1, <1>3, NothingLinked DEF kept

LEMMA FetchEnds ==
  ASSUME AcquisitionInv, NEW f \in Fetcher, FetchFails(f), UNCHANGED <<kept, sources, cache, output, acquire>>,
         left' \subseteq left \cup {<<"cache", fetch[f].plan>>}, deaths' \in 0..MaxDeaths
  PROVE  AcquisitionInv'
  <1>1. IdleFetch \in FetchCall
    BY Sizes DEF IdleFetch, FetchCall, FetchRecord, Absent
  <1>2. fetch'[f] = IdleFetch
    BY DEF FetchFails, AcquisitionInv, AcquisitionTypeOK
  <1>3. FetchKnows(f)'
    BY <1>2 DEF FetchKnows, IdleFetch
  <1> QED BY <1>1, <1>3, FetchStep DEF FetchFails

LEMMA FetchMoves ==
  ASSUME AcquisitionInv, NEW f \in Fetcher,
         \/ PreviewFetch(f) \/ RepeatFetchPreview(f) \/ CheckCachePrefix(f) \/ HaveChunk(f)
         \/ ReadRange(f) \/ ReadFails(f) \/ CheckDigest(f) \/ MakeFetchRecord(f) \/ Put(f)
         \/ VerifyFetch(f)
  PROVE  AcquisitionInv'
  <1> USE DEF AcquisitionInv
  <1> DEFINE c == fetch[f]
             there == cache[fetch[f].plan]
  <1>1. /\ UNCHANGED <<kept, sources, cache, output, acquire, left, deaths>>
        /\ deaths \in 0..MaxDeaths
    BY DEF PreviewFetch, RepeatFetchPreview, CheckCachePrefix, HaveChunk, ReadRange, ReadFails,
       CheckDigest, MakeFetchRecord, Put, VerifyFetch, FetchOnly, AcquisitionTypeOK
  <1>2. /\ c \in FetchCall /\ c.plan \in Plan /\ c.item \in 1..(FetchRecord + 1)
        /\ c.data \in Bytes \cup {Absent} /\ FetchKnows(f) /\ there \in CacheFiles
    BY DEF AcquisitionTypeOK, FetchCall
  <1>3. CASE FetchFails(f)
    BY <1>1, <1>3, FetchEnds
  \* Any other step gives the command a new state.
  <1>4. ASSUME NEW new \in FetchCall, fetch' = [fetch EXCEPT ![f] = new],
               new.at \in {"idle", "planned", "prefix"} => new.item = 1,
               Conditional => Versions[new.plan] \in Bytes,
               new.at = "get" /\ new.item = FetchRecord => cache[new.plan][Receipt] # Absent,
               new.at \in {"put", "link"} =>
                 /\ new.item \in 1..FetchRecord /\ new.data # Absent
                 /\ new.item \in Chunk /\ Conditional => new.data = Versions[new.plan]
                 /\ new.item = Receipt =>
                      new.data = "signed" /\ \A i \in Chunk : cache[new.plan][i] = "signed"
                 /\ new.item = FetchRecord =>
                      new.data = "signed" /\ cache[new.plan][Receipt] # Absent
        PROVE  AcquisitionInv'
    <2>1. fetch'[f] = new
      BY <1>4 DEF AcquisitionTypeOK
    <2>2. FetchKnows(f)'
      BY <1>1, <1>4, <2>1 DEF FetchKnows, Conditional, kept
    <2> QED BY <1>1, <1>4, <2>2, FetchStep
  <1>5. CASE PreviewFetch(f)
    <2> DEFINE new == [c EXCEPT !.at = "planned", !.plan = Inspected]
    <2>1. Inspected \in Plan /\ (Conditional => Versions[Inspected] \in Bytes)
      BY <1>5, EvidenceTells, VersionTypes DEF PreviewFetch, FetchEligible, Bytes,
         AcquisitionTypeOK
    <2>2. new \in FetchCall /\ new.at = "planned" /\ new.plan = Inspected /\ new.item = c.item
      BY <1>2, <2>1 DEF FetchCall
    <2>3. c.item = 1 /\ fetch' = [fetch EXCEPT ![f] = new]
      BY <1>2, <1>5 DEF PreviewFetch, FetchAt, FetchKnows, AcquisitionTypeOK
    <2> QED BY <1>4, <2>1, <2>2, <2>3
  <1>6. CASE (RepeatFetchPreview(f) \/ CheckCachePrefix(f)) /\ ~FetchFails(f)
    <2>1. PICK l \in {"prefix", "get"} : FetchGoes(f, l)
      BY <1>6 DEF RepeatFetchPreview, CheckCachePrefix
    <2> DEFINE new == [c EXCEPT !.at = l]
    <2>2. new \in FetchCall /\ new.at = l /\ new.plan = c.plan /\ new.item = c.item
      BY <1>2 DEF FetchCall
    <2>3. c.item = 1 /\ (Conditional => Versions[c.plan] \in Bytes)
      BY <1>2, <1>6 DEF RepeatFetchPreview, CheckCachePrefix, FetchAt, FetchKnows
    <2>4. fetch' = [fetch EXCEPT ![f] = new]
      BY <2>1 DEF FetchGoes
    <2>5. 1 # FetchRecord
      BY Sizes
    <2> QED BY <1>4, <2>2, <2>3, <2>4, <2>5
  <1>7. CASE NextItem(f) /\ c.item \in 1..FetchRecord /\ c.at # "idle" /\ there[c.item] # Absent
    <2> DEFINE new == [c EXCEPT !.at = "get", !.item = @ + 1, !.data = Absent]
    <2>1. c.item + 1 \in 1..(FetchRecord + 1)
      BY <1>7, Sizes
    <2>2. new \in FetchCall /\ new.at = "get" /\ new.plan = c.plan /\ new.item = c.item + 1
      BY <1>2, <2>1 DEF FetchCall
    <2>3. fetch' = [fetch EXCEPT ![f] = new]
      BY <1>7 DEF NextItem
    <2>4. c.item + 1 = FetchRecord => c.item = Receipt
      BY <1>7, Sizes
    <2>5. Conditional => Versions[c.plan] \in Bytes
      BY <1>2, <1>7 DEF FetchKnows
    <2> QED BY <1>4, <1>7, <2>2, <2>3, <2>4, <2>5
  <1>8. CASE HaveChunk(f)
    BY <1>7, <1>8, Sizes DEF HaveChunk, FetchAt, Cached
  <1>9. CASE ReadRange(f)
    <2> DEFINE read == IF Served(f) = "signed" THEN "signed" ELSE "other"
               new == [c EXCEPT !.at = "put", !.data = read]
    <2>1. /\ new \in FetchCall /\ new.at = "put" /\ new.plan = c.plan /\ new.item = c.item
          /\ new.data = read /\ read # Absent
      BY <1>2 DEF FetchCall, Bytes, Absent
    <2>2. fetch' = [fetch EXCEPT ![f] = new] /\ c.item \in Chunk /\ c.at = "get"
      BY <1>9 DEF ReadRange, FetchAt
    <2>3. Conditional => Versions[c.plan] \in Bytes /\ Versions[c.plan] = Served(f)
      <3>1. Conditional => Versions[c.plan] \in Bytes
        BY <1>2, <2>2 DEF FetchKnows
      <3>2. ~Refused(f) /\ validator \in Validators
        BY <1>2, <1>9 DEF ReadRange, AcquisitionTypeOK
      <3>3. Conditional => Versions[c.plan] = Served(f)
        BY <3>2 DEF Conditional, Refused, Served, Validators
      <3> QED BY <3>1, <3>3
    <2>4. Conditional => read = Versions[c.plan]
      BY <2>3 DEF Bytes
    <2>5. c.item \in 1..FetchRecord /\ c.item # Receipt /\ c.item # FetchRecord
      BY <2>2, Sizes
    <2> HIDE DEF new, read
    <2> QED BY <1>4, <2>1, <2>2, <2>3, <2>4, <2>5
  <1>10. CASE (CheckDigest(f) \/ MakeFetchRecord(f)) /\ ~FetchFails(f)
    <2> DEFINE new == [c EXCEPT !.at = "put", !.data = "signed"]
    <2>1. /\ new \in FetchCall /\ new.at = "put" /\ new.plan = c.plan /\ new.item = c.item
          /\ new.data = "signed" /\ "signed" # Absent
      BY <1>2 DEF FetchCall, Bytes, Absent
    <2>2. /\ fetch' = [fetch EXCEPT ![f] = new] /\ c.at = "get"
          /\ c.item \in {Receipt, FetchRecord}
          /\ c.item = Receipt => \A i \in Chunk : there[i] = "signed"
      BY <1>10, Sizes DEF CheckDigest, MakeFetchRecord, FetchAt
    <2>3. c.item = FetchRecord => there[Receipt] # Absent
      BY <1>2, <2>2 DEF FetchKnows
    <2>4. Conditional => Versions[c.plan] \in Bytes
      BY <1>2, <2>2 DEF FetchKnows
    <2>5. c.item \in 1..FetchRecord /\ c.item \notin Chunk
      BY <2>2, Sizes
    <2> HIDE DEF new
    <2> QED BY <1>4, <2>1, <2>2, <2>3, <2>4, <2>5
  <1>11. CASE Put(f) /\ ~FetchFails(f)
    <2>1. c.at = "put" /\ c.item \in 1..FetchRecord /\ c.data # Absent
      BY <1>2, <1>11 DEF Put, FetchAt, FetchKnows
    <2>2. CASE there[c.item] = Absent
      <3> DEFINE new == [c EXCEPT !.at = "link"]
      <3>1. /\ new \in FetchCall /\ new.at = "link" /\ new.plan = c.plan /\ new.item = c.item
            /\ new.data = c.data
        BY <1>2 DEF FetchCall
      <3>2. fetch' = [fetch EXCEPT ![f] = new]
        BY <1>11, <2>1, <2>2 DEF Put, Cached, FetchGoes
      <3> HIDE DEF new
      <3> QED BY <1>2, <1>4, <2>1, <3>1, <3>2 DEF FetchKnows
    <2>3. CASE there[c.item] # Absent
      BY <1>7, <1>11, <2>1, <2>3 DEF Put, Cached
    <2> QED BY <2>2, <2>3
  <1>12. CASE ReadFails(f) \/ VerifyFetch(f)
    BY <1>3, <1>12 DEF ReadFails, VerifyFetch
  <1> QED BY <1>3, <1>5, <1>6, <1>8, <1>9, <1>10, <1>11, <1>12

LEMMA LinkInv ==
  ASSUME AcquisitionInv, NEW f \in Fetcher, Link(f)
  PROVE  AcquisitionInv'
  <1> USE DEF AcquisitionInv
  <1> DEFINE c == fetch[f]
             there == cache[fetch[f].plan]
  <1>1. /\ UNCHANGED <<kept, sources, output, acquire, left, deaths>> /\ deaths \in 0..MaxDeaths
        /\ c.at = "link"
    BY DEF Link, FetchOnly, FetchAt, AcquisitionTypeOK
  <1>2. /\ c \in FetchCall /\ c.plan \in Plan /\ c.data \in Bytes \cup {Absent}
        /\ FetchKnows(f) /\ there \in CacheFiles
    BY DEF AcquisitionTypeOK, FetchCall
  <1>3. /\ c.item \in 1..FetchRecord /\ c.data \in Bytes /\ c.data # Absent
        /\ c.item \in Chunk /\ Conditional => c.data = Versions[c.plan]
        /\ c.item = Receipt => c.data = "signed" /\ \A i \in Chunk : there[i] = "signed"
        /\ c.item = FetchRecord => c.data = "signed" /\ there[Receipt] # Absent
        /\ Conditional => Versions[c.plan] \in Bytes
    BY <1>1, <1>2 DEF FetchKnows, Bytes
  <1>4. CASE there[c.item] # Absent /\ FetchFails(f)
    BY <1>1, <1>4, FetchEnds DEF Link, Cached
  \* The file is the one that was there, or the new one.
  <1>5. CASE NextItem(f) /\ there[c.item] \in {Absent, c.data}
    <2> DEFINE new == [c EXCEPT !.at = "get", !.item = @ + 1, !.data = Absent]
    <2>1. /\ \A e \in Plan, i \in 1..FetchRecord : ~(e = c.plan /\ i = c.item) => cache'[e][i] = cache[e][i]
          /\ cache'[c.plan][c.item] = c.data
          /\ cache' \in [Plan -> CacheFiles]
      <3>1. CASE there[c.item] = Absent
        <4>1. cache' = [cache EXCEPT ![c.plan][c.item] = c.data]
          BY <3>1 DEF Link, Cached
        <4> QED BY <4>1, <1>2, <1>3 DEF AcquisitionTypeOK, CacheFiles
      <3>2. CASE there[c.item] # Absent
        <4>1. UNCHANGED cache
          BY <3>2 DEF Link, Cached
        <4> QED BY <4>1, <3>2, <1>5 DEF AcquisitionTypeOK
      <3> QED BY <3>1, <3>2
    <2>2. CacheGrows
      BY <2>1, <1>5 DEF CacheGrows
    <2>3. c.item + 1 \in 1..(FetchRecord + 1)
      BY <1>3, Sizes
    <2>4. /\ new \in FetchCall /\ new.at = "get" /\ new.plan = c.plan
          /\ new.item = c.item + 1
      BY <1>2, <2>3 DEF FetchCall
    <2>5. fetch' = [fetch EXCEPT ![f] = new]
      BY <1>5 DEF NextItem
    <2>6. /\ fetch' \in [Fetcher -> FetchCall] /\ fetch'[f] = new
          /\ \A g \in Fetcher \ {f} : fetch'[g] = fetch[g]
      BY <2>4, <2>5 DEF AcquisitionTypeOK
    <2>7. AcquisitionTypeOK'
      BY <1>1, <2>1, <2>6 DEF AcquisitionTypeOK, kept, sources
    <2>8. CacheSound'
      <3> SUFFICES ASSUME NEW e \in Plan
                   PROVE  /\ cache'[e][Receipt] # Absent =>
                               /\ cache'[e][Receipt] = "signed"
                               /\ \A i \in Chunk : cache'[e][i] = "signed"
                          /\ cache'[e][FetchRecord] # Absent =>
                               cache'[e][FetchRecord] = "signed" /\ cache'[e][Receipt] # Absent
        BY DEF CacheSound
      <3>1. \A i \in Chunk : cache[e][i] = "signed" => cache'[e][i] = "signed"
        BY <2>2, Sizes DEF CacheGrows, Absent
      <3>2. cache[e][Receipt] # Absent => cache'[e][Receipt] = cache[e][Receipt]
        BY <2>2, Sizes DEF CacheGrows
      <3>3. cache'[e][Receipt] = cache[e][Receipt] \/ (e = c.plan /\ c.item = Receipt)
        BY <2>1, Sizes
      <3>4. cache'[e][FetchRecord] = cache[e][FetchRecord] \/ (e = c.plan /\ c.item = FetchRecord)
        BY <2>1, Sizes
      <3>5. cache'[e][Receipt] # Absent =>
              cache'[e][Receipt] = "signed" /\ \A i \in Chunk : cache'[e][i] = "signed"
        BY <1>3, <2>1, <3>1, <3>3 DEF CacheSound
      <3>6. cache'[e][FetchRecord] # Absent =>
              cache'[e][FetchRecord] = "signed" /\ cache'[e][Receipt] # Absent
        BY <1>3, <2>1, <3>2, <3>4 DEF CacheSound
      <3> QED BY <3>5, <3>6
    <2>9. ChunksOfThePlan'
      <3> SUFFICES ASSUME Conditional, NEW e \in Plan, NEW i \in Chunk
                   PROVE  cache'[e][i] \in {Absent, Versions[e]}
        BY <1>1 DEF ChunksOfThePlan, Conditional, kept
      <3>1. CASE e = c.plan /\ i = c.item
        BY <3>1, <1>3, <2>1
      <3>2. CASE ~(e = c.plan /\ i = c.item)
        BY <3>2, <2>1, Sizes DEF ChunksOfThePlan, Conditional
      <3> QED BY <3>1, <3>2
    <2>10. FetchKnows(f)'
      <3>1. c.item + 1 = FetchRecord => c.item = Receipt
        BY <1>3, Sizes
      <3>2. fetch'[f].at = "get" /\ fetch'[f].plan = c.plan /\ fetch'[f].item = c.item + 1
        BY <2>4, <2>6
      <3>3. c.item + 1 = FetchRecord => cache'[c.plan][Receipt] # Absent
        BY <1>3, <2>1, <3>1
      <3>4. Conditional' <=> Conditional
        BY <1>1 DEF Conditional, kept
      <3> QED BY <1>3, <3>2, <3>3, <3>4 DEF FetchKnows
    <2>11. \A g \in Fetcher : FetchKnows(g)'
      BY <1>1, <2>2, <2>6, <2>10, FetchKept DEF kept
    <2>12. OutputGrows
      BY <1>1 DEF OutputGrows
    <2>13. OutputSound' /\ \A a \in Acquirer : AcquireKnows(a)'
      BY <1>1, <2>2, <2>12, OutputStays, AcquireKept
    <2> QED BY <2>7, <2>8, <2>9, <2>11, <2>13
  <1> QED BY <1>4, <1>5, <1>3 DEF Link, Cached

-----------------------------------------------------------------------------
(* Acquisitions                                                             *)

LEMMA AcquisitionArtifacts ==
  /\ Local = 1 /\ Remote = 2 /\ Record = 3
  /\ \A k : Files(k) \subseteq 1..Record /\ Record \in Files(k)
  /\ \A k, i : i \in Files(k) => i \in {Local, Remote, Record}
  /\ \A i \in 1..Record : i \in {Local, Remote, Record}
  BY DEF Local, Remote, Record, Files

LEMMA AcquireStep ==
  ASSUME AcquisitionInv, NEW a \in Acquirer, NEW c \in AcquireCall, acquire' = [acquire EXCEPT ![a] = c],
         UNCHANGED <<kept, sources, fetches, output>>,
         left' \subseteq left \cup {<<"output", acquire[a].plan>>}, deaths' \in 0..MaxDeaths,
         AcquireKnows(a)'
  PROVE  AcquisitionInv'
  <1>1. acquire' \in [Acquirer -> AcquireCall] /\ \A b \in Acquirer \ {a} : acquire'[b] = acquire[b]
    BY DEF AcquisitionInv, AcquisitionTypeOK
  <1>2. left' \subseteq ({"cache"} \X Plan) \cup ({"output"} \X (0..Len(Versions)))
    BY Sizes DEF AcquisitionInv, AcquisitionTypeOK, AcquireCall
  <1>3. AcquisitionTypeOK'
    BY <1>1, <1>2 DEF AcquisitionInv, AcquisitionTypeOK, kept, sources, fetches
  <1> QED BY <1>1, <1>3, NothingLinked DEF kept, fetches

LEMMA AcquireEnds ==
  ASSUME AcquisitionInv, NEW a \in Acquirer, AcquireFails(a), UNCHANGED <<kept, sources, fetches, output>>,
         left' \subseteq left \cup {<<"output", acquire[a].plan>>}, deaths' \in 0..MaxDeaths
  PROVE  AcquisitionInv'
  <1>1. IdleAcquire \in AcquireCall
    BY AcquisitionArtifacts DEF IdleAcquire, AcquireCall, Absent
  <1>2. acquire'[a] = IdleAcquire
    BY DEF AcquireFails, AcquisitionInv, AcquisitionTypeOK
  <1>3. AcquireKnows(a)'
    BY <1>2 DEF AcquireKnows, IdleAcquire
  <1> QED BY <1>1, <1>3, AcquireStep DEF AcquireFails

LEMMA AcquireMoves ==
  ASSUME AcquisitionInv, NEW a \in Acquirer,
         \/ PreviewAcquisition(a) \/ RepeatAcquisitionPreview(a) \/ CheckOutputPrefix(a)
         \/ SkipRemote(a) \/ HaveFile(a) \/ CopyFile(a) \/ VerifyAcquisition(a)
  PROVE  AcquisitionInv'
  <1> USE DEF AcquisitionInv
  <1> DEFINE c == acquire[a]
             there == output[acquire[a].plan]
  <1>1. /\ UNCHANGED <<kept, sources, fetches, output, left, deaths>> /\ deaths \in 0..MaxDeaths
    BY DEF PreviewAcquisition, RepeatAcquisitionPreview, CheckOutputPrefix, SkipRemote,
       HaveFile, CopyFile, VerifyAcquisition, AcquireOnly, AcquisitionTypeOK
  <1>2. /\ c \in AcquireCall /\ c.plan \in 0..Len(Versions) /\ c.item \in 1..(Record + 1)
        /\ AcquireKnows(a) /\ c.plan # Unresolved => c.plan \in Plan
    BY Sizes DEF AcquisitionTypeOK, AcquireCall, Unresolved
  <1>3. CASE AcquireFails(a)
    BY <1>1, <1>3, AcquireEnds
  <1>4. ASSUME NEW new \in AcquireCall, acquire' = [acquire EXCEPT ![a] = new],
               new.at \in {"idle", "planned", "prefix"} => new.item = 1,
               new.plan # Unresolved => cache[new.plan][FetchRecord] # Absent,
               new.at \in {"get", "link"} =>
                 \A i \in Files(new.plan) : i < new.item => output[new.plan][i] # Absent,
               new.at = "link" => new.item \in Files(new.plan)
        PROVE  AcquisitionInv'
    <2>1. acquire'[a] = new
      BY <1>4 DEF AcquisitionTypeOK
    <2>2. AcquireKnows(a)'
      BY <1>1, <1>4, <2>1 DEF AcquireKnows, fetches
    <2> QED BY <1>1, <1>4, <2>2, AcquireStep
  <1>5. CASE PreviewAcquisition(a)
    <2>1. PICK k \in 0..Len(Versions) :
            /\ k # Unresolved => RecordVerifies(k)
            /\ acquire' = [acquire EXCEPT ![a].at = "planned", ![a].plan = k]
      BY <1>5 DEF PreviewAcquisition
    <2> DEFINE new == [c EXCEPT !.at = "planned", !.plan = k]
    <2> k \in {Unresolved} \cup Plan
      BY Sizes DEF Unresolved
    <2>2. new \in AcquireCall /\ new.at = "planned" /\ new.plan = k /\ new.item = c.item
      BY <1>2 DEF AcquireCall
    <2>3. c.item = 1 /\ acquire' = [acquire EXCEPT ![a] = new]
      BY <1>2, <1>5, <2>1 DEF PreviewAcquisition, AcquireAt, AcquireKnows
    <2>4. k # Unresolved => cache[k][FetchRecord] # Absent
      BY <2>1, Sizes DEF RecordVerifies, Absent
    <2> QED BY <1>4, <2>2, <2>3, <2>4
  <1>6. CASE (RepeatAcquisitionPreview(a) \/ CheckOutputPrefix(a)) /\ ~AcquireFails(a)
    <2>1. PICK l \in {"prefix", "get"} : AcquireGoes(a, l)
      BY <1>6 DEF RepeatAcquisitionPreview, CheckOutputPrefix
    <2> DEFINE new == [c EXCEPT !.at = l]
    <2>2. new \in AcquireCall /\ new.at = l /\ new.plan = c.plan /\ new.item = c.item
      BY <1>2 DEF AcquireCall
    <2>3. c.item = 1 /\ (c.plan # Unresolved => cache[c.plan][FetchRecord] # Absent)
      BY <1>2, <1>6 DEF RepeatAcquisitionPreview, CheckOutputPrefix, AcquireAt, AcquireKnows
    <2>4. acquire' = [acquire EXCEPT ![a] = new]
      BY <2>1 DEF AcquireGoes
    <2>5. \A i \in Files(c.plan) : ~(i < 1)
      BY AcquisitionArtifacts
    <2> QED BY <1>4, <2>2, <2>3, <2>4, <2>5
  <1>7. CASE /\ NextFile(a) /\ c.at = "get" /\ c.item \in 1..Record
             /\ c.item \in Files(c.plan) => there[c.item] # Absent
    <2> DEFINE new == [c EXCEPT !.at = "get", !.item = @ + 1, !.data = Absent]
    <2>1. c.item + 1 \in 1..(Record + 1)
      BY <1>7, AcquisitionArtifacts
    <2>2. new \in AcquireCall /\ new.at = "get" /\ new.plan = c.plan /\ new.item = c.item + 1
      BY <1>2, <2>1 DEF AcquireCall
    <2>3. acquire' = [acquire EXCEPT ![a] = new]
      BY <1>7 DEF NextFile
    <2>4. \A i \in Files(c.plan) : i < c.item + 1 => i < c.item \/ i = c.item
      BY <1>2, AcquisitionArtifacts
    <2>5. \A i \in Files(c.plan) : i < c.item + 1 => there[i] # Absent
      BY <1>2, <1>7, <2>4 DEF AcquireKnows
    <2>6. c.plan # Unresolved => cache[c.plan][FetchRecord] # Absent
      BY <1>2, <1>7 DEF AcquireKnows
    <2> QED BY <1>4, <2>2, <2>3, <2>5, <2>6
  <1>8. CASE SkipRemote(a)
    <2>1. c.item = Remote /\ Remote \notin Files(c.plan)
      BY <1>8 DEF SkipRemote, Files, Local, Remote, Record
    <2> QED BY <1>7, <1>8, <2>1, AcquisitionArtifacts DEF SkipRemote, AcquireAt
  <1>9. CASE HaveFile(a) /\ ~AcquireFails(a)
    BY <1>7, <1>9, AcquisitionArtifacts DEF HaveFile, AcquireAt, Written
  <1>10. CASE CopyFile(a)
    <2>1. PICK data : acquire' = [acquire EXCEPT ![a].at = "link", ![a].data = data]
                      /\ data \in Bytes
      <3> DEFINE data == CASE c.item = Local  -> LocalBytes
                           [] c.item = Remote -> CachedBytes(c.plan)
                           [] OTHER           -> "signed"
      <3>1. acquire' = [acquire EXCEPT ![a].at = "link", ![a].data = data]
        BY <1>10 DEF CopyFile
      <3>2. LocalBytes \in Bytes /\ CachedBytes(c.plan) \in Bytes
        BY VersionTypes DEF LocalBytes, CachedBytes, AcquisitionTypeOK, Bytes
      <3>3. data \in Bytes
        <4>1. CASE c.item = Local
          BY <3>2, <4>1
        <4>2. CASE c.item # Local /\ c.item = Remote
          BY <3>2, <4>2
        <4>3. CASE c.item # Local /\ c.item # Remote
          BY <4>3 DEF Bytes
        <4> QED BY <4>1, <4>2, <4>3
      <3> HIDE DEF data
      <3> QED BY <3>1, <3>3
    <2> DEFINE new == [c EXCEPT !.at = "link", !.data = data]
    <2>2. new \in AcquireCall /\ new.at = "link" /\ new.plan = c.plan /\ new.item = c.item
      BY <1>2, <2>1 DEF AcquireCall
    <2>3. acquire' = [acquire EXCEPT ![a] = new]
      BY <2>1
    <2>4. c.at = "get" /\ c.item \in Files(c.plan)
      BY <1>10 DEF CopyFile, AcquireAt
    <2> HIDE DEF new
    <2> QED BY <1>2, <1>4, <2>2, <2>3, <2>4 DEF AcquireKnows
  <1>11. CASE VerifyAcquisition(a)
    BY <1>3, <1>11 DEF VerifyAcquisition
  <1> QED BY <1>3, <1>5, <1>6, <1>8, <1>9, <1>10, <1>11

LEMMA LinkFileInv ==
  ASSUME AcquisitionInv, NEW a \in Acquirer, LinkFile(a)
  PROVE  AcquisitionInv'
  <1> USE DEF AcquisitionInv
  <1> DEFINE c == acquire[a]
             there == output[acquire[a].plan]
  <1>1. /\ UNCHANGED <<kept, sources, fetches, left, deaths>> /\ deaths \in 0..MaxDeaths
        /\ c.at = "link"
    BY DEF LinkFile, AcquireOnly, AcquireAt, AcquisitionTypeOK
  <1>2. /\ c \in AcquireCall /\ c.plan \in 0..Len(Versions)
        /\ AcquireKnows(a) /\ there \in OutputFiles
    BY Sizes DEF AcquisitionTypeOK, AcquireCall, Unresolved
  <1>3. /\ c.item \in Files(c.plan) /\ c.item \in 1..Record
        /\ \A i \in Files(c.plan) : i < c.item => there[i] # Absent
        /\ c.plan # Unresolved => cache[c.plan][FetchRecord] # Absent
    BY <1>1, <1>2, AcquisitionArtifacts DEF AcquireKnows
  <1>4. CASE AcquireFails(a) /\ UNCHANGED output
    BY <1>1, <1>4, AcquireEnds
  <1>5. CASE /\ NextFile(a) /\ there[c.item] \in {Absent, "signed"}
             /\ output' = [output EXCEPT ![c.plan][c.item] = "signed"]
    <2> DEFINE new == [c EXCEPT !.at = "get", !.item = @ + 1, !.data = Absent]
    <2>1. /\ \A k \in 0..Len(Versions), i \in 1..Record :
               ~(k = c.plan /\ i = c.item) => output'[k][i] = output[k][i]
          /\ output'[c.plan][c.item] = "signed"
          /\ output' \in [0..Len(Versions) -> OutputFiles]
      BY <1>2, <1>3, <1>5 DEF AcquisitionTypeOK, OutputFiles, Bytes
    <2>2. OutputGrows /\ CacheGrows
      BY <1>1, <1>5, <2>1 DEF OutputGrows, CacheGrows, fetches
    <2>3. c.item + 1 \in 1..(Record + 1)
      BY <1>3, AcquisitionArtifacts
    <2>4. new \in AcquireCall /\ new.at = "get" /\ new.plan = c.plan /\ new.item = c.item + 1
      BY <1>2, <2>3 DEF AcquireCall
    <2>5. /\ acquire' \in [Acquirer -> AcquireCall] /\ acquire'[a] = new
          /\ \A b \in Acquirer \ {a} : acquire'[b] = acquire[b]
      BY <1>5, <2>4 DEF NextFile, AcquisitionTypeOK
    <2>6. AcquisitionTypeOK'
      BY <1>1, <2>1, <2>5 DEF AcquisitionTypeOK, kept, sources, fetches
    <2>7. CacheSound' /\ ChunksOfThePlan'
      BY <1>1 DEF CacheSound, ChunksOfThePlan, kept, fetches
    <2>8. \A f \in Fetcher : FetchKnows(f)'
      BY <1>1, <2>2, FetchKept DEF kept, fetches
    <2>9. "signed" # Absent
      BY DEF Absent
    <2>10. ASSUME NEW i \in Files(c.plan), i < c.item + 1 PROVE output'[c.plan][i] # Absent
      <3>1. CASE i = c.item
        BY <3>1, <2>1, <2>9
      <3>2. CASE i # c.item
        <4>1. i < c.item /\ i \in 1..Record
          BY <2>10, <3>2, <1>3, AcquisitionArtifacts
        <4> QED BY <4>1, <3>2, <1>2, <1>3, <2>1
      <3> QED BY <3>1, <3>2
    <2>11. AcquireKnows(a)'
      BY <1>1, <1>3, <2>4, <2>5, <2>10 DEF AcquireKnows, fetches
    <2>12. \A b \in Acquirer : AcquireKnows(b)'
      BY <2>2, <2>5, <2>11, AcquireKept
    <2>13. OutputSound'
      <3> SUFFICES ASSUME NEW k \in 0..Len(Versions)
                   PROVE  /\ \A i \in 1..Record : output'[k][i] \in {Absent, "signed"}
                          /\ output'[k][Record] # Absent =>
                               /\ \A i \in Files(k) : output'[k][i] # Absent
                               /\ k # Unresolved => cache'[k][FetchRecord] # Absent
        BY DEF OutputSound
      <3>1. \A i \in 1..Record : output'[k][i] \in {Absent, "signed"}
        BY <2>1 DEF OutputSound
      <3>2. \A i \in 1..Record : output[k][i] # Absent => output'[k][i] # Absent
        BY <2>2 DEF OutputGrows
      <3>3. UNCHANGED cache
        BY <1>1 DEF fetches
      <3>4. CASE k = c.plan /\ c.item = Record
        <4>1. \A i \in Files(k) : i < c.item + 1
          BY <3>4, AcquisitionArtifacts
        <4> QED BY <3>1, <3>3, <3>4, <4>1, <1>3, <2>10
      <3>5. CASE ~(k = c.plan /\ c.item = Record)
        <4>1. output'[k][Record] = output[k][Record]
          BY <3>5, <2>1, AcquisitionArtifacts
        <4> QED BY <3>1, <3>2, <3>3, <4>1, AcquisitionArtifacts DEF OutputSound
      <3> QED BY <3>4, <3>5
    <2> QED BY <2>6, <2>7, <2>8, <2>12, <2>13
  <1> QED BY <1>4, <1>5 DEF LinkFile, Written

-----------------------------------------------------------------------------
(* The whole                                                                *)

LEMMA DeathsInv ==
  ASSUME AcquisitionInv, \/ \E f \in Fetcher : FetcherDies(f)
                         \/ \E a \in Acquirer : AcquirerDies(a)
  PROVE  AcquisitionInv'
  <1>1. ASSUME deaths < MaxDeaths, deaths' = deaths + 1 PROVE deaths' \in 0..MaxDeaths
    BY <1>1, SourcesAssumption DEF AcquisitionInv, AcquisitionTypeOK
  <1>2. ASSUME NEW f \in Fetcher, FetcherDies(f) PROVE AcquisitionInv'
    BY <1>1, <1>2, FetchEnds DEF FetcherDies
  <1>3. ASSUME NEW a \in Acquirer, AcquirerDies(a) PROVE AcquisitionInv'
    BY <1>1, <1>3, AcquireEnds DEF AcquirerDies
  <1> QED BY <1>2, <1>3

LEMMA InitInv == AcquisitionInit => AcquisitionInv
  <1> SUFFICES ASSUME AcquisitionInit PROVE AcquisitionInv
    OBVIOUS
  <1>1. AcquisitionTypeOK
    <2>1. validator \in Validators /\ policy \subseteq Requirements
      BY SourcesAssumption DEF AcquisitionInit, Validators, Requirements
    <2>2. version \in Plan /\ local \in 1..Len(LocalVersions)
      BY Sizes, VersionTypes, SourcesAssumption DEF AcquisitionInit, Plan
    <2>3. cache \in [Plan -> CacheFiles] /\ output \in [0..Len(Versions) -> OutputFiles]
      BY DEF AcquisitionInit, CacheFiles, OutputFiles
    <2>4. IdleFetch \in FetchCall /\ IdleAcquire \in AcquireCall
      BY Sizes, AcquisitionArtifacts DEF IdleFetch, IdleAcquire, FetchCall, AcquireCall, Absent,
         FetchRecord
    <2>5. fetch \in [Fetcher -> FetchCall] /\ acquire \in [Acquirer -> AcquireCall]
      BY <2>4 DEF AcquisitionInit
    <2>6. left = {} /\ deaths \in 0..MaxDeaths
      BY SourcesAssumption DEF AcquisitionInit
    <2> QED BY <2>1, <2>2, <2>3, <2>5, <2>6 DEF AcquisitionTypeOK
  <1>2. CacheSound /\ ChunksOfThePlan /\ OutputSound
    BY Sizes, AcquisitionArtifacts DEF AcquisitionInit, CacheSound, ChunksOfThePlan, OutputSound
  <1>3. \A f \in Fetcher : FetchKnows(f)
    BY DEF AcquisitionInit, FetchKnows, IdleFetch
  <1>4. \A a \in Acquirer : AcquireKnows(a)
    BY DEF AcquisitionInit, AcquireKnows, IdleAcquire
  <1> QED BY <1>1, <1>2, <1>3, <1>4 DEF AcquisitionInv

LEMMA NextInv == AcquisitionInv /\ [AcquisitionNext]_acquisitionVars => AcquisitionInv'
  <1> SUFFICES ASSUME AcquisitionInv, [AcquisitionNext]_acquisitionVars PROVE AcquisitionInv'
    OBVIOUS
  <1>1. ASSUME NEW f \in Fetcher, FetchSteps(f) PROVE AcquisitionInv'
    BY <1>1, FetchMoves, LinkInv DEF FetchSteps
  <1>2. ASSUME NEW a \in Acquirer, AcquireSteps(a) PROVE AcquisitionInv'
    BY <1>2, AcquireMoves, LinkFileInv DEF AcquireSteps
  <1>3. CASE UNCHANGED acquisitionVars
    <2>1. AcquisitionTypeOK'
      BY <1>3 DEF AcquisitionInv, AcquisitionTypeOK, acquisitionVars
    <2> QED BY <1>3, <2>1, NothingLinked DEF acquisitionVars
  <1> QED BY <1>1, <1>2, <1>3, SourcesInv, DeathsInv DEF AcquisitionNext

LEMMA Inductive == AcquisitionSpec => []AcquisitionInv
  BY InitInv, NextInv, PTL DEF AcquisitionSpec

-----------------------------------------------------------------------------
(* Theorems                                                                 *)

\* The prefixes, the sources and the commands keep what they are made of.
THEOREM AcquisitionTypeCorrect == AcquisitionSpec => []AcquisitionTypeOK
  <1>1. AcquisitionInv => AcquisitionTypeOK
    BY DEF AcquisitionInv
  <1> QED BY <1>1, Inductive, PTL

\* A record stands for the whole of what it records, whatever was interrupted,
\* overtaken or overwritten on the way.
THEOREM RecordsVouch == AcquisitionSpec => []RecordedWhole
  <1>1. ASSUME AcquisitionInv, NEW e \in Plan, cache[e][FetchRecord] # Absent, NEW i \in 1..FetchRecord
        PROVE  cache[e][i] = "signed"
    <2>1. i \in Chunk \cup {Receipt, FetchRecord}
      BY Sizes
    <2> QED BY <1>1, <2>1 DEF AcquisitionInv, CacheSound
  <1>2. ASSUME AcquisitionInv, NEW k \in 0..Len(Versions), output[k][Record] # Absent, NEW i \in Files(k)
        PROVE  output[k][i] = "signed"
    BY <1>2, AcquisitionArtifacts DEF AcquisitionInv, OutputSound
  <1>3. AcquisitionInv => RecordedWhole
    BY <1>1, <1>2 DEF AcquisitionInv, OutputSound, RecordedWhole
  <1> QED BY <1>3, Inductive, PTL

\* A fetch that sends its validator never mixes two versions of an object,
\* however often it is interrupted and the object overwritten.
THEOREM OneVersion == AcquisitionSpec => []ChunksOfThePlan
  <1>1. AcquisitionInv => ChunksOfThePlan
    BY DEF AcquisitionInv
  <1> QED BY <1>1, Inductive, PTL
================================================================================
