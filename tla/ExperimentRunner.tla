--------------------------- MODULE ExperimentRunner ---------------------------
(***************************************************************************)
(* ExperimentRunner: the stages of one trial of a plan, executed by        *)
(* processes that share a project root and a state directory, and the      *)
(* reports that are regenerated from the records and the files.            *)
(*                                                                         *)
(* A stage runs a command, which may write its output files at any time    *)
(* while it runs and goes on running when its runner is killed.  The       *)
(* record of a success names the contents of the stage's files; it is      *)
(* created once and never replaced.  Trials of one plan have output files  *)
(* and state of their own, so that one stands for each of them.  Evidence  *)
(* of several input files is collected in one step, and so is that of      *)
(* several outputs.                                                        *)
(***************************************************************************)
EXTENDS Integers, FiniteSets

CONSTANTS
  Runner, Reader,           \* processes
  Stages,                   \* number of stages, in the order of the trial
  DependsOn, Reads, Writes, \* stage to stages, to its input and output files
  Kind, Required,           \* stage to the kind of each of its files, to those it cannot do without
  Gated,                    \* stages with a metric gate on their reports
  Content, Fits, Good,      \* contents of a file; those of each kind; those that pass the gates
  Measured,                 \* the kinds that hold metrics: benchmark and comparison reports
  MaxCrashes                \* bound on the deaths of runners

Stage == 1..Stages
Artifacts(s) == Reads[s] \cup Writes[s]
File  == UNION {Artifacts(s) : s \in Stage}

ASSUME PlanAssumption ==
  /\ Stages \in Nat \ {0} /\ MaxCrashes \in Nat /\ Good \subseteq Content
  /\ \A s \in Stage : DependsOn[s] \subseteq 1..(s - 1)
  /\ \A s \in Stage : Writes[s] # {} /\ \A t \in Stage : s # t => Writes[s] \cap Writes[t] = {}
  /\ \A s \in Stage : Kind[s] \in [Artifacts(s) -> DOMAIN Fits]
  /\ Gated \subseteq Stage /\ \A k \in DOMAIN Fits : Fits[k] \subseteq Content

VARIABLES
  files,     \* the content of each file
  record,    \* the record of each stage
  attempted, \* stages with the record of a failed attempt
  run,       \* what each runner does
  orphans,   \* stages whose command outlived its runner
  reading,   \* the report each reader is making
  crashes

stored    == <<record, attempted>>
processes == <<run, orphans, crashes>>
vars      == <<files, record, attempted, run, orphans, reading, crashes>>

\* A file that is not there, which gives no evidence.
Missing == "missing"
NoRecord == [inputs |-> <<>>, outputs |-> <<>>]

\* What _collect_evidence says of a set of files of s, and whether it can: those
\* that are there must be of their kind, the required ones must be there.
Evidence(S)  == [f \in S |-> files[f]]
Whole(s, S)  == \A f \in S : IF files[f] = Missing THEN f \notin Required[s] ELSE files[f] \in Fits[Kind[s][f]]

IdleRun    == [at |-> "idle", stage |-> 1, done |-> {}, saw |-> NoRecord, inputs |-> <<>>, outputs |-> <<>>]
Seen       == {"unread", "pending", "blocked", "failed", "invalid", "passed", "regressed"}
Succeeded  == {"passed", "regressed"}
IdleReading == [at |-> "idle", stage |-> 1, seen |-> [s \in Stage |-> "unread"]]

\* The record of a stage, the failed attempts and a report in the making.
Given      == Content \cup {Missing}
Records(s) == [inputs : [Reads[s] -> Given], outputs : [Writes[s] -> Given]]
Attempts   == SUBSET Stage
Reading    == [at : {"idle", "inputs", "outputs", "gates", "report"}, stage : Stage, seen : [Stage -> Seen]]

TypeOK ==
  /\ files \in [File -> Given]
  /\ \A s \in Stage : record[s] = NoRecord \/ record[s] \in Records(s)
  /\ attempted \in Attempts /\ orphans \subseteq Stage
  /\ \A r \in Runner :
       /\ run[r].at \in {"idle", "look", "inputs", "reuse", "command", "collect", "publish"}
       /\ run[r].stage \in 1..(Stages + 1) /\ run[r].done \subseteq Stage
  /\ reading \in [Reader -> Reading]
  /\ crashes \in 0..MaxCrashes

\* Input files that no stage writes are there from the start.
Init ==
  /\ files \in [File -> Given]
  /\ \A f \in File : (\E s \in Stage : f \in Writes[s]) <=> files[f] = Missing
  /\ record = [s \in Stage |-> NoRecord] /\ attempted = {} /\ orphans = {}
  /\ run = [r \in Runner |-> IdleRun]
  /\ reading = [x \in Reader |-> IdleReading]
  /\ crashes = 0

At(r, where) == run[r].at = where

-----------------------------------------------------------------------------
(* run.                                                                      *)

\* The stage from which the trial goes on: those whose dependencies have not
\* succeeded are passed over.
NextStage(s, done) ==
  CHOOSE t \in s..(Stages + 1) :
    /\ t = Stages + 1 \/ DependsOn[t] \subseteq done
    /\ \A u \in s..(t - 1) : ~ DependsOn[u] \subseteq done

Leave(r, done) ==
  LET next == NextStage(run[r].stage + 1, done)
  IN  run' = [run EXCEPT ![r] =
                IF next > Stages THEN IdleRun ELSE [IdleRun EXCEPT !.at = "look", !.stage = next, !.done = done]]

\* The plan and the resolved configuration are stored, or found to be there.
BeginTrial(r) ==
  /\ At(r, "idle")
  /\ run' = [run EXCEPT ![r] = [IdleRun EXCEPT !.at = "look"]]
  /\ UNCHANGED <<files, stored, orphans, reading, crashes>>

\* Mutant: a record does not keep the stage from being executed.
LoadNoRecord(r) ==
  /\ At(r, "look")
  /\ run' = [run EXCEPT ![r].at = "inputs"]
  /\ UNCHANGED <<files, stored, orphans, reading, crashes>>

LoadRecord(r) ==
  /\ At(r, "look")
  /\ run' = [run EXCEPT ![r].at = "inputs", ![r].saw = record[run[r].stage]]
  /\ UNCHANGED <<files, stored, orphans, reading, crashes>>

\* Inputs that give no evidence are recorded as a failed attempt, also of a stage that has
\* succeeded.  A stage without a record starts its command.
CollectInputs(r) ==
  LET s == run[r].stage
      inputs == Evidence(Reads[s])
  IN  /\ At(r, "inputs")
      /\ \/ /\ ~ Whole(s, Reads[s])
            /\ attempted' = attempted \cup {s}
            /\ Leave(r, run[r].done)
         \/ /\ Whole(s, Reads[s]) /\ run[r].saw = NoRecord
            /\ run' = [run EXCEPT ![r].at = "command", ![r].inputs = inputs]
            /\ UNCHANGED attempted
         \/ /\ Whole(s, Reads[s]) /\ run[r].saw # NoRecord
            /\ IF run[r].saw.inputs = inputs
                 THEN run' = [run EXCEPT ![r].at = "reuse"] ELSE Leave(r, run[r].done)
            /\ UNCHANGED attempted
      /\ UNCHANGED <<files, record, orphans, reading, crashes>>

\* A recorded stage counts as succeeded while its outputs are the recorded ones.
Reuse(r) ==
  LET s == run[r].stage
      valid == Whole(s, Writes[s]) /\ Evidence(Writes[s]) = run[r].saw.outputs
  IN  /\ At(r, "reuse")
      /\ Leave(r, IF valid THEN run[r].done \cup {s} ELSE run[r].done)
      /\ UNCHANGED <<files, stored, orphans, reading, crashes>>

Running(s) == s \in orphans \/ \E r \in Runner : At(r, "command") /\ run[r].stage = s

\* The command of a stage writes one of its files, or removes it.
CommandWrites(s, f, c) ==
  /\ Running(s) /\ f \in Writes[s]
  /\ files' = [files EXCEPT ![f] = c]
  /\ UNCHANGED <<stored, processes, reading>>

CommandSucceeds(r) ==
  /\ At(r, "command")
  /\ run' = [run EXCEPT ![r].at = "collect"]
  /\ UNCHANGED <<files, stored, orphans, reading, crashes>>

\* The command, its start or its log fails: the attempt is recorded.
CommandFails(r) ==
  /\ At(r, "command")
  /\ attempted' = attempted \cup {run[r].stage}
  /\ Leave(r, run[r].done)
  /\ UNCHANGED <<files, record, orphans, reading, crashes>>

CollectOutputs(r) ==
  LET s == run[r].stage
  IN  /\ At(r, "collect")
      /\ \/ /\ Whole(s, Writes[s])
            /\ run' = [run EXCEPT ![r].at = "publish", ![r].outputs = Evidence(Writes[s])]
            /\ UNCHANGED attempted
         \/ /\ ~ Whole(s, Writes[s])
            /\ attempted' = attempted \cup {s}
            /\ Leave(r, run[r].done)
      /\ UNCHANGED <<files, record, orphans, reading, crashes>>

\* A rival's record of the same inputs and outputs counts as this runner's.
PutRecord(r) ==
  LET s == run[r].stage
      mine == [inputs |-> run[r].inputs, outputs |-> run[r].outputs]
  IN  /\ At(r, "publish")
      /\ record' = IF record[s] = NoRecord THEN [record EXCEPT ![s] = mine] ELSE record
      /\ Leave(r, IF record'[s] = mine THEN run[r].done \cup {s} ELSE run[r].done)
      /\ UNCHANGED <<files, attempted, orphans, reading, crashes>>

\* A killed runner leaves the command it started behind.
Crash(r) ==
  /\ ~ At(r, "idle") /\ crashes < MaxCrashes
  /\ crashes' = crashes + 1
  /\ orphans' = IF At(r, "command") THEN orphans \cup {run[r].stage} ELSE orphans
  /\ run' = [run EXCEPT ![r] = IdleRun]
  /\ UNCHANGED <<files, stored, reading>>

OrphanEnds(s) ==
  /\ s \in orphans /\ orphans' = orphans \ {s}
  /\ UNCHANGED <<files, stored, run, reading, crashes>>

-----------------------------------------------------------------------------
(* report.                                                                   *)

\* Stages are looked at in the order of the trial.
Summarise(x, what) ==
  LET s    == reading[x].stage
      said == [reading[x].seen EXCEPT ![s] = what]
  IN  reading' = [reading EXCEPT ![x] =
                    IF s = Stages THEN [at |-> "report", stage |-> 1, seen |-> said]
                    ELSE [at |-> "inputs", stage |-> s + 1, seen |-> said]]

BeginReport(x) ==
  /\ reading[x].at = "idle"
  /\ reading' = [reading EXCEPT ![x] = [IdleReading EXCEPT !.at = "inputs"]]
  /\ UNCHANGED <<files, stored, processes>>

Blocked(x) == \E d \in DependsOn[reading[x].stage] : reading[x].seen[d] \notin Succeeded

\* A stage with an unfinished dependency is not looked at.
PassOver(x) ==
  /\ reading[x].at = "inputs" /\ Blocked(x)
  /\ Summarise(x, "blocked")
  /\ UNCHANGED <<files, stored, processes>>

\* The record, or the attempts where there is none; and the inputs' evidence,
\* which is the recorded one only where it can be collected.
ReadInputs(x) ==
  LET s == reading[x].stage
  IN  /\ reading[x].at = "inputs" /\ ~ Blocked(x)
      /\ \/ /\ record[s] = NoRecord
            /\ Summarise(x, IF s \in attempted THEN "failed" ELSE "pending")
         \/ /\ record[s] # NoRecord /\ Evidence(Reads[s]) # record[s].inputs
            /\ Summarise(x, "invalid")
         \/ /\ record[s] # NoRecord /\ Evidence(Reads[s]) = record[s].inputs
            /\ reading' = [reading EXCEPT ![x].at = "outputs"]
      /\ UNCHANGED <<files, stored, processes>>

ReadOutputs(x) ==
  LET s == reading[x].stage
  IN  /\ reading[x].at = "outputs"
      /\ IF Evidence(Writes[s]) = record[s].outputs
           THEN reading' = [reading EXCEPT ![x].at = "gates"] ELSE Summarise(x, "invalid")
      /\ UNCHANGED <<files, stored, processes>>

\* Gates read the reports of the stage again, whose digests they do not compare.
EvaluateGates(x) ==
  LET s == reading[x].stage
      reports == {f \in Writes[s] : Kind[s][f] \in Measured}
      passed  == s \in Gated => \A f \in reports : files[f] \in Good
  IN  /\ reading[x].at = "gates"
      /\ Summarise(x, IF passed THEN "passed" ELSE "regressed")
      /\ UNCHANGED <<files, stored, processes>>

TrialState(seen) ==
  IF \E s \in Stage : seen[s] \in {"failed", "invalid"} THEN "failed"
  ELSE IF \E s \in Stage : seen[s] \notin Succeeded THEN "incomplete"
  ELSE IF \E s \in Stage : seen[s] = "regressed" THEN "regression" ELSE "complete"

Report(x) ==
  /\ reading[x].at = "report"
  /\ reading' = [reading EXCEPT ![x] = IdleReading]
  /\ UNCHANGED <<files, stored, processes>>

RunSteps ==
  \/ \E r \in Runner :
       \/ BeginTrial(r) \/ LoadRecord(r) \/ CollectInputs(r) \/ Reuse(r) \/ CommandSucceeds(r)
       \/ CommandFails(r) \/ CollectOutputs(r) \/ PutRecord(r) \/ Crash(r)
  \/ \E s \in Stage : \/ OrphanEnds(s)
                      \/ \E f \in Writes[s], c \in Given : CommandWrites(s, f, c)

ReadSteps(x) == PassOver(x) \/ ReadInputs(x) \/ ReadOutputs(x) \/ EvaluateGates(x)

Next == RunSteps \/ \E x \in Reader : BeginReport(x) \/ ReadSteps(x) \/ Report(x)

Spec == Init /\ [][Next]_vars

-----------------------------------------------------------------------------
(* Properties.                                                               *)

\* A command may still run for s, or a runner be about to start one.
Unsettled(s) ==
  \/ Running(s)
  \/ \E r \in Runner : At(r, "inputs") /\ run[r].stage = s /\ run[r].saw = NoRecord

Valid(s) ==
  record[s] # NoRecord /\ Evidence(Reads[s]) = record[s].inputs /\ Evidence(Writes[s]) = record[s].outputs

\* Once every stage has a record that its files match, and no command of the
\* trial is left from before, it stays so through repetitions, failures and
\* deaths of runners (docs/experiments.md: evidence is revalidated and reused,
\* never silently regenerated).
Settled == \A s \in Stage : Valid(s) /\ ~ Unsettled(s)
SettledStays == [][Settled => Settled']_vars
=============================================================================
