-------------------------- MODULE ExperimentPromotion --------------------------
(***************************************************************************)
(* How a finished trial becomes a promotion: ExperimentIndexBuilder and    *)
(* ExperimentAnalyzer select it, ExperimentPromoter previews, decides and  *)
(* writes the sidecars, ExperimentPromotionArchive packs the directory,    *)
(* all while ExperimentRunner's runners and commands go on.                *)
(*                                                                         *)
(* Each operator promotes the trial under the same promotion name, with an *)
(* identity of its own, so that no two operators' decisions are equal.  A  *)
(* report whose trial is complete or regressed stands for the records of   *)
(* its stages, which are immutable, and for the outcomes of its gates; so  *)
(* does an index whose reports have no issues, and so does a preview, with *)
(* the index it was made from.  Ranks among several trials, the kinds a    *)
(* policy requires, checkpoint payloads and dataset lineage are left out.  *)
(***************************************************************************)
EXTENDS ExperimentRunner, TLC

CONSTANTS
  AllowRegression,  \* policy: regressed trials may be promoted
  Recomputations,   \* times an execution recomputes the preview
  MaxPromoterCrashes

ASSUME PolicyAssumption ==
  AllowRegression \in BOOLEAN /\ Recomputations \in Nat \ {0} /\ MaxPromoterCrashes \in Nat

VARIABLES
  promoter,       \* what each operator's command does, and the files it has saved
  decision,       \* decision.json
  sidecars,       \* the files written after it
  archive,        \* the archive packed from the directory
  promoterCrashes

promoted == <<decision, sidecars, archive>>
allVars  == <<vars, promoter, promoted, promoterCrashes>>

Unseen     == [s \in Stage |-> "unread"]
Idle       == [at |-> "idle", index |-> Unseen, reviewed |-> FALSE, round |-> 0, stage |-> 1]
NoDecision == [by |-> "nobody", seen |-> Unseen, manifest |-> {}]

\* The command that previews or promotes: the index it has, whether its operator
\* has reviewed the preview, and which stage it has come to.
Preview == [at : {"idle", "index", "preview", "current", "decide", "sidecars", "report", "last"},
            index : [Stage -> Seen], reviewed : BOOLEAN, round : 0..Recomputations, stage : Stage]
Reference == [file : File, kind : DOMAIN Fits, content : Content]
PromotionRecord == [by : {ToString(p) : p \in Reader}, seen : [Stage -> Seen], manifest : SUBSET Reference]
Sidecars == [first : BOOLEAN, report : [Stage -> Seen], last : BOOLEAN]

PromotionTypeOK ==
  /\ promoter \in [Reader -> Preview]
  /\ decision \in PromotionRecord \cup {NoDecision}
  /\ sidecars \in Sidecars
  /\ archive \in [Stage -> Seen]
  /\ promoterCrashes \in 0..MaxPromoterCrashes

PromotionInit ==
  /\ Init
  /\ promoter = [p \in Reader |-> Idle]
  /\ decision = NoDecision
  /\ sidecars = [first |-> FALSE, report |-> Unseen, last |-> FALSE]
  /\ archive = Unseen
  /\ promoterCrashes = 0

Is(p, where)  == promoter[p].at = where
\* The report that p's command was making is there.
Has(p, where) == Is(p, where) /\ reading[p].at = "report"
seen(p)       == reading[p].seen

Go(p, new) == promoter' = [promoter EXCEPT ![p] = new]
\* p's command goes on by making a report, or comes to an end.
GoRead(p, new) ==
  /\ Go(p, new)
  /\ reading' = [reading EXCEPT ![p] = [IdleReading EXCEPT !.at = "inputs"]]
Stop(p, new) ==
  /\ Go(p, [new EXCEPT !.at = "idle", !.round = 0, !.stage = 1])
  /\ reading' = [reading EXCEPT ![p] = IdleReading]

\* The metrics of a stage are read from its reports, whose digests are still
\* those of the evidence.
Metrics(s)    == {f \in Writes[s] : Kind[s][f] \in Measured /\ record[s].outputs[f] # Missing}
Clean(p, s)   == seen(p)[s] \in Succeeded => \A f \in Metrics(s) : files[f] = record[s].outputs[f]

\* The states that the ranking and the policy admit.
EligibleStates   == IF AllowRegression THEN {"complete", "regression"} ELSE {"complete"}
Eligible(report) == TrialState(report) \in EligibleStates

\* analyze ranks the trials of an index whose state is admitted.
Ranked(report) == TrialState(report) \in EligibleStates

-----------------------------------------------------------------------------
(* The index and its analysis.                                               *)

StartIndex(p) ==
  /\ Is(p, "idle")
  /\ GoRead(p, [Idle EXCEPT !.at = "index"])
  /\ UNCHANGED <<files, stored, processes, promoted, promoterCrashes>>

\* An index takes the report and then the metrics of one stage after the other.
ReadMetrics(p) ==
  LET q == promoter[p]
  IN  /\ Has(p, "index") \/ Has(p, "current")
      /\ q.stage < Stages
      /\ \/ Clean(p, q.stage) /\ Go(p, [q EXCEPT !.stage = q.stage + 1]) /\ UNCHANGED reading
         \/ ~ Clean(p, q.stage) /\ Stop(p, q)
      /\ UNCHANGED <<files, stored, processes, promoted, promoterCrashes>>

\* The index is saved and analysed at once, for it does not change; one with
\* issues, or whose trial is not ranked, is of no use.
BuildIndex(p) ==
  /\ Has(p, "index") /\ promoter[p].stage = Stages
  /\ Stop(p, IF Clean(p, Stages) /\ Ranked(seen(p)) THEN [Idle EXCEPT !.index = seen(p)] ELSE Idle)
  /\ UNCHANGED <<files, stored, processes, promoted, promoterCrashes>>

-----------------------------------------------------------------------------
(* preview and promote.                                                      *)

\* A first command shows the preview, which the operator reviews and confirms;
\* the command that executes it makes the preview again, as promote does.
StartPreview(p) ==
  /\ Is(p, "idle") /\ promoter[p].index # Unseen
  /\ GoRead(p, [promoter[p] EXCEPT !.at = "preview", !.round = IF promoter[p].reviewed THEN 1 ELSE 0])
  /\ UNCHANGED <<files, stored, processes, promoted, promoterCrashes>>

Referred(s, evidence) ==
  {[file |-> f, kind |-> Kind[s][f], content |-> evidence[f]] : f \in {g \in DOMAIN evidence : evidence[g] # Missing}}
References(s) == Referred(s, record[s].inputs) \cup Referred(s, record[s].outputs)
Manifest      == UNION {References(s) : s \in Stage}

\* What references of the same file and kind say of it.
OneContent(refs) == \A a, b \in refs : a.file = b.file /\ a.kind = b.kind => a.content = b.content

\* Mutant: references to one artifact are not compared.
AnyMerged == TRUE

\* Evidence that two stages give of one artifact is the same; evidence of
\* different kinds is not compared.
Merged == OneContent(Manifest)

\* The artifacts that the evidence of one stage after the other is about are
\* read again and compared with it.
CollectArtifacts(p) ==
  LET q == promoter[p]
      current == seen(p) = q.index /\ \A a \in References(q.stage) : files[a.file] = a.content
  IN  /\ Has(p, "preview")
      /\ \/ current /\ q.stage < Stages
              /\ Go(p, [q EXCEPT !.stage = q.stage + 1]) /\ UNCHANGED reading
         \/ current /\ q.stage = Stages /\ Merged
              /\ GoRead(p, [q EXCEPT !.at = "current", !.stage = 1])
         \/ ~ (current /\ (q.stage = Stages => Merged)) /\ Stop(p, q)
      /\ UNCHANGED <<files, stored, processes, promoted, promoterCrashes>>

CheckCurrentIndex(p) ==
  LET q == promoter[p]
      current == Clean(p, Stages) /\ seen(p) = q.index /\ Eligible(seen(p))
  IN  /\ Has(p, "current") /\ q.stage = Stages
      /\ \/ current /\ ~ q.reviewed /\ Stop(p, [q EXCEPT !.reviewed = TRUE])
         \/ current /\ q.reviewed /\ q.round < Recomputations
              /\ GoRead(p, [q EXCEPT !.at = "preview", !.round = q.round + 1, !.stage = 1])
         \/ current /\ q.reviewed /\ q.round = Recomputations
              /\ Go(p, [q EXCEPT !.at = "decide"]) /\ UNCHANGED reading
         \/ ~ current /\ Stop(p, q)
      /\ UNCHANGED <<files, stored, processes, promoted, promoterCrashes>>

\* decision.json is created once; the same decision made again is accepted.
PutDecision(p) ==
  LET mine == [by |-> ToString(p), seen |-> promoter[p].index, manifest |-> Manifest]
  IN  /\ Is(p, "decide")
      /\ decision' = IF decision = NoDecision THEN mine ELSE decision
      /\ IF decision' = mine
           THEN GoRead(p, [promoter[p] EXCEPT !.at = "sidecars"]) ELSE Stop(p, promoter[p])
      /\ UNCHANGED <<files, stored, processes, sidecars, archive, promoterCrashes>>

\* record, manifest, model card and plan, which the decision determines.
PutFirstSidecars(p) ==
  /\ Has(p, "sidecars")
  /\ sidecars' = [sidecars EXCEPT !.first = TRUE]
  /\ Go(p, [promoter[p] EXCEPT !.at = "report"])
  /\ UNCHANGED <<files, stored, processes, reading, decision, archive, promoterCrashes>>

\* The report is the one that was made after the decision.
PutReport(p) ==
  /\ Has(p, "report")
  /\ sidecars' = IF sidecars.report = Unseen THEN [sidecars EXCEPT !.report = seen(p)] ELSE sidecars
  /\ IF sidecars'.report = seen(p)
       THEN Go(p, [promoter[p] EXCEPT !.at = "last"]) /\ UNCHANGED reading ELSE Stop(p, promoter[p])
  /\ UNCHANGED <<files, stored, processes, decision, archive, promoterCrashes>>

\* index and analysis.
PutLastSidecars(p) ==
  /\ Is(p, "last")
  /\ sidecars' = [sidecars EXCEPT !.last = TRUE]
  /\ Stop(p, promoter[p])
  /\ UNCHANGED <<files, stored, processes, decision, archive, promoterCrashes>>

PromoterDies(p) ==
  /\ ~ Is(p, "idle") /\ promoterCrashes < MaxPromoterCrashes
  /\ promoterCrashes' = promoterCrashes + 1
  /\ Stop(p, promoter[p])
  /\ UNCHANGED <<files, stored, processes, promoted>>

-----------------------------------------------------------------------------
(* pack.                                                                     *)

\* All members are there and the identities in them are those of the decision.
PayloadsValid == sidecars.first /\ sidecars.last /\ sidecars.report = decision.seen

Pack ==
  /\ archive = Unseen /\ PayloadsValid
  /\ archive' = sidecars.report
  /\ UNCHANGED <<vars, promoter, decision, sidecars, promoterCrashes>>

PromotionNext ==
  \/ RunSteps /\ UNCHANGED <<promoter, promoted, promoterCrashes>>
  \/ Pack
  \/ \E p \in Reader :
       \/ ReadSteps(p) /\ UNCHANGED <<promoter, promoted, promoterCrashes>>
       \/ StartIndex(p) \/ ReadMetrics(p) \/ BuildIndex(p) \/ StartPreview(p) \/ CollectArtifacts(p)
       \/ CheckCurrentIndex(p) \/ PutDecision(p) \/ PutFirstSidecars(p) \/ PutReport(p) \/ PutLastSidecars(p) \/ PromoterDies(p)

PromotionSpec == PromotionInit /\ [][PromotionNext]_allVars

-----------------------------------------------------------------------------
(* Properties.                                                               *)

\* A decision is about one consistent set of artifacts: every stage of the
\* promoted trial has a record, the manifest holds the evidence of each, and
\* what one stage has read of an artifact is what another has recorded of it
\* under the same kind, though commands that outlived their runners may have
\* rewritten files between any two readings.
PromotedCoherent ==
  decision # NoDecision =>
    /\ Eligible(decision.seen)
    /\ \A s \in Stage : record[s] # NoRecord /\ References(s) \subseteq decision.manifest
    /\ OneContent(decision.manifest)

\* Not so: one file, whatever the kinds that stages read it as, has one content.
FilesOfOneContent == \A a, b \in decision.manifest : a.file = b.file => a.content = b.content

\* docs/experiments.md: decision.json is authoritative, the other files are
\* deterministic sidecars.
SidecarsDeterministic == sidecars.report \in {Unseen, decision.seen}
=============================================================================
