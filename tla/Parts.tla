--------------------------------- MODULE Parts ---------------------------------
(***************************************************************************)
(* Four small machines that share nothing: the shards of a run, a task of  *)
(* AgentLoop, a search of AgentSearch, the runs of StudioRuns.  A          *)
(* behaviour is of one part and leaves the others in their initial states. *)
(* PartsNext lists the actions of each part, so that TLC tells for every   *)
(* one of them whether it happens.                                         *)
(***************************************************************************)
EXTENDS TrajectoryShards, Integers

CONSTANTS
  Run,
  LoopKind, MaxSteps, RepeatLimit,
  SearchKind, BranchFactor, MaxDepth, DomainDepth, Score, PruneBelow, MinSimulations, MaxSimulations

VARIABLES
  part,
  stage, conversation, before, doing, steps, status, error, trajectory,
  tree, session, at, here, candidates, made, budget, done,
  record, process, request, task, claim, slot, pending, read

Loop   == INSTANCE AgentLoop WITH at <- stage, session <- conversation, Kind <- LoopKind
Search == INSTANCE AgentSearch WITH Kind <- SearchKind
Studio == INSTANCE StudioRuns

ASSUME PartsAssumption ==
  Loop!LoopAssumption /\ Search!SearchAssumption /\ Studio!StudioRunsAssumption

PartsInit ==
  /\ part \in {"loop", "search", "studio", "shards"}
  /\ Loop!Init /\ Search!Init /\ Studio!Init /\ Init

ofLoop   == <<stage, conversation, before, doing, steps, status, error, trajectory>>
ofSearch == <<tree, session, at, here, candidates, made, budget, done>>
ofStudio == <<record, process, request, task, claim, slot, pending, read>>

InLoop   == part = "loop" /\ UNCHANGED <<part, ofSearch, ofStudio, vars>>
InSearch == part = "search" /\ UNCHANGED <<part, ofLoop, ofStudio, vars>>
InStudio == part = "studio" /\ UNCHANGED <<part, ofLoop, ofSearch, vars>>
InShards == part = "shards" /\ UNCHANGED <<part, ofLoop, ofSearch, ofStudio>>

PartsNext ==
  \/ InLoop /\ Loop!CreateSession
  \/ InLoop /\ Loop!TakeBefore
  \/ InLoop /\ Loop!Generate
  \/ InLoop /\ Loop!Execute
  \/ InLoop /\ Loop!EndStep
  \/ InLoop /\ Loop!StepRaises
  \/ InLoop /\ Loop!LateEffect
  \/ InLoop /\ Loop!ScoreFinal
  \/ InLoop /\ Loop!CloseSession
  \/ InLoop /\ Loop!Cancel
  \/ InSearch /\ Search!SelectChild
  \/ InSearch /\ Search!RevisitLeaf
  \/ InSearch /\ Search!Propose
  \/ InSearch /\ Search!BeginTransition
  \/ InSearch /\ \E d \in Search!Action, ok \in BOOLEAN : Search!Try(d, ok)
  \/ InSearch /\ \E d \in Search!Action : Search!LateEffect(d)
  \/ InSearch /\ Search!EndTransition
  \/ InSearch /\ Search!Expand
  \/ InSearch /\ Search!Finish
  \/ InSearch /\ Search!Fail
  \/ InStudio /\ Studio!Start
  \/ InStudio /\ Studio!Die
  \/ InStudio /\ Studio!Close
  \/ InStudio /\ Studio!Open
  \/ InStudio /\ Studio!Gathered
  \/ InStudio /\ Studio!Swept
  \/ \E r \in Run :
       \/ InStudio /\ Studio!Recover(r)
       \/ InStudio /\ Studio!Create(r)
       \/ InStudio /\ Studio!FailReads(r)
       \/ InStudio /\ Studio!FailWrites(r)
       \/ InStudio /\ Studio!FailIsUnsaved(r)
       \/ InStudio /\ Studio!Enqueue(r)
       \/ InStudio /\ Studio!TakeSlot(r)
       \/ InStudio /\ Studio!ClaimQueued(r)
       \/ InStudio /\ Studio!Claimed(r)
       \/ InStudio /\ Studio!Finish(r)
       \/ InStudio /\ Studio!Stopping(r)
       \/ InStudio /\ Studio!Cancelled(r)
  \/ \E w \in Writer :
       \/ InShards /\ PutLook(w)
       \/ InShards /\ LinkPayload(w)
       \/ InShards /\ WriterDies(w)
  \/ \E r \in Reader :
       \/ InShards /\ BeginFinalize(r)
       \/ InShards /\ ListTrajectories(r)
       \/ InShards /\ ShardRefs(r)
       \/ InShards /\ LinkManifest(r)
       \/ InShards /\ BeginVerify(r)
       \/ InShards /\ CheckShards(r)
       \/ InShards /\ Report(r)
       \/ InShards /\ Return(r)
       \/ InShards /\ Export(r)
       \/ InShards /\ ReaderDies(r)

PartsVars == <<part, ofLoop, ofSearch, ofStudio, vars>>
PartsSpec == PartsInit /\ [][PartsNext]_PartsVars /\ Studio!Fairness

\* AgentLoop: what a returned trajectory says of its end is so.
TrajectoriesTruthful == Loop!TrajectoriesTruthful

\* AgentLoop: the snapshots of a trajectory tell what its calls did.
EffectsAccounted == Loop!EffectsAccounted

\* AgentSearch: every branch starts from its parent's state.
BranchesIsolated == Search!BranchesIsolated

\* AgentSearch: the visits of a node's children are those of the node.
VisitsAddUp == Search!VisitsAddUp

\* AgentSearch: rewards and leaf values reach every node above them.
ValuesAddUp == Search!ValuesAddUp

\* StudioRuns: an active run has someone who will end it.
ActiveOwned == Studio!ActiveOwned

\* StudioRuns: a run that has ended stays as it is.
TerminalForGood == Studio!TerminalForGood

\* StudioRuns: a run that was accepted ends, unless the process does.
RunsEnd == Studio!RunsEnd
=============================================================================
