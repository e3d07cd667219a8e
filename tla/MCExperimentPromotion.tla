-------------------------- MODULE MCExperimentPromotion --------------------------
(***************************************************************************)
(* Two stages, of which the second reads what the first writes, if it is   *)
(* there, under the kind it was written as or under another.               *)
(***************************************************************************)
EXTENDS ExperimentPromotion

MCDependsOn == <<{}, {1}>>
MCReads     == <<{}, {"train"}>>
MCWrites    == <<{"train"}, {"eval"}>>
MCRequired  == <<{"train"}, {"eval"}>>
Kinds(k)    == <<[train |-> "checkpoint"], [train |-> k, eval |-> "benchmark"]>>
SameKinds   == Kinds("checkpoint")
OtherKinds  == Kinds("dataset")
MCFits      == [k \in {"checkpoint", "dataset", "benchmark"} |-> Content]
MCMeasured  == {"benchmark"}
=============================================================================
