----------------------------- MODULE ReleaseProofs -----------------------------
(***************************************************************************)
(* Theorems about releases: about ReleaseMirror, for any executors,        *)
(* resolvers, releases and times, and about ReleaseTransport, for any      *)
(* number of publishers, collectors, layouts and objects.                  *)
(*                                                                         *)
(* A mirrored batch is one decision (the refinement of DecideOnce), and    *)
(* the decision tells the truth about the stores.  All evidence is created *)
(* once and never changed.  So what a caller has read of it still holds    *)
(* however late the caller acts on it (Sound), a batch record is one and   *)
(* the same whoever builds it, and only growth (Grows) matters of what the *)
(* others do meanwhile.                                                    *)
(*                                                                         *)
(* The invariant TransportInv has two halves besides the types.            *)
(* Publishing says that what a publisher has read back stays until a       *)
(* tombstone wins.  Collecting says that who deletes does it under the     *)
(* tombstone of its own preview, and that an object that left the targets  *)
(* has moved past the version that preview names.                          *)
(* The decision key of a release is a DecideOnce too: a publisher is       *)
(* answered only once a commit stands (Standing), a collector only under   *)
(* its own tombstone (Owned).                                              *)
(***************************************************************************)
EXTENDS ReleaseMirror, ReleaseTransport, FiniteSetTheorems, TLAPS

-----------------------------------------------------------------------------
(* A batch of releases at its destination.                                  *)

ExecutorPC == {"idle", "intent", "decision", "sidecar", "members", "finish", "publish",
               "ensure", "returned"}
ResolverPC == {"idle", "look", "confirmed", "decision", "sidecar", "again", "final",
               "publish", "ensure", "ledger", "torn", "returned"}

\* Nothing but the copies changes the stores, and the stores can be read.
Calm == drifted = {} /\ ~outage

\* What a decision, or a copy of it somewhere, says of the batch.
Sound(e) ==
  e # None =>
    /\ plan # None /\ intent # None
    /\ e.kind = "completed" => e = BatchRecord /\ \A m \in Member : record[m] # None
    /\ e.kind = "resolved" =>
         /\ DOMAIN e.status = Member
         /\ Calm => \A m \in Member : e.status[m] = <<"pending">>

\* A batch begins with a plan; the commit of a release is copied after its parts,
\* and recorded after both.
Copied ==
  /\ intent # None => plan # None
  /\ \A m \in Release : record[m] # None => present[m] = Object
  /\ \A m \in Member : /\ plan[m] \subseteq present[m]
                       /\ Commit \in present[m] \ plan[m] => Part \subseteq present[m]

ExecutorKnows(x) ==
  /\ pc[x] \in ExecutorPC
  /\ pc[x] # "idle" => plan # None
  /\ pc[x] \in {"intent", "decision", "sidecar", "members"} => at[x] # None
  /\ pc[x] \notin {"idle", "intent"} => intent # None
  /\ \A m \in Release :
       /\ thread[x][m] = "done" => record[m] # None
       /\ thread[x][m] \in {"commit", "record"} => Part \subseteq present[m]
  /\ pc[x] = "finish" => \A m \in Member : record[m] # None
  /\ pc[x] \in {"publish", "ensure", "returned"} =>
       found[x] # None /\ found[x].kind = "completed"

\* A status finds a release invalid while its commit is being copied, but only
\* once: whoever reads the release again finds its parts.
TornOnce(s) == Calm => \A m \in DOMAIN s : s[m] = <<"invalid">> => Part \subseteq present[m]

\* What a resolver finds in the passes after its inspection.
FindsParts(r) ==
  Calm => \A m \in DOMAIN confirmed[r] : confirmed[r][m] = <<"invalid">> =>
            /\ m \in heads[r] => Part \subseteq heads[r]
            /\ m \in DOMAIN seen[r] => seen[r][m] # <<"invalid">>

OneAtATime(r) ==
  heads[r] # {} => \E m \in Member \ DOMAIN seen[r] : m \in heads[r] /\ heads[r] \ {m} \subseteq Part

ResolverKnows(r) ==
  /\ pc[r] \in ResolverPC
  /\ pc[r] # "idle" => plan # None /\ intent # None
  /\ pc[r] \in {"confirmed", "decision", "sidecar", "again", "final"} => confirmed[r] # None
  /\ confirmed[r] # None =>
       /\ plan # None /\ intent # None
       /\ DOMAIN confirmed[r] = Member /\ TornOnce(confirmed[r])
  /\ pc[r] \notin Pass => seen[r] = <<>>
  /\ pc[r] \notin Pass \cup {"ledger"} => heads[r] = {}
  /\ pc[r] \in Pass => DOMAIN seen[r] \subseteq Member /\ OneAtATime(r) /\ TornOnce(seen[r])
  /\ pc[r] \in {"again", "final"} => FindsParts(r)
  /\ pc[r] \in {"publish", "ensure", "returned"} => found[r] # None

Inv ==
  /\ TypeOK
  /\ Sound(decision) /\ Sound(sidecar) /\ \A c \in Caller : Sound(found[c])
  /\ Copied
  /\ \A c \in Caller : pc[c] \in {"ensure", "returned"} => decision = found[c]
  /\ \A x \in Executor : ExecutorKnows(x)
  /\ \A r \in Resolver : ResolverKnows(r)

-----------------------------------------------------------------------------
(* What grows, and what therefore stands                                     *)

Grows ==
  /\ plan' = plan
  /\ intent # None => intent' = intent
  /\ \A m \in Release : /\ record[m] # None => record'[m] = record[m]
                        /\ present[m] \subseteq present'[m]
  /\ drifted \subseteq drifted' /\ (outage => outage')

LEMMA MembersAreReleases ==
  ASSUME TypeOK
  PROVE  Member \subseteq Release /\ (plan # None => plan \in [Member -> MemberPlan])
  BY DEF TypeOK, Plan, Member

LEMMA RecordStands ==
  ASSUME TypeOK, Grows, intent # None, \A m \in Member : record[m] # None
  PROVE  BatchRecord' = BatchRecord
  <1>1. Member' = Member /\ intent' = intent /\ \A m \in Member : record'[m] = record[m]
    BY MembersAreReleases DEF Grows, Member
  <1>2. [m \in Member |-> record[m]]' = [m \in Member |-> record[m]]
    BY <1>1
  <1>3. ({intent} \cup {record[m] : m \in Member})' = {intent} \cup {record[m] : m \in Member}
    BY <1>1
  <1> QED BY <1>2, <1>3 DEF BatchRecord

LEMMA SoundStands ==
  ASSUME TypeOK, Grows, NEW e, Sound(e)
  PROVE  Sound(e)'
  <1>1. Member' = Member
    BY DEF Grows, Member
  <1>2. Calm' => Calm
    BY DEF Grows, Calm
  <1>3. \A m \in Member : record[m] # None => record'[m] # None
    BY MembersAreReleases DEF Grows
  <1> QED BY <1>1, <1>2, <1>3, RecordStands DEF Sound, Grows

LEMMA TornOnceStands ==
  ASSUME TypeOK, Grows, NEW s, DOMAIN s \subseteq Release, TornOnce(s)
  PROVE  TornOnce(s)'
  <1>1. Calm' => Calm
    BY DEF Grows, Calm
  <1> QED BY <1>1 DEF TornOnce, Grows

LEMMA ExecutorStands ==
  ASSUME TypeOK, Grows, NEW x \in Executor, ExecutorKnows(x),
         pc'[x] = pc[x], at'[x] = at[x], thread'[x] = thread[x], found'[x] = found[x]
  PROVE  ExecutorKnows(x)'
  <1>1. Member' = Member /\ Member \subseteq Release
    BY MembersAreReleases DEF Grows, Member
  <1>2. \A m \in Release : record[m] # None => record'[m] # None
    BY DEF Grows
  <1>3. plan' = plan /\ (intent # None => intent' # None)
        /\ \A m \in Release : Part \subseteq present[m] => Part \subseteq present'[m]
    BY DEF Grows
  <1> QED BY <1>1, <1>2, <1>3 DEF ExecutorKnows

LEMMA ResolverStands ==
  ASSUME TypeOK, Grows, NEW r \in Resolver, ResolverKnows(r),
         pc'[r] = pc[r], found'[r] = found[r],
         seen'[r] = seen[r], heads'[r] = heads[r], confirmed'[r] = confirmed[r]
  PROVE  ResolverKnows(r)'
  <1>1. Member' = Member /\ Member \subseteq Release
    BY MembersAreReleases DEF Grows, Member
  <1>2. plan' = plan /\ (intent # None => intent' # None) /\ (Calm' => Calm)
    BY DEF Grows, Calm
  <1>3. confirmed[r] # None => TornOnce(confirmed[r])'
    BY <1>1, TornOnceStands DEF ResolverKnows
  <1>4. pc[r] \in Pass => TornOnce(seen[r])'
    BY <1>1, TornOnceStands DEF ResolverKnows
  <1>5. pc[r] \in Pass => OneAtATime(r)'
    BY <1>1 DEF ResolverKnows, OneAtATime
  <1>6. pc[r] \in {"again", "final"} => FindsParts(r)'
    BY <1>2 DEF ResolverKnows, FindsParts
  <1> QED BY <1>1, <1>2, <1>3, <1>4, <1>5, <1>6 DEF ResolverKnows, Pass

OthersStay(c) ==
  /\ \A d \in Caller \ {c} : pc'[d] = pc[d] /\ found'[d] = found[d]
  /\ \A x \in Executor \ {c} : at'[x] = at[x] /\ thread'[x] = thread[x]
  /\ \A r \in Resolver \ {c} :
       seen'[r] = seen[r] /\ heads'[r] = heads[r] /\ confirmed'[r] = confirmed[r]

LEMMA Stepped ==
  ASSUME Inv, Grows, NEW c \in Caller, OthersStay(c), TypeOK',
         Sound(decision)', Sound(sidecar)', Sound(found[c])', Copied',
         decision # None => decision' = decision,
         pc'[c] \in {"ensure", "returned"} => decision' = found'[c],
         c \in Executor => ExecutorKnows(c)',
         c \in Resolver => ResolverKnows(c)'
  PROVE  Inv'
  <1>1. \A d \in Caller : Sound(found[d])'
    <2> SUFFICES ASSUME NEW d \in Caller, d # c PROVE Sound(found[d])'
      OBVIOUS
    <2>1. found'[d] = found[d] /\ Sound(found[d])
      BY DEF OthersStay, Inv
    <2> QED BY <2>1, SoundStands DEF Inv
  <1>2. \A d \in Caller : pc'[d] \in {"ensure", "returned"} => decision' = found'[d]
    <2> SUFFICES ASSUME NEW d \in Caller, d # c, pc[d] \in {"ensure", "returned"}
                 PROVE  decision' = found'[d]
      BY DEF OthersStay
    <2>1. decision = found[d] /\ found[d] # None
      BY DEF Inv, Caller, ExecutorKnows, ResolverKnows
    <2> QED BY <2>1 DEF OthersStay
  <1>3. \A x \in Executor : ExecutorKnows(x)'
    BY ExecutorStands DEF OthersStay, Inv, Caller
  <1>4. \A r \in Resolver : ResolverKnows(r)'
    BY ResolverStands DEF OthersStay, Inv, Caller
  <1> QED BY <1>1, <1>2, <1>3, <1>4 DEF Inv

\* A step that changes nothing but where its caller is and what it knows.
LEMMA Walked ==
  ASSUME Inv, UNCHANGED <<plan, stores, evidence>>, outage => outage',
         NEW c \in Caller, OthersStay(c), TypeOK', Sound(found'[c]),
         pc'[c] \in {"ensure", "returned"} => decision' = found'[c],
         c \in Executor => ExecutorKnows(c)',
         c \in Resolver => ResolverKnows(c)'
  PROVE  Inv'
  <1>1. Grows
    BY DEF Grows, stores, evidence
  <1>2. Copied'
    BY DEF Inv, Copied, stores, evidence, Member
  <1>3. decision' = decision /\ sidecar' = sidecar
    BY DEF evidence
  <1>4. Sound(decision)' /\ Sound(sidecar)'
    BY <1>1, <1>3, SoundStands DEF Inv
  <1>5. Sound(found[c])'
    BY <1>1, SoundStands DEF Inv
  <1> QED BY <1>1, <1>2, <1>3, <1>4, <1>5, Stepped

LEMMA EmptyStatus == <<>> \in BatchStatus /\ DOMAIN <<>> = {}
  <1>1. <<>> \in [{} -> MemberStatus]
    OBVIOUS
  <1>2. {} \in SUBSET Release
    OBVIOUS
  <1> QED BY <1>1, <1>2 DEF BatchStatus

-----------------------------------------------------------------------------
LEMMA InitInv == Init => Inv
  <1> SUFFICES ASSUME Init PROVE Inv
    OBVIOUS
  <1>1. TypeOK
    BY EmptyStatus, ReleaseMirrorAssumption DEF Init, TypeOK, Fresh
  <1>2. \A c \in Caller : pc[c] = "idle" /\ found[c] = None
    BY DEF Init
  <1>3. Sound(decision) /\ Sound(sidecar) /\ \A c \in Caller : Sound(found[c])
    BY <1>2 DEF Init, Sound
  <1>4. Copied
    BY DEF Init, Copied, Member
  <1>5. \A x \in Executor : ExecutorKnows(x)
    BY <1>2 DEF Init, Fresh, ExecutorKnows, ExecutorPC, Caller
  <1>6. \A r \in Resolver : ResolverKnows(r)
    BY <1>2 DEF Init, ResolverKnows, ResolverPC, Caller, Pass
  <1> QED BY <1>1, <1>2, <1>3, <1>4, <1>5, <1>6 DEF Inv

\* A call that raises knows nothing more.
LEMMA Raised ==
  ASSUME Inv, UNCHANGED <<plan, stores, evidence, outage, confirmed>>,
         NEW c \in Caller, Raise(c),
         seen' \in [Resolver -> BatchStatus], heads' \in [Resolver -> SUBSET (Release \cup Part)],
         \A r \in Resolver \ {c} : seen'[r] = seen[r] /\ heads'[r] = heads[r],
         c \in Resolver => seen'[c] = <<>> /\ heads'[c] = {}
  PROVE  Inv'
  <1>1. /\ pc'[c] = IF c \in Resolver /\ confirmed[c] # None THEN "confirmed" ELSE "idle"
        /\ found'[c] = None
        /\ c \in Executor => thread'[c] = Fresh
    BY DEF Raise, To, Ended, Inv, TypeOK
  <1>2. OthersStay(c)
    BY DEF Raise, To, Ended, Inv, TypeOK, OthersStay
  <1>3. TypeOK'
    <2>1. found' \in [Caller -> Decision \cup {None}] /\ confirmed' \in [Resolver -> BatchStatus \cup {None}]
      BY DEF Raise, Inv, TypeOK
    <2>2. pc' \in [Caller -> {"idle", "intent", "decision", "sidecar", "members", "finish",
                        "look", "confirmed", "again", "final", "publish", "ensure",
                        "ledger", "torn", "returned"}]
      BY DEF Raise, To, Inv, TypeOK
    <2>3. /\ at' \in [Executor -> Time \cup {None}]
          /\ thread' \in [Executor -> [Release -> {"start", "parts", "commit", "record",
                                          "done", "failed"}]]
      BY DEF Raise, Ended, Fresh, Inv, TypeOK
    <2> QED BY <2>1, <2>2, <2>3 DEF Inv, TypeOK, stores, evidence
  <1>4. c \in Executor => ExecutorKnows(c)'
    BY <1>1, ReleaseMirrorAssumption DEF ExecutorKnows, ExecutorPC, Fresh
  <1>5. ASSUME c \in Resolver PROVE ResolverKnows(c)'
    <2>1. confirmed[c] # None => TornOnce(confirmed[c])'
      BY <1>5 DEF Inv, ResolverKnows, TornOnce, Calm, stores
    <2>2. \/ pc'[c] = "idle" /\ confirmed[c] = None
          \/ pc'[c] = "confirmed" /\ confirmed[c] # None
      BY <1>1, <1>5
    <2>3. Member' = Member /\ confirmed'[c] = confirmed[c] /\ UNCHANGED <<plan, intent>>
      BY DEF Member, evidence
    <2> QED BY <1>5, <2>1, <2>2, <2>3 DEF Inv, ResolverKnows, ResolverPC, Pass
  <1>6. Sound(found'[c]) /\ outage' = outage /\ pc'[c] \notin {"ensure", "returned"}
    BY <1>1 DEF Sound
  <1> QED BY <1>2, <1>3, <1>4, <1>5, <1>6, Walked

\* An executor, or a resolver outside its passes, whose call raises.
LEMMA RaisedEarly ==
  ASSUME Inv, UNCHANGED <<plan, stores, evidence, resolution>>,
         NEW c \in Caller, Raise(c), pc[c] \notin Pass \cup {"ledger"}
  PROVE  Inv'
  <1>1. c \in Resolver => seen'[c] = <<>> /\ heads'[c] = {}
    BY DEF Inv, ResolverKnows, resolution
  <1> QED BY <1>1, Raised DEF resolution, Inv, TypeOK


-----------------------------------------------------------------------------
(* The plan, and the world around                                            *)

LEMMA PlanInv ==
  ASSUME Inv, PlanBatch
  PROVE  Inv'
  <1>1. plan = None /\ intent = None /\ \A c \in Caller : pc[c] = "idle"
    BY DEF PlanBatch, Inv, ExecutorKnows, ResolverKnows, Caller, Copied
  <1>2. /\ decision = None /\ sidecar = None
        /\ \A c \in Caller : found[c] = None
        /\ \A r \in Resolver : confirmed[r] = None
    BY <1>1 DEF Inv, Sound, ResolverKnows
  <1>3. UNCHANGED <<present, drifted, record, intent, decision, sidecar, pc, found,
                    at, thread, seen, heads, confirmed, outage>>
    BY DEF PlanBatch, stores, evidence, execution, resolution
  <1>4. PICK S \in (SUBSET Release) \ {{}} : plan' = [m \in S |-> present[m]]
    BY DEF PlanBatch
  <1>5. plan' \in Plan
    BY <1>4 DEF Inv, TypeOK, Plan, MemberPlan
  <1>6. TypeOK'
    BY <1>3, <1>5 DEF Inv, TypeOK
  <1>7. Sound(decision)' /\ Sound(sidecar)' /\ \A c \in Caller : Sound(found[c])'
    BY <1>2, <1>3 DEF Sound
  <1>8. Copied'
    <2>1. plan' # None /\ Member' = S
      BY <1>4, <1>5, ReleaseMirrorAssumption DEF Member
    <2> QED BY <1>3, <1>4, <2>1 DEF Inv, Copied
  <1>9. \A x \in Executor : ExecutorKnows(x)'
    BY <1>1, <1>3 DEF Inv, ExecutorKnows, Caller
  <1>10. \A r \in Resolver : ResolverKnows(r)'
    BY <1>1, <1>2, <1>3 DEF Inv, ResolverKnows, Caller, Pass
  <1> QED BY <1>1, <1>3, <1>6, <1>7, <1>8, <1>9, <1>10 DEF Inv

LEMMA DriftInv ==
  ASSUME Inv, NEW m \in Release, Drift(m)
  PROVE  Inv'
  <1>1. /\ UNCHANGED <<plan, present, record, intent, decision, sidecar, pc, found,
                       at, thread, seen, heads, confirmed, outage>>
        /\ drifted' = drifted \cup {m}
    BY DEF Drift, evidence, execution, resolution
  <1>2. Grows /\ TypeOK'
    BY <1>1 DEF Grows, Inv, TypeOK
  <1>3. Sound(decision)' /\ Sound(sidecar)' /\ \A c \in Caller : Sound(found[c])'
    BY <1>1, <1>2, SoundStands DEF Inv
  <1>4. Copied'
    BY <1>1 DEF Inv, Copied, Member
  <1>5. \A x \in Executor : ExecutorKnows(x)'
    BY <1>1, <1>2, ExecutorStands DEF Inv
  <1>6. \A r \in Resolver : ResolverKnows(r)'
    BY <1>1, <1>2, ResolverStands DEF Inv
  <1> QED BY <1>1, <1>2, <1>3, <1>4, <1>5, <1>6 DEF Inv

-----------------------------------------------------------------------------
(* An executor                                                               *)

LEMMA BeginInv ==
  ASSUME Inv, NEW x \in Executor, NEW t \in Time, Begin(x, t)
  PROVE  Inv'
  <1>1. x \in Caller /\ x \notin Resolver /\ t # None
    BY ReleaseMirrorAssumption DEF Caller
  <1>2. pc'[x] = "intent" /\ at'[x] = t /\ found'[x] = None /\ thread'[x] = thread[x]
    BY <1>1 DEF Begin, To, Inv, TypeOK
  <1>3. TypeOK'
    BY <1>1 DEF Begin, To, stores, evidence, resolution, Inv, TypeOK
  <1>4. OthersStay(x)
    BY <1>1 DEF Begin, To, resolution, Inv, TypeOK, OthersStay
  <1>5. ExecutorKnows(x)'
    BY <1>1, <1>2 DEF Begin, stores, Inv, ExecutorKnows, ExecutorPC
  <1>6. Sound(found'[x])
    BY <1>2 DEF Sound
  <1> QED BY <1>1, <1>2, <1>3, <1>4, <1>5, <1>6, Walked DEF Begin, resolution

LEMMA PutIntentInv ==
  ASSUME Inv, NEW x \in Executor, PutIntent(x)
  PROVE  Inv'
  <1>1. x \in Caller /\ x \notin Resolver
    BY ReleaseMirrorAssumption DEF Caller
  <1>2. /\ UNCHANGED <<plan, present, drifted, record, decision, sidecar, found, at, thread,
                       seen, heads, confirmed, outage>>
        /\ pc[x] = "intent" /\ pc' = [pc EXCEPT ![x] = "decision"]
        /\ intent' = IF intent = None THEN at[x] ELSE intent
    BY DEF PutIntent, To, stores, execution, resolution
  <1>3. at[x] \in Time /\ plan # None
    BY <1>1, <1>2 DEF Inv, TypeOK, ExecutorKnows
  <1>4. intent' # None /\ pc'[x] = "decision"
    BY <1>1, <1>2, <1>3, ReleaseMirrorAssumption DEF Inv, TypeOK
  <1>5. TypeOK'
    BY <1>1, <1>2, <1>3 DEF Inv, TypeOK, Intent
  <1>6. OthersStay(x)
    BY <1>1, <1>2 DEF Inv, TypeOK, OthersStay
  <1>7. Grows /\ Copied'
    BY <1>2, <1>3 DEF Grows, Inv, Copied, Member
  <1>8. Sound(decision)' /\ Sound(sidecar)' /\ Sound(found[x])'
    BY <1>1, <1>2, <1>7, SoundStands DEF Inv
  <1>9. ExecutorKnows(x)'
    BY <1>1, <1>2, <1>3, <1>4 DEF Inv, ExecutorKnows, ExecutorPC
  <1> QED BY <1>1, <1>2, <1>4, <1>5, <1>6, <1>7, <1>8, <1>9, Stepped

LEMMA ReadEvidenceInv ==
  ASSUME Inv, NEW c \in Caller, ReadDecision(c) \/ ReadSidecars(c)
  PROVE  Inv'
  <1>1. c \in Executor <=> c \notin Resolver
    BY ReleaseMirrorAssumption DEF Caller
  <1>2. CASE ReadDecision(c)
    <2>1. /\ UNCHANGED <<plan, present, drifted, record, intent, decision, sidecar, at, thread,
                         seen, heads, confirmed, outage>>
          /\ pc[c] = "decision" /\ pc' = [pc EXCEPT ![c] = "sidecar"]
          /\ found' = [found EXCEPT ![c] = decision]
      BY <1>2 DEF ReadDecision, To, stores, evidence, execution, resolution
    <2>2. pc'[c] = "sidecar" /\ found'[c] = decision
      BY <2>1 DEF Inv, TypeOK
    <2>3. TypeOK' /\ OthersStay(c)
      BY <2>1 DEF Inv, TypeOK, OthersStay
    <2>4. c \in Executor => ExecutorKnows(c)'
      BY <2>1, <2>2 DEF Inv, ExecutorKnows, ExecutorPC, Member
    <2>5. c \in Resolver => ResolverKnows(c)'
      BY <2>1, <2>2 DEF Inv, ResolverKnows, ResolverPC, Member, Pass, TornOnce, Calm
    <2>6. Sound(found'[c])
      BY <2>2 DEF Inv
    <2> QED BY <2>1, <2>2, <2>3, <2>4, <2>5, <2>6, Walked DEF stores, evidence
  <1>3. CASE ReadSidecars(c)
    <2>1. CASE Raise(c) /\ UNCHANGED <<plan, stores, evidence, resolution>>
      <3>1. pc[c] \notin Pass \cup {"ledger"}
        BY <1>3 DEF ReadSidecars, Pass
      <3> QED BY <2>1, <3>1, RaisedEarly
    <2>2. CASE /\ c \in Executor => Evidence(c) = None \/ Evidence(c).kind # "resolved"
               /\ found' = [found EXCEPT ![c] = Evidence(c)]
               /\ pc' = [pc EXCEPT ![c] = IF c \in Executor THEN "members"
                                          ELSE IF Evidence(c) = None THEN "again" ELSE "publish"]
               /\ UNCHANGED <<plan, present, drifted, record, intent, decision, sidecar, at, thread,
                              seen, heads, confirmed, outage>>
      <3>1. pc[c] = "sidecar"
        BY <1>3 DEF ReadSidecars
      <3>2. /\ found'[c] = Evidence(c)
            /\ pc'[c] = IF c \in Executor THEN "members"
                        ELSE IF Evidence(c) = None THEN "again" ELSE "publish"
        BY <2>2 DEF Inv, TypeOK
      <3>3. Sound(Evidence(c)) /\ Evidence(c) \in Decision \cup {None}
        BY DEF Inv, TypeOK, Evidence
      <3>4. TypeOK' /\ OthersStay(c)
        BY <2>2, <3>3 DEF Inv, TypeOK, OthersStay
      <3>5. c \in Executor => ExecutorKnows(c)'
        BY <2>2, <3>1, <3>2 DEF Inv, ExecutorKnows, ExecutorPC, Member
      <3>6. ASSUME c \in Resolver PROVE ResolverKnows(c)'
        <4>1. /\ seen[c] = <<>> /\ heads[c] = {} /\ DOMAIN seen[c] = {}
              /\ plan # None /\ intent # None /\ confirmed[c] # None
              /\ DOMAIN confirmed[c] = Member /\ TornOnce(confirmed[c])
          BY <3>1, <3>6, EmptyStatus DEF Inv, ResolverKnows, Pass
        <4>2. TornOnce(confirmed[c])' /\ Member' = Member
          BY <2>2, <4>1 DEF TornOnce, Calm, Member
        <4>3. OneAtATime(c)' /\ FindsParts(c)' /\ TornOnce(seen[c])'
          BY <2>2, <4>1, ReleaseMirrorAssumption DEF OneAtATime, FindsParts, TornOnce
        <4>4. pc'[c] \in {"again", "publish"} /\ (pc'[c] = "publish" => found'[c] # None)
          BY <1>1, <3>2, <3>6
        <4> QED BY <2>2, <4>1, <4>2, <4>3, <4>4 DEF ResolverKnows, ResolverPC, Pass
      <3>7. pc'[c] \notin {"ensure", "returned"} /\ Sound(found'[c])
        BY <3>2, <3>3
      <3> QED BY <2>2, <3>4, <3>5, <3>6, <3>7, Walked DEF stores, evidence
    <2>3. UNCHANGED <<plan, stores, evidence, resolution>>
      BY <1>3 DEF ReadSidecars
    <2> DEFINE other == IF c \in Executor THEN Evidence(c).kind = "resolved"
                                          ELSE Evidence(c) # Resolution(c)
    <2>4. CASE Conflicting(c) \/ (Evidence(c) # None /\ other)
      BY <1>3, <2>1, <2>3, <2>4 DEF ReadSidecars
    <2>5. CASE ~(Conflicting(c) \/ (Evidence(c) # None /\ other))
      BY <1>3, <2>2, <2>3, <2>5 DEF ReadSidecars, To, stores, evidence, resolution, execution
    <2> QED BY <2>4, <2>5
  <1> QED BY <1>2, <1>3

\* A thread of an executor goes on with a release, and may have copied or recorded it.
LEMMA Threaded ==
  ASSUME Inv, NEW x \in Executor, NEW m \in Release,
         NEW l \in {"start", "parts", "commit", "record", "done", "failed"},
         pc[x] = "members", ThreadTo(x, m, l),
         present' \in [Release -> SUBSET Object], record' \in [Release -> Record \cup {None}],
         Grows, Copied',
         l = "done" => record'[m] # None,
         l \in {"commit", "record"} => Part \subseteq present'[m]
  PROVE  Inv'
  <1>1. x \in Caller /\ x \notin Resolver
    BY ReleaseMirrorAssumption DEF Caller
  <1>2. /\ UNCHANGED <<plan, drifted, intent, decision, sidecar, pc, at, found,
                       seen, heads, confirmed, outage>>
        /\ thread' = [thread EXCEPT ![x][m] = l]
    BY DEF ThreadTo, evidence, resolution
  <1>3. TypeOK' /\ OthersStay(x)
    BY <1>2 DEF Inv, TypeOK, OthersStay
  <1>4. Sound(decision)' /\ Sound(sidecar)' /\ Sound(found[x])'
    BY <1>1, <1>2, SoundStands DEF Inv
  <1>5. \A n \in Release \ {m} : thread'[x][n] = thread[x][n]
    BY <1>2 DEF Inv, TypeOK
  <1>6. thread'[x][m] = l
    BY <1>2 DEF Inv, TypeOK
  <1>7. ExecutorKnows(x)'
    <2>1. \A n \in Release : /\ record[n] # None => record'[n] # None
                             /\ Part \subseteq present[n] => Part \subseteq present'[n]
      BY DEF Grows
    <2> QED BY <1>2, <1>5, <1>6, <2>1 DEF Inv, ExecutorKnows
  <1> QED BY <1>1, <1>2, <1>3, <1>4, <1>7, Stepped

\* A copy of an object that is in order.
LEMMA Copies1 ==
  ASSUME Inv, NEW x \in Executor, NEW m \in Member, NEW o \in Object,
         present' = [present EXCEPT ![m] = @ \cup {o}], UNCHANGED <<plan, intent, record, drifted, outage>>,
         o = Commit => Part \subseteq present[m]
  PROVE  Grows /\ Copied' /\ present' \in [Release -> SUBSET Object]
  <1>1. m \in Release /\ Member' = Member
    BY MembersAreReleases DEF Inv, Member
  <1>2. present' \in [Release -> SUBSET Object]
    BY <1>1 DEF Inv, TypeOK
  <1>3. \A n \in Release : present'[n] = IF n = m THEN present[m] \cup {o} ELSE present[n]
    BY <1>1 DEF Inv, TypeOK
  <1>4. \A n \in Release : record'[n] # None => present'[n] = Object
    BY <1>3 DEF Inv, Copied
  <1>5. \A n \in Member : /\ plan'[n] \subseteq present'[n]
                          /\ Commit \in present'[n] \ plan'[n] => Part \subseteq present'[n]
    BY <1>1, <1>3, MembersAreReleases DEF Inv, Copied
  <1> QED BY <1>1, <1>2, <1>3, <1>4, <1>5 DEF Grows, Inv, Copied

LEMMA SameStores ==
  ASSUME Inv, UNCHANGED <<plan, intent, present, record, drifted, outage>>
  PROVE  /\ Grows /\ Copied'
         /\ present' \in [Release -> SUBSET Object] /\ record' \in [Release -> Record \cup {None}]
  BY DEF Inv, TypeOK, Grows, Copied, Member

LEMMA MemberInv ==
  ASSUME Inv, NEW x \in Executor, NEW m \in Release,
         \/ StartMember(x, m) \/ PartsCopied(x, m) \/ CopyCommit(x, m) \/ PutMemberRecord(x, m)
         \/ \E o \in Part : CopyPart(x, m, o)
  PROVE  Inv'
  <1>1. pc[x] = "members" /\ m \in Member
    BY DEF StartMember, PartsCopied, CopyCommit, PutMemberRecord, CopyPart, AtMember
  <1>2. CASE StartMember(x, m)
    <2>1. UNCHANGED <<plan, intent, present, record, drifted, outage>>
      BY <1>2 DEF StartMember, ThreadTo, evidence, resolution
    <2> QED BY <1>1, <1>2, <2>1, SameStores, Threaded DEF StartMember
  <1>3. CASE PartsCopied(x, m)
    <2>1. UNCHANGED <<plan, intent, present, record, drifted, outage>>
      BY <1>3 DEF PartsCopied, ThreadTo, evidence, resolution
    <2> QED BY <1>1, <1>3, <2>1, SameStores, Threaded DEF PartsCopied
  <1>4. ASSUME ThreadTo(x, m, "failed"), UNCHANGED <<present, record>> PROVE Inv'
    <2>1. UNCHANGED <<plan, intent, present, record, drifted, outage>>
      BY <1>4 DEF ThreadTo, evidence, resolution
    <2> QED BY <1>1, <1>4, <2>1, SameStores, Threaded
  <1>5. ASSUME NEW o \in Part, present' = [present EXCEPT ![m] = @ \cup {o}],
               ThreadTo(x, m, "parts"), UNCHANGED record
        PROVE  Inv'
    <2>1. UNCHANGED <<plan, intent, record, drifted, outage>> /\ o \in Object /\ o # Commit
      BY <1>5, ReleaseMirrorAssumption DEF ThreadTo, evidence, resolution, Object
    <2>2. Grows /\ Copied' /\ present' \in [Release -> SUBSET Object]
      BY <1>1, <1>5, <2>1, Copies1
    <2> QED BY <1>1, <1>5, <2>2, Threaded DEF Inv, TypeOK
  <1>6. CASE CopyCommit(x, m)
    <2>1. CASE present' = [present EXCEPT ![m] = @ \cup {Commit}] /\ ThreadTo(x, m, "record")
      <3>1. UNCHANGED <<plan, intent, record, drifted, outage>> /\ Commit \in Object
        BY <1>6, <2>1 DEF CopyCommit, ThreadTo, evidence, resolution, Object
      <3>2. Part \subseteq present[m]
        BY <1>6 DEF CopyCommit, AtMember, Inv, ExecutorKnows
      <3>3. Grows /\ Copied' /\ present' \in [Release -> SUBSET Object]
        BY <1>1, <2>1, <3>1, <3>2, Copies1
      <3>4. Part \subseteq present'[m]
        BY <3>2, <3>3 DEF Grows
      <3> QED BY <1>1, <2>1, <3>1, <3>3, <3>4, Threaded DEF Inv, TypeOK
    <2> QED BY <1>4, <1>6, <2>1 DEF CopyCommit
  <1>7. CASE PutMemberRecord(x, m)
    <2>1. CASE /\ present[m] = Object
               /\ record' = IF record[m] = None THEN [record EXCEPT ![m] = at[x]] ELSE record
               /\ ThreadTo(x, m, "done")
      <3>1. UNCHANGED <<plan, intent, present, drifted, outage>>
        BY <1>7, <2>1 DEF PutMemberRecord, ThreadTo, evidence, resolution
      <3>2. at[x] \in Time /\ at[x] # None
        BY <1>1, ReleaseMirrorAssumption DEF Inv, TypeOK, ExecutorKnows
      <3>3. record' \in [Release -> Record \cup {None}] /\ record'[m] # None
        BY <2>1, <3>2 DEF Inv, TypeOK, Record
      <3>4. \A n \in Release \ {m} : record'[n] = record[n]
        BY <2>1 DEF Inv, TypeOK
      <3>5. record[m] # None => record'[m] = record[m]
        BY <2>1
      <3>6. Grows /\ Copied'
        BY <2>1, <3>1, <3>4, <3>5 DEF Grows, Inv, Copied, Member
      <3> QED BY <1>1, <2>1, <3>1, <3>3, <3>6, Threaded DEF Inv, TypeOK
    <2> QED BY <1>4, <1>7, <2>1 DEF PutMemberRecord
  <1> QED BY <1>2, <1>3, <1>4, <1>5, <1>6, <1>7 DEF CopyPart

LEMMA JoinInv ==
  ASSUME Inv, NEW x \in Executor, JoinMembers(x)
  PROVE  Inv'
  <1>1. x \in Caller /\ x \notin Resolver /\ pc[x] = "members" /\ pc[x] \notin Pass \cup {"ledger"}
    BY ReleaseMirrorAssumption DEF Caller, JoinMembers, Pass
  <1>2. CASE Raise(x)
    BY <1>1, <1>2, RaisedEarly DEF JoinMembers
  <1>3. CASE /\ \A m \in Member : thread[x][m] = "done"
             /\ pc' = [pc EXCEPT ![x] = "finish"] /\ UNCHANGED <<found, at, thread>>
    <2>1. UNCHANGED <<plan, present, drifted, record, intent, decision, sidecar,
                      seen, heads, confirmed, outage>>
      BY DEF JoinMembers, stores, evidence, resolution
    <2>2. TypeOK' /\ OthersStay(x)
      BY <1>3, <2>1 DEF Inv, TypeOK, OthersStay
    <2>3. \A m \in Member : record[m] # None
      BY <1>3, MembersAreReleases DEF Inv, ExecutorKnows
    <2>4. pc'[x] = "finish"
      BY <1>1, <1>3 DEF Inv, TypeOK
    <2>5. ExecutorKnows(x)'
      BY <1>1, <1>3, <2>1, <2>3, <2>4 DEF Inv, ExecutorKnows, ExecutorPC, Member
    <2> QED BY <1>1, <1>3, <2>1, <2>2, <2>4, <2>5, Walked DEF stores, evidence, Inv
  <1>4. (\E m \in Member : thread[x][m] = "failed") \/ \A m \in Member : thread[x][m] = "done"
    BY DEF JoinMembers
  <1> QED BY <1>2, <1>3, <1>4 DEF JoinMembers, To, execution

-----------------------------------------------------------------------------
(* The decision                                                              *)

LEMMA BatchRecordTyped ==
  ASSUME TypeOK, intent # None, \A m \in Member : record[m] # None
  PROVE  BatchRecord \in Decision /\ BatchRecord # None /\ BatchRecord.kind = "completed"
  <1> DEFINE times == {intent} \cup {record[m] : m \in Member}
             last == CHOOSE t \in times : \A u \in times : u <= t
             records == [m \in Member |-> record[m]]
  <1>1. times \in SUBSET Time /\ times # {} /\ \A m \in Member : record[m] \in Record
    BY MembersAreReleases DEF TypeOK, Intent, Record
  <1>2. last \in Time
    <2>1. PICK t \in times : \A u \in times : u <= t
      BY <1>1, ReleaseMirrorAssumption
    <2>2. last \in times
      BY <2>1
    <2> QED BY <1>1, <2>2
  <1>3. records \in UNION {[S -> Record] : S \in SUBSET Release}
    BY <1>1, MembersAreReleases
  <1>4. BatchRecord = [kind |-> "completed", completed_at |-> last, records |-> records]
    BY DEF BatchRecord
  <1> HIDE DEF last, records
  <1>5. BatchRecord \in Decision /\ BatchRecord.kind = "completed"
    BY <1>2, <1>3, <1>4 DEF Decision
  <1> QED BY <1>5, ReleaseMirrorAssumption

LEMMA BuildInv ==
  ASSUME Inv, NEW x \in Executor, BuildBatchRecord(x)
  PROVE  Inv'
  <1>1. x \in Caller /\ x \notin Resolver /\ pc[x] = "finish" /\ pc[x] \notin Pass \cup {"ledger"}
    BY ReleaseMirrorAssumption DEF Caller, BuildBatchRecord, Pass
  <1>2. CASE Raise(x)
    BY <1>1, <1>2, RaisedEarly DEF BuildBatchRecord
  <1>3. CASE /\ found' = [found EXCEPT ![x] = BatchRecord]
             /\ pc' = [pc EXCEPT ![x] = "publish"] /\ Ended(x)
    <2>1. UNCHANGED <<plan, present, drifted, record, intent, decision, sidecar,
                      seen, heads, confirmed, outage>>
      BY DEF BuildBatchRecord, stores, evidence, resolution
    <2>2. plan # None /\ intent # None /\ \A m \in Member : record[m] # None
      BY <1>1 DEF Inv, ExecutorKnows
    <2>3. BatchRecord \in Decision /\ BatchRecord # None /\ BatchRecord.kind = "completed"
      BY <2>2, BatchRecordTyped DEF Inv
    <2>4. at' = [at EXCEPT ![x] = None] /\ thread' = [thread EXCEPT ![x] = Fresh]
      BY <1>3 DEF Ended
    <2>5. TypeOK' /\ OthersStay(x)
      BY <1>3, <2>1, <2>3, <2>4 DEF Inv, TypeOK, OthersStay, Fresh
    <2>6. pc'[x] = "publish" /\ found'[x] = BatchRecord /\ thread'[x] = Fresh
      BY <1>1, <1>3, <2>4 DEF Inv, TypeOK
    <2>7. ExecutorKnows(x)'
      BY <2>1, <2>2, <2>3, <2>6 DEF ExecutorKnows, ExecutorPC, Fresh
    <2>8. Sound(found'[x])
      BY <2>2, <2>3, <2>6 DEF Sound
    <2> QED BY <1>1, <2>1, <2>5, <2>6, <2>7, <2>8, Walked DEF stores, evidence
  <1> QED BY <1>2, <1>3 DEF BuildBatchRecord, To

LEMMA PublishInv ==
  ASSUME Inv, NEW c \in Caller, PublishDecision(c)
  PROVE  Inv'
  <1>1. c \in Executor <=> c \notin Resolver
    BY ReleaseMirrorAssumption DEF Caller
  <1>2. /\ pc[c] = "publish" /\ found[c] # None
        /\ decision' = IF decision = None THEN found[c] ELSE decision
        /\ UNCHANGED <<plan, present, drifted, record, intent, sidecar, seen, heads, confirmed, outage>>
    BY DEF PublishDecision, Inv, ExecutorKnows, ResolverKnows, Caller, stores, resolution
  <1>3. CASE Raise(c) /\ decision' = decision
    <2>1. pc[c] \notin Pass \cup {"ledger"}
      BY <1>2 DEF Pass
    <2> QED BY <1>2, <1>3, <2>1, RaisedEarly DEF stores, evidence, resolution
  <1>4. CASE decision' = found[c] /\ pc' = [pc EXCEPT ![c] = "ensure"] /\ UNCHANGED <<found, at, thread>>
    <2>1. pc'[c] = "ensure" /\ found'[c] = found[c]
      BY <1>4 DEF Inv, TypeOK
    <2>2. TypeOK' /\ OthersStay(c)
      BY <1>2, <1>4 DEF Inv, TypeOK, OthersStay
    <2>3. Grows /\ Copied'
      BY <1>2, SameStores
    <2>4. Sound(decision)' /\ Sound(sidecar)' /\ Sound(found[c])'
      BY <1>2, <1>4, <2>1, <2>3, SoundStands DEF Inv
    <2>5. c \in Executor => ExecutorKnows(c)'
      BY <1>2, <1>4, <2>1 DEF Inv, ExecutorKnows, ExecutorPC, Member
    <2>6. c \in Resolver => ResolverKnows(c)'
      BY <1>2, <1>4, <2>1 DEF Inv, ResolverKnows, ResolverPC, Member, Pass, TornOnce, Calm
    <2> QED BY <1>2, <1>4, <2>1, <2>2, <2>3, <2>4, <2>5, <2>6, Stepped
  <1> QED BY <1>2, <1>3, <1>4 DEF PublishDecision, To, execution

LEMMA SidecarInv ==
  ASSUME Inv, NEW c \in Caller, EnsureSidecar(c)
  PROVE  Inv'
  <1>1. c \in Executor <=> c \notin Resolver
    BY ReleaseMirrorAssumption DEF Caller
  <1>2. /\ pc[c] = "ensure" /\ found[c] # None /\ decision = found[c]
        /\ sidecar' = IF sidecar = None THEN found[c] ELSE sidecar
        /\ UNCHANGED <<plan, present, drifted, record, intent, decision, seen, heads, confirmed, outage>>
    BY DEF EnsureSidecar, Inv, ExecutorKnows, ResolverKnows, Caller, stores, resolution
  <1>3. CASE Raise(c) /\ sidecar' = sidecar
    <2>1. pc[c] \notin Pass \cup {"ledger"}
      BY <1>2 DEF Pass
    <2> QED BY <1>2, <1>3, <2>1, RaisedEarly DEF stores, evidence, resolution
  <1>4. CASE sidecar' = found[c] /\ pc' = [pc EXCEPT ![c] = "returned"] /\ UNCHANGED <<found, at, thread>>
    <2>1. pc'[c] = "returned" /\ found'[c] = found[c]
      BY <1>4 DEF Inv, TypeOK
    <2>2. TypeOK' /\ OthersStay(c)
      BY <1>2, <1>4 DEF Inv, TypeOK, OthersStay
    <2>3. Grows /\ Copied'
      BY <1>2, SameStores
    <2>4. Sound(decision)' /\ Sound(sidecar)' /\ Sound(found[c])'
      BY <1>2, <1>4, <2>1, <2>3, SoundStands DEF Inv
    <2>5. c \in Executor => ExecutorKnows(c)'
      BY <1>2, <1>4, <2>1 DEF Inv, ExecutorKnows, ExecutorPC, Member
    <2>6. c \in Resolver => ResolverKnows(c)'
      BY <1>2, <1>4, <2>1 DEF Inv, ResolverKnows, ResolverPC, Member, Pass, TornOnce, Calm
    <2> QED BY <1>2, <1>4, <2>1, <2>2, <2>3, <2>4, <2>5, <2>6, Stepped
  <1> QED BY <1>2, <1>3, <1>4 DEF EnsureSidecar, To, execution

-----------------------------------------------------------------------------
(* A resolver                                                                *)

\* A step of a resolver that reads or goes on.
LEMMA Looked ==
  ASSUME Inv, UNCHANGED <<plan, stores, evidence, execution>>, outage => outage', outage' \in BOOLEAN,
         NEW r \in Resolver, NEW l \in ResolverPC \ {"ensure", "returned"}, To(r, l),
         found' \in [Caller -> Decision \cup {None}], Sound(found'[r]),
         seen' \in [Resolver -> BatchStatus], heads' \in [Resolver -> SUBSET (Release \cup Part)],
         confirmed' \in [Resolver -> BatchStatus \cup {None}],
         \A c \in Caller \ {r} : found'[c] = found[c],
         \A q \in Resolver \ {r} :
           seen'[q] = seen[q] /\ heads'[q] = heads[q] /\ confirmed'[q] = confirmed[q],
         ResolverKnows(r)'
  PROVE  Inv'
  <1>1. r \in Caller /\ r \notin Executor
    BY ReleaseMirrorAssumption DEF Caller
  <1>2. pc' = [pc EXCEPT ![r] = l]
    BY DEF To
  <1>3. pc'[r] = l /\ OthersStay(r)
    BY <1>1, <1>2 DEF Inv, TypeOK, OthersStay, execution
  <1>4. TypeOK'
    BY <1>2 DEF Inv, TypeOK, ResolverPC, stores, evidence, execution
  <1> QED BY <1>1, <1>3, <1>4, Walked

LEMMA StartInv ==
  ASSUME Inv, NEW r \in Resolver, StartLook(r)
  PROVE  Inv'
  <1>1. r \in Caller /\ UNCHANGED <<plan, stores, evidence, execution, heads, outage>>
    BY DEF StartLook, Caller
  <1>2. /\ pc'[r] = "look" /\ seen'[r] = <<>> /\ confirmed'[r] = None /\ found'[r] = None
        /\ heads'[r] = heads[r] /\ heads[r] = {}
    BY <1>1 DEF StartLook, To, Inv, TypeOK, ResolverKnows, Pass
  <1>3. plan # None /\ intent # None
    BY DEF StartLook, Inv, Copied
  <1>4. ResolverKnows(r)'
    BY <1>1, <1>2, <1>3, EmptyStatus
    DEF ResolverKnows, ResolverPC, Pass, OneAtATime, TornOnce, evidence
  <1>5. Sound(found'[r])
    BY <1>2 DEF Sound
  <1> QED BY <1>1, <1>4, <1>5, EmptyStatus, Looked DEF StartLook, Inv, TypeOK, ResolverPC

LEMMA ResolveInv ==
  ASSUME Inv, NEW r \in Resolver, Resolve(r)
  PROVE  Inv'
  <1>1. r \in Caller /\ UNCHANGED <<plan, stores, evidence, execution, found, seen, heads, confirmed, outage>>
    BY DEF Resolve, Caller, resolution
  <1>2. pc[r] = "confirmed" /\ pc'[r] = "decision"
    BY <1>1 DEF Resolve, To, Inv, TypeOK
  <1>3. ResolverKnows(r)'
    BY <1>1, <1>2 DEF Inv, ResolverKnows, ResolverPC, Pass, TornOnce, Calm, Member, stores, evidence
  <1> QED BY <1>1, <1>3, Looked DEF Resolve, Inv, TypeOK, ResolverPC

LEMMA LedgerInv ==
  ASSUME Inv, NEW r \in Resolver, CountRecords(r) \/ LedgerEntry(r)
  PROVE  Inv'
  <1>1. r \in Caller /\ UNCHANGED <<plan, stores, evidence, execution, found, seen, confirmed, outage>>
    BY DEF CountRecords, LedgerEntry, Caller
  <1>2. plan # None /\ intent # None /\ pc[r] \notin Pass
    BY DEF Inv, CountRecords, LedgerEntry, ResolverKnows, Copied, Pass
  <1>3. CASE CountRecords(r)
    <2>1. pc'[r] = "ledger"
      BY <1>1, <1>3 DEF CountRecords, To, Inv, TypeOK
    <2>2. heads' \in [Resolver -> SUBSET (Release \cup Part)] /\ \A q \in Resolver \ {r} : heads'[q] = heads[q]
      BY <1>3, MembersAreReleases DEF CountRecords, Inv, TypeOK
    <2>3. ResolverKnows(r)'
      BY <1>1, <1>2, <2>1
      DEF Inv, ResolverKnows, ResolverPC, Pass, TornOnce, Calm, Member, stores, evidence
    <2> QED BY <1>1, <1>3, <2>2, <2>3, Looked DEF CountRecords, Inv, TypeOK, ResolverPC
  <1>4. CASE LedgerEntry(r)
    <2>1. PICK l \in {"torn", "idle"} : To(r, l)
      BY <1>4 DEF LedgerEntry
    <2>2. /\ heads' \in [Resolver -> SUBSET (Release \cup Part)] /\ heads'[r] = {}
          /\ \A q \in Resolver \ {r} : heads'[q] = heads[q]
      BY <1>4 DEF LedgerEntry, Inv, TypeOK
    <2>3. pc'[r] = l
      BY <1>1, <2>1 DEF To, Inv, TypeOK
    <2>4. ResolverKnows(r)'
      BY <1>1, <1>2, <2>2, <2>3
      DEF Inv, ResolverKnows, ResolverPC, Pass, TornOnce, Calm, Member, stores, evidence
    <2> QED BY <1>1, <2>1, <2>2, <2>4, Looked DEF Inv, TypeOK, ResolverPC
  <1> QED BY <1>3, <1>4

LEMMA CrashInv ==
  ASSUME Inv, NEW c \in Caller, Crash(c)
  PROVE  Inv'
  <1>1. /\ Raise(c) /\ UNCHANGED <<plan, stores, evidence, outage, confirmed>>
        /\ seen' = IF c \in Resolver THEN [seen EXCEPT ![c] = <<>>] ELSE seen
        /\ heads' = IF c \in Resolver THEN [heads EXCEPT ![c] = {}] ELSE heads
    BY DEF Crash
  <1>2. seen' \in [Resolver -> BatchStatus] /\ heads' \in [Resolver -> SUBSET (Release \cup Part)]
    BY <1>1, EmptyStatus DEF Inv, TypeOK
  <1>3. /\ \A r \in Resolver \ {c} : seen'[r] = seen[r] /\ heads'[r] = heads[r]
        /\ c \in Resolver => seen'[c] = <<>> /\ heads'[c] = {}
    BY <1>1 DEF Inv, TypeOK
  <1> QED BY <1>1, <1>2, <1>3, Raised

-----------------------------------------------------------------------------
(* The passes of a resolver                                                  *)

LEMMA MemberStates ==
  ASSUME Inv, NEW m \in Member, NEW parts \in SUBSET Part, NEW commit \in BOOLEAN
  PROVE  /\ MemberState(m, parts, commit) \in MemberStatus
         /\ (Calm /\ MemberState(m, parts, commit) = <<"invalid">>) =>
              commit /\ Commit \notin plan[m] /\ ~(Part \subseteq parts)
  <1> DEFINE copied == (parts \cup (IF commit THEN {Commit} ELSE {})) \cap Copies(m)
  <1>1. IsFiniteSet(Object) /\ copied \subseteq Object
    <2>1. IsFiniteSet(Object)
      BY FS_AddElement, ReleaseMirrorAssumption DEF Object
    <2> QED BY <2>1 DEF Copies
  <1>2. copied # {} => Cardinality(copied) \in 1..Cardinality(Object)
    <2>1. IsFiniteSet(copied) /\ Cardinality(copied) <= Cardinality(Object)
      BY <1>1, FS_Subset
    <2>2. Cardinality(copied) \in Nat /\ Cardinality(Object) \in Nat
      BY <1>1, <2>1, FS_CardinalityType
    <2>3. copied # {} => Cardinality(copied) # 0
      BY <2>1, FS_EmptySet
    <2> QED BY <2>1, <2>2, <2>3
  <1>3. MemberState(m, parts, commit) =
          IF m \in drifted \/ (Commit \in copied /\ copied # Copies(m)) THEN <<"invalid">>
          ELSE IF copied = Copies(m) THEN <<"destination_complete">>
          ELSE IF copied = {} THEN <<"pending">>
          ELSE <<"partial", Cardinality(copied)>>
    BY DEF MemberState
  <1>4. copied # {} => <<"partial", Cardinality(copied)>> \in MemberStatus
    BY <1>2 DEF MemberStatus
  <1>5. (Calm /\ Commit \in copied /\ copied # Copies(m)) =>
          commit /\ Commit \notin plan[m] /\ ~(Part \subseteq parts)
    <2> SUFFICES ASSUME Commit \in copied, copied # Copies(m)
                 PROVE  commit /\ Commit \notin plan[m] /\ ~(Part \subseteq parts)
      OBVIOUS
    <2>1. commit /\ Commit \notin plan[m]
      BY ReleaseMirrorAssumption DEF Copies
    <2>2. copied = (parts \cup {Commit}) \cap (Object \ plan[m]) /\ Copies(m) = Object \ plan[m]
      BY <2>1 DEF Copies
    <2>3. ASSUME Part \subseteq parts PROVE FALSE
      BY <2>2, <2>3 DEF Object
    <2> QED BY <2>1, <2>3
  <1> HIDE DEF copied
  <1>6. MemberState(m, parts, commit) \in MemberStatus
    BY <1>3, <1>4 DEF MemberStatus
  <1>7. (Calm /\ MemberState(m, parts, commit) = <<"invalid">>) => Commit \in copied /\ copied # Copies(m)
    BY <1>3 DEF Calm
  <1> QED BY <1>5, <1>6, <1>7

LEMMA Seen ==
  ASSUME Inv, NEW r \in Resolver, NEW m \in Member, NEW s \in MemberStatus, SeeMember(r, m, s)
  PROVE  /\ seen' \in [Resolver -> BatchStatus]
         /\ \A q \in Resolver \ {r} : seen'[q] = seen[q]
         /\ DOMAIN seen'[r] = DOMAIN seen[r] \cup {m}
         /\ seen'[r][m] = s /\ \A k \in DOMAIN seen[r] \ {m} : seen'[r][k] = seen[r][k]
  <1> DEFINE new == [k \in DOMAIN seen[r] \cup {m} |-> IF k = m THEN s ELSE seen[r][k]]
  <1>1. PICK S \in SUBSET Release : seen[r] \in [S -> MemberStatus]
    BY DEF Inv, TypeOK, BatchStatus
  <1>2. S \cup {m} \in SUBSET Release /\ DOMAIN seen[r] = S
    BY <1>1, MembersAreReleases DEF Inv
  <1>3. new \in [S \cup {m} -> MemberStatus]
    BY <1>1, <1>2
  <1>4. new \in BatchStatus
    BY <1>2, <1>3 DEF BatchStatus
  <1>5. seen' = [seen EXCEPT ![r] = new]
    BY DEF SeeMember
  <1>6. DOMAIN new = DOMAIN seen[r] \cup {m} /\ new[m] = s /\ \A k \in DOMAIN seen[r] \ {m} : new[k] = seen[r][k]
    OBVIOUS
  <1> HIDE DEF new
  <1> QED BY <1>4, <1>5, <1>6 DEF Inv, TypeOK

\* A resolver that has settled on the state of a release.
LEMMA Settled ==
  ASSUME Inv, NEW r \in Resolver, NEW m \in Member, NEW s \in MemberStatus,
         Reading(r, m), SeeMember(r, m, s), outage => outage', outage' \in BOOLEAN,
         heads' \in [Resolver -> SUBSET (Release \cup Part)], heads'[r] = {},
         \A q \in Resolver \ {r} : heads'[q] = heads[q],
         (Calm' /\ s = <<"invalid">>) =>
            /\ Part \subseteq present[m]
            /\ pc[r] \in {"again", "final"} => confirmed[r][m] # <<"invalid">>
  PROVE  Inv'
  <1>1. r \in Caller /\ UNCHANGED <<plan, stores, evidence, execution, pc, found, confirmed>>
    BY DEF SeeMember, Caller
  <1>2. pc[r] \in Pass /\ pc' = [pc EXCEPT ![r] = pc[r]]
    BY <1>1 DEF Reading, Inv, TypeOK
  <1>3. /\ seen' \in [Resolver -> BatchStatus]
        /\ \A q \in Resolver \ {r} : seen'[q] = seen[q]
        /\ DOMAIN seen'[r] = DOMAIN seen[r] \cup {m}
        /\ seen'[r][m] = s /\ \A k \in DOMAIN seen[r] \ {m} : seen'[r][k] = seen[r][k]
    BY Seen
  <1>4. Member' = Member /\ (Calm' => Calm) /\ present' = present
    BY <1>1 DEF Member, Calm, stores
  <1>5. ResolverKnows(r)'
    <2>1. OneAtATime(r)'
      BY DEF OneAtATime
    <2>2. TornOnce(seen[r])'
      <3>1. TornOnce(seen[r])
        BY <1>2 DEF Inv, ResolverKnows
      <3> SUFFICES ASSUME Calm', NEW k \in DOMAIN seen'[r], seen'[r][k] = <<"invalid">>
                   PROVE  Part \subseteq present[k]
        BY <1>4 DEF TornOnce
      <3>2. CASE k = m
        BY <1>3, <3>2
      <3>3. CASE k # m
        BY <1>3, <1>4, <3>1, <3>3 DEF TornOnce
      <3> QED BY <3>2, <3>3
    <2>3. ASSUME confirmed[r] # None PROVE TornOnce(confirmed[r])'
      <3>1. TornOnce(confirmed[r])
        BY <2>3 DEF Inv, ResolverKnows
      <3> QED BY <1>1, <1>4, <3>1 DEF TornOnce
    <2>4. ASSUME pc[r] \in {"again", "final"} PROVE FindsParts(r)'
      <3> SUFFICES ASSUME Calm', NEW k \in DOMAIN confirmed[r], confirmed[r][k] = <<"invalid">>,
                          k \in DOMAIN seen'[r]
                   PROVE  seen'[r][k] # <<"invalid">>
        BY <1>1 DEF FindsParts
      <3>1. CASE k = m
        BY <1>3, <2>4, <3>1
      <3>2. CASE k # m
        BY <1>3, <1>4, <2>4, <3>2 DEF Inv, ResolverKnows, FindsParts
      <3> QED BY <3>1, <3>2
    <2> QED BY <1>1, <1>2, <1>3, <1>4, <2>1, <2>2, <2>3, <2>4 DEF Inv, ResolverKnows, evidence, Pass
  <1>6. pc[r] \in ResolverPC \ {"ensure", "returned"}
    BY <1>2 DEF Pass, ResolverPC
  <1> QED BY <1>1, <1>2, <1>3, <1>5, <1>6, Looked DEF To, Inv, TypeOK

LEMMA ReadMemberInv ==
  ASSUME Inv, NEW r \in Resolver, NEW m \in Release, ReadMember(r, m)
  PROVE  Inv'
  <1>1. /\ m \in Member /\ Reading(r, m) /\ heads[r] = {} /\ outage' = outage /\ outage \in BOOLEAN
        /\ \A s \in {"invalid", "completed"} : <<s>> \in MemberStatus
    BY DEF ReadMember, Reading, Inv, TypeOK, MemberStatus
  <1>2. CASE m \in drifted /\ SeeMember(r, m, <<"invalid">>) /\ UNCHANGED heads
    <2>1. ~Calm'
      BY <1>2 DEF SeeMember, stores, Calm
    <2> QED BY <1>1, <1>2, <2>1, Settled DEF Inv, TypeOK
  <1>3. CASE SeeMember(r, m, <<"completed">>) /\ UNCHANGED heads
    <2>1. <<"completed">> # <<"invalid">>
      OBVIOUS
    <2> QED BY <1>1, <1>3, <2>1, Settled DEF Inv, TypeOK
  <1>4. CASE /\ heads' = [heads EXCEPT ![r] = {m} \cup (present[m] \ {Commit})]
             /\ UNCHANGED <<plan, stores, evidence, pc, found, execution, seen, confirmed>>
    <2>1. pc[r] \in Pass /\ m \in Member \ DOMAIN seen[r] /\ pc' = [pc EXCEPT ![r] = pc[r]]
      BY <1>1, <1>4 DEF Reading, Inv, TypeOK
    <2>2. present[m] \ {Commit} \subseteq Part
      BY <1>1, MembersAreReleases DEF Inv, TypeOK, Object
    <2>3. /\ heads'[r] = {m} \cup (present[m] \ {Commit})
          /\ heads' \in [Resolver -> SUBSET (Release \cup Part)]
          /\ \A q \in Resolver \ {r} : heads'[q] = heads[q]
      BY <1>4, <2>2 DEF Inv, TypeOK
    <2>4. Member' = Member /\ Calm' = Calm /\ present' = present
      BY <1>1, <1>4 DEF Member, Calm, stores
    <2>5. OneAtATime(r)'
      BY <1>4, <2>1, <2>2, <2>3, <2>4 DEF OneAtATime
    <2>6. TornOnce(seen[r])' /\ (confirmed[r] # None => TornOnce(confirmed[r])')
      BY <1>4, <2>1, <2>4 DEF Inv, ResolverKnows, TornOnce
    <2>7. ASSUME pc[r] \in {"again", "final"} PROVE FindsParts(r)'
      <3>1. FindsParts(r) /\ DOMAIN confirmed[r] = Member /\ TornOnce(confirmed[r])
        BY <2>7 DEF Inv, ResolverKnows
      <3> SUFFICES ASSUME Calm, NEW k \in Member, confirmed[r][k] = <<"invalid">>, k \in heads'[r]
                   PROVE  Part \subseteq heads'[r]
        BY <1>4, <2>4, <3>1 DEF FindsParts
      <3>2. k = m
        BY <2>2, <2>3, MembersAreReleases, ReleaseMirrorAssumption DEF Inv
      <3>3. Part \subseteq present[m]
        BY <3>1, <3>2 DEF TornOnce
      <3> QED BY <2>3, <3>3, ReleaseMirrorAssumption
    <2>8. ResolverKnows(r)'
      BY <1>4, <2>1, <2>4, <2>5, <2>6, <2>7 DEF Inv, ResolverKnows, Pass, evidence
    <2>9. pc[r] \in ResolverPC \ {"ensure", "returned"} /\ Sound(found'[r]) /\ r \in Caller
      BY <1>4, <2>1 DEF Pass, ResolverPC, Inv, Caller
    <2> QED BY <1>1, <1>4, <2>1, <2>3, <2>8, <2>9, Looked DEF To, Inv, TypeOK
  <1> QED BY <1>2, <1>3, <1>4 DEF ReadMember

LEMMA ReadCommitInv ==
  ASSUME Inv, NEW r \in Resolver, NEW m \in Release, ReadCommit(r, m) \/ ReadFails(r, m)
  PROVE  Inv'
  <1>1. /\ m \in Member /\ Reading(r, m)
        /\ heads' = [heads EXCEPT ![r] = {}]
    BY DEF ReadCommit, ReadFails, Reading
  <1>2. /\ heads' \in [Resolver -> SUBSET (Release \cup Part)] /\ heads'[r] = {}
        /\ \A q \in Resolver \ {r} : heads'[q] = heads[q]
    BY <1>1 DEF Inv, TypeOK
  <1>3. CASE ReadCommit(r, m)
    <2> DEFINE s == MemberState(m, heads[r] \cap Part, Commit \in present[m])
    <2>1. /\ s \in MemberStatus
          /\ (Calm /\ s = <<"invalid">>) =>
               Commit \in present[m] /\ Commit \notin plan[m] /\ ~(Part \subseteq heads[r] \cap Part)
      <3>1. heads[r] \cap Part \in SUBSET Part /\ (Commit \in present[m]) \in BOOLEAN
        OBVIOUS
      <3> QED BY <1>1, <3>1, MemberStates
    <2>2. SeeMember(r, m, s) /\ outage' = outage /\ m \in heads[r]
      BY <1>3 DEF ReadCommit
    <2>3. Calm' = Calm
      BY <2>2 DEF SeeMember, stores, Calm
    <2> HIDE DEF s
    <2>4. (Calm' /\ s = <<"invalid">>) =>
            /\ Part \subseteq present[m]
            /\ pc[r] \in {"again", "final"} => confirmed[r][m] # <<"invalid">>
      <3> SUFFICES ASSUME Calm, s = <<"invalid">>
                   PROVE  /\ Part \subseteq present[m]
                          /\ pc[r] \in {"again", "final"} => confirmed[r][m] # <<"invalid">>
        BY <2>3
      <3>1. Part \subseteq present[m]
        BY <1>1, <2>1 DEF Inv, Copied
      <3>2. ASSUME pc[r] \in {"again", "final"} PROVE confirmed[r][m] # <<"invalid">>
        BY <1>1, <2>1, <2>2, <3>2 DEF Inv, ResolverKnows, FindsParts
      <3> QED BY <3>1, <3>2
    <2> QED BY <1>1, <1>2, <2>1, <2>2, <2>4, Settled DEF Inv, TypeOK
  <1>4. CASE ReadFails(r, m)
    <2>1. ~Calm' /\ outage' = TRUE /\ SeeMember(r, m, <<"invalid">>) /\ <<"invalid">> \in MemberStatus
      BY <1>4 DEF ReadFails, Calm, MemberStatus
    <2> QED BY <1>1, <1>2, <2>1, Settled
  <1> QED BY <1>3, <1>4

LEMMA PassEndsInv ==
  ASSUME Inv, NEW r \in Resolver, PassEnds(r)
  PROVE  Inv'
  <1>1. /\ r \in Caller /\ pc[r] \in Pass /\ DOMAIN seen[r] = Member
        /\ UNCHANGED <<plan, stores, evidence, execution, heads, outage>>
        /\ seen' = [seen EXCEPT ![r] = <<>>]
    BY DEF PassEnds, Caller
  <1>2. /\ heads[r] = {} /\ TornOnce(seen[r]) /\ plan # None /\ intent # None
        /\ seen[r] \in BatchStatus /\ seen[r] # None
    BY <1>1, ReleaseMirrorAssumption DEF Inv, TypeOK, ResolverKnows, OneAtATime, Pass
  <1>3. /\ seen' \in [Resolver -> BatchStatus] /\ seen'[r] = <<>> /\ heads'[r] = {}
        /\ \A q \in Resolver \ {r} : seen'[q] = seen[q] /\ heads'[q] = heads[q]
    BY <1>1, <1>2, EmptyStatus DEF Inv, TypeOK
  <1>4. CASE Raise(r) /\ UNCHANGED confirmed
    BY <1>1, <1>3, <1>4, Raised DEF Inv, TypeOK
  <1> DEFINE next == CASE pc[r] = "look" -> "confirmed"
                       [] pc[r] = "again" -> "final"
                       [] pc[r] = "final" -> "publish"
  <1>5. CASE /\ To(r, next) /\ Eligible(seen[r]) /\ (pc[r] # "look" => seen[r] = confirmed[r])
             /\ confirmed' = [confirmed EXCEPT ![r] = seen[r]]
             /\ found' = [found EXCEPT ![r] = IF pc[r] = "final" THEN Resolution(r) ELSE None]
    <2>1. /\ next \in {"confirmed", "final", "publish"}
          /\ next = "publish" <=> pc[r] = "final"
      BY <1>1 DEF Pass
    <2> HIDE DEF next
    <2>2. pc'[r] = next
      BY <1>1, <1>5 DEF To, Inv, TypeOK
    <2>3. /\ confirmed'[r] = seen[r] /\ confirmed' \in [Resolver -> BatchStatus \cup {None}]
          /\ \A q \in Resolver \ {r} : confirmed'[q] = confirmed[q]
      BY <1>2, <1>5 DEF Inv, TypeOK
    <2>4. ASSUME pc[r] = "final"
          PROVE  Resolution(r) \in Decision /\ Resolution(r) # None /\ Sound(Resolution(r))
      <3>1. Resolution(r) = [kind |-> "resolved", by |-> r, status |-> seen[r]] /\ FindsParts(r)
        BY <1>5, <2>4 DEF Resolution, Inv, ResolverKnows
      <3>2. Resolution(r) \in Decision /\ Resolution(r) # None
        BY <1>2, <3>1, ReleaseMirrorAssumption DEF Decision
      <3>3. Calm => \A m \in Member : seen[r][m] = <<"pending">>
        BY <1>1, <1>5, <2>4, <3>1 DEF FindsParts, Eligible
      <3> QED BY <1>1, <1>2, <3>1, <3>2, <3>3 DEF Sound
    <2>5. /\ found' \in [Caller -> Decision \cup {None}] /\ Sound(found'[r])
          /\ pc[r] = "final" => found'[r] # None
          /\ \A c \in Caller \ {r} : found'[c] = found[c]
      <3>1. found'[r] = IF pc[r] = "final" THEN Resolution(r) ELSE None
        BY <1>1, <1>5 DEF Inv, TypeOK
      <3>2. Sound(None)
        BY DEF Sound
      <3>3. Sound(found'[r]) /\ (pc[r] = "final" => found'[r] # None)
        BY <2>4, <3>1, <3>2
      <3>4. (IF pc[r] = "final" THEN Resolution(r) ELSE None) \in Decision \cup {None}
        BY <2>4
      <3> QED BY <1>5, <3>3, <3>4 DEF Inv, TypeOK
    <2>6. TornOnce(confirmed[r])' /\ Member' = Member
      BY <1>1, <1>2, <2>3 DEF TornOnce, Calm, stores, Member
    <2>7. OneAtATime(r)' /\ TornOnce(seen[r])' /\ FindsParts(r)'
      BY <1>3, EmptyStatus DEF OneAtATime, TornOnce, FindsParts
    <2>8. ResolverKnows(r)'
      BY <1>1, <1>2, <1>3, <2>1, <2>2, <2>3, <2>5, <2>6, <2>7, EmptyStatus
      DEF ResolverKnows, ResolverPC, Pass, evidence
    <2>9. next \in ResolverPC \ {"ensure", "returned"} /\ outage' \in BOOLEAN /\ (outage => outage')
          /\ heads' \in [Resolver -> SUBSET (Release \cup Part)]
      BY <1>1, <2>1 DEF ResolverPC, Inv, TypeOK
    <2> QED BY <1>1, <1>3, <1>5, <2>3, <2>5, <2>8, <2>9, Looked
  <1> QED BY <1>4, <1>5 DEF PassEnds

-----------------------------------------------------------------------------
(* Every step                                                                *)

LEMMA ExecuteInv ==
  ASSUME Inv, NEW x \in Executor, Execute(x)
  PROVE  Inv'
  BY BeginInv, PutIntentInv, MemberInv, JoinInv, BuildInv DEF Execute

LEMMA OperateInv ==
  ASSUME Inv, NEW r \in Resolver, Operate(r)
  PROVE  Inv'
  BY StartInv, PassEndsInv, ResolveInv, LedgerInv, ReadMemberInv, ReadCommitInv DEF Operate

LEMMA StutterInv ==
  ASSUME Inv, UNCHANGED vars
  PROVE  Inv'
  <1>1. UNCHANGED <<plan, present, drifted, record, intent, decision, sidecar, pc, found,
                    at, thread, seen, heads, confirmed, outage>>
    BY DEF vars, stores, evidence, execution, resolution
  <1>2. Grows /\ Copied' /\ TypeOK'
    BY <1>1, SameStores DEF Inv, TypeOK
  <1>3. Sound(decision)' /\ Sound(sidecar)' /\ \A c \in Caller : Sound(found[c])'
    BY <1>1, <1>2, SoundStands DEF Inv
  <1>4. \A x \in Executor : ExecutorKnows(x)'
    BY <1>1, <1>2, ExecutorStands DEF Inv
  <1>5. \A r \in Resolver : ResolverKnows(r)'
    BY <1>1, <1>2, ResolverStands DEF Inv
  <1> QED BY <1>1, <1>2, <1>3, <1>4, <1>5 DEF Inv

LEMMA NextInv == Inv /\ [Next]_vars => Inv'
  <1> SUFFICES ASSUME Inv, [Next]_vars PROVE Inv'
    OBVIOUS
  <1>1. ASSUME NEW c \in Caller,
               \/ ReadDecision(c) \/ ReadSidecars(c) \/ PublishDecision(c) \/ EnsureSidecar(c)
               \/ Crash(c)
        PROVE  Inv'
    BY <1>1, ReadEvidenceInv, PublishInv, SidecarInv, CrashInv
  <1> QED BY <1>1, PlanInv, DriftInv, ExecuteInv, OperateInv, StutterInv DEF Next

LEMMA Inductive == Spec => []Inv
  BY InitInv, NextInv, PTL DEF Spec

-----------------------------------------------------------------------------
(* Theorems                                                                  *)

\* A batch, its evidence and its callers keep what they are made of.
THEOREM TypeCorrect == Spec => []TypeOK
  <1>1. Inv => TypeOK
    BY DEF Inv
  <1> QED BY <1>1, Inductive, PTL

\* A completed batch has the record and the whole release of every member.
THEOREM CompletedIsWhole == Spec => []MirroredWhole
  <1>1. Inv => MirroredWhole
    BY MembersAreReleases DEF Inv, Sound, Copied, MirroredWhole
  <1> QED BY <1>1, Inductive, PTL

\* Every executor that finishes the batch builds the record that was decided.
THEOREM OneBatchRecord == Spec => []ExecutorsAgree
  <1>1. Inv => ExecutorsAgree
    BY DEF Inv, ExecutorKnows, Sound, Caller, ExecutorsAgree
  <1> QED BY <1>1, Inductive, PTL

\* A batch is not abandoned because its executors are still copying.
THEOREM CopyingIsNoFault == Spec => []AbandonedFairly
  <1>1. Inv => AbandonedFairly
    BY DEF Inv, Sound, Calm, TypeOK, AbandonedFairly
  <1> QED BY <1>1, Inductive, PTL

-----------------------------------------------------------------------------
(* The refinement of DecideOnce                                              *)

Others(c) == \A d \in Caller \ {c} : pc'[d] = pc[d] /\ found'[d] = found[d]

\* A call that has not returned has no answer.
LEMMA NoAnswer ==
  ASSUME NEW c \in Caller, pc[c] # "returned", pc'[c] # "returned", Others(c)
  PROVE  UNCHANGED [d \in Caller |-> Returned(d)]
  BY DEF Returned, Others

LEMMA StartsAnew ==
  ASSUME NEW c \in Caller, pc'[c] # "returned", decision' = decision, Others(c)
  PROVE  D!Next
  BY DEF Returned, Others, D!Answer, D!Next

\* A step of one caller, who has not returned when it ends.
LEMMA Goes ==
  ASSUME Inv, NEW c \in Caller, NEW l, l # "returned", To(c, l), decision' = decision,
         \A d \in Caller \ {c} : found'[d] = found[d]
  PROVE  D!Next
  <1>1. pc'[c] = l /\ Others(c)
    BY DEF To, Inv, TypeOK, Others
  <1> QED BY <1>1, StartsAnew

LEMMA Raises ==
  ASSUME Inv, NEW c \in Caller, Raise(c), decision' = decision
  PROVE  D!Next
  <1>1. \A d \in Caller \ {c} : found'[d] = found[d]
    BY DEF Raise, Inv, TypeOK
  <1>2. PICK l \in {"confirmed", "idle"} : To(c, l)
    BY DEF Raise
  <1> QED BY <1>1, <1>2, Goes

LEMMA StaysPut ==
  ASSUME Inv, UNCHANGED <<pc, found, decision>>
  PROVE  UNCHANGED D!vars
  BY DEF Returned, D!vars

LEMMA ExecuteRefines ==
  ASSUME Inv, NEW x \in Executor, Execute(x)
  PROVE  [D!Next]_(D!vars)
  <1>1. x \in Caller
    BY DEF Caller
  <1>2. ASSUME NEW t \in Time, Begin(x, t) PROVE D!Next
    BY <1>1, <1>2, Goes DEF Begin, evidence, Inv, TypeOK
  <1>3. CASE PutIntent(x)
    BY <1>1, <1>3, Goes DEF PutIntent, Inv, TypeOK
  <1>4. CASE JoinMembers(x)
    BY <1>1, <1>4, Goes, Raises DEF JoinMembers, evidence, Inv, TypeOK
  <1>5. CASE BuildBatchRecord(x)
    BY <1>1, <1>5, Goes, Raises DEF BuildBatchRecord, evidence, Inv, TypeOK
  <1>6. ASSUME NEW m \in Release,
               \/ StartMember(x, m) \/ PartsCopied(x, m) \/ CopyCommit(x, m) \/ PutMemberRecord(x, m)
               \/ \E o \in Part : CopyPart(x, m, o)
        PROVE  UNCHANGED D!vars
    BY <1>6, StaysPut
    DEF StartMember, PartsCopied, CopyCommit, PutMemberRecord, CopyPart, ThreadTo, evidence
  <1> QED BY <1>2, <1>3, <1>4, <1>5, <1>6 DEF Execute

LEMMA OperateRefines ==
  ASSUME Inv, NEW r \in Resolver, Operate(r)
  PROVE  [D!Next]_(D!vars)
  <1>1. r \in Caller
    BY DEF Caller
  <1>2. CASE StartLook(r) \/ Resolve(r) \/ CountRecords(r)
    BY <1>1, <1>2, Goes DEF StartLook, Resolve, CountRecords, evidence, Inv, TypeOK
  <1>3. CASE LedgerEntry(r)
    <2>1. PICK l \in {"torn", "idle"} : To(r, l)
      BY <1>3 DEF LedgerEntry
    <2> QED BY <1>1, <1>3, <2>1, Goes DEF LedgerEntry, evidence
  <1>4. CASE PassEnds(r)
    <2>1. CASE Raise(r)
      BY <1>1, <1>4, <2>1, Raises DEF PassEnds, evidence
    <2>2. CASE ~Raise(r)
      <3> DEFINE next == CASE pc[r] = "look" -> "confirmed"
                           [] pc[r] = "again" -> "final"
                           [] pc[r] = "final" -> "publish"
      <3>1. To(r, next) /\ \A c \in Caller \ {r} : found'[c] = found[c]
        BY <1>4, <2>2 DEF PassEnds, Inv, TypeOK
      <3>2. next # "returned"
        BY <1>4 DEF PassEnds, Pass
      <3> HIDE DEF next
      <3> QED BY <1>1, <1>4, <3>1, <3>2, Goes DEF PassEnds, evidence
    <2> QED BY <2>1, <2>2
  <1>5. ASSUME NEW m \in Release, ReadMember(r, m) \/ ReadCommit(r, m) \/ ReadFails(r, m)
        PROVE  UNCHANGED D!vars
    BY <1>5, StaysPut DEF ReadMember, ReadCommit, ReadFails, SeeMember, evidence
  <1> QED BY <1>2, <1>3, <1>4, <1>5 DEF Operate

LEMMA EvidenceRefines ==
  ASSUME Inv, NEW c \in Caller,
         \/ ReadDecision(c) \/ ReadSidecars(c) \/ PublishDecision(c) \/ EnsureSidecar(c) \/ Crash(c)
  PROVE  [D!Next]_(D!vars)
  <1>1. CASE ReadDecision(c)
    BY <1>1, Goes DEF ReadDecision, evidence, Inv, TypeOK
  <1>2. CASE ReadSidecars(c)
    <2>1. decision' = decision
      BY <1>2 DEF ReadSidecars, evidence
    <2>2. CASE Raise(c)
      BY <2>1, <2>2, Raises
    <2>3. CASE ~Raise(c)
      <3>1. PICK l \in {"members", "again", "publish"} : To(c, l)
        BY <1>2, <2>3 DEF ReadSidecars
      <3>2. \A d \in Caller \ {c} : found'[d] = found[d]
        BY <1>2, <2>3 DEF ReadSidecars, Inv, TypeOK
      <3> QED BY <2>1, <3>1, <3>2, Goes
    <2> QED BY <2>2, <2>3
  <1>3. CASE PublishDecision(c)
    <2>1. CASE decision' = decision
      BY <1>3, <2>1, Goes, Raises DEF PublishDecision
    <2>2. CASE decision = None /\ decision' # decision
      <3>1. pc[c] = "publish" /\ pc'[c] = "ensure" /\ Others(c) /\ decision' = found[c]
        BY <1>3, <2>2 DEF PublishDecision, To, Others, Inv, TypeOK
      <3>2. UNCHANGED [d \in Caller |-> Returned(d)]
        BY <3>1, NoAnswer
      <3> QED BY <2>2, <3>2 DEF D!Decide, D!Next
    <2> QED BY <1>3, <2>1, <2>2 DEF PublishDecision
  <1>4. CASE EnsureSidecar(c)
    <2>1. decision' = decision
      BY <1>4 DEF EnsureSidecar
    <2>2. CASE Raise(c)
      BY <2>1, <2>2, Raises
    <2>3. CASE pc' = [pc EXCEPT ![c] = "returned"] /\ UNCHANGED found
      <3>1. decision # None /\ found[c] = decision
        BY <1>4 DEF EnsureSidecar, Inv, ExecutorKnows, ResolverKnows, Caller
      <3>2. [d \in Caller |-> Returned(d)]' = [[d \in Caller |-> Returned(d)] EXCEPT ![c] = decision]
        BY <2>3, <3>1 DEF Returned, Inv, TypeOK
      <3> QED BY <2>1, <3>1, <3>2 DEF D!Answer, D!Next
    <2> QED BY <1>4, <2>2, <2>3 DEF EnsureSidecar, To
  <1>5. CASE Crash(c)
    BY <1>5, Raises DEF Crash, evidence
  <1> QED BY <1>1, <1>2, <1>3, <1>4, <1>5

\* A batch is one decision, made once, and every call that returns an outcome
\* returns it, whoever crashes, drifts or races meanwhile.
THEOREM ImplementsDecideOnce == Spec => DecidesOnce
  <1>1. Init => D!Init
    BY DEF Init, Returned, D!Init
  <1>2. Inv /\ [Next]_vars => [D!Next]_(D!vars)
    <2> SUFFICES ASSUME Inv, [Next]_vars PROVE [D!Next]_(D!vars)
      OBVIOUS
    <2>1. CASE PlanBatch \/ (\E m \in Release : Drift(m)) \/ UNCHANGED vars
      BY <2>1, StaysPut DEF PlanBatch, Drift, vars, evidence
    <2> QED BY <2>1, ExecuteRefines, OperateRefines, EvidenceRefines DEF Next
  <1> QED BY <1>1, <1>2, Inductive, PTL DEF Spec, DecidesOnce, D!Spec

-----------------------------------------------------------------------------
(* The release of a run, published or collected.                            *)

Uploaded ==
  /\ \A p \in Publisher : verified[p] \subseteq placed[p]
  /\ \A p \in Publisher :
       ManifestOf[LayoutOf[p]] \in placed[p] => ChunksOf[LayoutOf[p]] \subseteq verified[p]
  /\ \A p \in Publisher :
       ppc[p] \in {"commit", "check"} => ObjectsOf(LayoutOf[p]) \subseteq verified[p]

Standing ==
  /\ ~Tombstoned => \A p \in Publisher : verified[p] \subseteq Present
  /\ commitKey \in Layout => Complete(commitKey)
  /\ \A p \in Publisher : ppc[p] = "published" => commitKey \in Layout

Publishing == Uploaded /\ Standing

\* The collector has its tombstone.
Resumed == {"record", "list", "delete", "report"}

Gone(k, preview) == version[k] > preview[k]

\* A preview names objects that were there, by versions that were.
Past(preview) == \A k \in DOMAIN preview : preview[k] % 2 = 1 /\ preview[k] <= version[k]

Owned ==
  /\ \A g \in Collector : gpc[g] \in Resumed => SameCommand(g)
  /\ \A g \in Collector : targets[g] \subseteq DOMAIN approved[g]
  /\ \A g \in Collector : checked[g] # Nothing => checked[g] \in targets[g]
  /\ \A g \in Collector : gpc[g] # "delete" => targets[g] = {}

Cleared ==
  /\ \A g \in Collector : Past(approved[g])
  /\ \A g \in Collector : gpc[g] = "delete" =>
       \A k \in DOMAIN approved[g] : k \in targets[g] \/ Gone(k, approved[g])
  /\ \A g \in Collector : gpc[g] = "report" =>
       \A k \in DOMAIN approved[g] : Gone(k, approved[g])
  /\ recorded => Tombstoned /\ \A k \in DOMAIN commitKey.preview : Gone(k, commitKey.preview)

\* Objects that are there were created within the bound.
Bounded == \A k \in Present : version[k] <= MaxVersion

TransportInv == TransportTypeOK /\ Bounded /\ Publishing /\ Owned /\ Cleared

-----------------------------------------------------------------------------
LEMMA Objects ==
  ASSUME NEW p \in Publisher
  PROVE  /\ LayoutOf[p] \in Layout
         /\ ObjectsOf(LayoutOf[p]) \subseteq Key
         /\ ManifestOf[LayoutOf[p]] \in Key
         /\ ChunksOf[LayoutOf[p]] \subseteq Key
         /\ ManifestOf[LayoutOf[p]] \notin ChunksOf[LayoutOf[p]]
  BY ReleaseTransportAssumption DEF ObjectsOf, Key

LEMMA Previews ==
  ASSUME NEW preview \in Preview
  PROVE  /\ DOMAIN preview \subseteq Key
         /\ preview \in [DOMAIN preview -> 0..MaxVersion + 2]
         /\ Tombstone(preview) \notin Layout \cup {Nothing}
         /\ Tombstone(preview).preview = preview
  BY ReleaseTransportAssumption DEF Preview, Tombstone

LEMMA Constants == MaxVersion \in Nat /\ Nothing \notin Layout /\ Nothing \notin Key
  BY ReleaseTransportAssumption

LEMMA TransportInitInv == TransportInit => TransportInv
  <1> SUFFICES ASSUME TransportInit PROVE TransportInv
    OBVIOUS
  <1>1. NoPreview \in Preview /\ DOMAIN NoPreview = {}
    <2>1. NoPreview \in [{} -> 0..MaxVersion + 2] /\ DOMAIN NoPreview = {}
      BY DEF NoPreview
    <2>2. {} \in SUBSET Key
      OBVIOUS
    <2> QED BY <2>1, <2>2 DEF Preview
  <1>2. TransportTypeOK
    <2>1. 0 \in 0..MaxVersion + 2
      BY Constants
    <2> QED BY <1>1, <2>1 DEF TransportInit, TransportTypeOK, PPC, GPC
  <1>3. Present = {}
    BY DEF TransportInit, Present
  <1>4. Bounded /\ Publishing
    BY <1>3, Constants
    DEF TransportInit, Bounded, Publishing, Uploaded, Standing, Tombstoned
  <1>5. Owned /\ Cleared
    BY <1>1 DEF TransportInit, Owned, Cleared, Resumed, Past
  <1> QED BY <1>2, <1>4, <1>5 DEF TransportInv

-----------------------------------------------------------------------------
(* What steps leave alone. *)

\* The collectors' half depends on no publisher.
LEMMA CollectingKept ==
  ASSUME TransportInv, UNCHANGED <<version, commitKey, recorded, collectors>>
  PROVE  Bounded' /\ Owned' /\ Cleared'
  BY DEF TransportInv, Bounded, Owned, Cleared, Present, SameCommand, Tombstoned, Gone, Past,
     collectors

\* The publishers' half depends on no collector.
LEMMA PublishingKept ==
  ASSUME TransportInv, UNCHANGED <<version, commitKey, publishers>>
  PROVE  Publishing'
  BY DEF TransportInv, Publishing, Uploaded, Standing, Present, Complete, Tombstoned, publishers

\* A publisher that ends holds nothing, and publishes only what is decided.
LEMMA Ending ==
  ASSUME TransportInv, NEW p \in Publisher, NEW l \in {"failed", "published"},
         PublisherEnds(p, l), UNCHANGED <<version, commitKey>>,
         l = "published" => commitKey \in Layout
  PROVE  TransportInv'
  <1>1. TransportTypeOK'
    BY DEF TransportInv, TransportTypeOK, PublisherEnds, PublisherTo, PPC, collectors
  <1>2. Uploaded'
    BY Objects DEF TransportInv, TransportTypeOK, Publishing, Uploaded, PublisherEnds,
       PublisherTo
  <1>3. Standing'
    BY DEF TransportInv, TransportTypeOK, Publishing, Standing, PublisherEnds, PublisherTo,
       Present, Complete, Tombstoned
  <1>4. Bounded' /\ Owned' /\ Cleared'
    BY CollectingKept DEF PublisherEnds, PublisherTo
  <1> QED BY <1>1, <1>2, <1>3, <1>4 DEF TransportInv, Publishing

\* A collector that fails holds nothing but its preview.
LEMMA Failing ==
  ASSUME TransportInv, NEW g \in Collector, CollectorFails(g), UNCHANGED <<version, commitKey>>
  PROVE  TransportInv'
  <1>1. TransportTypeOK'
    BY DEF TransportInv, TransportTypeOK, CollectorFails, CollectorTo, GPC, publishers
  <1>2. Publishing'
    BY PublishingKept DEF CollectorFails, CollectorTo
  <1>3. Bounded' /\ Owned'
    BY Previews
    DEF TransportInv, TransportTypeOK, Bounded, Owned, CollectorFails, CollectorTo, Present,
    SameCommand, Tombstoned, Resumed
  <1>4. Cleared'
    BY DEF TransportInv, TransportTypeOK, Cleared, CollectorFails, CollectorTo, Past, Gone,
       Tombstoned
  <1> QED BY <1>1, <1>2, <1>3, <1>4 DEF TransportInv

-----------------------------------------------------------------------------
(* Publishers *)

LEMMA PublishStartStep ==
  ASSUME TransportInv, NEW p \in Publisher, PublishStart(p)
  PROVE  TransportInv'
  <1>1. CASE commitKey = Nothing /\ PublisherTo(p, "upload") /\ UNCHANGED <<placed, verified>>
    <2>0. UNCHANGED <<version, commitKey>>
      BY DEF PublishStart
    <2>1. TransportTypeOK'
      BY <1>1, <2>0 DEF TransportInv, TransportTypeOK, PublisherTo, PPC, collectors
    <2>2. Publishing'
      BY <1>1, <2>0 DEF TransportInv, TransportTypeOK, Publishing, Uploaded, Standing,
         PublisherTo, Present, Complete, Tombstoned
    <2>3. Bounded' /\ Owned' /\ Cleared'
      BY <1>1, <2>0, CollectingKept DEF PublisherTo
    <2> QED BY <2>1, <2>2, <2>3 DEF TransportInv
  <1>2. CASE commitKey \in Layout /\ Complete(commitKey) /\ PublisherEnds(p, "published")
    BY <1>2, Ending DEF PublishStart
  <1>3. CASE PublisherEnds(p, "failed")
    BY <1>3, Ending DEF PublishStart
  <1> QED BY <1>1, <1>2, <1>3 DEF PublishStart

LEMMA PutObjectStep ==
  ASSUME TransportInv, NEW p \in Publisher, NEW k \in Key, PutObject(p, k)
  PROVE  TransportInv'
  <1>1. \A j \in Key : version'[j] \in 0..MaxVersion + 2 /\ version'[j] >= version[j]
    BY Constants DEF TransportInv, TransportTypeOK, PutObject
  <1>2. TransportTypeOK'
    <2>1. version' \in [Key -> 0..MaxVersion + 2]
      BY <1>1, Constants DEF TransportInv, TransportTypeOK, PutObject
    <2>2. placed' \in [Publisher -> SUBSET Key]
      BY DEF TransportInv, TransportTypeOK, PutObject
    <2> QED BY <2>1, <2>2 DEF TransportInv, TransportTypeOK, PutObject, collectors
  <1>3. Present \subseteq Present' /\ Bounded'
    <2>1. CASE UNCHANGED version
      BY <2>1 DEF TransportInv, Bounded, Present
    <2>2. CASE k \notin Present /\ version[k] < MaxVersion
               /\ version' = [version EXCEPT ![k] = @ + 1]
      BY <2>2, Constants DEF TransportInv, TransportTypeOK, Bounded, Present
    <2> QED BY <2>1, <2>2 DEF PutObject
  <1>4. Publishing'
    <2>1. Uploaded'
      BY Objects
      DEF TransportInv, TransportTypeOK, Publishing, Uploaded, PutObject, MayPlace, ObjectsOf
    <2>2. Standing'
      BY <1>3 DEF TransportInv, TransportTypeOK, Publishing, Standing, PutObject, Complete,
         Tombstoned
    <2> QED BY <2>1, <2>2 DEF Publishing
  <1>5. Owned'
    BY DEF TransportInv, Owned, PutObject, SameCommand, Tombstoned, collectors
  <1>6. Cleared'
    <2>1. ASSUME NEW preview \in Preview
          PROVE  /\ Past(preview) => Past(preview)'
                 /\ \A j \in DOMAIN preview : Gone(j, preview) => Gone(j, preview)'
      BY <1>1, Previews, Constants DEF Past, Gone, TransportInv, TransportTypeOK
    <2>2. Tombstoned => commitKey.preview \in Preview
      BY DEF TransportInv, TransportTypeOK, Tombstoned
    <2> QED BY <2>1, <2>2 DEF TransportInv, TransportTypeOK, Cleared, PutObject, Tombstoned,
    Gone, Past, collectors
  <1> QED BY <1>2, <1>3, <1>4, <1>5, <1>6 DEF TransportInv

LEMMA ReadBackStep ==
  ASSUME TransportInv, NEW p \in Publisher, NEW k \in Key, ReadBack(p, k)
  PROVE  TransportInv'
  <1>1. CASE k \in Present
    <2> DEFINE l == IF k = ManifestOf[LayoutOf[p]] THEN "commit" ELSE "upload"
    <2>0. /\ verified' = [verified EXCEPT ![p] = @ \cup {k}]
          /\ PublisherTo(p, l) /\ UNCHANGED <<placed, version, commitKey>>
      BY <1>1 DEF ReadBack
    <2>1. TransportTypeOK'
      BY <2>0 DEF TransportInv, TransportTypeOK, PublisherTo, PPC, collectors
    <2>2. Uploaded'
      BY <2>0, Objects
      DEF TransportInv, TransportTypeOK, Publishing, Uploaded, ReadBack, PublisherTo, ObjectsOf
    <2>3. Standing'
      BY <1>1, <2>0
      DEF TransportInv, TransportTypeOK, Publishing, Standing, PublisherTo, Present, Complete,
      Tombstoned
    <2>4. Bounded' /\ Owned' /\ Cleared'
      BY <2>0, CollectingKept DEF PublisherTo
    <2> QED BY <2>1, <2>2, <2>3, <2>4 DEF TransportInv, Publishing
  <1>2. CASE k \notin Present
    BY <1>2, Ending DEF ReadBack
  <1> QED BY <1>1, <1>2

LEMMA CommitStep ==
  ASSUME TransportInv, NEW p \in Publisher, PutCommit(p)
  PROVE  TransportInv'
  <1>1. CASE commitKey \in {Nothing, LayoutOf[p]}
    <2>0. /\ commitKey' = LayoutOf[p] /\ PublisherTo(p, "check")
          /\ UNCHANGED <<placed, verified, version>>
      BY <1>1 DEF PutCommit
    <2>1. ~Tombstoned /\ ~Tombstoned' /\ LayoutOf[p] \in Layout
      BY <1>1, <2>0, Objects DEF Tombstoned
    <2>2. TransportTypeOK'
      BY <2>0, <2>1 DEF TransportInv, TransportTypeOK, PublisherTo, PPC, collectors
    <2>3. Uploaded'
      BY <2>0 DEF TransportInv, TransportTypeOK, Publishing, Uploaded, PublisherTo, PutCommit
    <2>4. Standing'
      <3>1. Complete(LayoutOf[p])
        BY <2>1 DEF TransportInv, Publishing, Uploaded, Standing, PutCommit, Complete
      <3> QED BY <2>0, <2>1, <3>1
              DEF TransportInv, TransportTypeOK, Publishing, Standing, PublisherTo, Present,
              Complete
    <2>5. Bounded' /\ Owned' /\ Cleared'
      BY <2>0, <2>1
      DEF TransportInv, TransportTypeOK, Bounded, Owned, Cleared, PublisherTo, Present,
      SameCommand, Past, Gone, Resumed, collectors
    <2> QED BY <2>2, <2>3, <2>4, <2>5 DEF TransportInv, Publishing
  <1>2. CASE commitKey \notin {Nothing, LayoutOf[p]}
    BY <1>2, Ending DEF PutCommit
  <1> QED BY <1>1, <1>2

LEMMA CheckReleaseStep ==
  ASSUME TransportInv, NEW p \in Publisher, CheckRelease(p)
  PROVE  TransportInv'
  <1>1. CASE commitKey = LayoutOf[p] /\ Complete(commitKey)
    BY <1>1, Ending, Objects DEF CheckRelease
  <1>2. CASE ~(commitKey = LayoutOf[p] /\ Complete(commitKey))
    BY <1>2, Ending DEF CheckRelease
  <1> QED BY <1>1, <1>2

LEMMA PublisherCrashStep ==
  ASSUME TransportInv, NEW p \in Publisher, PublisherCrash(p)
  PROVE  TransportInv'
  BY Ending DEF PublisherCrash

-----------------------------------------------------------------------------
(* Collectors *)

LEMMA PreviewGcStep ==
  ASSUME TransportInv, NEW g \in Collector, PreviewGc(g)
  PROVE  TransportInv'
  <1>1. /\ Snapshot \in Preview
        /\ \A k \in DOMAIN Snapshot : Snapshot[k] % 2 = 1 /\ Snapshot[k] = version[k]
    <2>1. Present \in SUBSET Key /\ version \in [Key -> 0..MaxVersion + 2]
      BY DEF TransportInv, TransportTypeOK, Present
    <2>2. \A k \in Present : version[k] \in 0..MaxVersion + 2
      BY <2>1
    <2>3. Snapshot \in [Present -> 0..MaxVersion + 2]
      BY <2>2 DEF Snapshot
    <2>4. \A k \in Present : version[k] % 2 = 1
      BY DEF Present
    <2> QED BY <2>1, <2>3, <2>4 DEF Preview, Snapshot
  <1>2. TransportTypeOK'
    BY <1>1 DEF TransportInv, TransportTypeOK, PreviewGc, CollectorTo, GPC, publishers
  <1>3. Publishing'
    BY PublishingKept DEF PreviewGc, CollectorTo
  <1>4. Bounded' /\ Owned'
    BY DEF TransportInv, TransportTypeOK, Bounded, Owned, PreviewGc, CollectorTo, Present,
       SameCommand, Tombstoned, Resumed
  <1>5. Cleared'
    <2>1. \A k \in DOMAIN Snapshot : Snapshot[k] <= version[k]
      BY <1>1, Constants DEF TransportInv, TransportTypeOK, Snapshot, Present
    <2> QED BY <1>1, <2>1 DEF TransportInv, TransportTypeOK, Cleared, PreviewGc, CollectorTo,
    Past, Gone, Tombstoned
  <1> QED BY <1>2, <1>3, <1>4, <1>5 DEF TransportInv

\* Steps that only move a collector on.
LEMMA Moving ==
  ASSUME TransportInv, NEW g \in Collector, NEW l \in GPC \ {"delete", "report"},
         CollectorTo(g, l), gpc[g] # "delete",
         UNCHANGED <<version, commitKey, approved, targets, checked>>,
         l \in Resumed => SameCommand(g)
  PROVE  TransportInv'
  <1>1. TransportTypeOK'
    BY DEF TransportInv, TransportTypeOK, CollectorTo, GPC, publishers
  <1>2. Publishing'
    BY PublishingKept DEF CollectorTo
  <1>3. Bounded' /\ Owned'
    BY DEF TransportInv, TransportTypeOK, Bounded, Owned, CollectorTo, Present, SameCommand,
       Tombstoned
  <1>4. Cleared'
    BY DEF TransportInv, TransportTypeOK, Cleared, CollectorTo, Past, Gone, Tombstoned
  <1> QED BY <1>1, <1>2, <1>3, <1>4 DEF TransportInv

LEMMA StartGcStep ==
  ASSUME TransportInv, NEW g \in Collector, StartGc(g)
  PROVE  TransportInv'
  BY Moving DEF StartGc, Resumed, GPC

LEMMA ConfirmStep ==
  ASSUME TransportInv, NEW g \in Collector, Confirm(g)
  PROVE  TransportInv'
  <1>1. CASE commitKey = Nothing /\ Snapshot = approved[g]
    BY <1>1, Moving DEF Confirm, Resumed, GPC
  <1>2. CASE ~(commitKey = Nothing /\ Snapshot = approved[g])
    BY <1>2, Failing DEF Confirm
  <1> QED BY <1>1, <1>2

LEMMA PutTombstoneStep ==
  ASSUME TransportInv, NEW g \in Collector, PutTombstone(g)
  PROVE  TransportInv'
  <1>0. approved[g] \in Preview
    BY DEF TransportInv, TransportTypeOK
  <1>1. CASE commitKey = Nothing
    <2>0. /\ commitKey' = Tombstone(approved[g]) /\ CollectorTo(g, "record")
          /\ UNCHANGED <<version, approved, targets, checked>>
      BY <1>1 DEF PutTombstone
    <2>1. Tombstoned' /\ ~Tombstoned /\ commitKey'.preview = approved[g] /\ commitKey' \notin Layout
      BY <1>0, <1>1, <2>0, Previews DEF Tombstoned
    <2>2. TransportTypeOK'
      BY <1>0, <2>0, <2>1 DEF TransportInv, TransportTypeOK, CollectorTo, GPC, publishers
    <2>3. Publishing'
      BY <1>1, <2>0, <2>1, Constants
      DEF TransportInv, Publishing, Uploaded, Standing, CollectorTo, publishers
    <2>4. Bounded' /\ Owned'
      BY <2>0, <2>1
      DEF TransportInv, TransportTypeOK, Bounded, Owned, PutTombstone, CollectorTo, Present,
      SameCommand
    <2>5. Cleared'
      BY <2>0, <2>1 DEF TransportInv, TransportTypeOK, Cleared, CollectorTo, Past, Gone
    <2> QED BY <2>2, <2>3, <2>4, <2>5 DEF TransportInv
  <1>2. CASE SameCommand(g)
    <2>1. commitKey = Tombstone(approved[g])
      BY <1>2 DEF TransportInv, TransportTypeOK, SameCommand, Tombstoned
    <2> QED BY <1>2, <2>1, Moving DEF PutTombstone, Resumed, GPC
  <1>3. CASE commitKey # Nothing /\ ~SameCommand(g)
    BY <1>3, Failing DEF PutTombstone
  <1> QED BY <1>1, <1>2, <1>3

LEMMA ReadRecordStep ==
  ASSUME TransportInv, NEW g \in Collector, ReadRecord(g)
  PROVE  TransportInv'
  <1>1. SameCommand(g)
    BY DEF TransportInv, Owned, ReadRecord, Resumed
  <1> QED BY <1>1, Moving DEF ReadRecord, Resumed, GPC

\* An object of a preview that is not there has gone since.
LEMMA AbsentGone ==
  ASSUME TransportInv, NEW preview \in Preview, Past(preview), NEW k \in DOMAIN preview, k \notin Present
  PROVE  Gone(k, preview)
  <1>1. k \in Key /\ preview[k] \in 0..MaxVersion + 2 /\ version[k] \in 0..MaxVersion + 2
    BY Previews DEF TransportInv, TransportTypeOK
  <1>2. version[k] % 2 # 1 /\ preview[k] % 2 = 1 /\ preview[k] <= version[k]
    BY <1>1 DEF Present, Past
  <1>3. version[k] # preview[k]
    BY <1>2
  <1> QED BY <1>1, <1>2, <1>3, Constants DEF Gone

LEMMA ListTargetsStep ==
  ASSUME TransportInv, NEW g \in Collector, ListTargets(g)
  PROVE  TransportInv'
  <1> DEFINE Unchanged == \A k \in Present : k \in DOMAIN approved[g] /\ version[k] = approved[g][k]
  <1>1. CASE Unchanged
    <2>0. /\ targets' = [targets EXCEPT ![g] = Present] /\ CollectorTo(g, "delete")
          /\ UNCHANGED <<version, commitKey, approved, checked>>
      BY <1>1 DEF ListTargets
    <2>1. TransportTypeOK'
      BY <2>0 DEF TransportInv, TransportTypeOK, CollectorTo, GPC, Present, publishers
    <2>2. Publishing'
      BY <2>0, PublishingKept DEF CollectorTo
    <2>3. Bounded' /\ Owned'
      BY <1>1, <2>0, Constants
      DEF TransportInv, TransportTypeOK, Bounded, Owned, ListTargets, CollectorTo, Present,
      SameCommand, Tombstoned, Resumed
    <2>4. \A k \in DOMAIN approved[g] : k \in Present \/ Gone(k, approved[g])
      BY AbsentGone DEF TransportInv, TransportTypeOK, Cleared
    <2>5. Cleared'
      BY <2>0, <2>4 DEF TransportInv, TransportTypeOK, Cleared, CollectorTo, Past, Gone,
         Tombstoned
    <2> QED BY <2>1, <2>2, <2>3, <2>5 DEF TransportInv
  <1>2. CASE ~Unchanged
    BY <1>2, Failing DEF ListTargets
  <1> QED BY <1>1, <1>2

LEMMA CheckIdentityStep ==
  ASSUME TransportInv, NEW g \in Collector, NEW k \in Key, CheckIdentity(g, k)
  PROVE  TransportInv'
  <1>0. approved[g] \in Preview /\ k \in DOMAIN approved[g] /\ k \in targets[g]
    BY DEF TransportInv, TransportTypeOK, Owned, CheckIdentity
  <1>1. CASE k \notin Present
    <2>0. /\ targets' = [targets EXCEPT ![g] = @ \ {k}] /\ CollectorTo(g, "delete")
          /\ UNCHANGED <<version, commitKey, checked, approved>>
          /\ gpc[g] = "delete" /\ checked[g] = Nothing
      BY <1>1 DEF CheckIdentity
    <2>1. TransportTypeOK'
      BY <2>0 DEF TransportInv, TransportTypeOK, CollectorTo, GPC, publishers
    <2>2. Publishing'
      BY <2>0, PublishingKept DEF CollectorTo
    <2>3. Bounded' /\ Owned'
      BY <2>0
      DEF TransportInv, TransportTypeOK, Bounded, Owned, CollectorTo, Present, SameCommand,
      Tombstoned
    <2>4. Gone(k, approved[g])
      BY <1>0, <1>1, AbsentGone DEF TransportInv, Cleared
    <2>5. Cleared'
      BY <2>0, <2>4 DEF TransportInv, TransportTypeOK, Cleared, CollectorTo, Past, Gone,
         Tombstoned
    <2> QED BY <2>1, <2>2, <2>3, <2>5 DEF TransportInv
  <1>2. CASE k \in Present /\ version[k] # approved[g][k]
    BY <1>2, Failing DEF CheckIdentity
  <1>3. CASE k \in Present /\ version[k] = approved[g][k]
    <2>0. /\ checked' = [checked EXCEPT ![g] = k] /\ CollectorTo(g, "delete")
          /\ UNCHANGED <<version, commitKey, targets, approved>>
          /\ gpc[g] = "delete"
      BY <1>3 DEF CheckIdentity
    <2>1. TransportTypeOK'
      BY <2>0 DEF TransportInv, TransportTypeOK, CollectorTo, GPC, publishers
    <2>2. Publishing'
      BY <2>0, PublishingKept DEF CollectorTo
    <2>3. Bounded' /\ Owned'
      BY <1>0, <2>0
      DEF TransportInv, TransportTypeOK, Bounded, Owned, CollectorTo, Present, SameCommand,
      Tombstoned
    <2>4. Cleared'
      BY <2>0 DEF TransportInv, TransportTypeOK, Cleared, CollectorTo, Past, Gone, Tombstoned
    <2> QED BY <2>1, <2>2, <2>3, <2>4 DEF TransportInv
  <1> QED BY <1>1, <1>2, <1>3

LEMMA DeleteStep ==
  ASSUME TransportInv, NEW g \in Collector, Delete(g)
  PROVE  TransportInv'
  <1>k. PICK k \in Key : k = checked[g]
    BY DEF TransportInv, TransportTypeOK, Delete
  <1>0. /\ approved[g] \in Preview /\ k \in DOMAIN approved[g] /\ k \in Key
        /\ k \in targets[g] /\ SameCommand(g)
    BY <1>k DEF TransportInv, TransportTypeOK, Owned, Delete, Resumed
  <1>1. \A j \in Key : /\ version'[j] \in 0..MaxVersion + 2 /\ version'[j] >= version[j]
                       /\ version'[j] % 2 = 1 => version'[j] = version[j]
    BY <1>k, Constants DEF TransportInv, TransportTypeOK, Bounded, Present, Delete
  <1>2. version' \in [Key -> 0..MaxVersion + 2]
    BY <1>1 DEF TransportInv, TransportTypeOK, Delete
  <1>3. TransportTypeOK'
    BY <1>2 DEF TransportInv, TransportTypeOK, Delete, CollectorTo, GPC, publishers
  <1>4. Publishing'
    BY <1>0 DEF TransportInv, Publishing, Uploaded, Standing, Delete, CollectorTo, Tombstoned,
       SameCommand, publishers
  <1>5. Bounded'
    BY <1>1 DEF TransportInv, Bounded, Present
  <1>6. Owned'
    BY DEF TransportInv, TransportTypeOK, Owned, Delete, CollectorTo, SameCommand, Tombstoned
  <1>7. Cleared'
    <2>1. ASSUME NEW preview \in Preview
          PROVE  /\ Past(preview) => Past(preview)'
                 /\ \A j \in DOMAIN preview : Gone(j, preview) => Gone(j, preview)'
      BY <1>1, Previews, Constants DEF Past, Gone, TransportInv, TransportTypeOK
    <2>2. Tombstoned => commitKey.preview \in Preview
      BY DEF TransportInv, TransportTypeOK, Tombstoned
    <2>3. (Gone(k, approved[g]))'
      <3>1. Past(approved[g])
        BY DEF TransportInv, Cleared
      <3>2. /\ approved[g][k] \in 0..MaxVersion + 2 /\ version[k] \in 0..MaxVersion + 2
            /\ approved[g][k] <= version[k]
        BY <1>0, <3>1, Previews DEF TransportInv, TransportTypeOK, Past
      <3>3. CASE k \in Present
        <4>1. version'[k] = version[k] + 1
          BY <1>k, <3>3 DEF TransportInv, TransportTypeOK, Present, Delete
        <4> QED BY <3>2, <4>1, Constants DEF Gone, Delete
      <3>4. CASE k \notin Present
        <4>1. version'[k] = version[k]
          BY <1>k, <3>4 DEF TransportInv, TransportTypeOK, Present, Delete
        <4>2. Gone(k, approved[g])
          BY <1>0, <3>1, <3>4, AbsentGone
        <4> QED BY <4>1, <4>2 DEF Gone, Delete
      <3> QED BY <3>3, <3>4
    <2>4. (\A h \in Collector : Past(approved[h]))'
      BY <2>1 DEF TransportInv, TransportTypeOK, Cleared, Delete
    <2>5. (\A h \in Collector : gpc[h] = "delete" =>
             \A j \in DOMAIN approved[h] : j \in targets[h] \/ Gone(j, approved[h]))'
      <3>1. \A h \in Collector : gpc[h] = "delete" =>
               \A j \in DOMAIN approved[h] : j \in targets[h] \/ Gone(j, approved[h])'
        BY <2>1 DEF TransportInv, TransportTypeOK, Cleared, Delete
      <3>2. /\ targets' = [targets EXCEPT ![g] = @ \ {k}] /\ targets \in [Collector -> SUBSET Key]
            /\ approved' = approved /\ gpc' = [gpc EXCEPT ![g] = "delete"] /\ gpc[g] = "delete"
            /\ gpc \in [Collector -> GPC]
        BY <1>k DEF TransportInv, TransportTypeOK, Delete, CollectorTo
      <3>3. \A h \in Collector : gpc'[h] = gpc[h] /\ (h # g => targets'[h] = targets[h])
        BY <3>2
      <3>4. \A h \in Collector : \A j \in DOMAIN approved[h] :
               Gone(j, approved[h])' <=> version'[j] > approved[h][j]
        BY <3>2 DEF Gone
      <3>5. targets'[g] = targets[g] \ {k}
        BY <3>2
      <3> QED BY <2>3, <3>1, <3>2, <3>3, <3>4, <3>5 DEF Gone
    <2>6. (\A h \in Collector : gpc[h] = "report" =>
             \A j \in DOMAIN approved[h] : Gone(j, approved[h]))'
      BY <2>1 DEF TransportInv, TransportTypeOK, Cleared, Delete, CollectorTo, Gone
    <2>7. (recorded => Tombstoned /\ \A j \in DOMAIN commitKey.preview : Gone(j, commitKey.preview))'
      BY <2>1, <2>2 DEF TransportInv, TransportTypeOK, Cleared, Delete, CollectorTo, Tombstoned,
         Gone
    <2> QED BY <2>4, <2>5, <2>6, <2>7 DEF Cleared
  <1> QED BY <1>3, <1>4, <1>5, <1>6, <1>7 DEF TransportInv

LEMMA AssertAbsentStep ==
  ASSUME TransportInv, NEW g \in Collector, AssertAbsent(g)
  PROVE  TransportInv'
  <1>0. SameCommand(g) /\ checked[g] = Nothing
    BY DEF TransportInv, Owned, AssertAbsent, Resumed
  <1>1. TransportTypeOK'
    BY DEF TransportInv, TransportTypeOK, AssertAbsent, CollectorTo, GPC, publishers
  <1>2. Publishing'
    BY PublishingKept DEF AssertAbsent, CollectorTo
  <1>3. Bounded' /\ Owned'
    BY <1>0 DEF TransportInv, TransportTypeOK, Bounded, Owned, AssertAbsent, CollectorTo,
       Present, SameCommand, Tombstoned
  <1>4. Cleared'
    BY DEF TransportInv, TransportTypeOK, Cleared, AssertAbsent, CollectorTo, Past, Gone,
       Tombstoned
  <1> QED BY <1>1, <1>2, <1>3, <1>4 DEF TransportInv

LEMMA PutRecordStep ==
  ASSUME TransportInv, NEW g \in Collector, PutRecord(g)
  PROVE  TransportInv'
  <1>0. SameCommand(g) /\ \A k \in DOMAIN approved[g] : Gone(k, approved[g])
    BY DEF TransportInv, Owned, Cleared, PutRecord, Resumed
  <1>1. TransportTypeOK'
    BY DEF TransportInv, TransportTypeOK, PutRecord, GPC, publishers
  <1>2. Publishing'
    BY PublishingKept DEF PutRecord
  <1>3. Bounded' /\ Owned'
    BY DEF TransportInv, TransportTypeOK, Bounded, Owned, PutRecord, Present, SameCommand,
       Tombstoned, Resumed
  <1>4. Cleared'
    BY <1>0 DEF TransportInv, TransportTypeOK, Cleared, PutRecord, Past, Gone, Tombstoned,
       SameCommand
  <1> QED BY <1>1, <1>2, <1>3, <1>4 DEF TransportInv

LEMMA CollectorCrashStep ==
  ASSUME TransportInv, NEW g \in Collector, CollectorCrash(g)
  PROVE  TransportInv'
  BY Failing DEF CollectorCrash

-----------------------------------------------------------------------------
LEMMA TransportStepInv == TransportInv /\ [TransportNext]_transportVars => TransportInv'
  <1> SUFFICES ASSUME TransportInv, [TransportNext]_transportVars PROVE TransportInv'
    OBVIOUS
  <1>1. CASE UNCHANGED transportVars
    BY <1>1, PublishingKept, CollectingKept
    DEF transportVars, publishers, collectors, TransportInv, TransportTypeOK
  <1>2. ASSUME NEW p \in Publisher, Publish(p) PROVE TransportInv'
    BY <1>2, PublishStartStep, PutObjectStep, ReadBackStep, CommitStep, CheckReleaseStep,
       PublisherCrashStep
    DEF Publish
  <1>3. ASSUME NEW g \in Collector, Collect(g) PROVE TransportInv'
    BY <1>3, PreviewGcStep, StartGcStep, ConfirmStep, PutTombstoneStep, ReadRecordStep,
       ListTargetsStep, CheckIdentityStep, DeleteStep, AssertAbsentStep, PutRecordStep,
       CollectorCrashStep
    DEF Collect
  <1> QED BY <1>1, <1>2, <1>3 DEF TransportNext

\* The invariant of every execution, whatever the publishers, collectors, layouts
\* and objects.
THEOREM TransportInvHolds == TransportSpec => []TransportInv
  BY TransportInitInv, TransportStepInv, PTL DEF TransportSpec

\* Versions stay within the bound, and every variable keeps its type: a decision
\* is a layout, the tombstone of a preview, or none.
THEOREM TransportTypeCorrect == TransportSpec => []TransportTypeOK
  BY TransportInvHolds, PTL DEF TransportInv

\* A committed release names only objects that are there: no collector, however
\* far it had come, deletes them.
THEOREM CommitsComplete == TransportSpec => []CommittedComplete
  <1>1. TransportInv => CommittedComplete
    BY DEF TransportInv, Publishing, Standing, CommittedComplete
  <1> QED BY <1>1, TransportInvHolds, PTL

\* A publisher that returned a publication left a whole release decided.
THEOREM PublicationsVisible == TransportSpec => []PublishedVisible
  <1>1. TransportInv => PublishedVisible
    BY DEF TransportInv, Publishing, Standing, PublishedVisible
  <1> QED BY <1>1, TransportInvHolds, PTL

\* A completion record is there only once every object its preview names has been
\* deleted.
THEOREM RecordsAreEvidence == TransportSpec => []RecordIsEvidence
  <1>1. TransportInv => RecordIsEvidence
    BY DEF TransportInv, Cleared, Gone, RecordIsEvidence
  <1> QED BY <1>1, TransportInvHolds, PTL

LEMMA StepDecided == TransportInv /\ [TransportNext]_transportVars => Decided
  <1> SUFFICES ASSUME TransportInv, [TransportNext]_transportVars PROVE Decided
    OBVIOUS
  <1>1. CASE UNCHANGED transportVars
    BY <1>1 DEF transportVars, Decided
  <1>2. ASSUME NEW p \in Publisher, Publish(p) PROVE Decided
    BY <1>2 DEF Publish, PublishStart, PutObject, ReadBack, PutCommit, CheckRelease,
       PublisherCrash, PublisherEnds, PublisherTo, Decided
  <1>3. ASSUME NEW g \in Collector, Collect(g) PROVE Decided
    <2>1. CASE PutTombstone(g)
      <3>1. SameCommand(g) => commitKey = Tombstone(approved[g])
        BY DEF TransportInv, TransportTypeOK, SameCommand, Tombstoned
      <3> QED BY <2>1, <3>1 DEF PutTombstone, CollectorFails, CollectorTo, Decided
    <2>2. CASE PutRecord(g)
      BY <2>2 DEF PutRecord, Decided
    <2>3. CASE ~PutTombstone(g) /\ ~PutRecord(g)
      BY <1>3, <2>3 DEF Collect, PreviewGc, StartGc, Confirm, ReadRecord, ListTargets,
         CheckIdentity, Delete, AssertAbsent, CollectorCrash, CollectorFails, CollectorTo,
         Decided
    <2> QED BY <2>1, <2>2, <2>3
  <1> QED BY <1>1, <1>2, <1>3 DEF TransportNext

\* The first decision on a release stays: no commit replaces a tombstone, and no
\* tombstone a commit.
THEOREM DecisionsFinal == TransportSpec => DecidedForGood
  BY TransportInvHolds, StepDecided, PTL DEF TransportSpec, DecidedForGood

LEMMA StepDeletes == TransportInv /\ [TransportNext]_transportVars => Deletes
  <1> SUFFICES ASSUME TransportInv, [TransportNext]_transportVars, NEW k \in Present, version'[k] # version[k]
               PROVE  Tombstoned /\ k \in DOMAIN commitKey.preview
    BY DEF Deletes
  <1>1. PICK g \in Collector : Delete(g)
    <2>1. ASSUME NEW p \in Publisher, Publish(p) PROVE FALSE
      <3>1. version'[k] = version[k]
        <4>1. CASE \E j \in Key : PutObject(p, j)
          BY <4>1 DEF PutObject, TransportInv, TransportTypeOK, Present
        <4>2. CASE ~\E j \in Key : PutObject(p, j)
          BY <2>1, <4>2 DEF Publish, PublishStart, ReadBack, PutCommit, CheckRelease,
             PublisherCrash
        <4> QED BY <4>1, <4>2
      <3> QED BY <3>1
    <2>2. ASSUME NEW g \in Collector, Collect(g), ~Delete(g) PROVE FALSE
      BY <2>2 DEF Collect, PreviewGc, StartGc, Confirm, PutTombstone, ReadRecord, ListTargets,
         CheckIdentity, AssertAbsent, PutRecord, CollectorCrash
    <2> QED BY <2>1, <2>2 DEF TransportNext, transportVars
  <1>2. k = checked[g]
    BY <1>1 DEF Delete, TransportInv, TransportTypeOK, Present
  <1> QED BY <1>1, <1>2 DEF TransportInv, Owned, Delete, Resumed, SameCommand

\* Whatever is deleted was named by the preview whose tombstone won.
THEOREM DeletionsConfirmed == TransportSpec => OnlyConfirmedDeleted
  BY TransportInvHolds, StepDeletes, PTL DEF TransportSpec, OnlyConfirmedDeleted

-----------------------------------------------------------------------------
(* The release of a run as a DecideOnce.                                     *)

\* What each of the callers has been told.
Told == [c \in TransportCaller |-> Answered(c)]

LEMMA TellsNobody ==
  ASSUME commitKey' = commitKey, Told' = Told
  PROVE  UNCHANGED CommitDecision!vars
  BY DEF CommitDecision!vars, Told

\* A caller that had no answer yet is told the decision, or nothing.
LEMMA Tells ==
  ASSUME NEW c \in TransportCaller, commitKey' = commitKey, Answered(c) = Nothing,
         \A d \in TransportCaller \ {c} : Answered(d)' = Answered(d),
         \/ Answered(c)' = Nothing
         \/ commitKey # Nothing /\ Answered(c)' = commitKey
  PROVE  [CommitDecision!Next]_(CommitDecision!vars)
  <1>1. CASE Answered(c)' = Nothing
    BY <1>1, TellsNobody DEF Told
  <1>2. CASE commitKey # Nothing /\ Answered(c)' = commitKey
    <2>1. ASSUME NEW d \in TransportCaller
          PROVE  Answered(d)' = IF d = c THEN commitKey ELSE Answered(d)
      BY <1>2
    <2>2. [d \in TransportCaller |-> Answered(d)]'
            = [[d \in TransportCaller |-> Answered(d)] EXCEPT ![c] = commitKey]
      BY <2>1
    <2> QED BY <1>2, <2>2 DEF CommitDecision!Answer, CommitDecision!Next
  <1> QED BY <1>1, <1>2

\* A publisher moves; it has not published before.
LEMMA PublisherTold ==
  ASSUME TransportInv, NEW p \in Publisher, NEW l \in PPC, PublisherTo(p, l),
         ppc[p] # "published", commitKey' = commitKey, l = "published" => commitKey \in Layout
  PROVE  [CommitDecision!Next]_(CommitDecision!vars)
  <1> DEFINE c == <<"publish", p>>
  <1>1. c \in TransportCaller /\ Answered(c) = Nothing
    BY DEF TransportCaller, Answered
  <1>2. ppc' = [ppc EXCEPT ![p] = l] /\ gpc' = gpc /\ approved' = approved
    BY DEF PublisherTo, collectors
  <1>3. \A d \in TransportCaller \ {c} : Answered(d)' = Answered(d)
    <2> SUFFICES ASSUME NEW d \in TransportCaller, d # c PROVE Answered(d)' = Answered(d)
      OBVIOUS
    <2>1. d[1] = "publish" => d[2] \in Publisher /\ d[2] # p
      BY DEF TransportCaller
    <2> QED BY <1>2, <2>1 DEF Answered, TransportInv, TransportTypeOK
  <1>4. IF l = "published" THEN Answered(c)' = commitKey ELSE Answered(c)' = Nothing
    BY <1>2 DEF Answered, TransportInv, TransportTypeOK
  <1> HIDE DEF c
  <1> QED BY <1>1, <1>3, <1>4, Constants, Tells

\* A collector moves; it has not collected before.
LEMMA CollectorTold ==
  ASSUME TransportInv, NEW g \in Collector, NEW l \in GPC, gpc[g] # "collected",
         gpc' = [gpc EXCEPT ![g] = l], UNCHANGED ppc, commitKey' = commitKey,
         \A h \in Collector \ {g} : approved'[h] = approved[h],
         l = "collected" => SameCommand(g) /\ approved' = approved
  PROVE  [CommitDecision!Next]_(CommitDecision!vars)
  <1> DEFINE c == <<"collect", g>>
  <1>1. c \in TransportCaller /\ Answered(c) = Nothing
    BY DEF TransportCaller, Answered
  <1>2. \A d \in TransportCaller \ {c} : Answered(d)' = Answered(d)
    <2> SUFFICES ASSUME NEW d \in TransportCaller, d # c PROVE Answered(d)' = Answered(d)
      OBVIOUS
    <2>1. \/ d[1] = "publish"
          \/ d[1] = "collect" /\ d[2] \in Collector /\ d[2] # g
      BY DEF TransportCaller
    <2> QED BY <2>1 DEF Answered, TransportInv, TransportTypeOK
  <1>3. CASE l = "collected"
    <2>1. commitKey # Nothing /\ commitKey = Tombstone(approved[g])
      BY <1>3 DEF SameCommand, Tombstoned, TransportInv, TransportTypeOK
    <2>2. Answered(c)' = commitKey
      BY <1>3, <2>1 DEF Answered, TransportInv, TransportTypeOK
    <2> HIDE DEF c
    <2> QED BY <1>1, <1>2, <2>1, <2>2, Tells
  <1>4. CASE l # "collected"
    <2>1. Answered(c)' = Nothing
      BY <1>4 DEF Answered, TransportInv, TransportTypeOK
    <2> HIDE DEF c
    <2> QED BY <1>1, <1>2, <2>1, Tells
  <1> QED BY <1>3, <1>4

\* The decision is made while nobody has been told one.
LEMMA Decides ==
  ASSUME TransportInv, commitKey = Nothing, commitKey' # Nothing, UNCHANGED approved,
         \A p \in Publisher : ppc'[p] = "published" <=> ppc[p] = "published",
         \A g \in Collector : gpc'[g] = "collected" <=> gpc[g] = "collected"
  PROVE  CommitDecision!Next
  <1>1. \A p \in Publisher : ppc[p] # "published"
    BY Constants DEF TransportInv, Publishing, Standing
  <1>2. Told' = Told
    <2> SUFFICES ASSUME NEW c \in TransportCaller PROVE Answered(c)' = Answered(c)
      BY DEF Told
    <2>1. \/ c[1] = "publish" /\ c[2] \in Publisher
          \/ c[1] = "collect" /\ c[2] \in Collector
      BY DEF TransportCaller
    <2> QED BY <1>1, <2>1 DEF Answered
  <1> QED BY <1>2 DEF Told, CommitDecision!Decide, CommitDecision!Next

LEMMA PublishRefines ==
  ASSUME TransportInv, NEW p \in Publisher, Publish(p)
  PROVE  [CommitDecision!Next]_(CommitDecision!vars)
  <1>1. CASE PublishStart(p)
    BY <1>1, PublisherTold DEF PublishStart, PublisherEnds, PPC
  <1>2. CASE CheckRelease(p) \/ PublisherCrash(p)
    <2>1. PICK l \in {"published", "failed"} :
            PublisherEnds(p, l) /\ (l = "published" => commitKey = LayoutOf[p])
      BY <1>2 DEF CheckRelease, PublisherCrash
    <2>2. ppc[p] # "published" /\ commitKey' = commitKey
      BY <1>2 DEF CheckRelease, PublisherCrash
    <2> QED BY <2>1, <2>2, Objects, PublisherTold DEF PublisherEnds, PPC
  <1>3. CASE PutCommit(p)
    <2>1. CASE commitKey' = commitKey
      BY <1>3, <2>1, PublisherTold DEF PutCommit, PublisherEnds, PPC
    <2>2. CASE commitKey' # commitKey
      <3>1. /\ commitKey = Nothing /\ commitKey' = LayoutOf[p]
            /\ ppc[p] = "commit" /\ PublisherTo(p, "check")
        BY <1>3, <2>2 DEF PutCommit
      <3> QED BY <3>1, Objects, Constants, Decides
              DEF PublisherTo, collectors, TransportInv, TransportTypeOK
    <2> QED BY <2>1, <2>2
  <1>4. ASSUME NEW k \in Key, PutObject(p, k) PROVE UNCHANGED CommitDecision!vars
    BY <1>4, TellsNobody DEF PutObject, collectors, Told, Answered
  <1>5. ASSUME NEW k \in Key, ReadBack(p, k) PROVE [CommitDecision!Next]_(CommitDecision!vars)
    BY <1>5, PublisherTold DEF ReadBack, PublisherEnds, PPC
  <1> QED BY <1>1, <1>2, <1>3, <1>4, <1>5 DEF Publish

LEMMA CollectRefines ==
  ASSUME TransportInv, NEW g \in Collector, Collect(g)
  PROVE  [CommitDecision!Next]_(CommitDecision!vars)
  <1>1. ASSUME NEW l \in GPC \ {"collected"}, CollectorTo(g, l), gpc[g] # "collected",
               commitKey' = commitKey, \A h \in Collector \ {g} : approved'[h] = approved[h]
        PROVE  [CommitDecision!Next]_(CommitDecision!vars)
    BY <1>1, CollectorTold DEF CollectorTo, publishers
  <1>2. ASSUME CollectorFails(g), gpc[g] # "collected", commitKey' = commitKey
        PROVE  [CommitDecision!Next]_(CommitDecision!vars)
    BY <1>1, <1>2 DEF CollectorFails, GPC
  <1>3. CASE PreviewGc(g)
    BY <1>1, <1>3 DEF PreviewGc, GPC, TransportInv, TransportTypeOK
  <1>4. CASE StartGc(g) \/ AssertAbsent(g) \/ Delete(g)
    BY <1>1, <1>4 DEF StartGc, AssertAbsent, Delete, GPC
  <1>5. CASE Confirm(g) \/ ListTargets(g) \/ CollectorCrash(g)
    BY <1>1, <1>2, <1>5 DEF Confirm, ListTargets, CollectorCrash, GPC
  <1>6. ASSUME NEW k \in Key, CheckIdentity(g, k)
        PROVE  [CommitDecision!Next]_(CommitDecision!vars)
    BY <1>1, <1>2, <1>6 DEF CheckIdentity, GPC
  <1>7. CASE PutTombstone(g)
    <2>1. CASE commitKey' = commitKey
      BY <1>1, <1>2, <1>7, <2>1 DEF PutTombstone, GPC
    <2>2. CASE commitKey' # commitKey
      <3>1. SameCommand(g) => commitKey = Tombstone(approved[g])
        BY DEF TransportInv, TransportTypeOK, SameCommand, Tombstoned
      <3>2. /\ commitKey = Nothing /\ commitKey' = Tombstone(approved[g])
            /\ gpc[g] = "tombstone" /\ CollectorTo(g, "record") /\ UNCHANGED approved
        BY <1>7, <2>2, <3>1 DEF PutTombstone
      <3>3. commitKey' # Nothing
        BY <3>2, Previews DEF TransportInv, TransportTypeOK
      <3> QED BY <3>2, <3>3, Decides DEF CollectorTo, publishers, TransportInv, TransportTypeOK
    <2> QED BY <2>1, <2>2
  <1>8. CASE ReadRecord(g) \/ PutRecord(g)
    <2>1. SameCommand(g) /\ UNCHANGED <<ppc, commitKey, approved>> /\ gpc[g] # "collected"
      BY <1>8 DEF ReadRecord, PutRecord, CollectorTo, publishers, TransportInv, Owned, Resumed
    <2>2. PICK l \in GPC : gpc' = [gpc EXCEPT ![g] = l]
      BY <1>8 DEF ReadRecord, PutRecord, CollectorTo, GPC
    <2> QED BY <2>1, <2>2, CollectorTold
  <1> QED BY <1>3, <1>4, <1>5, <1>6, <1>7, <1>8 DEF Collect

\* A release is one decision, made once: every publisher and every collector that
\* returns reports that decision, whoever crashes, retries or races meanwhile.
THEOREM CommitsDecideOnce == TransportSpec => OutcomesAgree
  <1>1. TransportInit => CommitDecision!Init
    <2> SUFFICES ASSUME TransportInit, NEW c \in TransportCaller PROVE Answered(c) = Nothing
      BY DEF TransportInit, CommitDecision!Init
    <2>1. \/ c[1] = "publish" /\ c[2] \in Publisher
          \/ c[1] = "collect" /\ c[2] \in Collector
      BY DEF TransportCaller
    <2> QED BY <2>1 DEF TransportInit, Answered
  <1>2. TransportInv /\ [TransportNext]_transportVars
          => [CommitDecision!Next]_(CommitDecision!vars)
    <2> SUFFICES ASSUME TransportInv, [TransportNext]_transportVars
                 PROVE  [CommitDecision!Next]_(CommitDecision!vars)
      OBVIOUS
    <2>1. CASE UNCHANGED transportVars
      BY <2>1, TellsNobody DEF transportVars, publishers, collectors, Told, Answered
    <2> QED BY <2>1, PublishRefines, CollectRefines DEF TransportNext
  <1> QED BY <1>1, <1>2, TransportInvHolds, PTL DEF TransportSpec, OutcomesAgree,
          CommitDecision!Spec
================================================================================
