----------------------- MODULE PromotionRegistryProofs ----------------------
(***************************************************************************)
(* Theorems about PromotionRegistry, for any operators, promotions,        *)
(* environments and alias policy.                                          *)
(*                                                                         *)
(* A decision is checked against lengths that were read some time ago and  *)
(* put much later.  What makes it sound is that streams only grow and that *)
(* a slot is taken once: who finds its slot free finds everything before   *)
(* the slot as it was when the decision was checked.  So Inv says that a   *)
(* decision about to be put (Ready) is sound for the events before its     *)
(* slot, and that every event in a stream is (Recorded).                   *)
(***************************************************************************)
EXTENDS PromotionRegistry, SequenceTheorems, WellFoundedInduction, TLAPS

\* Decisions as previews have them: the last slot of a lifecycle may be past it.
LifecycleDraft == [stream : Promotion, number : 1..5, target : Stage,
                   active : SUBSET Environment]
Draft == LifecycleDraft \cup AliasEvent

\* A lifecycle decision is sound after the events before its slot.
SoundTransition(v) ==
  /\ v.target \in AllowedTargets(StageAt(v.stream, v.number - 1))
  /\ v.target = "retired" => v.active = {}

\* An alias decision is, too: it names a lifecycle event that is there.
SoundAlias(v) ==
  /\ AliasAt(v.stream, v.number - 1) # v.promotion
  /\ v.event <= Len(history[v.promotion])
  /\ StageAt(v.promotion, v.event) \in AllowedStages
  /\ v.action = "rollback" =>
       /\ v.ancestor \in 1..v.number - 2
       /\ AliasAt(v.stream, v.ancestor) = v.promotion
       /\ \A j \in v.ancestor + 1..v.number - 2 : AliasAt(v.stream, j) # v.promotion

Sound(v) == IF v.stream \in Promotion THEN SoundTransition(v) ELSE SoundAlias(v)

Streams ==
  /\ history \in [Stream -> Seq(Draft)]
  /\ \A s \in Stream :
       /\ Len(history[s]) <= Bound(s)
       /\ \A i \in 1..Len(history[s]) :
            history[s][i].number = i /\ history[s][i].stream = s

Calls ==
  /\ pc \in [Operator -> {"idle", "previewed", "status", "reading", "slot",
                          "lifecycle", "aliases", "put"}]
  /\ cmd \in [Operator -> Command \cup {None}]
  /\ confirmed \in [Operator -> Draft \cup {None}]
  /\ phase \in [Operator -> {"entry", "clean", "active"}]
  /\ left \in [Operator -> SUBSET Stream]
  /\ seen \in [Operator -> [Stream -> 0..4 + MaxGenerations]]
  /\ life \in [Operator -> 0..4]

\* What a call has read of the lifecycle is there, and it still has a command.
ReadsOf(o) ==
  /\ pc[o] # "idle" => cmd[o] \in Command
  /\ phase[o] = "active" =>
       cmd[o] \in Transition /\ life[o] <= Len(history[cmd[o].stream])
  /\ pc[o] = "aliases" =>
       /\ cmd[o] \in AliasChange
       /\ 1 <= life[o] /\ life[o] <= Len(history[cmd[o].promotion])

Recorded == \A s \in Stream : \A i \in 1..Len(history[s]) : Sound(history[s][i])

Placeable(v) == v.number - 1 <= Len(history[v.stream]) /\ Sound(v)

Ready(o) == pc[o] = "put" => confirmed[o] \in Draft /\ Placeable(confirmed[o])

Inv ==
  /\ Streams /\ Calls /\ Recorded
  /\ \A o \in Operator : ReadsOf(o) /\ Ready(o)

-----------------------------------------------------------------------------
LEMMA Parameters ==
  /\ Promotion \cap Environment = {}
  /\ None # "retired" /\ None \notin Promotion
  /\ "retired" \notin AllowedStages
  /\ MaxTransitions \in 1..4
  /\ MaxGenerations \in Nat
  /\ Wanted \subseteq Command
  BY PromotionRegistryAssumption DEF Stage

\* A set of positive numbers up to n that is not empty has a largest member.
LEMMA Largest ==
  ASSUME NEW n \in Nat, NEW S \in SUBSET (1..n), S # {}
  PROVE  \E i \in S : \A j \in S : j <= i
  <1> DEFINE R == OpToRel(<, Nat)
             T == {k \in Nat : \A j \in S : j <= k}
  <1>1. IsWellFoundedOn(R, Nat)
    BY NatLessThanWellFounded
  <1>2. \A x, y \in Nat : <<x, y>> \in R <=> x < y
    BY DEF OpToRel
  <1>3. n \in T /\ T \subseteq Nat
    OBVIOUS
  <1> HIDE DEF R
  <1>4. PICK k \in T : \A y \in T : ~(<<y, k>> \in R)
    <2>1. T # {}
      BY <1>3
    <2> HIDE DEF T
    <2> QED BY <1>1, <1>3, <2>1, WFMin
  <1>5. \A y \in T : k <= y
    <2> SUFFICES ASSUME NEW y \in T PROVE k <= y
      OBVIOUS
    <2>1. y \in Nat /\ k \in Nat
      BY <1>3
    <2>2. ~(<<y, k>> \in R)
      BY <1>4
    <2>3. ~(y < k)
      BY <1>2, <2>1, <2>2
    <2> QED BY <2>1, <2>3
  <1>6. k \in S
    <2> SUFFICES ASSUME k \notin S PROVE FALSE
      OBVIOUS
    <2>0. k \in Nat /\ \A j \in S : j \in Nat /\ j >= 1 /\ j <= k /\ j # k
      OBVIOUS
    <2>1. PICK j \in S : TRUE
      OBVIOUS
    <2>2. k - 1 \in Nat
      BY <2>0, <2>1
    <2>3. \A i \in S : i <= k - 1
      BY <2>0
    <2>4. k - 1 \in T
      BY <2>2, <2>3
    <2> QED BY <1>5, <2>0, <2>4
  <1> QED BY <1>6

\* The ancestor of a rollback, if it is not 0, is the last earlier generation of
\* its promotion.
LEMMA AncestorIsLast ==
  ASSUME NEW c \in AliasChange, NEW n \in Nat, n <= MaxGenerations
  PROVE  /\ Ancestor(c, n) \in 0..MaxGenerations
         /\ c.action = "rollback" /\ Ancestor(c, n) # 0 =>
              /\ Ancestor(c, n) \in 1..n - 1
              /\ history[c.stream][Ancestor(c, n)].promotion = c.promotion
              /\ \A j \in Ancestor(c, n) + 1..n - 1 : history[c.stream][j].promotion # c.promotion
  <1> DEFINE S == Ancestors(c, n)
  <1>1. CASE c.action = "assign" \/ S = {}
    BY <1>1, Parameters DEF Ancestor, AliasChange
  <1>2. CASE ~(c.action = "assign" \/ S = {})
    <2>0. S \in SUBSET (1..n) /\ S \subseteq 1..n - 1
      BY DEF Ancestors
    <2>1. \E i \in S : \A j \in S : j <= i
      <3> HIDE DEF S
      <3> QED BY <1>2, <2>0, Largest
    <2>2. Ancestor(c, n) = CHOOSE i \in S : \A j \in S : j <= i
      BY <1>2 DEF Ancestor
    <2>3. Ancestor(c, n) \in S /\ \A j \in S : j <= Ancestor(c, n)
      BY <2>1, <2>2
    <2>4. Ancestor(c, n) \in 1..n - 1
      BY <2>0, <2>3
    <2>5. history[c.stream][Ancestor(c, n)].promotion = c.promotion
      BY <2>3 DEF Ancestors
    <2>6. ASSUME NEW j \in Ancestor(c, n) + 1..n - 1
          PROVE  history[c.stream][j].promotion # c.promotion
      <3>1. j \in 1..n - 1 /\ j > Ancestor(c, n)
        BY <2>4
      <3>2. j \notin S
        BY <2>3, <2>4, <3>1
      <3> QED BY <3>1, <3>2 DEF Ancestors
    <2> QED BY <2>4, <2>5, <2>6, Parameters
  <1> QED BY <1>1, <1>2

LEMMA Drafts ==
  ASSUME NEW v \in Draft
  PROVE  /\ v.stream \in Stream
         /\ v.number \in Nat /\ v.number >= 1
         /\ v.stream \in Promotion => v \in LifecycleDraft
         /\ v.stream \notin Promotion => v \in AliasEvent
  BY Parameters DEF Draft, LifecycleDraft, AliasEvent, Stream

LEMMA UpTo ==
  ASSUME NEW l \in Nat, NEW b \in Nat, NEW m \in Nat, l <= b, b <= m
  PROVE  l \in 0..m
  OBVIOUS

LEMMA Lens ==
  ASSUME Streams, NEW s \in Stream
  PROVE  /\ history[s] \in Seq(Draft) /\ Len(history[s]) \in 0..Bound(s)
         /\ s \in Promotion => Len(history[s]) \in 0..4
         /\ s \in Environment => Len(history[s]) \in 0..MaxGenerations
         /\ \A i \in 1..Len(history[s]) :
              /\ history[s][i] \in Draft /\ history[s][i].stream = s
              /\ history[s][i].number = i
  <1>1. history[s] \in Seq(Draft) /\ Len(history[s]) <= Bound(s)
    BY DEF Streams
  <1>2. Len(history[s]) \in Nat /\ \A i \in 1..Len(history[s]) : history[s][i] \in Draft
    BY <1>1
  <1>3. /\ s \in Promotion => Bound(s) \in 0..4
        /\ s \in Environment => Bound(s) \in 0..MaxGenerations
        /\ Bound(s) \in Nat
    BY Parameters DEF Bound, Stream
  <1>4. Len(history[s]) \in 0..Bound(s)
    BY <1>1, <1>2, <1>3
  <1>5. s \in Promotion => Len(history[s]) \in 0..4
    <2> SUFFICES ASSUME s \in Promotion PROVE Len(history[s]) \in 0..4
      OBVIOUS
    <2>1. Bound(s) \in Nat /\ Bound(s) <= 4
      BY <1>3
    <2>2. Len(history[s]) \in Nat /\ Len(history[s]) <= Bound(s)
      BY <1>1, <1>2
    <2> QED BY <2>1, <2>2, UpTo
  <1>6. s \in Environment => Len(history[s]) \in 0..MaxGenerations
    BY <1>3, <1>4, Parameters
  <1> QED BY <1>1, <1>2, <1>4, <1>5, <1>6 DEF Streams

LEMMA InitInv == Init => Inv
  <1> SUFFICES ASSUME Init PROVE Inv
    OBVIOUS
  <1>1. \A s \in Stream : history[s] = <<>> /\ Len(history[s]) = 0
    BY DEF Init
  <1>2. Streams
    <2>1. history \in [Stream -> Seq(Draft)]
      BY DEF Init
    <2> QED BY <1>1, <2>1, Parameters DEF Streams, Bound
  <1>3. Calls
    <2>1. 0 \in 0..4 + MaxGenerations
      BY Parameters
    <2> QED BY <2>1 DEF Init, Calls, Nothing
  <1>4. Recorded
    BY <1>1 DEF Recorded
  <1>5. \A o \in Operator : ReadsOf(o) /\ Ready(o)
    BY DEF Init, ReadsOf, Ready
  <1> QED BY <1>2, <1>3, <1>4, <1>5 DEF Inv

-----------------------------------------------------------------------------
(* Streams grow. *)

Grown ==
  \A s \in Stream : /\ Len(history[s]) <= Len(history'[s])
                    /\ \A i \in 1..Len(history[s]) : history'[s][i] = history[s][i]

\* What is sound for the events before a slot stays so.
LEMMA SoundKept ==
  ASSUME Streams, Streams', Grown, NEW v \in Draft, Placeable(v)
  PROVE  Placeable(v)'
  <1>1. /\ v.stream \in Stream /\ v.number \in Nat /\ v.number >= 1
        /\ Len(history[v.stream]) \in Nat /\ Len(history'[v.stream]) \in Nat
        /\ Len(history[v.stream]) <= Len(history'[v.stream])
        /\ v.number - 1 <= Len(history[v.stream])
    BY Drafts, Lens, Parameters DEF Grown, Streams, Placeable
  <1>2. \A i \in 1..v.number - 1 : history'[v.stream][i] = history[v.stream][i]
    BY <1>1 DEF Grown
  <1>3. CASE v.stream \in Promotion
    <2>1. StageAt(v.stream, v.number - 1)' = StageAt(v.stream, v.number - 1)
      BY <1>1, <1>2 DEF StageAt
    <2>2. SoundTransition(v)'
      BY <1>3, <2>1 DEF Placeable, Sound, SoundTransition
    <2> QED BY <1>1, <1>3, <2>2 DEF Placeable, Sound
  <1>4. CASE v.stream \notin Promotion
    <2>1. v \in AliasEvent /\ SoundAlias(v)
      BY <1>4, Drafts DEF Placeable, Sound
    <2>2. /\ v.promotion \in Stream /\ v.event \in 1..4
          /\ Len(history[v.promotion]) \in Nat /\ Len(history'[v.promotion]) \in Nat
          /\ Len(history[v.promotion]) <= Len(history'[v.promotion])
      BY <2>1, Lens DEF AliasEvent, Stream, Grown, Streams
    <2>3. /\ v.event <= Len(history'[v.promotion])
          /\ history'[v.promotion][v.event] = history[v.promotion][v.event]
      BY <2>1, <2>2 DEF SoundAlias, Grown
    <2>4. \A j \in 0..v.number - 1 : AliasAt(v.stream, j)' = AliasAt(v.stream, j)
      BY <1>1, <1>2 DEF AliasAt
    <2>5. StageAt(v.promotion, v.event)' = StageAt(v.promotion, v.event)
      BY <2>2, <2>3 DEF StageAt
    <2>6. AliasAt(v.stream, v.number - 1)' # v.promotion
      BY <1>1, <2>1, <2>4 DEF SoundAlias
    <2>7. ASSUME v.action = "rollback"
          PROVE  /\ v.ancestor \in 1..v.number - 2
                 /\ AliasAt(v.stream, v.ancestor)' = v.promotion
                 /\ \A j \in v.ancestor + 1..v.number - 2 :
                      AliasAt(v.stream, j)' # v.promotion
      <3>1. v.ancestor \in 1..v.number - 2
        BY <2>1, <2>7 DEF SoundAlias
      <3>2. AliasAt(v.stream, v.ancestor)' = v.promotion
        BY <1>1, <2>1, <2>4, <2>7, <3>1 DEF SoundAlias
      <3>3. ASSUME NEW j \in v.ancestor + 1..v.number - 2
            PROVE  AliasAt(v.stream, j)' # v.promotion
        <4>1. j \in 0..v.number - 1
          BY <1>1, <3>1
        <4> QED BY <2>1, <2>4, <2>7, <4>1 DEF SoundAlias
      <3> QED BY <3>1, <3>2, <3>3
    <2> QED BY <1>1, <1>4, <2>1, <2>3, <2>5, <2>6, <2>7
            DEF Placeable, Sound, SoundAlias
  <1> QED BY <1>3, <1>4

\* Every event in a stream was placed in its slot.
LEMMA EventsPlaceable ==
  ASSUME Streams, Recorded, NEW s \in Stream, NEW i \in 1..Len(history[s])
  PROVE  history[s][i] \in Draft /\ Placeable(history[s][i])
  BY Lens DEF Recorded, Placeable

-----------------------------------------------------------------------------
(* Steps that put nothing *)

LEMMA SoundUnchanged ==
  ASSUME UNCHANGED history, NEW v
  PROVE  Sound(v)' <=> Sound(v)
  <1>1. \A s, n : StageAt(s, n)' = StageAt(s, n) /\ AliasAt(s, n)' = AliasAt(s, n)
    BY DEF StageAt, AliasAt
  <1>2. SoundTransition(v)' <=> SoundTransition(v)
    BY <1>1 DEF SoundTransition
  <1>3. SoundAlias(v)' <=> SoundAlias(v)
    BY <1>1 DEF SoundAlias
  <1> QED BY <1>2, <1>3 DEF Sound

\* A step of one operator that puts nothing leaves the others as they are.
LEMMA OneActs ==
  ASSUME Inv, NEW o \in Operator, UNCHANGED history, Calls', ReadsOf(o)', Ready(o)',
         \A q \in Operator \ {o} :
           /\ pc'[q] = pc[q] /\ cmd'[q] = cmd[q] /\ confirmed'[q] = confirmed[q]
           /\ phase'[q] = phase[q] /\ life'[q] = life[q]
  PROVE  Inv'
  <1>1. Streams'
    BY DEF Inv, Streams
  <1>2. Recorded'
    BY SoundUnchanged DEF Inv, Recorded
  <1>3. ASSUME NEW q \in Operator PROVE ReadsOf(q)' /\ Ready(q)'
    <2>1. CASE q = o
      BY <2>1
    <2>2. CASE q # o
      BY <2>2, SoundUnchanged DEF Inv, ReadsOf, Ready, Placeable
    <2> QED BY <2>1, <2>2
  <1> QED BY <1>1, <1>2, <1>3 DEF Inv

\* A call that ends has nothing read and nothing to put.
LEMMA Ending ==
  ASSUME Inv, NEW o \in Operator, pc[o] # "idle", Ends(o), UNCHANGED confirmed
  PROVE  /\ Calls' /\ (UNCHANGED history => ReadsOf(o)') /\ Ready(o)'
         /\ \A q \in Operator \ {o} :
              /\ pc'[q] = pc[q] /\ cmd'[q] = cmd[q] /\ confirmed'[q] = confirmed[q]
              /\ phase'[q] = phase[q] /\ life'[q] = life[q]
         /\ pc'[o] \in {"idle", "previewed"} /\ phase'[o] = "entry"
         /\ pc'[o] # "idle" => cmd'[o] \in Command
  <1>1. Nothing \in [Stream -> 0..4 + MaxGenerations]
    BY Parameters DEF Nothing
  <1>2. cmd[o] \in Command
    BY DEF Inv, ReadsOf
  <1>3. Calls'
    BY <1>1 DEF Inv, Calls, Ends, Goes, Clear
  <1> QED BY <1>2, <1>3 DEF Inv, Calls, Ends, Goes, Clear, ReadsOf, Ready

\* A decision is confirmed, or goes to its slot when it is sound.
LEMMA Deciding ==
  ASSUME Inv, NEW o \in Operator, pc[o] # "idle", NEW v \in Draft, Decide(o, v),
         Eligible(v) => Placeable(v), UNCHANGED history
  PROVE  Inv'
  <1>0. cmd[o] \in Command
    BY DEF Inv, ReadsOf
  <1>1. Nothing \in [Stream -> 0..4 + MaxGenerations]
    BY Parameters DEF Nothing
  <1>2. CASE confirmed[o] = None
    <2>1. /\ confirmed' = [confirmed EXCEPT ![o] = v]
          /\ Goes(o, "previewed") /\ Clear(o) /\ UNCHANGED cmd
      BY <1>2 DEF Decide
    <2>2. Calls'
      BY <1>1, <2>1 DEF Inv, Calls, Goes, Clear
    <2>3. ReadsOf(o)' /\ Ready(o)'
      BY <1>0, <2>1 DEF Inv, Calls, Goes, Clear, ReadsOf, Ready
    <2> QED BY <2>1, <2>2, <2>3, OneActs DEF Inv, Calls, Goes, Clear
  <1>3. CASE confirmed[o] # None /\ v = confirmed[o] /\ Eligible(v)
    <2>1. Goes(o, "put") /\ Clear(o) /\ UNCHANGED <<cmd, confirmed>>
      BY <1>3 DEF Decide
    <2>2. Calls'
      BY <1>1, <2>1 DEF Inv, Calls, Goes, Clear
    <2>3. ReadsOf(o)'
      BY <1>0, <2>1 DEF Inv, Calls, Goes, Clear, ReadsOf
    <2>4. Ready(o)'
      BY <1>3, <2>1, SoundUnchanged DEF Ready, Placeable
    <2> QED BY <2>1, <2>2, <2>3, <2>4, OneActs DEF Inv, Calls, Goes, Clear
  <1>4. CASE confirmed[o] # None /\ ~(v = confirmed[o] /\ Eligible(v))
    <2>1. Ends(o) /\ UNCHANGED confirmed
      BY <1>4 DEF Decide
    <2> QED BY <2>1, Ending, OneActs
  <1> QED BY <1>2, <1>3, <1>4

LEMMA PreviewStep ==
  ASSUME Inv, NEW o \in Operator, NEW c \in Command, Preview(o, c)
  PROVE  Inv'
  <1>1. Nothing \in [Stream -> 0..4 + MaxGenerations]
    BY Parameters DEF Nothing
  <1>2. Calls'
    BY <1>1 DEF record, Inv, Calls, Preview, Status, Goes
  <1>3. ReadsOf(o)' /\ Ready(o)'
    BY DEF record, Inv, Calls, Preview, Status, Goes, ReadsOf, Ready
  <1> QED BY <1>2, <1>3, OneActs DEF record, Inv, Calls, Preview, Status, Goes

LEMMA ExecuteStep ==
  ASSUME Inv, NEW o \in Operator, Execute(o)
  PROVE  Inv'
  <1>1. Nothing \in [Stream -> 0..4 + MaxGenerations]
    BY Parameters DEF Nothing
  <1>2. Calls'
    BY <1>1 DEF record, Inv, Calls, Execute, Status, Goes
  <1>3. ReadsOf(o)' /\ Ready(o)'
    BY DEF record, Inv, Calls, Execute, Status, Goes, ReadsOf, Ready
  <1> QED BY <1>2, <1>3, OneActs DEF record, Inv, Calls, Execute, Status, Goes

LEMMA ListStreamsStep ==
  ASSUME Inv, NEW o \in Operator, ListStreams(o)
  PROVE  Inv'
  <1>1. Calls'
    BY DEF record, Inv, Calls, ListStreams, Goes
  <1>2. ReadsOf(o)' /\ Ready(o)'
    BY DEF record, Inv, Calls, ListStreams, Goes, ReadsOf, Ready
  <1> QED BY <1>1, <1>2, OneActs DEF record, Inv, Calls, ListStreams, Goes

LEMMA ReadStreamStep ==
  ASSUME Inv, NEW o \in Operator, NEW s \in Stream, ReadStream(o, s)
  PROVE  Inv'
  <1>1. Len(history[s]) \in 0..4 + MaxGenerations
    <2>1. Len(history[s]) \in 0..4 \/ Len(history[s]) \in 0..MaxGenerations
      BY Lens DEF Inv, Stream
    <2>2. \A l \in 0..4 \cup 0..MaxGenerations : l \in 0..4 + MaxGenerations
      BY Parameters
    <2> QED BY <2>1, <2>2
  <1>2. Calls'
    BY <1>1 DEF record, Inv, Calls, ReadStream
  <1>3. ReadsOf(o)' /\ Ready(o)'
    BY DEF record, Inv, Calls, ReadStream, ReadsOf, Ready
  <1> QED BY <1>2, <1>3, OneActs DEF record, Inv, Calls, ReadStream

LEMMA StatusEndsStep ==
  ASSUME Inv, NEW o \in Operator, StatusEnds(o)
  PROVE  Inv'
  <1>1. CASE Ends(o) /\ UNCHANGED confirmed
    BY <1>1, Ending, OneActs DEF record, StatusEnds
  <1>2. CASE /\ Goes(o, IF phase[o] = "entry" THEN "slot" ELSE "lifecycle")
             /\ Clear(o) /\ UNCHANGED <<cmd, confirmed>>
    <2>1. Nothing \in [Stream -> 0..4 + MaxGenerations]
      BY Parameters DEF Nothing
    <2>2. Calls'
      BY <1>2, <2>1 DEF Inv, Calls, Goes, Clear
    <2>3. ReadsOf(o)' /\ Ready(o)'
      BY <1>2 DEF record, Inv, Calls, StatusEnds, Goes, Clear, ReadsOf, Ready
    <2> QED BY <1>2, <2>2, <2>3, OneActs DEF record, Inv, Calls, StatusEnds, Goes, Clear
  <1>3. CASE phase[o] = "active" /\ Decide(o, LifecyclePreview(o))
    <2>1. /\ cmd[o] \in Transition /\ life[o] <= Len(history[cmd[o].stream])
          /\ life[o] \in 0..4 /\ pc[o] # "idle"
      BY <1>3 DEF record, Inv, Calls, ReadsOf, StatusEnds
    <2>2. PICK v : v = LifecyclePreview(o)
      OBVIOUS
    <2>3. v \in LifecycleDraft
      BY <2>1, <2>2 DEF LifecyclePreview, LifecycleDraft, Transition, ActiveFor
    <2>4. v.stream = cmd[o].stream /\ v.number = life[o] + 1 /\ v.stream \in Promotion
      BY <2>1, <2>2 DEF LifecyclePreview, Transition
    <2>5. Eligible(v) => Placeable(v)
      BY <2>1, <2>4
      DEF Eligible, TransitionEligible, Placeable, Sound, SoundTransition
    <2> QED BY <1>3, <2>1, <2>2, <2>3, <2>5, Deciding DEF record, Draft, StatusEnds
  <1> QED BY <1>1, <1>2, <1>3 DEF record, StatusEnds

LEMMA ReadSlotStep ==
  ASSUME Inv, NEW o \in Operator, ReadSlot(o)
  PROVE  Inv'
  <1>1. CASE Ends(o)
    BY <1>1, Ending, OneActs DEF record, ReadSlot
  <1>2. CASE Status(o, "clean") /\ UNCHANGED <<cmd, life>>
    <2>1. Nothing \in [Stream -> 0..4 + MaxGenerations]
      BY Parameters DEF Nothing
    <2>2. Calls'
      BY <1>2, <2>1 DEF record, Inv, Calls, ReadSlot, Status, Goes
    <2>3. ReadsOf(o)' /\ Ready(o)'
      BY <1>2 DEF record, Inv, Calls, ReadSlot, Status, Goes, ReadsOf, Ready
    <2> QED BY <1>2, <2>2, <2>3, OneActs DEF record, Inv, Calls, ReadSlot, Status, Goes
  <1> QED BY <1>1, <1>2 DEF record, ReadSlot

LEMMA ReadLifecycleStep ==
  ASSUME Inv, NEW o \in Operator, ReadLifecycle(o)
  PROVE  Inv'
  <1>0. cmd[o] \in Command
    BY DEF record, Inv, ReadsOf, ReadLifecycle
  <1> DEFINE c == cmd[o]
             p == IF c.stream \in Promotion THEN c.stream ELSE c.promotion
             n == Len(history[p])
  <1>1. /\ p \in Promotion /\ n \in 0..4
        /\ c.stream \in Promotion => c \in Transition
        /\ c.stream \notin Promotion => c \in AliasChange /\ c.stream \in Environment
    <2>1. /\ p \in Promotion
          /\ c.stream \in Promotion => c \in Transition
          /\ c.stream \notin Promotion => c \in AliasChange /\ c.stream \in Environment
      BY <1>0, Parameters DEF Command, Transition, AliasChange
    <2> QED BY <2>1, Lens DEF Inv, Stream
  <1>2. CASE /\ c.stream \in Promotion
             /\ life' = [life EXCEPT ![o] = n]
             /\ Status(o, "active") /\ UNCHANGED <<cmd, confirmed, history>>
    <2>1. Nothing \in [Stream -> 0..4 + MaxGenerations]
      BY Parameters DEF Nothing
    <2>2. Calls'
      BY <1>1, <1>2, <2>1 DEF Inv, Calls, Status, Goes
    <2>3. ReadsOf(o)' /\ Ready(o)'
      BY <1>0, <1>1, <1>2 DEF Inv, Calls, Status, Goes, ReadsOf, Ready
    <2> QED BY <1>2, <2>2, <2>3, OneActs DEF Inv, Calls, Status, Goes
  <1>3. CASE /\ c.stream \in Environment /\ n > 0
             /\ life' = [life EXCEPT ![o] = n]
             /\ Goes(o, "aliases") /\ UNCHANGED <<cmd, phase, left, seen, confirmed, history>>
    <2>1. c.stream \notin Promotion
      BY <1>3, Parameters
    <2>2. Calls'
      BY <1>1, <1>3 DEF Inv, Calls, Goes
    <2>3. phase[o] # "active"
      BY <1>1, <2>1, Parameters DEF Inv, ReadsOf, Transition
    <2>4. ReadsOf(o)' /\ Ready(o)'
      BY <1>0, <1>1, <1>3, <2>1, <2>3 DEF Inv, Calls, Goes, ReadsOf, Ready
    <2> QED BY <1>3, <2>2, <2>4, OneActs DEF Inv, Calls, Goes
  <1>4. CASE Ends(o) /\ UNCHANGED <<history, confirmed>>
    BY <1>4, Ending, OneActs DEF record, ReadLifecycle
  <1> QED BY <1>1, <1>2, <1>3, <1>4 DEF record, ReadLifecycle

LEMMA ReadAliasesStep ==
  ASSUME Inv, NEW o \in Operator, ReadAliases(o)
  PROVE  Inv'
  <1> DEFINE c == cmd[o]
             n == Len(history[c.stream])
  <1>1. /\ c \in AliasChange /\ life[o] \in 1..4 /\ life[o] <= Len(history[c.promotion])
        /\ pc[o] # "idle"
    BY DEF record, Inv, Calls, ReadsOf, ReadAliases
  <1>2. /\ c.stream \in Environment /\ c.stream \notin Promotion /\ c.stream \in Stream
        /\ c.promotion \in Promotion /\ c.action \in {"assign", "rollback"}
    BY <1>1, Parameters DEF AliasChange, Stream
  <1>3. n \in 0..MaxGenerations
    BY <1>2, Lens DEF Inv
  <1>4. PICK a : a = Ancestor(c, n)
    OBVIOUS
  <1>5. /\ a \in 0..MaxGenerations
        /\ c.action = "rollback" /\ a # 0 =>
             /\ a \in 1..n - 1 /\ history[c.stream][a].promotion = c.promotion
             /\ \A j \in a + 1..n - 1 : history[c.stream][j].promotion # c.promotion
    <2>1. n \in Nat /\ n <= MaxGenerations
      BY <1>3, Parameters
    <2> HIDE DEF n
    <2> QED BY <1>1, <1>4, <2>1, AncestorIsLast
  <1>6. PICK v : v = AliasPreview(o)
    OBVIOUS
  <1>7. v = [stream |-> c.stream, number |-> n + 1, promotion |-> c.promotion,
             action |-> c.action, event |-> life[o], ancestor |-> a]
    BY <1>4, <1>6 DEF AliasPreview
  <1>8. v \in AliasEvent /\ v.number - 1 = n /\ v.number - 2 = n - 1
    BY <1>1, <1>2, <1>3, <1>5, <1>7, Parameters DEF AliasEvent
  <1>9. ASSUME Eligible(v) PROVE Placeable(v)
    <2>1. AliasEligible(v)
      BY <1>2, <1>7, <1>9 DEF Eligible
    <2>2. ASSUME v.action = "rollback"
          PROVE  /\ v.ancestor \in 1..v.number - 2
                 /\ AliasAt(v.stream, v.ancestor) = v.promotion
                 /\ \A j \in v.ancestor + 1..v.number - 2 : AliasAt(v.stream, j) # v.promotion
      <3>1. /\ a \in 1..n - 1 /\ history[c.stream][a].promotion = c.promotion
            /\ \A j \in a + 1..n - 1 : history[c.stream][j].promotion # c.promotion
        BY <1>5, <1>7, <2>1, <2>2 DEF AliasEligible
      <3>2. \A j \in a + 1..n - 1 : j # 0
        BY <1>3, <3>1
      <3> QED BY <1>3, <1>7, <1>8, <3>1, <3>2 DEF AliasAt
    <2>3. SoundAlias(v)
      BY <1>1, <1>7, <2>1, <2>2 DEF AliasEligible, SoundAlias
    <2> QED BY <1>2, <1>3, <1>7, <1>8, <2>3 DEF Placeable, Sound
  <1> QED BY <1>1, <1>6, <1>8, <1>9, Deciding DEF record, ReadAliases, Draft

LEMMA CrashStep ==
  ASSUME Inv, NEW o \in Operator, Crash(o)
  PROVE  Inv'
  BY Ending, OneActs DEF record, Crash

-----------------------------------------------------------------------------
(* The step that puts *)

\* An event is put in the free slot it was checked for, or not at all.
LEMMA Putting ==
  ASSUME Inv, NEW o \in Operator, Put(o)
  PROVE  /\ confirmed[o] \in Draft /\ Placeable(confirmed[o])
         /\ confirmed[o].number <= Bound(confirmed[o].stream)
         /\ \/ UNCHANGED history
            \/ /\ confirmed[o].number = Len(history[confirmed[o].stream]) + 1
               /\ history' = [history EXCEPT ![confirmed[o].stream] = Append(@, confirmed[o])]
  BY DEF record, Inv, Ready, Put

\* What an append does to the streams.
LEMMA Appending ==
  ASSUME Streams, NEW v \in Draft, v.number = Len(history[v.stream]) + 1,
         v.number <= Bound(v.stream),
         history' = [history EXCEPT ![v.stream] = Append(@, v)]
  PROVE  /\ Streams' /\ Grown
         /\ \A s \in Stream : \A i \in 1..Len(history'[s]) :
              \/ i \in 1..Len(history[s])
              \/ s = v.stream /\ i = v.number /\ history'[s][i] = v
  <1> DEFINE h == history[v.stream]
  <1>1. /\ v.stream \in Stream /\ h \in Seq(Draft) /\ Len(h) \in Nat
    BY Drafts DEF Streams
  <1>2. /\ Append(h, v) \in Seq(Draft) /\ Len(Append(h, v)) = Len(h) + 1
        /\ \A i \in 1..Len(h) : Append(h, v)[i] = h[i]
        /\ Append(h, v)[Len(h) + 1] = v
    BY <1>1, AppendProperties
  <1>3. history'[v.stream] = Append(h, v)
    BY <1>1 DEF Streams
  <1>4. \A s \in Stream : s # v.stream => history'[s] = history[s]
    BY DEF Streams
  <1>5. history' \in [Stream -> Seq(Draft)]
    BY <1>1, <1>2 DEF Streams
  <1> HIDE DEF h
  <1>6. \A i \in 1..Len(history'[v.stream]) :
          \/ i \in 1..Len(h) /\ history'[v.stream][i] = h[i]
          \/ i = Len(h) + 1 /\ history'[v.stream][i] = v
    <2> SUFFICES ASSUME NEW i \in 1..Len(h) + 1
                 PROVE  \/ i \in 1..Len(h) /\ Append(h, v)[i] = h[i]
                        \/ i = Len(h) + 1 /\ Append(h, v)[i] = v
      BY <1>2, <1>3
    <2>1. i \in 1..Len(h) \/ i = Len(h) + 1
      BY <1>1
    <2> QED BY <1>2, <2>1
  <1>7. Streams'
    <2>1. ASSUME NEW s \in Stream
          PROVE  /\ Len(history'[s]) <= Bound(s)
                 /\ \A i \in 1..Len(history'[s]) :
                      history'[s][i].number = i /\ history'[s][i].stream = s
      <3>1. CASE s = v.stream
        BY <1>2, <1>3, <1>6, <3>1 DEF Streams, h
      <3>2. CASE s # v.stream
        BY <1>4, <3>2 DEF Streams
      <3> QED BY <3>1, <3>2
    <2> QED BY <1>5, <2>1 DEF Streams, Bound
  <1>8. Grown
    <2>1. ASSUME NEW s \in Stream
          PROVE  /\ Len(history[s]) <= Len(history'[s])
                 /\ \A i \in 1..Len(history[s]) : history'[s][i] = history[s][i]
      <3>1. CASE s = v.stream
        BY <1>1, <1>2, <1>3, <3>1 DEF h
      <3>2. CASE s # v.stream
        BY <1>4, <3>2, Lens
      <3> QED BY <3>1, <3>2
    <2> QED BY <2>1 DEF Grown
  <1>9. ASSUME NEW s \in Stream, NEW i \in 1..Len(history'[s])
        PROVE  \/ i \in 1..Len(history[s])
               \/ s = v.stream /\ i = v.number /\ history'[s][i] = v
    <2>1. CASE s = v.stream
      BY <1>6, <2>1 DEF h
    <2>2. CASE s # v.stream
      BY <1>4, <2>2
    <2> QED BY <2>1, <2>2
  <1> QED BY <1>7, <1>8, <1>9

LEMMA PutStep ==
  ASSUME Inv, NEW o \in Operator, Put(o)
  PROVE  Inv'
  <1>1. Ends(o) /\ UNCHANGED confirmed /\ pc[o] # "idle"
    BY DEF record, Put
  <1>2. CASE UNCHANGED history
    BY <1>1, <1>2, Ending, OneActs
  <1>3. CASE ~UNCHANGED history
    <2>1. PICK v : v = confirmed[o]
      OBVIOUS
    <2>2. /\ v \in Draft /\ Placeable(v) /\ v.number = Len(history[v.stream]) + 1
          /\ v.number <= Bound(v.stream)
          /\ history' = [history EXCEPT ![v.stream] = Append(@, v)]
      BY <1>3, <2>1, Putting
    <2>3. /\ Streams' /\ Grown
          /\ \A s \in Stream : \A i \in 1..Len(history'[s]) :
               \/ i \in 1..Len(history[s])
               \/ s = v.stream /\ i = v.number /\ history'[s][i] = v
      BY <2>2, Appending DEF Inv
    <2>4. \A d \in Draft : Placeable(d) => Placeable(d)'
      BY <2>3, SoundKept DEF Inv
    <2>5. Recorded'
      <3>1. ASSUME NEW s \in Stream, NEW i \in 1..Len(history'[s])
            PROVE  Sound(history[s][i])'
        <4>1. PICK d : d = history'[s][i]
          OBVIOUS
        <4>2. CASE i \in 1..Len(history[s])
          <5>1. d = history[s][i]
            BY <2>3, <4>1, <4>2 DEF Grown
          <5>2. d \in Draft /\ Placeable(d)
            BY <4>2, <5>1, EventsPlaceable DEF Inv
          <5>3. Sound(d)'
            BY <2>4, <5>2 DEF Placeable
          <5> QED BY <4>1, <5>3
        <4>3. CASE i \notin 1..Len(history[s])
          <5>1. d = v
            BY <2>3, <4>1, <4>3
          <5>2. Sound(d)'
            BY <2>2, <2>4, <5>1 DEF Placeable
          <5> QED BY <4>1, <5>2
        <4> QED BY <4>2, <4>3
      <3> QED BY <3>1 DEF Recorded
    <2>6. /\ Calls' /\ Ready(o)'
          /\ \A q \in Operator \ {o} :
               /\ pc'[q] = pc[q] /\ cmd'[q] = cmd[q] /\ confirmed'[q] = confirmed[q]
               /\ phase'[q] = phase[q] /\ life'[q] = life[q]
          /\ pc'[o] \in {"idle", "previewed"} /\ phase'[o] = "entry"
          /\ pc'[o] # "idle" => cmd'[o] \in Command
      BY <1>1, Ending
    <2>7. ReadsOf(o)'
      BY <2>6 DEF ReadsOf
    <2>8. ASSUME NEW q \in Operator, q # o PROVE ReadsOf(q)' /\ Ready(q)'
      <3>1. ReadsOf(q) /\ Ready(q)
        BY DEF Inv
      <3>2. \A p \in Promotion : \A n \in Nat : n <= Len(history[p]) => n <= Len(history'[p])
        <4>1. ASSUME NEW p \in Promotion
              PROVE  /\ Len(history[p]) \in Nat /\ Len(history'[p]) \in Nat
                     /\ Len(history[p]) <= Len(history'[p])
          BY <2>3, Lens DEF Inv, Grown, Streams, Stream
        <4> QED BY <4>1
      <3>3. ReadsOf(q)'
        <4>1. pc'[q] = pc[q] /\ cmd'[q] = cmd[q] /\ phase'[q] = phase[q] /\ life'[q] = life[q]
          BY <2>6, <2>8
        <4>2. life[q] \in Nat
          BY DEF Inv, Calls
        <4>3. phase[q] = "active" =>
                cmd[q] \in Transition /\ life[q] <= Len(history'[cmd[q].stream])
          BY <3>1, <3>2, <4>2 DEF ReadsOf, Transition
        <4>4. pc[q] = "aliases" =>
                /\ cmd[q] \in AliasChange
                /\ 1 <= life[q] /\ life[q] <= Len(history'[cmd[q].promotion])
          BY <3>1, <3>2, <4>2 DEF ReadsOf, AliasChange
        <4> QED BY <3>1, <4>1, <4>3, <4>4 DEF ReadsOf
      <3>4. Ready(q)'
        <4>1. PICK d : d = confirmed[q]
          OBVIOUS
        <4>2. pc[q] = "put" => d \in Draft /\ Placeable(d)'
          BY <2>4, <3>1, <4>1 DEF Ready
        <4> QED BY <2>6, <2>8, <4>1, <4>2 DEF Ready, Placeable
      <3> QED BY <3>3, <3>4
    <2> QED BY <2>3, <2>5, <2>6, <2>7, <2>8 DEF Inv
  <1> QED BY <1>2, <1>3

LEMMA StepInv == Inv /\ [Next]_vars => Inv'
  <1> SUFFICES ASSUME Inv, [Next]_vars PROVE Inv'
    OBVIOUS
  <1>1. CASE UNCHANGED vars
    <2>1. UNCHANGED <<history, pc, cmd, confirmed, phase, left, seen, life>>
      BY <1>1 DEF record, vars, calls
    <2>2. Streams' /\ Calls' /\ Recorded'
      BY <2>1, SoundUnchanged DEF Inv, Streams, Calls, Recorded
    <2>3. \A o \in Operator : ReadsOf(o)' /\ Ready(o)'
      BY <2>1, SoundUnchanged DEF Inv, ReadsOf, Ready, Placeable
    <2> QED BY <2>2, <2>3 DEF Inv
  <1>2. CASE Next
    BY <1>2, Parameters, PreviewStep, ExecuteStep, ListStreamsStep, StatusEndsStep, ReadSlotStep,
       ReadStreamStep, ReadLifecycleStep, ReadAliasesStep, PutStep, CrashStep
    DEF Next
  <1> QED BY <1>1, <1>2

\* The invariant of every execution: whatever operators do at the same time, what
\* is put is sound for the events before its slot.
THEOREM InvHolds == Spec => []Inv
  BY InitInv, StepInv, PTL DEF Spec

-----------------------------------------------------------------------------
(* What executions began with.  Every status() they read later has seen at least *)
(* that much (LateOf), so that a retirement knows of each alias that was there,  *)
(* and an alias of each retirement.                                              *)

Times ==
  /\ begun \in [Operator -> [Stream -> Nat]]
  /\ since \in [Stream -> Seq([Stream -> Nat])]
  /\ \A s \in Stream : Len(since[s]) = Len(history[s])
  /\ \A s, t \in Stream : \A i \in 1..Len(history[s]) : since[s][i][t] <= Len(history[t])

\* An alias event is of a lifecycle as long as its execution began with, and a
\* retirement is of less than the alias it could not see.
AliasesFresh ==
  \A e \in Environment : \A i \in 1..Len(history[e]) :
    since[e][i][history[e][i].promotion] <= history[e][i].event

RetirementsEarlier ==
  \A e \in Environment : \A p \in Promotion :
    /\ AliasAt(e, Len(history[e])) = p
    /\ StageAt(p, Len(history[p])) = "retired"
    => since[p][Len(history[p])][e] < Len(history[e])

\* The same of a decision that is about to be put.
Unforbidden(v, b) ==
  /\ v.stream \in Environment => b[v.promotion] <= v.event
  /\ v.stream \in Promotion /\ v.target = "retired" /\ v.number - 1 = Len(history[v.stream]) =>
       \A e \in Environment : AliasAt(e, Len(history[e])) = v.stream => b[e] < Len(history[e])

ReadOf(o) ==
  \A e \in Environment :
    /\ begun[o][e] = 0 \/ e \in left[o] \/ begun[o][e] <= seen[o][e]
    /\ \A i \in 1..begun[o][e] :
         \/ history[e][i].promotion \in left[o]
         \/ history[e][i].event <= seen[o][history[e][i].promotion]

LateOf(o) ==
  /\ \A s \in Stream : seen[o][s] <= Len(history[s]) /\ begun[o][s] <= Len(history[s])
  /\ pc[o] = "reading" => ReadOf(o)
  /\ pc[o] = "aliases" => begun[o][cmd[o].promotion] <= life[o]
  /\ pc[o] = "put" => Unforbidden(confirmed[o], begun[o])

Late ==
  /\ Times /\ AliasesFresh /\ RetirementsEarlier
  /\ \A o \in Operator : LateOf(o)

LEMMA InitLate == Init => Late
  <1> SUFFICES ASSUME Init PROVE Late
    OBVIOUS
  <1>1. \A s \in Stream : history[s] = <<>> /\ Len(history[s]) = 0 /\ since[s] = <<>>
    BY DEF Init
  <1>2. Nothing \in [Stream -> Nat] /\ \A s \in Stream : Nothing[s] = 0
    BY DEF Nothing
  <1>3. Times
    <2>1. since \in [Stream -> Seq([Stream -> Nat])] /\ begun \in [Operator -> [Stream -> Nat]]
      BY <1>2 DEF Init
    <2> QED BY <1>1, <2>1 DEF Times
  <1>4. AliasesFresh /\ RetirementsEarlier
    BY <1>1, Parameters DEF AliasesFresh, RetirementsEarlier, AliasAt, Stream
  <1>5. \A o \in Operator : LateOf(o)
    BY <1>1, <1>2 DEF Init, LateOf
  <1> QED BY <1>3, <1>4, <1>5 DEF Late

\* What others put takes nothing from what an operator has read or is to put.
LEMMA LateStays ==
  ASSUME Inv, Inv', Late, Grown, NEW q \in Operator,
         pc'[q] = pc[q], cmd'[q] = cmd[q], confirmed'[q] = confirmed[q], left'[q] = left[q],
         seen'[q] = seen[q], life'[q] = life[q], begun'[q] = begun[q]
  PROVE  LateOf(q)'
  <1>1. LateOf(q) /\ Ready(q)
    BY DEF Late, Inv
  <1>2. /\ begun[q] \in [Stream -> Nat] /\ seen[q] \in [Stream -> 0..4 + MaxGenerations]
        /\ MaxGenerations \in Nat
    BY Parameters DEF Late, Times, Inv, Calls
  <1>3. \A s \in Stream : /\ Len(history[s]) \in Nat /\ Len(history'[s]) \in Nat
                          /\ Len(history[s]) <= Len(history'[s])
    BY Lens, Parameters DEF Grown, Inv, Streams
  <1>4. \A s \in Stream : seen'[q][s] <= Len(history'[s]) /\ begun'[q][s] <= Len(history'[s])
    <2>1. ASSUME NEW s \in Stream
          PROVE  seen'[q][s] <= Len(history'[s]) /\ begun'[q][s] <= Len(history'[s])
      <3>1. seen[q][s] \in Int /\ begun[q][s] \in Int
        BY <1>2
      <3> QED BY <1>1, <1>3, <3>1 DEF LateOf
    <2> QED BY <2>1
  <1>5. ASSUME ReadOf(q) PROVE ReadOf(q)'
    <2>1. ASSUME NEW e \in Environment, NEW i \in 1..begun[q][e] PROVE history'[e][i] = history[e][i]
      <3>1. e \in Stream /\ begun[q][e] \in Nat /\ begun[q][e] <= Len(history[e])
        BY <1>1, <1>2 DEF LateOf, Stream
      <3>2. i \in 1..Len(history[e])
        BY <1>3, <3>1
      <3> QED BY <3>1, <3>2 DEF Grown
    <2> QED BY <1>5, <2>1 DEF ReadOf
  <1>6. ASSUME pc[q] = "put" PROVE Unforbidden(confirmed[q], begun[q])'
    <2>1. PICK v : v = confirmed[q]
      OBVIOUS
    <2>2. v \in Draft /\ Placeable(v) /\ Unforbidden(v, begun[q])
      BY <1>1, <1>6, <2>1 DEF LateOf, Ready
    <2>3. v.stream \in Environment => begun'[q][v.promotion] <= v.event
      BY <2>2 DEF Unforbidden
    <2>4. ASSUME v.stream \in Promotion, v.target = "retired", v.number - 1 = Len(history'[v.stream]),
                 NEW e \in Environment, AliasAt(e, Len(history[e]))' = v.stream
          PROVE  begun'[q][e] < Len(history'[e])
      <3>1. v.stream \in Stream /\ e \in Stream /\ v.number \in Nat
        BY <2>2, <2>4, Drafts DEF Stream
      <3>2. v.number - 1 = Len(history[v.stream])
        BY <1>3, <2>2, <2>4, <3>1 DEF Placeable
      <3>3. begun[q][e] \in Nat /\ begun[q][e] <= Len(history[e])
        BY <1>1, <1>2, <3>1 DEF LateOf
      <3>4. CASE Len(history'[e]) = Len(history[e])
        <4>1. AliasAt(e, Len(history[e])) = v.stream
          <5>1. Len(history[e]) = 0 \/ Len(history[e]) \in 1..Len(history[e])
            BY <1>3, <3>1
          <5> QED BY <2>4, <3>1, <3>4, <5>1 DEF AliasAt, Grown
        <4> QED BY <2>2, <2>4, <3>2, <3>4, <4>1 DEF Unforbidden
      <3>5. CASE Len(history'[e]) # Len(history[e])
        BY <1>3, <3>1, <3>3, <3>5
      <3> QED BY <3>4, <3>5
    <2> QED BY <2>1, <2>3, <2>4 DEF Unforbidden
  <1> QED BY <1>1, <1>4, <1>5, <1>6 DEF LateOf

LEMMA SinceTyped ==
  ASSUME Late, NEW s \in Stream, NEW i \in 1..Len(history[s])
  PROVE  /\ since[s][i] \in [Stream -> Nat]
         /\ \A t \in Stream : since[s][i][t] \in Nat /\ since[s][i][t] <= Len(history[t])
  <1>1. since[s] \in Seq([Stream -> Nat]) /\ i \in 1..Len(since[s])
    BY DEF Late, Times
  <1>2. since[s][i] \in [Stream -> Nat]
    BY <1>1
  <1> QED BY <1>2 DEF Late, Times

LEMMA NoneGrown ==
  ASSUME Inv, UNCHANGED history
  PROVE  Grown
  BY Lens DEF Grown, Inv

\* A step of one operator that puts nothing.
LEMMA OneActsLate ==
  ASSUME Inv, Inv', Late, NEW o \in Operator, UNCHANGED record,
         begun' \in [Operator -> [Stream -> Nat]], LateOf(o)',
         \A q \in Operator \ {o} :
           /\ pc'[q] = pc[q] /\ cmd'[q] = cmd[q] /\ confirmed'[q] = confirmed[q] /\ left'[q] = left[q]
           /\ seen'[q] = seen[q] /\ life'[q] = life[q] /\ begun'[q] = begun[q]
  PROVE  Late'
  <1>1. UNCHANGED <<history, since>>
    BY DEF record
  <1>2. Times' /\ AliasesFresh' /\ RetirementsEarlier'
    BY <1>1 DEF Late, Times, AliasesFresh, RetirementsEarlier, AliasAt, StageAt
  <1>3. ASSUME NEW q \in Operator PROVE LateOf(q)'
    BY <1>1, NoneGrown, LateStays
  <1> QED BY <1>2, <1>3 DEF Late

\* What a call that clears its reads keeps.
LEMMA NothingRead ==
  ASSUME Inv, Late, NEW o \in Operator, UNCHANGED history, seen'[o] = Nothing,
         begun'[o] \in {begun[o], Nothing}, pc'[o] \notin {"reading", "aliases", "put"}
  PROVE  LateOf(o)'
  <1>1. \A s \in Stream : Len(history[s]) \in Nat /\ Nothing[s] = 0
    BY Lens DEF Inv, Nothing
  <1>2. \A s \in Stream : begun[o][s] <= Len(history[s])
    BY DEF Late, LateOf
  <1> QED BY <1>1, <1>2 DEF LateOf

LEMMA EndingLate ==
  ASSUME Inv, Inv', Late, NEW o \in Operator, Ends(o), UNCHANGED <<history, since, confirmed>>
  PROVE  Late'
  <1>1. Nothing \in [Stream -> Nat]
    BY DEF Nothing
  <1>2. begun' \in [Operator -> [Stream -> Nat]]
    BY <1>1 DEF Ends, Late, Times
  <1>3. LateOf(o)'
    BY NothingRead DEF Ends, Goes, Clear, Late, Times, Inv, Calls
  <1> QED BY <1>2, <1>3, OneActsLate DEF Ends, Goes, Clear, Late, Times, Inv, Calls, record

LEMMA DecidingLate ==
  ASSUME Inv, Inv', Late, NEW o \in Operator, NEW v, Decide(o, v), UNCHANGED record,
         v = confirmed[o] /\ Eligible(v) => Unforbidden(v, begun[o])
  PROVE  Late'
  <1>1. CASE confirmed[o] = None
    <2>1. /\ confirmed' = [confirmed EXCEPT ![o] = v]
          /\ Goes(o, "previewed") /\ Clear(o) /\ UNCHANGED <<cmd, begun>>
      BY <1>1 DEF Decide
    <2>2. LateOf(o)'
      BY <2>1, NothingRead DEF Goes, Clear, Inv, Calls, record
    <2> QED BY <2>1, <2>2, OneActsLate DEF Goes, Clear, Inv, Calls, Late, Times
  <1>2. CASE confirmed[o] # None /\ v = confirmed[o] /\ Eligible(v)
    <2>1. Goes(o, "put") /\ Clear(o) /\ UNCHANGED <<cmd, confirmed, begun>>
      BY <1>2 DEF Decide
    <2>2. pc'[o] = "put" /\ seen'[o] = Nothing
      BY <2>1 DEF Goes, Clear, Inv, Calls
    <2>3. Unforbidden(confirmed[o], begun[o])'
      BY <1>2, <2>1 DEF Unforbidden, AliasAt, record
    <2>4. \A s \in Stream : seen'[o][s] <= Len(history'[s]) /\ begun'[o][s] <= Len(history'[s])
      <3>1. \A s \in Stream : Len(history[s]) \in Nat /\ Nothing[s] = 0
        BY Lens DEF Inv, Nothing
      <3> QED BY <2>1, <2>2, <3>1 DEF Late, LateOf, record
    <2>5. LateOf(o)'
      BY <2>2, <2>3, <2>4 DEF LateOf
    <2> QED BY <2>1, <2>5, OneActsLate DEF Goes, Clear, Inv, Calls, Late, Times
  <1>3. CASE confirmed[o] # None /\ ~(v = confirmed[o] /\ Eligible(v))
    BY <1>3, EndingLate DEF Decide, record
  <1> QED BY <1>1, <1>2, <1>3

LEMMA ListStreamsLate ==
  ASSUME Inv, Inv', Late, NEW o \in Operator, ListStreams(o)
  PROVE  Late'
  <1>1. /\ pc'[o] = "reading" /\ left'[o] = {s \in Stream : history[s] # <<>>}
        /\ UNCHANGED <<history, since, seen, begun>>
    BY DEF ListStreams, Goes, Inv, Calls, record
  <1>2. ASSUME NEW e \in Environment, begun[o][e] # 0 PROVE e \in left'[o]
    <2>1. e \in Stream /\ begun[o][e] \in Nat /\ begun[o][e] <= Len(history[e]) /\ Len(history[e]) \in Nat
      BY Lens DEF Late, Times, LateOf, Stream, Inv
    <2>2. Len(history[e]) # 0
      BY <1>2, <2>1
    <2> QED BY <1>1, <2>1, <2>2
  <1>3. ASSUME NEW e \in Environment, NEW i \in 1..begun[o][e]
        PROVE  history[e][i].promotion \in left'[o]
    <2>1. e \in Stream /\ begun[o][e] \in Nat /\ begun[o][e] <= Len(history[e]) /\ Len(history[e]) \in Nat
      BY Lens DEF Late, Times, LateOf, Stream, Inv
    <2>2. i \in 1..Len(history[e])
      BY <2>1
    <2>3. /\ history[e][i] \in AliasEvent /\ SoundAlias(history[e][i])
      BY <2>1, <2>2, Lens, Drafts, Parameters DEF Inv, Recorded, Sound
    <2>4. PICK p \in Promotion : p = history[e][i].promotion
      BY <2>3 DEF AliasEvent
    <2>5. /\ history[e][i].event \in 1..4 /\ history[e][i].event <= Len(history[p])
          /\ p \in Stream
      BY <2>3, <2>4 DEF AliasEvent, SoundAlias, Stream
    <2>6. Len(history[p]) # 0
      BY <2>5
    <2> QED BY <1>1, <2>4, <2>5, <2>6
  <1>4. LateOf(o)'
    <2>1. ReadOf(o)'
      BY <1>1, <1>2, <1>3 DEF ReadOf
    <2> QED BY <1>1, <2>1 DEF LateOf, Late
  <1> QED BY <1>4, OneActsLate DEF ListStreams, Goes, Inv, Calls, Late, Times

LEMMA ReadStreamLate ==
  ASSUME Inv, Inv', Late, NEW o \in Operator, NEW s \in Stream, ReadStream(o, s)
  PROVE  Late'
  <1>1. /\ pc[o] = "reading" /\ pc'[o] = "reading" /\ UNCHANGED <<history, since, begun>>
        /\ seen'[o][s] = Len(history[s]) /\ \A t \in Stream \ {s} : seen'[o][t] = seen[o][t]
        /\ left'[o] = left[o] \ {s}
    BY DEF ReadStream, Inv, Calls, record
  <1>2. \A t \in Stream : Len(history[t]) \in Nat
    BY Lens DEF Inv
  <1>3. ASSUME NEW e \in Environment
        PROVE  begun[o][e] = 0 \/ e \in left'[o] \/ begun[o][e] <= seen'[o][e]
    BY <1>1 DEF Late, LateOf, ReadOf, Stream
  <1>4. ASSUME NEW e \in Environment, NEW i \in 1..begun[o][e]
        PROVE  \/ history[e][i].promotion \in left'[o]
               \/ history[e][i].event <= seen'[o][history[e][i].promotion]
    <2>1. e \in Stream /\ begun[o][e] \in Nat /\ begun[o][e] <= Len(history[e])
      BY DEF Late, Times, LateOf, Stream
    <2>2. i \in 1..Len(history[e])
      BY <1>2, <2>1
    <2>3. /\ history[e][i] \in AliasEvent /\ SoundAlias(history[e][i])
      BY <2>1, <2>2, Lens, Drafts, Parameters DEF Inv, Recorded, Sound
    <2>4. PICK p \in Promotion : p = history[e][i].promotion
      BY <2>3 DEF AliasEvent
    <2>5. history[e][i].event <= Len(history[p]) /\ p \in Stream
      BY <2>3, <2>4 DEF SoundAlias, Stream
    <2>6. p \in left[o] \/ history[e][i].event <= seen[o][p]
      BY <1>1, <2>4 DEF Late, LateOf, ReadOf
    <2> QED BY <1>1, <2>4, <2>5, <2>6
  <1>5. LateOf(o)'
    <2>1. ReadOf(o)'
      BY <1>1, <1>3, <1>4 DEF ReadOf
    <2>2. \A t \in Stream : seen'[o][t] <= Len(history[t]) /\ begun[o][t] <= Len(history[t])
      BY <1>1, <1>2 DEF Late, LateOf
    <2> QED BY <1>1, <2>1, <2>2 DEF LateOf
  <1> QED BY <1>5, OneActsLate DEF ReadStream, Inv, Calls, Late, Times

\* A promotion that was retired gets no more events.
LEMMA RetiredIsLast ==
  ASSUME Inv, NEW p \in Promotion, NEW m \in 1..Len(history[p]), StageAt(p, m) = "retired"
  PROVE  m = Len(history[p])
  <1>1. p \in Stream /\ Len(history[p]) \in Nat
    BY Lens DEF Inv, Stream
  <1>2. ASSUME m # Len(history[p]) PROVE FALSE
    <2>1. m + 1 \in 1..Len(history[p]) /\ (m + 1) - 1 = m
      BY <1>1, <1>2
    <2>2. /\ history[p][m + 1].stream = p /\ history[p][m + 1].number = m + 1
          /\ Sound(history[p][m + 1])
      BY <1>1, <2>1, Lens DEF Inv, Recorded
    <2>3. history[p][m + 1].target \in AllowedTargets(StageAt(p, m))
      BY <2>1, <2>2 DEF Sound, SoundTransition
    <2> QED BY <2>3 DEF AllowedTargets
  <1> QED BY <1>2

\* The status a retirement reads has every alias its execution began with.
LEMMA AliasesSeen ==
  ASSUME Inv, Late, NEW o \in Operator, pc[o] = "reading", left[o] = {}, phase[o] = "active",
         NEW v, v = LifecyclePreview(o), Eligible(v)
  PROVE  Unforbidden(v, begun[o])
  <1>1. PICK p \in Promotion : p = cmd[o].stream
    BY DEF Inv, ReadsOf, Transition
  <1>2. /\ v.stream = p /\ v.number = life[o] + 1 /\ v.active = ActiveFor(p, seen[o])
        /\ life[o] \in Nat /\ p \in Stream
    BY <1>1 DEF LifecyclePreview, Inv, Calls, Stream
  <1>3. TransitionEligible(v) /\ v.number - 1 = life[o]
    BY <1>2 DEF Eligible
  <1>4. v.stream \notin Environment
    BY <1>2, Parameters
  <1>5. ASSUME v.target = "retired", v.number - 1 = Len(history[p]),
               NEW e \in Environment, AliasAt(e, Len(history[e])) = p, ~(begun[o][e] < Len(history[e]))
        PROVE  FALSE
    <2>1. e \in Stream /\ Len(history[e]) \in Nat /\ begun[o][e] \in Nat /\ begun[o][e] <= Len(history[e])
          /\ seen[o][e] \in Int /\ seen[o][e] <= Len(history[e])
      BY Lens, Parameters DEF Inv, Calls, Late, Times, LateOf, Stream
    <2>2. Len(history[e]) # 0
      BY <1>5, Parameters DEF AliasAt
    <2>3. begun[o][e] = Len(history[e])
      BY <1>5, <2>1
    <2>4. seen[o][e] = Len(history[e])
      BY <2>1, <2>2, <2>3 DEF Late, LateOf, ReadOf
    <2>5. \A i \in 1..seen[o][e] : history[e][i].event <= seen[o][history[e][i].promotion]
      BY <2>3, <2>4 DEF Late, LateOf, ReadOf
    <2>6. StageAt(p, seen[o][p]) # "retired"
      <3>1. /\ seen[o][p] \in 0..4 + MaxGenerations /\ seen[o][p] <= Len(history[p])
            /\ Len(history[p]) \in Nat
        BY <1>2, Lens DEF Inv, Calls, Late, LateOf
      <3>2. CASE seen[o][p] = 0
        BY <3>2, Parameters DEF StageAt
      <3>3. CASE seen[o][p] # 0
        <4>1. seen[o][p] \in 1..Len(history[p])
          BY <3>1, <3>3, Parameters
        <4>2. ASSUME StageAt(p, seen[o][p]) = "retired" PROVE FALSE
          <5>1. seen[o][p] = v.number - 1
            BY <1>5, <4>1, <4>2, RetiredIsLast
          <5>2. v.target \in AllowedTargets("retired")
            BY <1>2, <1>3, <4>2, <5>1 DEF TransitionEligible
          <5> QED BY <5>2 DEF AllowedTargets
        <4> QED BY <4>2
      <3> QED BY <3>2, <3>3
    <2>7. AliasAt(e, seen[o][e]) = p
      BY <1>5, <2>4
    <2>8. AliasSound(e, seen[o])
      BY <2>5, <2>6, <2>7 DEF AliasSound
    <2>9. e \in ActiveFor(p, seen[o])
      BY <2>7, <2>8 DEF ActiveFor
    <2> QED BY <1>2, <1>3, <1>5, <2>9 DEF TransitionEligible
  <1> QED BY <1>2, <1>4, <1>5 DEF Unforbidden

LEMMA StatusEndsLate ==
  ASSUME Inv, Inv', Late, NEW o \in Operator, StatusEnds(o)
  PROVE  Late'
  <1>1. CASE phase[o] # "active" /\ ~Valid(seen[o])
    BY <1>1, EndingLate DEF StatusEnds, record
  <1>2. CASE phase[o] # "active" /\ Valid(seen[o])
    <2>1. /\ Goes(o, IF phase[o] = "entry" THEN "slot" ELSE "lifecycle")
          /\ Clear(o) /\ UNCHANGED <<cmd, confirmed, begun, record>>
      BY <1>2 DEF StatusEnds
    <2>2. LateOf(o)'
      BY <2>1, NothingRead DEF Goes, Clear, Inv, Calls, record
    <2> QED BY <2>1, <2>2, OneActsLate DEF Goes, Clear, Inv, Calls, Late, Times
  <1>3. CASE phase[o] = "active"
    BY <1>3, AliasesSeen, DecidingLate DEF StatusEnds
  <1> QED BY <1>1, <1>2, <1>3 DEF StatusEnds

LEMMA ReadAliasesLate ==
  ASSUME Inv, Inv', Late, NEW o \in Operator, ReadAliases(o)
  PROVE  Late'
  <1>1. /\ pc[o] = "aliases" /\ Decide(o, AliasPreview(o)) /\ UNCHANGED record
    BY DEF ReadAliases
  <1>2. cmd[o] \in AliasChange /\ begun[o][cmd[o].promotion] <= life[o]
    BY <1>1 DEF Late, LateOf, Inv, ReadsOf
  <1>3. Unforbidden(AliasPreview(o), begun[o])
    BY <1>2, Parameters DEF Unforbidden, AliasPreview, AliasChange
  <1> QED BY <1>1, <1>3, DecidingLate

\* Calls that only clear what they have read.
LEMMA StatusLate ==
  ASSUME Inv, Inv', Late, NEW o \in Operator, NEW f, Status(o, f), UNCHANGED <<record, begun>>,
         \A q \in Operator \ {o} :
           cmd'[q] = cmd[q] /\ confirmed'[q] = confirmed[q] /\ life'[q] = life[q]
  PROVE  Late'
  <1>1. LateOf(o)'
    BY NothingRead DEF Status, Goes, Inv, Calls, record
  <1> QED BY <1>1, OneActsLate DEF Status, Goes, Inv, Calls, Late, Times

LEMMA ExecuteLate ==
  ASSUME Inv, Inv', Late, NEW o \in Operator, Execute(o)
  PROVE  Late'
  <1>1. \A s \in Stream : Len(history[s]) \in Nat
    BY Lens DEF Inv
  <1>2. /\ OfOthers(confirmed[o]) \in [Stream -> Nat]
        /\ \A s \in Stream : OfOthers(confirmed[o])[s] <= Len(history[s])
    BY <1>1 DEF OfOthers
  <1>3. /\ pc'[o] = "status" /\ seen'[o] = Nothing /\ begun'[o] = OfOthers(confirmed[o])
        /\ UNCHANGED history /\ begun' \in [Operator -> [Stream -> Nat]]
    BY <1>2 DEF Execute, Status, Goes, Inv, Calls, Late, Times, record
  <1>4. LateOf(o)'
    <2>1. \A s \in Stream : Nothing[s] = 0
      BY DEF Nothing
    <2> QED BY <1>1, <1>2, <1>3, <2>1 DEF LateOf
  <1> QED BY <1>3, <1>4, OneActsLate DEF Execute, Status, Goes, Inv, Calls, Late, Times

LEMMA ReadLifecycleLate ==
  ASSUME Inv, Inv', Late, NEW o \in Operator, ReadLifecycle(o)
  PROVE  Late'
  <1>1. PICK c : c = cmd[o]
    OBVIOUS
  <1>2. CASE c.stream \in Promotion
    <2>1. Status(o, "active") /\ UNCHANGED <<cmd, begun, record, confirmed>>
          /\ \A q \in Operator \ {o} : life'[q] = life[q]
      BY <1>1, <1>2, Parameters DEF ReadLifecycle, Inv, Calls
    <2> QED BY <2>1, StatusLate
  <1>3. CASE c.stream \notin Promotion /\ pc'[o] = "aliases"
    <2>1. /\ c.stream \in Environment /\ life' = [life EXCEPT ![o] = Len(history[c.promotion])]
          /\ Goes(o, "aliases") /\ UNCHANGED <<cmd, phase, left, seen, begun, record, confirmed>>
      BY <1>1, <1>3 DEF ReadLifecycle, Ends, Goes, Inv, Calls
    <2>2. c \in AliasChange
      BY <1>1, <1>3, <2>1 DEF ReadLifecycle, Inv, ReadsOf, Command, Transition
    <2>3. c.promotion \in Stream
      BY <2>2 DEF AliasChange, Stream
    <2>4. LateOf(o)'
      <3>1. life'[o] = Len(history[c.promotion])
        BY <2>1 DEF Inv, Calls
      <3> QED BY <1>1, <1>3, <2>1, <2>3, <3>1 DEF LateOf, Late, record
    <2> QED BY <2>1, <2>4, OneActsLate DEF Goes, Inv, Calls, Late, Times
  <1>4. CASE c.stream \notin Promotion /\ pc'[o] # "aliases"
    <2>1. Ends(o) /\ UNCHANGED <<history, since, confirmed>>
      BY <1>1, <1>4 DEF ReadLifecycle, Goes, Inv, Calls, record
    <2> QED BY <2>1, EndingLate
  <1> QED BY <1>2, <1>3, <1>4

\* What is put is later than what it could not see.
LEMMA PutLate ==
  ASSUME Inv, Inv', Late, NEW o \in Operator, Put(o)
  PROVE  Late'
  <1>1. Ends(o) /\ UNCHANGED confirmed /\ pc[o] = "put"
    BY DEF Put
  <1>2. CASE UNCHANGED record
    BY <1>1, <1>2, EndingLate DEF record
  <1>3. CASE ~UNCHANGED record
    <2>1. PICK v : v = confirmed[o]
      OBVIOUS
    <2>2. /\ v \in Draft /\ Placeable(v) /\ v.number = Len(history[v.stream]) + 1
          /\ v.number <= Bound(v.stream)
          /\ history' = [history EXCEPT ![v.stream] = Append(@, v)]
          /\ since' = [since EXCEPT ![v.stream] = Append(@, begun[o])]
      BY <1>1, <1>3, <2>1 DEF Put, record, Inv, Ready
    <2>3. Streams' /\ Grown
      BY <2>2, Appending DEF Inv
    <2>4. v.stream \in Stream /\ v.number \in Nat /\ Unforbidden(v, begun[o])
      BY <1>1, <2>1, <2>2, Drafts DEF Late, LateOf
    <2>5. /\ begun[o] \in [Stream -> Nat] /\ \A s \in Stream : begun[o][s] <= Len(history[s])
      BY DEF Late, Times, LateOf
    <2>6. /\ since[v.stream] \in Seq([Stream -> Nat]) /\ Len(since[v.stream]) = v.number - 1
          /\ since'[v.stream] = Append(since[v.stream], begun[o])
          /\ \A s \in Stream : s # v.stream => since'[s] = since[s] /\ history'[s] = history[s]
      BY <2>2, <2>4 DEF Late, Times, Inv, Streams
    <2>7. /\ Len(since'[v.stream]) = v.number /\ since'[v.stream][v.number] = begun[o]
          /\ \A i \in 1..v.number - 1 : since'[v.stream][i] = since[v.stream][i]
          /\ since'[v.stream] \in Seq([Stream -> Nat])
      BY <2>4, <2>5, <2>6, AppendProperties
    <2>8. /\ history[v.stream] \in Seq(Draft) /\ history'[v.stream] = Append(history[v.stream], v)
          /\ Len(history'[v.stream]) = v.number /\ history'[v.stream][v.number] = v
          /\ \A i \in 1..v.number - 1 : history'[v.stream][i] = history[v.stream][i]
      <3>1. history[v.stream] \in Seq(Draft) /\ history'[v.stream] = Append(history[v.stream], v)
        BY <2>2, <2>4 DEF Inv, Streams
      <3> QED BY <2>2, <2>4, <3>1, AppendProperties
    <2>9. \A s \in Stream : /\ Len(history[s]) \in Nat /\ Len(history'[s]) \in Nat
                            /\ Len(history[s]) <= Len(history'[s])
      BY <2>3, Lens, Parameters DEF Inv, Grown, Streams
    <2>10. Times'
      <3>1. since' \in [Stream -> Seq([Stream -> Nat])]
        BY <2>2, <2>4, <2>6, <2>7 DEF Late, Times
      <3>2. begun' \in [Operator -> [Stream -> Nat]]
        BY <1>1 DEF Ends, Late, Times, Nothing
      <3>3. ASSUME NEW s \in Stream PROVE Len(since'[s]) = Len(history'[s])
        BY <2>6, <2>7, <2>8 DEF Late, Times
      <3>4. ASSUME NEW s \in Stream, NEW t \in Stream, NEW i \in 1..Len(history'[s])
            PROVE  since'[s][i][t] <= Len(history'[t])
        <4>1. CASE s = v.stream /\ i = v.number
          BY <2>5, <2>7, <2>9, <4>1
        <4>2. CASE ~(s = v.stream /\ i = v.number)
          <5>1. i \in 1..Len(history[s]) /\ since'[s][i] = since[s][i]
            BY <2>2, <2>4, <2>6, <2>7, <2>8, <4>2
          <5>2. since[s][i] \in [Stream -> Nat] /\ since[s][i][t] <= Len(history[t])
            BY <5>1 DEF Late, Times
          <5> QED BY <2>9, <5>1, <5>2
        <4> QED BY <4>1, <4>2
      <3> QED BY <3>1, <3>2, <3>3, <3>4 DEF Times
    <2>11. AliasesFresh'
      <3>1. ASSUME NEW e \in Environment, NEW i \in 1..Len(history'[e])
            PROVE  since'[e][i][history'[e][i].promotion] <= history'[e][i].event
        <4>0. e \in Stream
          BY DEF Stream
        <4>1. CASE e = v.stream /\ i = v.number
          BY <2>4, <2>7, <2>8, <4>1 DEF Unforbidden
        <4>2. CASE ~(e = v.stream /\ i = v.number)
          <5>1. /\ i \in 1..Len(history[e]) /\ since'[e][i] = since[e][i]
                /\ history'[e][i] = history[e][i]
            BY <2>2, <2>4, <2>6, <2>7, <2>8, <4>0, <4>2
          <5> QED BY <5>1 DEF Late, AliasesFresh
        <4> QED BY <4>1, <4>2
      <3> QED BY <3>1 DEF AliasesFresh
    <2>12. RetirementsEarlier'
      <3>1. ASSUME NEW e \in Environment, NEW p \in Promotion,
                   AliasAt(e, Len(history[e]))' = p, StageAt(p, Len(history[p]))' = "retired"
            PROVE  since'[p][Len(history'[p])][e] < Len(history'[e])
        <4>0. e \in Stream /\ p \in Stream /\ e # p
          BY Parameters DEF Stream
        <4>1. CASE v.stream = e
          <5>1. history'[p] = history[p] /\ since'[p] = since[p] /\ Len(history[p]) # 0
            BY <2>6, <3>1, <4>0, <4>1, Parameters DEF StageAt
          <5>2. Len(history[p]) \in 1..Len(history[p])
            BY <2>9, <4>0, <5>1
          <5>3. since[p][Len(history[p])] \in [Stream -> Nat]
                /\ since[p][Len(history[p])][e] <= Len(history[e])
            BY <4>0, <5>2, SinceTyped
          <5> QED BY <2>2, <2>8, <2>9, <4>0, <4>1, <5>1, <5>3
        <4>2. CASE v.stream = p
          <5>1. history'[e] = history[e] /\ AliasAt(e, Len(history[e])) = v.stream
            BY <2>6, <3>1, <4>0, <4>2 DEF AliasAt
          <5>2. v.target = "retired"
            BY <2>2, <2>8, <2>9, <3>1, <4>2 DEF StageAt
          <5>3. begun[o][e] < Len(history[e])
            BY <2>2, <2>4, <2>9, <4>2, <5>1, <5>2 DEF Unforbidden
          <5> QED BY <2>7, <2>8, <4>2, <5>1, <5>3
        <4>3. CASE v.stream \notin {e, p}
          BY <2>6, <3>1, <4>0, <4>3 DEF Late, RetirementsEarlier, AliasAt, StageAt
        <4> QED BY <4>1, <4>2, <4>3
      <3> QED BY <3>1 DEF RetirementsEarlier
    <2>13. LateOf(o)'
      <3>1. \A s \in Stream : Nothing[s] = 0
        BY DEF Nothing
      <3>2. /\ pc'[o] \notin {"reading", "aliases", "put"} /\ seen'[o] = Nothing
            /\ begun'[o] = Nothing
        BY <1>1 DEF Ends, Goes, Clear, Inv, Calls, Late, Times
      <3> QED BY <2>9, <3>1, <3>2 DEF LateOf
    <2>14. ASSUME NEW q \in Operator, q # o PROVE LateOf(q)'
      BY <1>1, <2>3, <2>14, LateStays DEF Ends, Goes, Clear, Inv, Calls, Late, Times
    <2> QED BY <2>10, <2>11, <2>12, <2>13, <2>14 DEF Late
  <1> QED BY <1>2, <1>3

LEMMA StepLate == Inv /\ Inv' /\ Late /\ [Next]_vars => Late'
  <1> SUFFICES ASSUME Inv, Inv', Late, [Next]_vars PROVE Late'
    OBVIOUS
  <1>1. CASE UNCHANGED vars
    BY <1>1 DEF record, vars, calls, Late, Times, AliasesFresh, RetirementsEarlier, LateOf, ReadOf,
                Unforbidden, AliasAt, StageAt
  <1>2. ASSUME NEW o \in Operator, NEW c \in Wanted, Preview(o, c) PROVE Late'
    <2>1. /\ Status(o, "clean") /\ UNCHANGED <<record, begun, life>>
          /\ \A q \in Operator \ {o} : cmd'[q] = cmd[q] /\ confirmed'[q] = confirmed[q]
      BY <1>2 DEF Preview, Inv, Calls
    <2> QED BY <2>1, StatusLate
  <1>3. ASSUME NEW o \in Operator, ReadSlot(o) PROVE Late'
    <2>1. CASE Ends(o) /\ UNCHANGED confirmed
      BY <1>3, <2>1, EndingLate DEF ReadSlot, record
    <2>2. CASE Status(o, "clean") /\ UNCHANGED <<cmd, life, begun>>
      BY <1>3, <2>2, StatusLate DEF ReadSlot
    <2> QED BY <1>3, <2>1, <2>2 DEF ReadSlot
  <1>4. ASSUME NEW o \in Operator, Crash(o) PROVE Late'
    BY <1>4, EndingLate DEF Crash, record
  <1>5. CASE Next
    BY <1>2, <1>3, <1>4, <1>5, ExecuteLate, ListStreamsLate, StatusEndsLate, ReadStreamLate,
       ReadLifecycleLate, ReadAliasesLate, PutLate
    DEF Next
  <1> QED BY <1>1, <1>5

LEMMA LateHolds == Spec => []Late
  BY InvHolds, InitLate, StepLate, PTL DEF Spec

-----------------------------------------------------------------------------
\* Events have their streams' types and are numbered by their slots; operators
\* never read more than was there.
THEOREM TypeCorrect == Spec => []TypeOK
  <1> SUFFICES ASSUME Inv, Late PROVE TypeOK
    BY InvHolds, LateHolds, PTL
  <1>1. ASSUME NEW p \in Promotion
        PROVE  /\ Len(history[p]) <= 4
               /\ \A i \in 1..Len(history[p]) :
                    history[p][i] \in LifecycleEvent /\ history[p][i].number = i
    <2>1. /\ Len(history[p]) \in 0..4
          /\ \A i \in 1..Len(history[p]) :
               /\ history[p][i] \in Draft /\ history[p][i].stream = p
               /\ history[p][i].number = i
      BY Lens DEF Inv, Stream
    <2>2. ASSUME NEW i \in 1..Len(history[p]) PROVE history[p][i] \in LifecycleEvent
      <3>1. history[p][i] \in LifecycleDraft /\ history[p][i].number \in 1..4
        BY <2>1, Drafts
      <3> QED BY <3>1 DEF LifecycleDraft, LifecycleEvent
    <2> QED BY <2>1, <2>2
  <1>2. ASSUME NEW e \in Environment
        PROVE  /\ Len(history[e]) <= MaxGenerations
               /\ \A i \in 1..Len(history[e]) :
                    history[e][i] \in AliasEvent /\ history[e][i].number = i
    <2>1. e \in Stream /\ e \notin Promotion
      BY Parameters DEF Stream
    <2>2. /\ Len(history[e]) \in 0..MaxGenerations
          /\ \A i \in 1..Len(history[e]) :
               /\ history[e][i] \in Draft /\ history[e][i].stream = e
               /\ history[e][i].number = i
      BY <2>1, Lens DEF Inv
    <2>3. Len(history[e]) <= MaxGenerations
      BY <2>2, Parameters
    <2> QED BY <2>1, <2>2, <2>3, Drafts
  <1>3. \A o \in Operator : confirmed[o] # None => confirmed[o].stream \in Stream
    BY Drafts DEF Inv, Calls
  <1> QED BY <1>1, <1>2, <1>3 DEF TypeOK, Inv, Calls, Late, Times

\* Every lifecycle follows the allowed transitions, whoever raced for its slots.
THEOREM LifecyclesFollowPolicy == Spec => []LifecyclesLegal
  <1>1. Inv => LifecyclesLegal
    <2> SUFFICES ASSUME Inv, NEW p \in Promotion, NEW i \in 1..Len(history[p])
                 PROVE  history[p][i].target \in AllowedTargets(StageAt(p, i - 1))
      BY DEF LifecyclesLegal
    <2>1. p \in Stream
      BY DEF Stream
    <2>2. history[p][i].stream = p /\ history[p][i].number = i /\ Sound(history[p][i])
      BY <2>1, Lens DEF Inv, Recorded
    <2> QED BY <2>2 DEF Sound, SoundTransition
  <1> QED BY <1>1, InvHolds, PTL

\* Every alias event moves its environment to another promotion, at a stage that the
\* policy allows and that is not older than its execution; a rollback has its
\* ancestry, although that was computed from an earlier read of the stream.
THEOREM AliasesFollowPolicy == Spec => []AliasesMove
  <1>1. Inv /\ Late => AliasesMove
    <2> SUFFICES ASSUME Inv, Late, NEW e \in Environment, NEW i \in 1..Len(history[e])
                 PROVE  /\ AliasAt(e, i) # AliasAt(e, i - 1)
                        /\ since[e][i][history[e][i].promotion] <= history[e][i].event
                        /\ StageAt(history[e][i].promotion, history[e][i].event) \in AllowedStages
                        /\ history[e][i].action = "rollback" => RollsBack(e, i)
      BY DEF AliasesMove
    <2>1. e \in Stream /\ e \notin Promotion
      BY Parameters DEF Stream
    <2>2. /\ history[e][i].stream = e /\ history[e][i].number = i
          /\ SoundAlias(history[e][i])
      BY <2>1, Lens DEF Inv, Recorded, Sound
    <2>3. AliasAt(e, i) = history[e][i].promotion
      BY DEF AliasAt
    <2> QED BY <2>2, <2>3 DEF SoundAlias, RollsBack, Late, AliasesFresh
  <1> QED BY <1>1, InvHolds, LateHolds, PTL

\* An alias and the retirement of its promotion both stand only when neither was
\* there as the execution of the other began.
THEOREM LaterIsRefused == Spec => []RetiredAliasesOverlap
  <1>1. Inv /\ Late => RetiredAliasesOverlap
    <2> SUFFICES ASSUME Inv, Late, NEW e \in Environment, NEW p \in Promotion,
                        AliasAt(e, Len(history[e])) = p,
                        StageAt(p, Len(history[p])) = "retired"
                 PROVE  /\ since[p][Len(history[p])][e] < Len(history[e])
                        /\ since[e][Len(history[e])][p] < Len(history[p])
      BY DEF RetiredAliasesOverlap
    <2> DEFINE n == Len(history[e])
               k == Len(history[p])
    <2>1. /\ e \in Stream /\ e \notin Promotion /\ p \in Stream
          /\ n \in Nat /\ k \in Nat
      BY Lens, Parameters DEF Inv, Stream
    <2>2. n # 0
      BY Parameters DEF AliasAt
    <2>3. n \in 1..n
      BY <2>1, <2>2
    <2>4. history[e][n].promotion = p
      BY <2>2 DEF AliasAt
    <2>5. SoundAlias(history[e][n]) /\ history[e][n].event \in 1..4
      BY <2>1, <2>3, Lens, Drafts DEF Inv, Recorded, Sound, AliasEvent
    <2>6. history[e][n].event <= k /\ history[e][n].event # k
      BY <2>4, <2>5, Parameters DEF SoundAlias
    <2>7. since[e][n][p] \in Nat /\ since[e][n][p] <= history[e][n].event
      BY <2>1, <2>3, <2>4, SinceTyped DEF Late, AliasesFresh
    <2>8. since[e][n][p] < k
      <3> HIDE DEF n, k
      <3> QED BY <2>1, <2>5, <2>6, <2>7
    <2> QED BY <2>8 DEF Late, RetirementsEarlier
  <1> QED BY <1>1, InvHolds, LateHolds, PTL

LEMMA StepKept == Inv /\ [Next]_vars => Kept \/ UNCHANGED history
  <1> SUFFICES ASSUME Inv, [Next]_vars, ~UNCHANGED history PROVE Kept
    OBVIOUS
  <1>1. PICK o \in Operator : Put(o)
    BY DEF record, Next, vars, Preview, Execute, ListStreams, ReadStream, StatusEnds, ReadSlot,
           ReadLifecycle, ReadAliases, Crash, Status
  <1>2. PICK v : v = confirmed[o]
    OBVIOUS
  <1>3. Streams' /\ Grown
    BY <1>1, <1>2, Putting, Appending DEF Inv
  <1>4. ASSUME NEW s \in Stream
        PROVE  /\ Len(history'[s]) >= Len(history[s])
               /\ SubSeq(history'[s], 1, Len(history[s])) = history[s]
    <2>1. /\ history[s] \in Seq(Draft) /\ history'[s] \in Seq(Draft)
          /\ Len(history[s]) \in Nat /\ Len(history'[s]) \in Nat
          /\ Len(history[s]) <= Len(history'[s])
      BY <1>3 DEF Inv, Streams, Grown
    <2>2. /\ SubSeq(history'[s], 1, Len(history[s])) \in Seq(Draft)
          /\ Len(SubSeq(history'[s], 1, Len(history[s]))) = Len(history[s])
          /\ \A i \in 1..Len(history[s]) :
               SubSeq(history'[s], 1, Len(history[s]))[i] = history'[s][i]
      BY <2>1
    <2>3. \A i \in 1..Len(history[s]) : history'[s][i] = history[s][i]
      BY <1>3 DEF Grown
    <2>4. SubSeq(history'[s], 1, Len(history[s])) = history[s]
      BY <2>1, <2>2, <2>3, SeqEqual
    <2> QED BY <2>1, <2>4
  <1> QED BY <1>4 DEF Kept

\* No decision is replaced or taken out of its slot.
THEOREM DecisionsStay == Spec => DecisionsKept
  BY InvHolds, StepKept, PTL DEF Spec, DecisionsKept
=============================================================================
