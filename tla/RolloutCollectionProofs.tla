---------------------- MODULE RolloutCollectionProofs ----------------------
(***************************************************************************)
(* Theorems about RolloutCollection, for any collectors, slots, concurrency *)
(* and bound on claims: what collectors, the threads of cancelled tasks,   *)
(* lapsing leases and crashes never undo.                                  *)
(*                                                                         *)
(* A call runs in its thread whether or not its task still waits for it,   *)
(* so the invariant says of a stray call what it says of a task that is    *)
(* about to make it (JobKnows, StrayKnows): the task that left a release   *)
(* behind had stored its trajectory, and a stray acquire is the only claim *)
(* its collector will ever have on the slot.                               *)
(***************************************************************************)
EXTENDS RolloutCollection, TLAPS

Claimed(c, s) == \E e \in DOMAIN claims[s] : claims[s][e].owner = c

\* A collector claims a slot once, and a claim is succeeded when it has ended.
ClaimsSound ==
  /\ \A s \in Slot : \A d, e \in DOMAIN claims[s] :
       claims[s][d].owner = claims[s][e].owner => d = e
  /\ \A s \in Slot : \A e \in DOMAIN claims[s] :
       e < Len(claims[s]) => claims[s][e].lapsed \/ claims[s][e].outcome # "none"
  /\ CompletedClaimsBacked

Unclaimed == {"unread", "found", "missing", "reput", "reshard", "reused", "queued", "acquire"}
Stored    == {"shard", "stop", "confirm", "release"}
Attached  == {"reshard", "reused", "returned"} \cup Stored
Sharded   == {"reused", "returned"} \cup (Stored \ {"shard"})

JobKnows(c, s) ==
  /\ job[c][s] \in Unclaimed => ~Claimed(c, s)
  /\ job[c][s] \in Executing \cup {"cleanup"} => Claimed(c, s)
  /\ job[c][s] \in Executing =>
       \A e \in DOMAIN claims[s] : claims[s][e].owner = c => claims[s][e].outcome = "none"
  /\ job[c][s] \in Stored => stored[s] = c
  /\ job[c][s] \in {"found", "reput"} => stored[s] # None
  /\ job[c][s] \in Attached => s \in attached[c]
  /\ job[c][s] \in Sharded => s \in sharded[c]

StrayKnows(c, s) ==
  /\ \A l \in InThread : <<l, s>> \in stray[c] => job[c][s] \in {"cleanup", "raised"}
  /\ <<"acquire", s>> \in stray[c] => ~Claimed(c, s) /\ job[c][s] = "raised"
  /\ <<"release", s>> \in stray[c] => Claimed(c, s) /\ stored[s] = c
  /\ <<"cleanup", s>> \in stray[c] => Claimed(c, s)
  /\ <<"reput", s>> \in stray[c] => stored[s] # None

\* The run is completed, or the call that completes it is past its checks.
Finishing(c) == run[c] = "completed" \/ <<"finish", None>> \in writing[c]

CollectorKnows(c) ==
  /\ pc[c] = "reading" => run[c] = "none" /\ c \notin reviewed
  /\ Finishing(c) => pc[c] \in {"finish", "failing", "publish"} \cup Ended
  /\ pc[c] \in {"renew", "finish"} \/ Finishing(c) => attached[c] = Slot /\ manifest[c] = Slot
  /\ \A s \in attached[c] : stored[s] # None
  /\ \A s \in Slot : <<"reput", s>> \in writing[c] => stored[s] # None
  /\ <<"lease", None>> \in writing[c] => pc[c] = "lease"
  /\ <<"fail", None>> \in writing[c] => pc[c] = "failing" \/ leaving[c] = "failing"
  /\ leaving[c] \in {"failing", "closing"} => pc[c] \in {"reuse", "collect", "cancelling", "over"}
  /\ leaving[c] = "closed" => pc[c] \in {"cancelling", "raised"}

Inv ==
  /\ TypeOK
  /\ ClaimsSound
  /\ \A c \in Collector, s \in Slot : JobKnows(c, s) /\ StrayKnows(c, s)
  /\ \A c \in Collector : CollectorKnows(c)

-----------------------------------------------------------------------------
(* What a step may do to what the stores keep.                              *)

Grows ==
  /\ \A s \in Slot : stored[s] # None => stored'[s] = stored[s]
  /\ \A c \in Collector : attached[c] \subseteq attached'[c] /\ sharded[c] \subseteq sharded'[c]

\* The claim d has on slot s, if any, and its outcome stay.
ClaimKept(d, s) ==
  /\ \A e \in DOMAIN claims[s] : claims[s][e].owner = d =>
       e \in DOMAIN claims'[s] /\ claims'[s][e].owner = d
  /\ \A e \in DOMAIN claims'[s] : claims'[s][e].owner = d =>
       /\ e \in DOMAIN claims[s] /\ claims[s][e].owner = d
       /\ claims'[s][e].outcome = claims[s][e].outcome

StraysKept(d, s) == \A l \in InThread : <<l, s>> \in stray'[d] => <<l, s>> \in stray[d]

LEMMA ClaimFields ==
  ASSUME TypeOK, NEW s \in Slot
  PROVE  /\ claims[s] \in Seq(Claim) /\ Len(claims[s]) \in Nat
         /\ DOMAIN claims[s] = 1..Len(claims[s])
         /\ \A e \in DOMAIN claims[s] :
              /\ claims[s][e] \in Claim
              /\ claims[s][e].owner \in Collector /\ claims[s][e].lapsed \in BOOLEAN
              /\ claims[s][e].outcome \in {"none", "completed", "abandoned"}
  <1>1. claims[s] \in Seq(Claim)
    BY DEF TypeOK
  <1>2. Len(claims[s]) \in Nat /\ DOMAIN claims[s] = 1..Len(claims[s])
    BY <1>1
  <1>3. ASSUME NEW e \in DOMAIN claims[s] PROVE claims[s][e] \in Claim
    BY <1>1, <1>2, <1>3
  <1> QED BY <1>1, <1>2, <1>3 DEF Claim

\* The epoch a collector releases is the one it claimed.
LEMMA EpochIsOwn ==
  ASSUME ClaimsSound, NEW c \in Collector, NEW s \in Slot, Claimed(c, s)
  PROVE  /\ Epoch(c, s) \in DOMAIN claims[s] /\ claims[s][Epoch(c, s)].owner = c
         /\ \A e \in DOMAIN claims[s] : claims[s][e].owner = c => e = Epoch(c, s)
  <1>1. Epoch(c, s) \in DOMAIN claims[s] /\ claims[s][Epoch(c, s)].owner = c
    BY DEF Claimed, Epoch
  <1> QED BY <1>1 DEF ClaimsSound

LEMMA ClaimsStay ==
  ASSUME TypeOK, ClaimsSound, Grows, UNCHANGED claims
  PROVE  ClaimsSound' /\ \A d \in Collector, s \in Slot : ClaimKept(d, s)
  <1>1. CompletedClaimsBacked'
    <2> SUFFICES ASSUME NEW s \in Slot, NEW e \in DOMAIN claims[s],
                        claims[s][e].outcome = "completed"
                 PROVE  stored'[s] = claims[s][e].owner
      BY DEF CompletedClaimsBacked
    <2>1. stored[s] = claims[s][e].owner /\ stored[s] # None
      BY ClaimFields, RolloutCollectionAssumption DEF ClaimsSound, CompletedClaimsBacked
    <2> QED BY <2>1 DEF Grows
  <1> QED BY <1>1 DEF ClaimsSound, ClaimKept

LEMMA AcquireEffect ==
  ASSUME TypeOK, ClaimsSound, UNCHANGED stored,
         NEW c \in Collector, NEW s \in Slot, ~Claimed(c, s), CanAcquire(s), DoAcquire(c, s)
  PROVE  /\ claims' \in [Slot -> Seq(Claim)] /\ ClaimsSound' /\ Claimed(c, s)'
         /\ \A e \in DOMAIN claims'[s] : claims'[s][e].owner = c => claims'[s][e].outcome = "none"
         /\ \A d \in Collector, t \in Slot : <<d, t>> # <<c, s>> => ClaimKept(d, t)
  <1> DEFINE new == [owner |-> c, lapsed |-> FALSE, outcome |-> "none"]
             n == Len(claims[s])
  <1>1. new \in Claim
    BY DEF Claim
  <1>2. claims[s] \in Seq(Claim) /\ n \in Nat /\ DOMAIN claims[s] = 1..n
    BY ClaimFields
  <1>3. claims'[s] = Append(claims[s], new) /\ \A t \in Slot \ {s} : claims'[t] = claims[t]
    BY DEF DoAcquire, TypeOK
  <1>4. claims' \in [Slot -> Seq(Claim)]
    BY <1>1, <1>2 DEF DoAcquire, TypeOK
  <1>5. /\ Len(claims'[s]) = n + 1 /\ DOMAIN claims'[s] = 1..(n + 1)
        /\ claims'[s][n + 1] = new /\ \A e \in 1..n : claims'[s][e] = claims[s][e]
    BY <1>1, <1>2, <1>3
  <1> HIDE DEF new, n
  <1>6. new.owner = c /\ new.outcome = "none"
    BY DEF new
  <1>7. \A e \in 1..n : claims[s][e].owner # c
    BY <1>2 DEF Claimed
  <1>8. \A d, e \in DOMAIN claims'[s] : claims'[s][d].owner = claims'[s][e].owner => d = e
    <2> SUFFICES ASSUME NEW d \in 1..(n + 1), NEW e \in 1..(n + 1),
                        claims'[s][d].owner = claims'[s][e].owner
                 PROVE  d = e
      BY <1>5
    <2>1. CASE d \in 1..n /\ e \in 1..n
      BY <2>1, <1>2, <1>5 DEF ClaimsSound
    <2>2. CASE d = n + 1 /\ e \in 1..n
      BY <2>2, <1>5, <1>6, <1>7
    <2>3. CASE d \in 1..n /\ e = n + 1
      BY <2>3, <1>5, <1>6, <1>7
    <2> QED BY <1>2, <2>1, <2>2, <2>3
  <1>9. \A e \in DOMAIN claims'[s] : e < Len(claims'[s]) =>
          claims'[s][e].lapsed \/ claims'[s][e].outcome # "none"
    <2> SUFFICES ASSUME NEW e \in 1..n
                 PROVE  claims[s][e].lapsed \/ claims[s][e].outcome # "none"
      BY <1>2, <1>5
    <2>1. CASE e < n
      BY <2>1, <1>2 DEF ClaimsSound, n
    <2>2. CASE e = n
      <3>1. claims[s] # <<>>
        BY <2>2, <1>2 DEF n
      <3> QED BY <3>1, <2>2 DEF CanAcquire, Live, Latest, n
    <2> QED BY <1>2, <2>1, <2>2
  <1>10. CompletedClaimsBacked'
    <2> SUFFICES ASSUME NEW t \in Slot, NEW e \in DOMAIN claims'[t],
                        claims'[t][e].outcome = "completed"
                 PROVE  stored[t] = claims'[t][e].owner
      BY DEF CompletedClaimsBacked
    <2>1. CASE t # s
      BY <2>1, <1>3 DEF ClaimsSound, CompletedClaimsBacked
    <2>2. CASE t = s /\ e \in 1..n
      BY <2>2, <1>2, <1>5 DEF ClaimsSound, CompletedClaimsBacked
    <2>3. CASE t = s /\ e = n + 1
      BY <2>3, <1>5, <1>6
    <2> QED BY <1>2, <1>5, <2>1, <2>2, <2>3
  <1>11. ClaimsSound'
    <2>1. ASSUME NEW t \in Slot
          PROVE  /\ \A d, e \in DOMAIN claims'[t] : claims'[t][d].owner = claims'[t][e].owner => d = e
                 /\ \A e \in DOMAIN claims'[t] : e < Len(claims'[t]) =>
                      claims'[t][e].lapsed \/ claims'[t][e].outcome # "none"
      <3>1. CASE t = s
        BY <3>1, <1>8, <1>9
      <3>2. CASE t # s
        BY <3>2, <1>3 DEF ClaimsSound
      <3> QED BY <3>1, <3>2
    <2> QED BY <2>1, <1>10 DEF ClaimsSound
  <1>12. Claimed(c, s)'
    BY <1>2, <1>5, <1>6 DEF Claimed
  <1>13. \A e \in DOMAIN claims'[s] : claims'[s][e].owner = c => claims'[s][e].outcome = "none"
    BY <1>2, <1>5, <1>6, <1>7
  <1>14. ASSUME NEW d \in Collector, NEW t \in Slot, <<d, t>> # <<c, s>>
         PROVE  ClaimKept(d, t)
    <2>1. CASE t # s
      BY <2>1, <1>3 DEF ClaimKept
    <2>2. CASE t = s /\ d # c
      BY <2>2, <1>2, <1>5, <1>6 DEF ClaimKept
    <2> QED BY <1>14, <2>1, <2>2
  <1> QED BY <1>4, <1>11, <1>12, <1>13, <1>14

LEMMA ReleaseEffect ==
  ASSUME TypeOK, ClaimsSound, UNCHANGED stored,
         NEW c \in Collector, NEW s \in Slot, Claimed(c, s),
         NEW o \in {"completed", "abandoned"}, o = "completed" => stored[s] = c,
         DoRelease(c, s, o)
  PROVE  /\ claims' \in [Slot -> Seq(Claim)] /\ ClaimsSound' /\ Claimed(c, s)'
         /\ \A d \in Collector, t \in Slot : <<d, t>> # <<c, s>> => ClaimKept(d, t)
  <1> DEFINE n == Len(claims[s])
             k == Epoch(c, s)
             new == [claims[s][k] EXCEPT !.outcome = IF @ = "none" THEN o ELSE @]
  <1>1. claims[s] \in Seq(Claim) /\ n \in Nat /\ DOMAIN claims[s] = 1..n
    BY ClaimFields
  <1>2. k \in 1..n /\ claims[s][k].owner = c /\ claims[s][k] \in Claim
    BY <1>1, EpochIsOwn, ClaimFields
  <1>3. claims'[s] = [claims[s] EXCEPT ![k] = new] /\ \A t \in Slot \ {s} : claims'[t] = claims[t]
    BY DEF DoRelease, TypeOK
  <1>4. /\ new \in Claim /\ new.owner = c /\ new.lapsed = claims[s][k].lapsed
        /\ new.outcome # "none" /\ new.outcome \in {claims[s][k].outcome, o}
    BY <1>2 DEF Claim
  <1> HIDE DEF new, k, n
  <1>5. claims'[s] \in Seq(Claim)
    BY <1>1, <1>2, <1>3, <1>4
  <1>6. claims' \in [Slot -> Seq(Claim)]
    <2>1. claims' = [claims EXCEPT ![s] = claims'[s]]
      BY <1>3 DEF DoRelease, TypeOK
    <2> QED BY <2>1, <1>5 DEF TypeOK
  <1>7. /\ Len(claims'[s]) = n /\ DOMAIN claims'[s] = 1..n
        /\ claims'[s][k] = new /\ \A e \in (1..n) \ {k} : claims'[s][e] = claims[s][e]
    BY <1>1, <1>2, <1>3, <1>4 DEF n
  <1>8. \A e \in 1..n : /\ claims'[s][e].owner = claims[s][e].owner
                        /\ claims'[s][e].lapsed = claims[s][e].lapsed
    BY <1>2, <1>4, <1>7
  <1>9. \A d, e \in DOMAIN claims'[s] : claims'[s][d].owner = claims'[s][e].owner => d = e
    BY <1>1, <1>7, <1>8 DEF ClaimsSound
  <1>10. \A e \in DOMAIN claims'[s] : e < Len(claims'[s]) =>
           claims'[s][e].lapsed \/ claims'[s][e].outcome # "none"
    <2> SUFFICES ASSUME NEW e \in 1..n, e < n
                 PROVE  claims'[s][e].lapsed \/ claims'[s][e].outcome # "none"
      BY <1>7
    <2>1. CASE e = k
      BY <2>1, <1>4, <1>7
    <2>2. CASE e # k
      BY <2>2, <1>1, <1>7 DEF ClaimsSound, n
    <2> QED BY <2>1, <2>2
  <1>11. CompletedClaimsBacked'
    <2> SUFFICES ASSUME NEW t \in Slot, NEW e \in DOMAIN claims'[t],
                        claims'[t][e].outcome = "completed"
                 PROVE  stored[t] = claims'[t][e].owner
      BY DEF CompletedClaimsBacked
    <2>1. CASE t # s
      BY <2>1, <1>3 DEF ClaimsSound, CompletedClaimsBacked
    <2>2. CASE t = s /\ e # k
      BY <2>2, <1>1, <1>7 DEF ClaimsSound, CompletedClaimsBacked
    <2>3. CASE t = s /\ e = k
      <3>1. claims[s][k].outcome = "completed" \/ o = "completed"
        BY <2>3, <1>4, <1>7
      <3> QED BY <3>1, <2>3, <1>1, <1>2, <1>4, <1>7 DEF ClaimsSound, CompletedClaimsBacked
    <2> QED BY <2>1, <2>2, <2>3
  <1>12. ClaimsSound'
    BY <1>3, <1>9, <1>10, <1>11 DEF ClaimsSound
  <1>13. Claimed(c, s)'
    BY <1>2, <1>7, <1>8 DEF Claimed
  <1>14. ASSUME NEW d \in Collector, NEW t \in Slot, <<d, t>> # <<c, s>>
         PROVE  ClaimKept(d, t)
    <2>1. CASE t # s
      BY <2>1, <1>3 DEF ClaimKept
    <2>2. CASE t = s /\ d # c
      BY <2>2, <1>1, <1>2, <1>7, <1>8 DEF ClaimKept
    <2> QED BY <1>14, <2>1, <2>2
  <1> QED BY <1>6, <1>12, <1>13, <1>14

LEMMA LapseEffect ==
  ASSUME TypeOK, ClaimsSound, NEW s \in Slot, LapseClaim(s)
  PROVE  /\ claims' \in [Slot -> Seq(Claim)] /\ ClaimsSound'
         /\ \A d \in Collector, t \in Slot : ClaimKept(d, t)
  <1> DEFINE n == Len(claims[s])
             new == [claims[s][n] EXCEPT !.lapsed = TRUE]
  <1>1. claims[s] \in Seq(Claim) /\ n \in Nat /\ DOMAIN claims[s] = 1..n
    BY ClaimFields
  <1>2. n \in 1..n /\ claims[s][n] \in Claim
    BY <1>1 DEF LapseClaim
  <1>3. claims'[s] = [claims[s] EXCEPT ![n] = new] /\ \A t \in Slot \ {s} : claims'[t] = claims[t]
    BY DEF LapseClaim, TypeOK
  <1>4. /\ new \in Claim /\ new.owner = claims[s][n].owner /\ new.lapsed
        /\ new.outcome = claims[s][n].outcome
    BY <1>2 DEF Claim
  <1> HIDE DEF new, n
  <1>5. claims'[s] \in Seq(Claim)
    BY <1>1, <1>2, <1>3, <1>4
  <1>6. claims' \in [Slot -> Seq(Claim)]
    <2>1. claims' = [claims EXCEPT ![s] = claims'[s]]
      BY <1>3 DEF LapseClaim, TypeOK
    <2> QED BY <2>1, <1>5 DEF TypeOK
  <1>7. /\ Len(claims'[s]) = n /\ DOMAIN claims'[s] = 1..n
        /\ claims'[s][n] = new /\ \A e \in (1..n) \ {n} : claims'[s][e] = claims[s][e]
    BY <1>1, <1>2, <1>3, <1>4 DEF n
  <1>8. \A e \in 1..n : /\ claims'[s][e].owner = claims[s][e].owner
                        /\ claims'[s][e].outcome = claims[s][e].outcome
    BY <1>2, <1>4, <1>7
  <1>9. ASSUME NEW t \in Slot
        PROVE  /\ \A d, e \in DOMAIN claims'[t] : claims'[t][d].owner = claims'[t][e].owner => d = e
               /\ \A e \in DOMAIN claims'[t] : e < Len(claims'[t]) =>
                    claims'[t][e].lapsed \/ claims'[t][e].outcome # "none"
               /\ \A e \in DOMAIN claims'[t] : claims'[t][e].outcome = "completed" =>
                    stored[t] = claims'[t][e].owner
               /\ \A d \in Collector : ClaimKept(d, t)
    <2>1. CASE t # s
      BY <2>1, <1>3 DEF ClaimsSound, CompletedClaimsBacked, ClaimKept
    <2>2. CASE t = s
      <3>1. \A d, e \in DOMAIN claims'[s] : claims'[s][d].owner = claims'[s][e].owner => d = e
        BY <1>1, <1>7, <1>8 DEF ClaimsSound
      <3>2. \A e \in DOMAIN claims'[s] : e < Len(claims'[s]) =>
              claims'[s][e].lapsed \/ claims'[s][e].outcome # "none"
        BY <1>1, <1>7 DEF ClaimsSound, n
      <3>3. \A e \in DOMAIN claims'[s] : claims'[s][e].outcome = "completed" =>
              stored[s] = claims'[s][e].owner
        BY <1>1, <1>7, <1>8 DEF ClaimsSound, CompletedClaimsBacked
      <3>4. \A d \in Collector : ClaimKept(d, s)
        BY <1>1, <1>7, <1>8 DEF ClaimKept
      <3> QED BY <2>2, <3>1, <3>2, <3>3, <3>4
    <2> QED BY <2>1, <2>2
  <1>10. UNCHANGED stored
    BY DEF LapseClaim
  <1>11. ClaimsSound'
    BY <1>9, <1>10 DEF ClaimsSound, CompletedClaimsBacked
  <1> QED BY <1>6, <1>9, <1>11

-----------------------------------------------------------------------------
(* A step of one collector on one slot leaves the others what they know.    *)

LEMMA JobKept ==
  ASSUME NEW d \in Collector, NEW t \in Slot, JobKnows(d, t), StrayKnows(d, t),
         Grows, ClaimKept(d, t), StraysKept(d, t), job'[d][t] = job[d][t],
         None \notin Collector
  PROVE  JobKnows(d, t)' /\ StrayKnows(d, t)'
  <1>1. Claimed(d, t)' <=> Claimed(d, t)
    BY DEF Claimed, ClaimKept
  <1>2. stored[t] # None => stored'[t] = stored[t]
    BY DEF Grows
  <1>3. stored[t] = d => stored'[t] = d
    BY <1>2
  <1>4. attached[d] \subseteq attached'[d] /\ sharded[d] \subseteq sharded'[d]
    BY DEF Grows
  <1>5. JobKnows(d, t)'
    BY <1>1, <1>2, <1>3, <1>4 DEF JobKnows, ClaimKept
  <1>6. StrayKnows(d, t)'
    BY <1>1, <1>2, <1>3 DEF StrayKnows, StraysKept, InThread
  <1> QED BY <1>5, <1>6

LEMMA CollectorKept ==
  ASSUME TypeOK, NEW d \in Collector, CollectorKnows(d), Grows,
         pc'[d] = pc[d], run'[d] = run[d], manifest'[d] = manifest[d],
         leaving'[d] = leaving[d], writing'[d] \subseteq writing[d], UNCHANGED reviewed,
         attached'[d] \subseteq Slot,
         \A s \in attached'[d] \ attached[d] : stored'[s] # None
  PROVE  CollectorKnows(d)'
  <1>1. \A s \in attached'[d] : stored'[s] # None
    <2> SUFFICES ASSUME NEW s \in attached'[d] PROVE stored'[s] # None
      OBVIOUS
    <2>1. CASE s \in attached[d]
      BY <2>1 DEF Grows, CollectorKnows
    <2> QED BY <2>1
  <1>2. attached[d] = Slot => attached'[d] = Slot
    BY DEF Grows
  <1>3. \A s \in Slot : <<"reput", s>> \in writing'[d] => stored'[s] # None
    BY DEF Grows, CollectorKnows
  <1> QED BY <1>1, <1>2, <1>3 DEF CollectorKnows, Finishing

LEMMA JobStep ==
  ASSUME TypeOK, NEW c \in Collector, NEW s \in Slot, NEW l \in Job, JobTo(c, s, l)
  PROVE  /\ job' \in [Collector -> [Slot -> Job]] /\ job'[c][s] = l
         /\ \A d \in Collector, t \in Slot : <<d, t>> # <<c, s>> => job'[d][t] = job[d][t]
  BY DEF TypeOK, JobTo

LEMMA GotoStep ==
  ASSUME TypeOK, NEW c \in Collector, NEW l \in PC, Goto(c, l)
  PROVE  /\ pc' \in [Collector -> PC] /\ pc'[c] = l
         /\ \A d \in Collector \ {c} : pc'[d] = pc[d]
  BY DEF TypeOK, Goto

LEMMA WriteStep ==
  ASSUME TypeOK, NEW c \in Collector
  PROVE  /\ \A call \in Writes : Checked(c, call) =>
              /\ writing' \in [Collector -> SUBSET Writes] /\ writing'[c] = {call}
              /\ \A d \in Collector \ {c} : writing'[d] = writing[d]
         /\ Written(c) =>
              /\ writing' \in [Collector -> SUBSET Writes] /\ writing'[c] = {}
              /\ \A d \in Collector \ {c} : writing'[d] = writing[d]
  <1>1. writing \in [Collector -> SUBSET Writes]
    BY DEF TypeOK
  <1>2. ASSUME NEW calls \in SUBSET Writes, writing' = [writing EXCEPT ![c] = calls]
        PROVE  /\ writing' \in [Collector -> SUBSET Writes] /\ writing'[c] = calls
               /\ \A d \in Collector \ {c} : writing'[d] = writing[d]
    BY <1>1, <1>2
  <1>3. {} \in SUBSET Writes /\ \A call \in Writes : {call} \in SUBSET Writes
    OBVIOUS
  <1> QED BY <1>2, <1>3 DEF Checked, Written

LEMMA LeavingStep ==
  ASSUME TypeOK, NEW c \in Collector, NEW l \in {"no", "failing", "closing", "closed"},
         LeavingTo(c, l)
  PROVE  /\ leaving' \in [Collector -> {"no", "failing", "closing", "closed"}]
         /\ leaving'[c] = l /\ \A d \in Collector \ {c} : leaving'[d] = leaving[d]
  BY DEF TypeOK, LeavingTo

LEMMA StrayStep ==
  ASSUME TypeOK, NEW c \in Collector, NEW s \in Slot, NEW l \in InThread,
         StrayEnds(c, <<l, s>>)
  PROVE  /\ stray' \in [Collector -> SUBSET (InThread \X Slot)]
         /\ \A d \in Collector \ {c} : stray'[d] = stray[d]
         /\ stray'[c] = stray[c] \ {<<l, s>>}
  BY DEF TypeOK, StrayEnds

LEMMA PutStep ==
  ASSUME TypeOK, NEW c \in Collector, NEW s \in Slot, NEW whose \in Collector \cup {Earlier},
         CanPut(s, whose), DoPut(c, s, whose), UNCHANGED sharded
  PROVE  /\ stored' \in [Slot -> Collector \cup {Earlier, None}]
         /\ attached' \in [Collector -> SUBSET Slot]
         /\ Grows /\ stored'[s] = whose /\ s \in attached'[c]
         /\ \A d \in Collector : \A t \in attached'[d] \ attached[d] : stored'[t] # None
  BY RolloutCollectionAssumption DEF TypeOK, CanPut, DoPut, Grows

LEMMA ShardStep ==
  ASSUME TypeOK, NEW c \in Collector, NEW s \in Slot,
         sharded' = [sharded EXCEPT ![c] = @ \cup {s}]
  PROVE  /\ sharded' \in [Collector -> SUBSET Slot] /\ s \in sharded'[c]
         /\ \A d \in Collector : sharded[d] \subseteq sharded'[d]
  <1>1. sharded[c] \cup {s} \in SUBSET Slot
    BY DEF TypeOK
  <1>2. sharded' \in [Collector -> SUBSET Slot] /\ sharded'[c] = sharded[c] \cup {s}
    BY <1>1 DEF TypeOK
  <1>3. \A d \in Collector : d # c => sharded'[d] = sharded[d]
    BY DEF TypeOK
  <1> QED BY <1>2, <1>3

\* What remains to be shown of a step on one slot.
LEMMA SlotStep ==
  ASSUME Inv, NEW c \in Collector, NEW s \in Slot, TypeOK', ClaimsSound', Grows,
         \A d \in Collector, t \in Slot : <<d, t>> # <<c, s>> =>
           ClaimKept(d, t) /\ StraysKept(d, t) /\ job'[d][t] = job[d][t],
         JobKnows(c, s)', StrayKnows(c, s)', \A d \in Collector : CollectorKnows(d)'
  PROVE  Inv'
  <1>1. ASSUME NEW d \in Collector, NEW t \in Slot
        PROVE  JobKnows(d, t)' /\ StrayKnows(d, t)'
    <2>1. CASE <<d, t>> = <<c, s>>
      BY <2>1
    <2>2. CASE <<d, t>> # <<c, s>>
      BY <2>2, JobKept, RolloutCollectionAssumption DEF Inv
    <2> QED BY <2>1, <2>2
  <1> QED BY <1>1 DEF Inv

\* Steps that only move a task on.
LEMMA MoveStep ==
  ASSUME Inv, NEW c \in Collector, NEW s \in Slot, NEW l \in Job, JobTo(c, s, l),
         UNCHANGED <<shared, manifest, pc, stray, writing, reviewed, leaving>>, JobKnows(c, s)', StrayKnows(c, s)'
  PROVE  Inv'
  <1>1. TypeOK'
    BY JobStep DEF Inv, TypeOK, shared
  <1>2. Grows
    BY DEF Grows, shared
  <1>3. ClaimsSound' /\ \A d \in Collector, t \in Slot : ClaimKept(d, t)
    BY <1>2, ClaimsStay DEF Inv, shared
  <1>4. \A d \in Collector, t \in Slot : StraysKept(d, t)
    BY DEF StraysKept
  <1>5. \A d \in Collector : CollectorKnows(d)'
    BY <1>1, <1>2, CollectorKept DEF Inv, TypeOK, shared
  <1>6. \A d \in Collector, t \in Slot : <<d, t>> # <<c, s>> => job'[d][t] = job[d][t]
    BY JobStep DEF Inv
  <1> QED BY <1>1, <1>2, <1>3, <1>4, <1>5, <1>6, SlotStep

LEMMA Moves ==
  ASSUME Inv, NEW c \in Collector, NEW s \in Slot,
         \/ ReadSlot(c, s) \/ StartReuse(c, s) \/ Admit(c, s) \/ Model(c, s)
         \/ AssertCurrent(c, s) \/ StopRenewal(c, s) \/ Confirm(c, s)
  PROVE  Inv'
  <1> USE DEF Inv, Job, Admitted, Executing, Renewed, Done
  <1>1. PICK l \in Job :
          /\ JobTo(c, s, l) /\ UNCHANGED <<shared, manifest, pc, stray, writing, reviewed, leaving>>
          /\ \/ job[c][s] = "unread" /\ l = "missing"
             \/ job[c][s] = "unread" /\ l = "found" /\ stored[s] # None
             \/ job[c][s] = "found" /\ l = "reput"
             \/ job[c][s] = "queued" /\ l = "acquire"
             \/ job[c][s] \in Executing /\ l = "cleanup"
             \/ job[c][s] = "model" /\ l = "assert"
             \/ job[c][s] = "assert" /\ l = "put"
             \/ job[c][s] = "stop" /\ l = "confirm"
             \/ job[c][s] = "confirm" /\ l = "release"
    <2>1. CASE ReadSlot(c, s)
      BY <2>1 DEF ReadSlot
    <2>2. CASE StartReuse(c, s)
      BY <2>2 DEF StartReuse
    <2>3. CASE Admit(c, s)
      BY <2>3 DEF Admit
    <2>4. CASE Model(c, s)
      BY <2>4 DEF Model
    <2>5. CASE AssertCurrent(c, s)
      BY <2>5 DEF AssertCurrent
    <2>6. CASE StopRenewal(c, s)
      BY <2>6 DEF StopRenewal
    <2>7. CASE Confirm(c, s)
      BY <2>7 DEF Confirm
    <2> QED BY <2>1, <2>2, <2>3, <2>4, <2>5, <2>6, <2>7
  <1>2. job'[c][s] = l /\ JobKnows(c, s) /\ StrayKnows(c, s)
    BY <1>1, JobStep
  <1>3. UNCHANGED <<claims, stored, attached, sharded, stray>>
    BY <1>1 DEF shared
  <1>4. JobKnows(c, s)'
    BY <1>1, <1>2, <1>3 DEF JobKnows, Claimed, Unclaimed, Stored, Attached, Sharded
  <1>5. StrayKnows(c, s)'
    BY <1>1, <1>2, <1>3 DEF StrayKnows, Claimed, InThread
  <1> QED BY <1>1, <1>4, <1>5, MoveStep

LEMMA AcquireInv ==
  ASSUME Inv, NEW c \in Collector, NEW s \in Slot, Acquire(c, s)
  PROVE  Inv'
  <1>1. JobKnows(c, s) /\ StrayKnows(c, s) /\ TypeOK /\ ClaimsSound
    BY DEF Inv
  <1>2. CASE CanAcquire(s)
    <2>1. DoAcquire(c, s) /\ JobTo(c, s, "model") /\ "model" \in Job
      BY <1>2 DEF Acquire, Job, Admitted, Executing, Renewed
    <2>2. ~Claimed(c, s)
      BY <1>1 DEF Acquire, JobKnows, Unclaimed
    <2>3. UNCHANGED <<stored, run, lease, attached, sharded, manifest, pc, stray, writing, reviewed, leaving>>
      BY DEF Acquire
    <2>4. /\ claims' \in [Slot -> Seq(Claim)] /\ ClaimsSound' /\ Claimed(c, s)'
          /\ \A e \in DOMAIN claims'[s] :
               claims'[s][e].owner = c => claims'[s][e].outcome = "none"
          /\ \A d \in Collector, t \in Slot : <<d, t>> # <<c, s>> => ClaimKept(d, t)
      BY <1>1, <1>2, <2>1, <2>2, <2>3, AcquireEffect
    <2>5. TypeOK'
      BY <1>1, <2>1, <2>3, <2>4, JobStep DEF TypeOK
    <2>6. Grows
      BY <2>3 DEF Grows
    <2>7. job'[c][s] = "model"
      BY <1>1, <2>1, JobStep
    <2>8. JobKnows(c, s)'
      BY <2>4, <2>7 DEF JobKnows, Unclaimed, Stored, Attached, Sharded
    <2>9. StrayKnows(c, s)'
      BY <1>1, <2>3 DEF Acquire, StrayKnows, InThread
    <2>10. \A d \in Collector : CollectorKnows(d)'
      BY <2>3, <2>5, <2>6, CollectorKept DEF Inv, TypeOK
    <2>11. \A d \in Collector, t \in Slot : <<d, t>> # <<c, s>> =>
             ClaimKept(d, t) /\ StraysKept(d, t) /\ job'[d][t] = job[d][t]
      BY <1>1, <2>1, <2>3, <2>4, JobStep DEF StraysKept
    <2> QED BY <2>4, <2>5, <2>6, <2>8, <2>9, <2>10, <2>11, SlotStep
  <1>3. CASE ~CanAcquire(s)
    <2>1. JobTo(c, s, "raised") /\ "raised" \in Job /\ UNCHANGED <<shared, manifest, pc, stray, writing, reviewed, leaving>>
      BY <1>3 DEF Acquire, Job, Done, shared
    <2>2. job'[c][s] = "raised"
      BY <1>1, <2>1, JobStep
    <2>3. JobKnows(c, s)'
      BY <2>2 DEF JobKnows, Unclaimed, Stored, Attached, Sharded, Executing, Renewed
    <2>4. StrayKnows(c, s)'
      BY <1>1, <2>1 DEF Acquire, StrayKnows, InThread
    <2> QED BY <2>1, <2>3, <2>4, MoveStep
  <1> QED BY <1>2, <1>3

\* Steps that put a trajectory or a shard; the task may move on, or a stray and
\* a write may end.
LEMMA StoreStep ==
  ASSUME Inv, NEW c \in Collector, NEW s \in Slot,
         UNCHANGED <<claims, run, manifest, pc, reviewed, leaving>>, TypeOK', Grows,
         \A d \in Collector : writing'[d] \subseteq writing[d],
         \A d \in Collector : \A t \in attached'[d] \ attached[d] : stored'[t] # None,
         \A d \in Collector, t \in Slot : <<d, t>> # <<c, s>> =>
           StraysKept(d, t) /\ job'[d][t] = job[d][t],
         JobKnows(c, s)', StrayKnows(c, s)'
  PROVE  Inv'
  <1>1. ClaimsSound' /\ \A d \in Collector, t \in Slot : ClaimKept(d, t)
    BY ClaimsStay DEF Inv
  <1>2. \A d \in Collector : CollectorKnows(d)'
    BY CollectorKept DEF Inv, TypeOK
  <1> QED BY <1>1, <1>2, SlotStep

\* The write of a stray call, and a stray call that is refused.
LEMMA StrayWritten ==
  ASSUME Inv, NEW c \in Collector, NEW s \in Slot, NEW l \in InThread,
         StrayEnds(c, <<l, s>>), Grows,
         UNCHANGED <<claims, run, lease, sharded, manifest, pc, job, reviewed, leaving>>,
         writing' \in [Collector -> SUBSET Writes],
         \A d \in Collector : writing'[d] \subseteq writing[d],
         stored' \in [Slot -> Collector \cup {Earlier, None}],
         attached' \in [Collector -> SUBSET Slot],
         \A d \in Collector : \A t \in attached'[d] \ attached[d] : stored'[t] # None
  PROVE  Inv'
  <1>1. /\ stray' \in [Collector -> SUBSET (InThread \X Slot)]
        /\ \A d \in Collector, t \in Slot : StraysKept(d, t)
    BY StrayStep DEF Inv, StraysKept
  <1>2. TypeOK'
    BY <1>1 DEF Inv, TypeOK
  <1>3. ClaimKept(c, s)
    BY DEF ClaimKept
  <1>4. JobKnows(c, s)' /\ StrayKnows(c, s)'
    BY <1>1, <1>3, JobKept, RolloutCollectionAssumption DEF Inv
  <1> QED BY <1>1, <1>2, <1>4, StoreStep

\* The thread of a put writes: its task goes on, or the call was a stray.
LEMMA PutWritesInv ==
  ASSUME Inv, NEW c \in Collector, NEW s \in Slot, PutWrites(c, s)
  PROVE  Inv'
  <1>1. /\ JobKnows(c, s) /\ StrayKnows(c, s) /\ TypeOK
        /\ UNCHANGED <<claims, run, lease, sharded, manifest, pc, reviewed, leaving>>
    BY DEF Inv, PutWrites
  <1>2. {"shard", "cleanup"} \subseteq Job /\ "put" \in InThread
    BY DEF Job, Admitted, Executing, Renewed, InThread
  <1>3. /\ writing' \in [Collector -> SUBSET Writes]
        /\ \A d \in Collector : writing'[d] \subseteq writing[d]
    BY <1>1, WriteStep DEF PutWrites
  <1>4. /\ stored' \in [Slot -> Collector \cup {Earlier, None}]
        /\ attached' \in [Collector -> SUBSET Slot]
        /\ Grows /\ (CanPut(s, c) => stored'[s] = c /\ s \in attached'[c])
        /\ \A d \in Collector : \A t \in attached'[d] \ attached[d] : stored'[t] # None
    <2>1. CASE CanPut(s, c)
      <3>1. DoPut(c, s, c)
        BY <2>1 DEF PutWrites
      <3> QED BY <1>1, <2>1, <3>1, PutStep
    <2>2. CASE ~CanPut(s, c)
      BY <1>1, <2>2 DEF PutWrites, TypeOK, Grows
    <2> QED BY <2>1, <2>2
  <1>5. CASE job[c][s] = "put"
    <2>1. PICK l \in {"shard", "cleanup"} : JobTo(c, s, l) /\ (l = "shard" => CanPut(s, c))
      BY <1>5 DEF PutWrites
    <2>2. UNCHANGED stray
      BY <1>5 DEF PutWrites
    <2>3. /\ TypeOK' /\ job'[c][s] = l
          /\ \A d \in Collector, t \in Slot : <<d, t>> # <<c, s>> => job'[d][t] = job[d][t]
      BY <1>1, <1>2, <1>3, <1>4, <2>1, <2>2, JobStep DEF TypeOK
    <2>4. JobKnows(c, s)'
      BY <1>1, <1>4, <1>5, <2>1, <2>3
      DEF JobKnows, Claimed, Unclaimed, Stored, Attached, Sharded, Executing, Renewed
    <2>5. StrayKnows(c, s)'
      BY <1>1, <1>5, <2>2 DEF StrayKnows, InThread
    <2>6. \A d \in Collector, t \in Slot : StraysKept(d, t)
      BY <2>2 DEF StraysKept
    <2> QED BY <1>1, <1>3, <1>4, <2>3, <2>4, <2>5, <2>6, StoreStep
  <1>6. CASE job[c][s] # "put"
    <2>1. UNCHANGED job /\ StrayEnds(c, <<"put", s>>)
      BY <1>6 DEF PutWrites
    <2> QED BY <1>1, <1>2, <1>3, <1>4, <2>1, StrayWritten
  <1> QED BY <1>5, <1>6

LEMMA ReusePutWritesInv ==
  ASSUME Inv, NEW c \in Collector, NEW s \in Slot, ReusePutWrites(c, s)
  PROVE  Inv'
  <1>1. /\ JobKnows(c, s) /\ StrayKnows(c, s) /\ TypeOK /\ CollectorKnows(c)
        /\ DoPut(c, s, stored[s])
        /\ UNCHANGED <<claims, run, lease, sharded, manifest, pc, reviewed, leaving>>
    BY DEF Inv, ReusePutWrites
  <1>2. "reshard" \in Job /\ "reput" \in InThread
    BY DEF Job, InThread
  <1>3. /\ writing' \in [Collector -> SUBSET Writes]
        /\ \A d \in Collector : writing'[d] \subseteq writing[d]
    BY <1>1, WriteStep DEF ReusePutWrites
  <1>4. stored[s] \in Collector \cup {Earlier} /\ CanPut(s, stored[s])
    BY <1>1 DEF ReusePutWrites, CollectorKnows, TypeOK, CanPut
  <1>5. /\ stored' \in [Slot -> Collector \cup {Earlier, None}]
        /\ attached' \in [Collector -> SUBSET Slot]
        /\ Grows /\ s \in attached'[c]
        /\ \A d \in Collector : \A t \in attached'[d] \ attached[d] : stored'[t] # None
    BY <1>1, <1>4, PutStep
  <1>6. CASE job[c][s] = "reput"
    <2>1. JobTo(c, s, "reshard") /\ UNCHANGED stray
      BY <1>6 DEF ReusePutWrites
    <2>2. /\ TypeOK' /\ job'[c][s] = "reshard"
          /\ \A d \in Collector, t \in Slot : <<d, t>> # <<c, s>> => job'[d][t] = job[d][t]
      BY <1>1, <1>2, <1>3, <1>5, <2>1, JobStep DEF TypeOK
    <2>3. JobKnows(c, s)'
      BY <1>1, <1>5, <1>6, <2>2
      DEF JobKnows, Claimed, Unclaimed, Stored, Attached, Sharded, Executing, Renewed
    <2>4. StrayKnows(c, s)'
      BY <1>1, <1>6, <2>1 DEF StrayKnows, InThread
    <2>5. \A d \in Collector, t \in Slot : StraysKept(d, t)
      BY <2>1 DEF StraysKept
    <2> QED BY <1>1, <1>3, <1>5, <2>2, <2>3, <2>4, <2>5, StoreStep
  <1>7. CASE job[c][s] # "reput"
    <2>1. UNCHANGED job /\ StrayEnds(c, <<"reput", s>>)
      BY <1>7 DEF ReusePutWrites
    <2> QED BY <1>1, <1>2, <1>3, <1>5, <2>1, StrayWritten
  <1> QED BY <1>6, <1>7

LEMMA ShardInv ==
  ASSUME Inv, NEW c \in Collector, NEW s \in Slot, Shard(c, s)
  PROVE  Inv'
  <1>1. /\ JobKnows(c, s) /\ StrayKnows(c, s) /\ TypeOK /\ job[c][s] = "shard"
        /\ UNCHANGED <<claims, stored, run, lease, attached, manifest, pc, stray, writing, reviewed, leaving>>
    BY DEF Inv, Shard
  <1>2. {"stop", "cleanup"} \subseteq Job
    BY DEF Job, Admitted, Executing
  <1>3. PICK l \in {"stop", "cleanup"} :
          /\ JobTo(c, s, l)
          /\ \/ l = "stop" /\ sharded' = [sharded EXCEPT ![c] = @ \cup {s}]
             \/ l = "cleanup" /\ UNCHANGED sharded
    BY DEF Shard
  <1>4. /\ sharded' \in [Collector -> SUBSET Slot] /\ (l = "stop" => s \in sharded'[c])
        /\ \A d \in Collector : sharded[d] \subseteq sharded'[d]
    BY <1>1, <1>3, ShardStep DEF TypeOK
  <1>5. TypeOK' /\ job'[c][s] = l /\ Grows
    BY <1>1, <1>2, <1>3, <1>4, JobStep DEF TypeOK, Grows
  <1>6. JobKnows(c, s)'
    BY <1>1, <1>4, <1>5
    DEF JobKnows, Claimed, Unclaimed, Stored, Attached, Sharded, Executing, Renewed
  <1>7. StrayKnows(c, s)'
    BY <1>1 DEF StrayKnows, InThread
  <1>8. \A d \in Collector, t \in Slot : <<d, t>> # <<c, s>> =>
          StraysKept(d, t) /\ job'[d][t] = job[d][t]
    BY <1>1, <1>2, <1>3, JobStep DEF StraysKept
  <1> QED BY <1>1, <1>5, <1>6, <1>7, <1>8, StoreStep

\* Steps that record the outcome of a claim, and move the task on.
LEMMA OutcomeInv ==
  ASSUME Inv, NEW c \in Collector, NEW s \in Slot, ReleaseCompleted(c, s) \/ Cleanup(c, s)
  PROVE  Inv'
  <1>1. /\ JobKnows(c, s) /\ StrayKnows(c, s) /\ TypeOK /\ ClaimsSound
        /\ UNCHANGED <<stored, run, lease, attached, sharded, manifest, pc, stray, writing, reviewed, leaving>>
        /\ job[c][s] \in {"release", "cleanup"}
    BY DEF Inv, ReleaseCompleted, Cleanup
  <1>2. {"returned", "cleanup", "raised"} \subseteq Job
    BY DEF Job, Admitted, Done
  <1>3. Claimed(c, s)
    BY <1>1 DEF JobKnows, Executing
  <1>4. CASE job[c][s] = "release" /\ JobTo(c, s, "cleanup") /\ UNCHANGED claims
    <2>1. job'[c][s] = "cleanup"
      BY <1>1, <1>2, <1>4, JobStep
    <2>2. JobKnows(c, s)'
      BY <1>1, <1>3, <1>4, <2>1
      DEF JobKnows, Claimed, Unclaimed, Stored, Attached, Sharded, Executing, Renewed
    <2>3. StrayKnows(c, s)'
      BY <1>1, <1>4 DEF StrayKnows, InThread
    <2> QED BY <1>1, <1>2, <1>4, <2>2, <2>3, MoveStep DEF shared
  <1>5. ASSUME NEW o \in {"completed", "abandoned"}, DoRelease(c, s, o),
               NEW l \in {"returned", "raised"}, JobTo(c, s, l),
               \/ job[c][s] = "release" /\ o = "completed" /\ l = "returned"
               \/ job[c][s] = "cleanup" /\ o = "abandoned" /\ l = "raised"
        PROVE  Inv'
    <2>1. /\ claims' \in [Slot -> Seq(Claim)] /\ ClaimsSound' /\ Claimed(c, s)'
          /\ \A d \in Collector, t \in Slot : <<d, t>> # <<c, s>> => ClaimKept(d, t)
      BY <1>1, <1>3, <1>5, ReleaseEffect DEF JobKnows, Stored
    <2>2. TypeOK' /\ job'[c][s] = l /\ Grows
      BY <1>1, <1>2, <1>5, <2>1, JobStep DEF TypeOK, Grows
    <2>3. JobKnows(c, s)'
      BY <1>1, <1>5, <2>1, <2>2
      DEF JobKnows, Unclaimed, Stored, Attached, Sharded, Executing, Renewed
    <2>4. StrayKnows(c, s)'
      BY <1>1, <1>3, <1>5, <2>1, <2>2 DEF StrayKnows, InThread
    <2>5. \A d \in Collector : CollectorKnows(d)'
      BY <1>1, <2>2, CollectorKept DEF Inv, TypeOK
    <2>6. \A d \in Collector, t \in Slot : <<d, t>> # <<c, s>> =>
             ClaimKept(d, t) /\ StraysKept(d, t) /\ job'[d][t] = job[d][t]
      BY <1>1, <1>2, <1>5, <2>1, JobStep DEF StraysKept
    <2> QED BY <2>1, <2>2, <2>3, <2>4, <2>5, <2>6, SlotStep
  <1>6. CASE ReleaseCompleted(c, s) /\ CanRelease(c, s, "completed")
    BY <1>5, <1>6 DEF ReleaseCompleted
  <1>7. CASE ReleaseCompleted(c, s) /\ ~CanRelease(c, s, "completed")
    BY <1>4, <1>7 DEF ReleaseCompleted
  <1>8. CASE Cleanup(c, s)
    BY <1>5, <1>8 DEF Cleanup
  <1> QED BY <1>6, <1>7, <1>8

LEMMA ReuseShardInv ==
  ASSUME Inv, NEW c \in Collector, NEW s \in Slot, ReuseShard(c, s)
  PROVE  Inv'
  <1>1. /\ JobKnows(c, s) /\ StrayKnows(c, s) /\ TypeOK /\ job[c][s] = "reshard"
        /\ JobTo(c, s, "reused")
        /\ UNCHANGED <<claims, stored, run, lease, attached, manifest, pc, stray, writing, reviewed, leaving>>
    BY DEF Inv, ReuseShard
  <1>2. "reused" \in Job
    BY DEF Job, Done
  <1>3. /\ sharded' \in [Collector -> SUBSET Slot] /\ s \in sharded'[c]
        /\ \A d \in Collector : sharded[d] \subseteq sharded'[d]
    BY <1>1, ShardStep DEF ReuseShard
  <1>4. TypeOK' /\ job'[c][s] = "reused" /\ Grows
    BY <1>1, <1>2, <1>3, JobStep DEF TypeOK, Grows
  <1>5. JobKnows(c, s)'
    BY <1>1, <1>3, <1>4
    DEF JobKnows, Claimed, Unclaimed, Stored, Attached, Sharded, Executing, Renewed
  <1>6. StrayKnows(c, s)'
    BY <1>1 DEF StrayKnows, InThread
  <1>7. \A d \in Collector, t \in Slot : <<d, t>> # <<c, s>> =>
          StraysKept(d, t) /\ job'[d][t] = job[d][t]
    BY <1>1, <1>2, JobStep DEF StraysKept
  <1> QED BY <1>1, <1>4, <1>5, <1>6, <1>7, StoreStep

-----------------------------------------------------------------------------
(* Steps of a collector outside its tasks.                                  *)

LEMMA JobUnmoved ==
  ASSUME NEW d \in Collector, NEW s \in Slot, JobKnows(d, s), StrayKnows(d, s),
         UNCHANGED <<claims, stored, attached, sharded, job, stray>>
  PROVE  JobKnows(d, s)' /\ StrayKnows(d, s)'
  <1>1. JobKnows(d, s)'
    BY DEF JobKnows, Claimed
  <1>2. StrayKnows(d, s)'
    BY DEF StrayKnows, Claimed
  <1> QED BY <1>1, <1>2

LEMMA CollectorStep ==
  ASSUME Inv, NEW c \in Collector, TypeOK',
         UNCHANGED <<claims, stored, attached, sharded, job, stray>>,
         \A d \in Collector \ {c} :
           /\ pc'[d] = pc[d] /\ run'[d] = run[d] /\ manifest'[d] = manifest[d]
           /\ writing'[d] = writing[d] /\ leaving'[d] = leaving[d]
           /\ d \in reviewed' => d \in reviewed,
         CollectorKnows(c)'
  PROVE  Inv'
  <1>1. ClaimsSound'
    BY DEF Inv, ClaimsSound, CompletedClaimsBacked
  <1>2. ASSUME NEW d \in Collector, NEW s \in Slot
        PROVE  JobKnows(d, s)' /\ StrayKnows(d, s)'
    BY JobUnmoved DEF Inv
  <1>3. \A d \in Collector : CollectorKnows(d)'
    BY DEF Inv, CollectorKnows, Finishing
  <1> QED BY <1>1, <1>2, <1>3 DEF Inv

LEMMA FinishStep ==
  ASSUME TypeOK, NEW c \in Collector, NEW status \in Terminal, DoFinish(c, status)
  PROVE  /\ run' \in [Collector -> {"none", "running"} \cup Terminal]
         /\ lease' \in [Collector -> {"none", "held", "lapsed", "released"}]
         /\ run'[c] = status /\ \A d \in Collector \ {c} : run'[d] = run[d]
  BY DEF TypeOK, DoFinish

\* Steps outside the store's connection.
LEMMA CollectorMoves ==
  ASSUME Inv, NEW c \in Collector,
         CreateRun(c) \/ Batch(c) \/ RenewRun(c) \/ Publish(c) \/ Joined(c)
  PROVE  Inv'
  <1> USE DEF Inv
  <1>1. PICK l \in PC : Goto(c, l)
    BY DEF CreateRun, Batch, RenewRun, Publish, Joined, Ends, PC, Ended
  <1>2. /\ pc' \in [Collector -> PC] /\ pc'[c] = l
        /\ \A d \in Collector \ {c} : pc'[d] = pc[d]
    BY <1>1, GotoStep
  <1>3. UNCHANGED <<claims, stored, attached, sharded, job, stray, writing, reviewed, leaving>>
    BY DEF CreateRun, Batch, RenewRun, Publish, Joined, shared
  <1>4. CollectorKnows(c)
    OBVIOUS
  <1>5. CASE CreateRun(c)
    <2>1. /\ run' \in [Collector -> {"none", "running"} \cup Terminal] /\ run'[c] = "running"
          /\ \A d \in Collector \ {c} : run'[d] = run[d]
      BY <1>5 DEF CreateRun, TypeOK
    <2>2. TypeOK' /\ \A d \in Collector : manifest'[d] = manifest[d]
      BY <1>2, <1>3, <1>5, <2>1 DEF CreateRun, TypeOK
    <2>3. pc[c] = "reading" /\ pc'[c] = "lease"
      BY <1>5 DEF CreateRun, Goto, TypeOK
    <2>4. CollectorKnows(c)'
      BY <1>3, <1>4, <2>1, <2>2, <2>3 DEF CollectorKnows, Finishing, Ended
    <2> QED BY <1>2, <1>3, <2>1, <2>2, <2>4, CollectorStep
  <1>6. CASE Batch(c)
    <2>1. /\ manifest' \in [Collector -> SUBSET Slot]
          /\ manifest'[c] = sharded[c] \/ l # "renew"
          /\ \A d \in Collector \ {c} : manifest'[d] = manifest[d]
          /\ UNCHANGED <<run, lease>>
      BY <1>1, <1>2, <1>6 DEF Batch, TypeOK, shared, Ends, Goto
    <2>2. TypeOK'
      BY <1>2, <1>3, <2>1 DEF TypeOK
    <2>3. \A s \in Slot : s \in sharded[c] /\ s \in attached[c]
      BY <1>6 DEF Batch, JobKnows, Sharded, Attached
    <2>4. sharded[c] = Slot /\ attached[c] = Slot
      BY <2>3 DEF TypeOK
    <2>5. /\ pc[c] = "collect" /\ ~Finishing(c)
          /\ IF leaving[c] = "no" THEN l \in {"renew", "failing"} ELSE l = "over"
      BY <1>2, <1>4, <1>6 DEF Batch, Ends, Goto, TypeOK, CollectorKnows, Ended
    <2>6. CollectorKnows(c)'
      BY <1>2, <1>3, <1>4, <2>1, <2>4, <2>5 DEF CollectorKnows, Finishing
    <2> QED BY <1>2, <1>3, <2>1, <2>2, <2>6, CollectorStep
  <1>7. CASE RenewRun(c) \/ Publish(c) \/ Joined(c)
    <2>1. TypeOK' /\ UNCHANGED <<run, manifest>>
      BY <1>2, <1>3, <1>7 DEF RenewRun, Publish, Joined, TypeOK, shared
    <2>2. \/ pc[c] = "renew" /\ l \in {"finish", "failing"} /\ writing[c] = {}
          \/ pc[c] = "publish" /\ l \in {"done", "raised"}
          \/ /\ pc[c] = "cancelling"
             /\ l = IF leaving[c] = "no" THEN "failing"
                    ELSE IF leaving[c] = "closed" THEN "raised" ELSE "over"
      BY <1>2, <1>7 DEF RenewRun, Publish, Joined, Goto, Ends, Free, TypeOK
    <2>3. CollectorKnows(c)'
      BY <1>2, <1>3, <1>4, <2>1, <2>2 DEF CollectorKnows, Finishing, Ended
    <2> QED BY <1>2, <1>3, <2>1, <2>3, CollectorStep
  <1> QED BY <1>5, <1>6, <1>7

\* A call of the collector's connection passes its checks, and nothing else happens.
LEMMA CheckStep ==
  ASSUME Inv, NEW c \in Collector, NEW call \in Writes, Checked(c, call), Leased(c) \/ run[c] = "running",
         UNCHANGED <<shared, manifest, pc, job, stray, reviewed, leaving>>,
         call = <<"lease", None>> => pc[c] = "lease",
         call = <<"finish", None>> => pc[c] = "finish",
         call = <<"fail", None>> => pc[c] = "failing" \/ leaving[c] = "failing",
         \A s \in Slot : call = <<"reput", s>> => stored[s] # None
  PROVE  Inv'
  <1>1. /\ writing' \in [Collector -> SUBSET Writes] /\ writing'[c] = {call}
        /\ \A d \in Collector \ {c} : writing'[d] = writing[d]
    BY WriteStep DEF Inv
  <1>2. TypeOK'
    BY <1>1 DEF Inv, TypeOK, shared
  <1>3. CollectorKnows(c)
    BY DEF Inv
  <1>4. CollectorKnows(c)'
    <2>1. Finishing(c)' => Finishing(c) \/ pc[c] = "finish"
      BY <1>1 DEF Finishing, shared
    <2> QED BY <1>1, <1>3, <2>1 DEF CollectorKnows, shared
  <1> QED BY <1>1, <1>2, <1>4, CollectorStep DEF shared

\* The command or its collection ends without a call, with the connection free.
LEMMA RefusedInv ==
  ASSUME Inv, NEW c \in Collector, Free(c), UNCHANGED <<shared, manifest, job, stray, writing, reviewed>>,
         \/ pc[c] = "lease" /\ Goto(c, "raised") /\ UNCHANGED leaving
         \/ pc[c] = "finish" /\ Goto(c, "failing") /\ UNCHANGED leaving
         \/ (pc[c] = "failing" \/ leaving[c] = "failing") /\ Failed(c)
  PROVE  Inv'
  <1>1. CollectorKnows(c) /\ TypeOK
    BY DEF Inv
  <1>2. /\ pc' \in [Collector -> PC] /\ leaving' \in [Collector -> {"no", "failing", "closing", "closed"}]
        /\ \A d \in Collector \ {c} : pc'[d] = pc[d] /\ leaving'[d] = leaving[d]
        /\ \/ pc[c] = "lease" /\ pc'[c] = "raised" /\ leaving'[c] = leaving[c]
           \/ pc[c] = "finish" /\ pc'[c] = "failing" /\ leaving'[c] = leaving[c]
           \/ pc[c] = "failing" /\ pc'[c] = "raised" /\ leaving'[c] = leaving[c]
           \/ leaving[c] = "failing" /\ leaving'[c] = "closing" /\ pc'[c] = pc[c]
    <2>1. {"raised", "failing"} \subseteq PC
      BY DEF PC, Ended
    <2>2. CASE pc[c] = "lease" /\ Goto(c, "raised") /\ UNCHANGED leaving
      BY <1>1, <2>1, <2>2, GotoStep DEF TypeOK
    <2>3. CASE pc[c] = "finish" /\ Goto(c, "failing") /\ UNCHANGED leaving
      BY <1>1, <2>1, <2>3, GotoStep DEF TypeOK
    <2>4. CASE Failed(c) /\ leaving[c] = "failing"
      BY <1>1, <2>4, LeavingStep DEF Failed, TypeOK
    <2>5. CASE Failed(c) /\ leaving[c] # "failing" /\ pc[c] = "failing"
      BY <1>1, <2>1, <2>5, GotoStep DEF Failed, TypeOK
    <2> QED BY <2>2, <2>3, <2>4, <2>5
  <1>3. TypeOK'
    BY <1>1, <1>2 DEF TypeOK, shared
  <1>4. CollectorKnows(c)'
    BY <1>1, <1>2 DEF CollectorKnows, Finishing, Free, Ended, shared
  <1> QED BY <1>2, <1>3, <1>4, CollectorStep DEF shared

LEMMA ChecksInv ==
  ASSUME Inv, NEW c \in Collector, LeaseRun(c) \/ Finish(c) \/ FailRun(c)
  PROVE  Inv'
  <1>1. {<<"lease", None>>, <<"finish", None>>, <<"fail", None>>} \subseteq Writes
    BY DEF Writes
  <1>2. CASE LeaseRun(c) /\ run[c] = "running"
    BY <1>1, <1>2, CheckStep, RolloutCollectionAssumption DEF LeaseRun
  <1>3. CASE Finish(c) /\ Leased(c)
    BY <1>1, <1>3, CheckStep, RolloutCollectionAssumption DEF Finish
  <1>4. CASE FailRun(c) /\ Leased(c)
    BY <1>1, <1>4, CheckStep, RolloutCollectionAssumption DEF FailRun
  <1>5. CASE LeaseRun(c) /\ run[c] # "running"
    BY <1>5, RefusedInv DEF LeaseRun
  <1>6. CASE (Finish(c) \/ FailRun(c)) /\ ~Leased(c)
    BY <1>6, RefusedInv DEF Finish, FailRun
  <1> QED BY <1>2, <1>3, <1>4, <1>5, <1>6

\* The calls of the collector outside its tasks write.
LEMMA WritesInv ==
  ASSUME Inv, NEW c \in Collector,
         LeaseWrites(c) \/ FinishWrites(c) \/ FailWrites(c) \/ RenewWrites(c)
  PROVE  Inv'
  <1>1. /\ CollectorKnows(c) /\ TypeOK
        /\ UNCHANGED <<claims, stored, attached, sharded, manifest, job, stray, reviewed>>
    BY DEF Inv, LeaseWrites, FinishWrites, FailWrites, RenewWrites
  <1>2. /\ writing' \in [Collector -> SUBSET Writes] /\ writing'[c] = {}
        /\ \A d \in Collector \ {c} : writing'[d] = writing[d]
    BY <1>1, WriteStep DEF LeaseWrites, FinishWrites, FailWrites, RenewWrites
  <1>3. {"reuse", "publish", "raised"} \subseteq PC /\ {"completed", "failed"} \subseteq Terminal
    BY DEF PC, Ended, Terminal
  <1>4. /\ run' \in [Collector -> {"none", "running"} \cup Terminal]
        /\ lease' \in [Collector -> {"none", "held", "lapsed", "released"}]
        /\ pc' \in [Collector -> PC] /\ leaving' \in [Collector -> {"no", "failing", "closing", "closed"}]
        /\ \A d \in Collector \ {c} :
             run'[d] = run[d] /\ pc'[d] = pc[d] /\ leaving'[d] = leaving[d]
        /\ CollectorKnows(c)'
    <2>1. CASE LeaseWrites(c)
      <3>1. /\ pc[c] = "lease" /\ UNCHANGED <<run, leaving>> /\ Goto(c, "reuse")
            /\ lease' \in [Collector -> {"none", "held", "lapsed", "released"}]
        BY <1>1, <2>1 DEF LeaseWrites, CollectorKnows, TypeOK
      <3>2. /\ pc' \in [Collector -> PC] /\ pc'[c] = "reuse"
            /\ \A d \in Collector \ {c} : pc'[d] = pc[d]
        BY <1>1, <1>3, <3>1, GotoStep
      <3>3. CollectorKnows(c)'
        BY <1>1, <1>2, <3>1, <3>2 DEF CollectorKnows, Finishing, Ended
      <3> QED BY <1>1, <3>1, <3>2, <3>3 DEF TypeOK
    <2>2. CASE FinishWrites(c)
      <3>1. /\ Finishing(c) /\ DoFinish(c, "completed") /\ UNCHANGED leaving
            /\ IF pc[c] = "finish" THEN Goto(c, "publish") ELSE UNCHANGED pc
        BY <2>2 DEF FinishWrites, Finishing
      <3>2. /\ pc' \in [Collector -> PC] /\ pc'[c] = IF pc[c] = "finish" THEN "publish" ELSE pc[c]
            /\ \A d \in Collector \ {c} : pc'[d] = pc[d]
        BY <1>1, <1>3, <3>1, GotoStep DEF TypeOK
      <3>3. CollectorKnows(c)'
        BY <1>1, <1>2, <3>1, <3>2 DEF CollectorKnows, Finishing, Ended
      <3> QED BY <1>1, <1>3, <3>1, <3>2, <3>3, FinishStep DEF TypeOK
    <2>3. CASE FailWrites(c)
      <3>1. /\ DoFinish(c, "failed") /\ Failed(c)
            /\ pc[c] = "failing" \/ leaving[c] = "failing"
        BY <1>1, <2>3 DEF FailWrites, CollectorKnows
      <3>2. /\ run' \in [Collector -> {"none", "running"} \cup Terminal]
            /\ lease' \in [Collector -> {"none", "held", "lapsed", "released"}]
            /\ run'[c] = "failed" /\ \A d \in Collector \ {c} : run'[d] = run[d]
        BY <1>1, <1>3, <3>1, FinishStep
      <3>3. CASE leaving[c] = "failing"
        <4>1. LeavingTo(c, "closing") /\ UNCHANGED pc
          BY <3>1, <3>3 DEF Failed
        <4>2. /\ leaving' \in [Collector -> {"no", "failing", "closing", "closed"}]
              /\ leaving'[c] = "closing" /\ \A d \in Collector \ {c} : leaving'[d] = leaving[d]
          BY <1>1, <4>1, LeavingStep
        <4>3. CollectorKnows(c)'
          BY <1>1, <1>2, <3>2, <3>3, <4>1, <4>2 DEF CollectorKnows, Finishing, Ended
        <4> QED BY <1>1, <3>2, <4>1, <4>2, <4>3 DEF TypeOK
      <3>4. CASE leaving[c] # "failing"
        <4>1. Goto(c, "raised") /\ UNCHANGED leaving /\ pc[c] = "failing"
          BY <3>1, <3>4 DEF Failed
        <4>2. /\ pc' \in [Collector -> PC] /\ pc'[c] = "raised"
              /\ \A d \in Collector \ {c} : pc'[d] = pc[d]
          BY <1>1, <1>3, <4>1, GotoStep
        <4>3. CollectorKnows(c)'
          BY <1>1, <1>2, <3>2, <4>1, <4>2 DEF CollectorKnows, Finishing, Ended
        <4> QED BY <1>1, <3>2, <4>1, <4>2, <4>3 DEF TypeOK
      <3> QED BY <3>3, <3>4
    <2>4. CASE RenewWrites(c)
      <3>1. /\ UNCHANGED <<run, pc, leaving>>
            /\ lease' \in [Collector -> {"none", "held", "lapsed", "released"}]
        BY <1>1, <2>4 DEF RenewWrites, TypeOK
      <3>2. CollectorKnows(c)'
        BY <1>1, <1>2, <3>1 DEF CollectorKnows, Finishing
      <3> QED BY <1>1, <3>1, <3>2 DEF TypeOK
    <2> QED BY <2>1, <2>2, <2>3, <2>4
  <1>5. TypeOK'
    BY <1>1, <1>2, <1>4 DEF TypeOK
  <1> QED BY <1>1, <1>2, <1>4, <1>5, CollectorStep

LEMMA PutInv ==
  ASSUME Inv, NEW c \in Collector, NEW s \in Slot, Put(c, s)
  PROVE  Inv'
  <1>1. /\ JobKnows(c, s) /\ StrayKnows(c, s) /\ TypeOK /\ job[c][s] = "put"
        /\ UNCHANGED <<shared, manifest, pc, stray, reviewed, leaving>>
    BY DEF Inv, Put
  <1>2. CASE Leased(c) /\ Checked(c, <<"put", s>>) /\ UNCHANGED job
    <2>1. <<"put", s>> \in Writes
      BY DEF Writes
    <2> QED BY <1>1, <1>2, <2>1, CheckStep
  <1>3. CASE JobTo(c, s, "cleanup") /\ UNCHANGED writing
    <2>1. "cleanup" \in Job /\ job'[c][s] = "cleanup"
      BY <1>1, <1>3, JobStep DEF Job, Admitted
    <2>2. JobKnows(c, s)'
      BY <1>1, <2>1
      DEF JobKnows, Claimed, Unclaimed, Stored, Attached, Sharded, Executing, Renewed, shared
    <2>3. StrayKnows(c, s)'
      BY <1>1 DEF StrayKnows, InThread
    <2> QED BY <1>1, <1>3, <2>1, <2>2, <2>3, MoveStep
  <1> QED BY <1>2, <1>3 DEF Put

LEMMA StrayPutsInv ==
  ASSUME Inv, NEW c \in Collector, NEW s \in Slot, NEW l \in InThread, StrayPuts(c, l, s)
  PROVE  Inv'
  <1>1. /\ StrayKnows(c, s) /\ TypeOK /\ <<l, s>> \in stray[c] /\ l \in {"put", "reput"}
        /\ UNCHANGED <<shared, manifest, pc, job, reviewed, leaving>>
    BY DEF Inv, StrayPuts
  <1>2. CASE Leased(c)
    <2>1. <<l, s>> \in Writes /\ Checked(c, <<l, s>>) /\ UNCHANGED stray
      BY <1>1, <1>2 DEF Writes, StrayPuts
    <2>2. \A t \in Slot : <<l, s>> = <<"reput", t>> => stored[t] # None
      BY <1>1 DEF StrayKnows
    <2> QED BY <1>1, <1>2, <2>1, <2>2, CheckStep
  <1>3. CASE ~Leased(c)
    <2>1. StrayEnds(c, <<l, s>>) /\ UNCHANGED writing
      BY <1>3 DEF StrayPuts
    <2>2. Grows
      BY <1>1 DEF Grows, shared
    <2> QED BY <1>1, <2>1, <2>2, StrayWritten DEF TypeOK, shared
  <1> QED BY <1>2, <1>3

LEMMA ReusePutInv ==
  ASSUME Inv, NEW c \in Collector, NEW s \in Slot, ReusePut(c, s)
  PROVE  Inv'
  <1>1. /\ JobKnows(c, s) /\ StrayKnows(c, s) /\ TypeOK /\ job[c][s] = "reput"
        /\ pc[c] = "reuse" /\ CollectorKnows(c) /\ writing[c] = {}
        /\ UNCHANGED <<shared, manifest, stray, reviewed, leaving>>
    BY DEF Inv, ReusePut, Free
  <1>2. CASE Leased(c)
    <2>1. <<"reput", s>> \in Writes /\ Checked(c, <<"reput", s>>) /\ UNCHANGED <<job, pc>>
      BY <1>2 DEF ReusePut, Writes
    <2>2. stored[s] # None
      BY <1>1 DEF JobKnows
    <2> QED BY <1>1, <1>2, <2>1, <2>2, CheckStep
  <1>3. CASE ~Leased(c)
    <2>1. JobTo(c, s, "raised") /\ Ends(c, "failing") /\ UNCHANGED writing
      BY <1>3 DEF ReusePut
    <2>2. PICK l \in {"failing", "over"} :
            Goto(c, l) /\ (l = "failing" <=> leaving[c] = "no")
      BY <1>1, <2>1 DEF Ends, CollectorKnows, TypeOK
    <2>3. /\ pc'[c] = l /\ pc' \in [Collector -> PC]
          /\ \A d \in Collector \ {c} : pc'[d] = pc[d]
      BY <1>1, <2>2, GotoStep DEF PC
    <2>4. "raised" \in Job
      BY DEF Job, Done
    <2>5. TypeOK' /\ job'[c][s] = "raised" /\ Grows
      BY <1>1, <2>1, <2>3, <2>4, JobStep DEF TypeOK, Grows, shared
    <2>6. JobKnows(c, s)'
      BY <2>5 DEF JobKnows, Unclaimed, Stored, Attached, Sharded, Executing, Renewed
    <2>7. StrayKnows(c, s)'
      BY <1>1 DEF StrayKnows, InThread
    <2>8. ClaimsSound' /\ \A d \in Collector, t \in Slot : ClaimKept(d, t)
      BY <1>1, <2>5, ClaimsStay DEF Inv, shared
    <2>9. \A d \in Collector, t \in Slot : StraysKept(d, t)
      BY <1>1 DEF StraysKept
    <2>10. \A d \in Collector : CollectorKnows(d)'
      <3>1. CollectorKnows(c)'
        BY <1>1, <2>1, <2>2, <2>3 DEF CollectorKnows, Finishing, Ended, shared
      <3> QED BY <1>1, <2>1, <2>3, <3>1 DEF Inv, CollectorKnows, Finishing, shared
    <2>11. \A d \in Collector, t \in Slot : <<d, t>> # <<c, s>> => job'[d][t] = job[d][t]
      BY <1>1, <2>1, <2>4, JobStep
    <2> QED BY <2>5, <2>6, <2>7, <2>8, <2>9, <2>10, <2>11, SlotStep
  <1> QED BY <1>2, <1>3

\* The lease runs out, an operator closes the run, the command is interrupted.
LEMMA AroundInv ==
  ASSUME Inv, NEW c \in Collector, LapseRun(c) \/ Review(c) \/ Reconcile(c) \/ Interrupt(c)
  PROVE  Inv'
  <1>1. /\ CollectorKnows(c) /\ TypeOK
        /\ UNCHANGED <<claims, stored, attached, sharded, manifest, job, stray>>
    BY DEF Inv, LapseRun, Review, Reconcile, Interrupt, shared
  <1>2. CASE LapseRun(c)
    <2>1. /\ lease' \in [Collector -> {"none", "held", "lapsed", "released"}]
          /\ UNCHANGED <<run, pc, reviewed, leaving>>
      BY <1>1, <1>2 DEF LapseRun, TypeOK
    <2>2. /\ writing' \in [Collector -> SUBSET Writes]
          /\ writing'[c] \subseteq writing[c] \cup {<<"renew", None>>}
          /\ \A d \in Collector \ {c} : writing'[d] = writing[d]
      <3>1. <<"renew", None>> \in Writes
        BY DEF Writes
      <3>2. UNCHANGED writing \/ Checked(c, <<"renew", None>>)
        BY <1>2 DEF LapseRun
      <3> QED BY <1>1, <3>1, <3>2, WriteStep DEF TypeOK
    <2>3. TypeOK'
      BY <1>1, <2>1, <2>2 DEF TypeOK
    <2>4. CollectorKnows(c)'
      BY <1>1, <2>1, <2>2 DEF CollectorKnows, Finishing
    <2> QED BY <1>1, <2>1, <2>2, <2>3, <2>4, CollectorStep
  <1>3. CASE Review(c)
    <2>1. /\ reviewed' = reviewed \cup {c} /\ run[c] = "running"
          /\ UNCHANGED <<run, lease, pc, writing, leaving>>
      BY <1>3 DEF Review, shared
    <2>2. TypeOK'
      BY <1>1, <2>1 DEF TypeOK
    <2>3. CollectorKnows(c)'
      BY <1>1, <2>1 DEF CollectorKnows, Finishing
    <2> QED BY <1>1, <2>1, <2>2, <2>3, CollectorStep
  <1>4. CASE Reconcile(c)
    <2>1. /\ c \in reviewed /\ reviewed' = reviewed \ {c} /\ DoFinish(c, "failed")
          /\ UNCHANGED <<pc, writing, leaving>>
      BY <1>4 DEF Reconcile
    <2>2. /\ run' \in [Collector -> {"none", "running"} \cup Terminal]
          /\ lease' \in [Collector -> {"none", "held", "lapsed", "released"}]
          /\ run'[c] = "failed" /\ \A d \in Collector \ {c} : run'[d] = run[d]
      BY <1>1, <2>1, FinishStep DEF Terminal
    <2>3. TypeOK'
      BY <1>1, <2>1, <2>2 DEF TypeOK
    <2>4. CollectorKnows(c)'
      BY <1>1, <2>1, <2>2 DEF CollectorKnows, Finishing
    <2> QED BY <1>1, <2>1, <2>2, <2>3, <2>4, CollectorStep
  <1>5. CASE Interrupt(c)
    <2>1. leaving[c] = "no" /\ UNCHANGED <<run, lease, writing, reviewed>>
      BY <1>5 DEF Interrupt, shared
    <2>2. CASE pc[c] \in {"reuse", "collect"} /\ LeavingTo(c, "failing") /\ UNCHANGED pc
      <3>1. /\ leaving' \in [Collector -> {"no", "failing", "closing", "closed"}]
            /\ leaving'[c] = "failing" /\ \A d \in Collector \ {c} : leaving'[d] = leaving[d]
        BY <1>1, <2>2, LeavingStep
      <3>2. TypeOK'
        BY <1>1, <2>1, <2>2, <3>1 DEF TypeOK
      <3>3. CollectorKnows(c)'
        BY <1>1, <2>1, <2>2, <3>1 DEF CollectorKnows, Finishing
      <3> QED BY <1>1, <2>1, <2>2, <3>1, <3>2, <3>3, CollectorStep
    <2>3. CASE pc[c] = "finish" /\ Goto(c, "failing") /\ UNCHANGED leaving
      <3>1. /\ pc' \in [Collector -> PC] /\ pc'[c] = "failing"
            /\ \A d \in Collector \ {c} : pc'[d] = pc[d]
        BY <1>1, <2>3, GotoStep DEF PC
      <3>2. TypeOK'
        BY <1>1, <2>1, <2>3, <3>1 DEF TypeOK
      <3>3. CollectorKnows(c)'
        BY <1>1, <2>1, <2>3, <3>1 DEF CollectorKnows, Finishing
      <3> QED BY <1>1, <2>1, <2>3, <3>1, <3>2, <3>3, CollectorStep
    <2> QED BY <1>5, <2>2, <2>3 DEF Interrupt
  <1> QED BY <1>2, <1>3, <1>4, <1>5

-----------------------------------------------------------------------------
(* Steps that move all tasks of a collector, and what happens around it.    *)

\* All tasks of one collector move, and what the stores keep stays.
LEMMA TasksStep ==
  ASSUME Inv, NEW c \in Collector, TypeOK', UNCHANGED <<shared, manifest, reviewed>>,
         \A d \in Collector \ {c} :
           /\ job'[d] = job[d] /\ stray'[d] = stray[d] /\ pc'[d] = pc[d]
           /\ writing'[d] = writing[d] /\ leaving'[d] = leaving[d],
         \A s \in Slot : JobKnows(c, s)' /\ StrayKnows(c, s)', CollectorKnows(c)'
  PROVE  Inv'
  <1>1. Grows
    BY DEF Grows, shared
  <1>2. ClaimsSound' /\ \A d \in Collector, s \in Slot : ClaimKept(d, s)
    BY <1>1, ClaimsStay DEF Inv, shared
  <1>3. ASSUME NEW d \in Collector, NEW s \in Slot
        PROVE  JobKnows(d, s)' /\ StrayKnows(d, s)'
    <2>1. CASE d = c
      BY <2>1
    <2>2. CASE d # c
      <3>1. StraysKept(d, s) /\ job'[d][s] = job[d][s]
        BY <2>2 DEF StraysKept
      <3> QED BY <3>1, <1>1, <1>2, JobKept, RolloutCollectionAssumption DEF Inv
    <2> QED BY <2>1, <2>2
  <1>4. ASSUME NEW d \in Collector PROVE CollectorKnows(d)'
    BY DEF Inv, CollectorKnows, Finishing, shared
  <1> QED BY <1>2, <1>3, <1>4 DEF Inv

LEMMA CancelEffect ==
  ASSUME Inv, NEW c \in Collector, CancelJobs(c), UNCHANGED shared
  PROVE  /\ job' \in [Collector -> [Slot -> Job]]
         /\ stray' \in [Collector -> SUBSET (InThread \X Slot)]
         /\ \A d \in Collector \ {c} : job'[d] = job[d] /\ stray'[d] = stray[d]
         /\ \A s \in Slot : JobKnows(c, s)' /\ StrayKnows(c, s)'
  <1> USE DEF Inv
  <1>1. \A l \in Job : AfterCancel(l) \in Job
    BY DEF AfterCancel, Job, Admitted, Executing, Renewed, Done
  <1>2. /\ job' \in [Collector -> [Slot -> Job]]
        /\ \A d \in Collector \ {c} : job'[d] = job[d]
        /\ \A s \in Slot : job'[c][s] = AfterCancel(job[c][s])
    BY <1>1 DEF CancelJobs, TypeOK
  <1> DEFINE left == {<<job[c][s], s>> : s \in {t \in Slot : job[c][t] \in InThread}}
  <1>3. left \subseteq InThread \X Slot
    OBVIOUS
  <1>4. /\ stray' \in [Collector -> SUBSET (InThread \X Slot)]
        /\ \A d \in Collector \ {c} : stray'[d] = stray[d]
        /\ stray'[c] = stray[c] \cup left
    <2>1. stray' = [stray EXCEPT ![c] = @ \cup left]
      BY DEF CancelJobs
    <2>2. stray[c] \cup left \in SUBSET (InThread \X Slot)
      BY <1>3 DEF TypeOK
    <2> QED BY <2>1, <2>2 DEF TypeOK
  <1>5. ASSUME NEW s \in Slot PROVE JobKnows(c, s)' /\ StrayKnows(c, s)'
    <2>1. JobKnows(c, s) /\ StrayKnows(c, s)
      OBVIOUS
    <2>2. \A l \in InThread : <<l, s>> \in stray'[c] <=>
            <<l, s>> \in stray[c] \/ (job[c][s] = l /\ l \in InThread)
      BY <1>4
    <2>3. job'[c][s] = AfterCancel(job[c][s]) /\ job[c][s] \in Job
      BY <1>2 DEF TypeOK
    <2>4. \/ job[c][s] \in Executing /\ job'[c][s] = "cleanup"
          \/ job[c][s] \in {"queued", "acquire", "cleanup", "reput", "reshard"}
               /\ job'[c][s] = "raised"
          \/ /\ job[c][s] \notin Executing \cup {"acquire", "cleanup", "reput", "reshard"}
             /\ job'[c][s] = job[c][s]
      BY <2>3 DEF AfterCancel, Executing, Renewed
    <2>5. Claimed(c, s)' <=> Claimed(c, s)
      BY DEF Claimed, shared
    <2>6. JobKnows(c, s)'
      BY <2>1, <2>4, <2>5
      DEF JobKnows, Unclaimed, Stored, Attached, Sharded, Executing, Renewed, shared
    <2>7. ASSUME NEW l \in InThread, <<l, s>> \in stray'[c]
          PROVE  job'[c][s] \in {"cleanup", "raised"}
      <3>1. CASE <<l, s>> \in stray[c]
        BY <3>1, <2>1, <2>4 DEF StrayKnows, Executing, Renewed
      <3>2. CASE job[c][s] = l
        BY <3>2, <2>4 DEF InThread, Executing, Renewed
      <3> QED BY <2>2, <2>7, <3>1, <3>2
    <2>8. <<"acquire", s>> \in stray'[c] => ~Claimed(c, s)' /\ job'[c][s] = "raised"
      BY <2>1, <2>2, <2>4, <2>5 DEF StrayKnows, JobKnows, Unclaimed, InThread, Executing, Renewed
    <2>9. <<"release", s>> \in stray'[c] => Claimed(c, s)' /\ stored'[s] = c
      BY <2>1, <2>2, <2>5 DEF StrayKnows, JobKnows, Stored, InThread, Executing, Renewed, shared
    <2>10. <<"cleanup", s>> \in stray'[c] => Claimed(c, s)'
      BY <2>1, <2>2, <2>5 DEF StrayKnows, JobKnows, InThread, Executing, Renewed
    <2>11. <<"reput", s>> \in stray'[c] => stored'[s] # None
      BY <2>1, <2>2 DEF StrayKnows, JobKnows, InThread, shared
    <2>12. StrayKnows(c, s)'
      BY <2>7, <2>8, <2>9, <2>10, <2>11 DEF StrayKnows
    <2> QED BY <2>6, <2>12
  <1> QED BY <1>2, <1>4, <1>5

LEMMA TasksMove ==
  ASSUME Inv, NEW c \in Collector,
         Launch(c) \/ SiblingRaised(c) \/ HeartbeatFails(c) \/ Shutdown(c) \/ Crash(c)
  PROVE  Inv'
  <1> USE DEF Inv
  <1>1. PICK l \in PC : Goto(c, l) /\ l \in {"collect", "cancelling", "raised", "crashed"}
    BY DEF Launch, SiblingRaised, HeartbeatFails, Shutdown, Crash, PC, Ended
  <1>2. /\ pc' \in [Collector -> PC] /\ pc'[c] = l
        /\ \A d \in Collector \ {c} : pc'[d] = pc[d]
    BY <1>1, GotoStep
  <1>3. UNCHANGED <<shared, manifest, reviewed>>
    BY DEF Launch, SiblingRaised, HeartbeatFails, Shutdown, Crash
  <1>4. /\ writing' \in [Collector -> SUBSET Writes]
        /\ leaving' \in [Collector -> {"no", "failing", "closing", "closed"}]
        /\ \A d \in Collector \ {c} : writing'[d] = writing[d] /\ leaving'[d] = leaving[d]
        /\ CollectorKnows(c)'
    <2>1. CollectorKnows(c)
      OBVIOUS
    <2>2. CASE Launch(c) \/ SiblingRaised(c) \/ HeartbeatFails(c)
      <3>1. /\ UNCHANGED <<writing, leaving>> /\ l \in {"collect", "cancelling"}
            /\ pc[c] \in {"reuse", "collect", "cancelling"}
            /\ l = "collect" => pc[c] = "reuse"
        BY <1>2, <2>2 DEF Launch, SiblingRaised, HeartbeatFails, Goto, TypeOK
      <3>2. CollectorKnows(c)'
        BY <1>2, <1>3, <2>1, <3>1 DEF CollectorKnows, Finishing, Ended, shared
      <3> QED BY <3>1, <3>2 DEF TypeOK
    <2>3. CASE Shutdown(c)
      <3>1. /\ UNCHANGED writing /\ leaving[c] = "closing"
            /\ LeavingTo(c, "closed") /\ l \in {"raised", "cancelling"}
        BY <1>2, <2>3 DEF Shutdown, Goto, TypeOK
      <3>2. /\ leaving' \in [Collector -> {"no", "failing", "closing", "closed"}]
            /\ leaving'[c] = "closed" /\ \A d \in Collector \ {c} : leaving'[d] = leaving[d]
        BY <3>1, LeavingStep
      <3>3. CollectorKnows(c)'
        BY <1>2, <1>3, <2>1, <3>1, <3>2 DEF CollectorKnows, Finishing, Ended, shared
      <3> QED BY <3>1, <3>2, <3>3 DEF TypeOK
    <2>4. CASE Crash(c)
      <3>1. l = "crashed" /\ Written(c) /\ LeavingTo(c, "no")
        BY <1>2, <2>4 DEF Crash, Goto, TypeOK
      <3>2. /\ leaving' \in [Collector -> {"no", "failing", "closing", "closed"}]
            /\ leaving'[c] = "no" /\ \A d \in Collector \ {c} : leaving'[d] = leaving[d]
        BY <3>1, LeavingStep
      <3>3. /\ writing' \in [Collector -> SUBSET Writes] /\ writing'[c] = {}
            /\ \A d \in Collector \ {c} : writing'[d] = writing[d]
        BY <3>1, WriteStep
      <3>4. CollectorKnows(c)'
        BY <1>2, <1>3, <2>1, <3>1, <3>2, <3>3 DEF CollectorKnows, Finishing, Ended, shared
      <3> QED BY <3>2, <3>3, <3>4
    <2> QED BY <2>2, <2>3, <2>4
  <1>5. CASE Launch(c)
    <2>1. /\ \A s \in Slot : job'[c][s] = IF job[c][s] = "missing" THEN "queued" ELSE job[c][s]
          /\ \A d \in Collector \ {c} : job'[d] = job[d]
          /\ job' \in [Collector -> [Slot -> Job]] /\ UNCHANGED stray
      BY <1>5 DEF Launch, TypeOK, Job
    <2>2. TypeOK'
      BY <1>2, <1>3, <1>4, <2>1 DEF TypeOK, shared
    <2>3. ASSUME NEW s \in Slot PROVE JobKnows(c, s)' /\ StrayKnows(c, s)'
      <3>1. JobKnows(c, s) /\ StrayKnows(c, s)
        OBVIOUS
      <3>2. Claimed(c, s)' <=> Claimed(c, s)
        BY <1>3 DEF Claimed, shared
      <3>3. JobKnows(c, s)'
        BY <1>3, <2>1, <3>1, <3>2
        DEF JobKnows, Unclaimed, Stored, Attached, Sharded, Executing, Renewed, shared
      <3>4. StrayKnows(c, s)'
        BY <1>3, <2>1, <3>1, <3>2 DEF StrayKnows, shared
      <3> QED BY <3>3, <3>4
    <2> QED BY <1>2, <1>3, <1>4, <2>1, <2>2, <2>3, TasksStep
  <1>6. CASE CancelJobs(c)
    <2>1. /\ job' \in [Collector -> [Slot -> Job]]
          /\ stray' \in [Collector -> SUBSET (InThread \X Slot)]
          /\ \A d \in Collector \ {c} : job'[d] = job[d] /\ stray'[d] = stray[d]
          /\ \A s \in Slot : JobKnows(c, s)' /\ StrayKnows(c, s)'
      BY <1>3, <1>6, CancelEffect
    <2>2. TypeOK'
      BY <1>2, <1>3, <1>4, <2>1 DEF TypeOK, shared
    <2> QED BY <1>2, <1>3, <1>4, <2>1, <2>2, TasksStep
  <1>7. CASE Crash(c)
    <2>1. /\ \A s \in Slot : job'[c][s] = "raised"
          /\ stray'[c] = {} /\ \A d \in Collector \ {c} : job'[d] = job[d] /\ stray'[d] = stray[d]
          /\ job' \in [Collector -> [Slot -> Job]]
          /\ stray' \in [Collector -> SUBSET (InThread \X Slot)]
      BY <1>7 DEF Crash, TypeOK, Job, Done
    <2>2. TypeOK'
      BY <1>2, <1>3, <1>4, <2>1 DEF TypeOK, shared
    <2>3. \A s \in Slot : JobKnows(c, s)' /\ StrayKnows(c, s)'
      BY <2>1 DEF JobKnows, StrayKnows, Unclaimed, Stored, Attached, Sharded, Executing, Renewed
    <2> QED BY <1>2, <1>3, <1>4, <2>1, <2>2, <2>3, TasksStep
  <1> QED BY <1>5, <1>6, <1>7 DEF SiblingRaised, HeartbeatFails, Shutdown

LEMMA RenewalFailsInv ==
  ASSUME Inv, NEW c \in Collector, NEW s \in Slot, RenewalFails(c, s)
  PROVE  Inv'
  <1>1. /\ JobKnows(c, s) /\ StrayKnows(c, s) /\ TypeOK
        /\ job[c][s] \in Renewed /\ JobTo(c, s, "cleanup")
        /\ UNCHANGED <<shared, manifest, pc, writing, reviewed, leaving>>
    BY DEF Inv, RenewalFails
  <1>2. "cleanup" \in Job
    BY DEF Job, Admitted
  <1>3. /\ stray' \in [Collector -> SUBSET (InThread \X Slot)]
        /\ \A d \in Collector \ {c} : stray'[d] = stray[d]
        /\ \A l \in InThread, t \in Slot : <<l, t>> \in stray'[c] =>
             <<l, t>> \in stray[c] \/ (t = s /\ l = job[c][s])
        /\ \A l \in InThread, t \in Slot : <<l, t>> \in stray[c] => <<l, t>> \in stray'[c]
    <2>1. CASE job[c][s] \in InThread
      <3>1. stray' = [stray EXCEPT ![c] = @ \cup {<<job[c][s], s>>}]
        BY <2>1 DEF RenewalFails
      <3>2. stray[c] \cup {<<job[c][s], s>>} \in SUBSET (InThread \X Slot)
        BY <1>1, <2>1 DEF TypeOK
      <3> QED BY <1>1, <3>1, <3>2 DEF TypeOK
    <2>2. CASE job[c][s] \notin InThread
      <3>1. stray' = [stray EXCEPT ![c] = @]
        BY <2>2 DEF RenewalFails
      <3> QED BY <1>1, <3>1 DEF TypeOK
    <2> QED BY <2>1, <2>2
  <1>4. TypeOK' /\ job'[c][s] = "cleanup" /\ Grows
    BY <1>1, <1>2, <1>3, JobStep DEF TypeOK, Grows, shared
  <1>5. ClaimsSound' /\ \A d \in Collector, t \in Slot : ClaimKept(d, t)
    BY <1>1, <1>4, ClaimsStay DEF Inv, shared
  <1>6. \A d \in Collector, t \in Slot : <<d, t>> # <<c, s>> =>
          StraysKept(d, t) /\ job'[d][t] = job[d][t]
    BY <1>1, <1>2, <1>3, JobStep DEF StraysKept
  <1>7. Claimed(c, s)' <=> Claimed(c, s)
    BY <1>1 DEF Claimed, shared
  <1>8. JobKnows(c, s)'
    BY <1>1, <1>4, <1>7
    DEF JobKnows, Unclaimed, Stored, Attached, Sharded, Executing, Renewed
  <1>9. StrayKnows(c, s)'
    BY <1>1, <1>3, <1>4, <1>7 DEF StrayKnows, JobKnows, InThread, Executing, Renewed, shared
  <1>10. \A d \in Collector : CollectorKnows(d)'
    BY <1>1, <1>4, CollectorKept DEF Inv, TypeOK, shared
  <1> QED BY <1>4, <1>5, <1>6, <1>8, <1>9, <1>10, SlotStep

LEMMA StrayRunsInv ==
  ASSUME Inv, NEW c \in Collector, NEW s \in Slot, NEW l \in InThread, StrayRuns(c, l, s)
  PROVE  Inv'
  <1>1. /\ JobKnows(c, s) /\ StrayKnows(c, s) /\ TypeOK /\ ClaimsSound
        /\ <<l, s>> \in stray[c]
        /\ UNCHANGED <<run, lease, manifest, pc, job, writing, reviewed, leaving>>
    BY DEF Inv, StrayRuns
  <1>2. /\ stray' \in [Collector -> SUBSET (InThread \X Slot)]
        /\ \A d \in Collector \ {c} : stray'[d] = stray[d]
        /\ stray'[c] = stray[c] \ {<<l, s>>}
    BY <1>1, StrayStep DEF StrayRuns
  <1>3. job[c][s] \in {"cleanup", "raised"}
    BY <1>1 DEF StrayKnows
  <1>4. \A d \in Collector, t \in Slot : <<d, t>> # <<c, s>> =>
          StraysKept(d, t) /\ job'[d][t] = job[d][t]
    BY <1>1, <1>2 DEF StraysKept
  \* What each call does to the stores, and to what its own collector knows.
  <1> DEFINE Effect ==
        /\ claims' \in [Slot -> Seq(Claim)]
        /\ stored' \in [Slot -> Collector \cup {Earlier, None}]
        /\ attached' \in [Collector -> SUBSET Slot]
        /\ sharded' \in [Collector -> SUBSET Slot]
        /\ Grows /\ ClaimsSound'
        /\ \A d \in Collector : \A t \in attached'[d] \ attached[d] : stored'[t] # None
        /\ \A d \in Collector, t \in Slot : <<d, t>> # <<c, s>> => ClaimKept(d, t)
        /\ Claimed(c, s) => Claimed(c, s)'
        /\ Claimed(c, s)' => Claimed(c, s) \/ l = "acquire"
  <1>5. Effect
    <2>1. CASE /\ UNCHANGED <<claims, attached, stored>>
               /\ sharded' \in [Collector -> SUBSET Slot]
               /\ \A d \in Collector : sharded[d] \subseteq sharded'[d]
      <3>1. Grows
        BY <2>1 DEF Grows
      <3>2. ClaimsSound' /\ \A d \in Collector, t \in Slot : ClaimKept(d, t)
        BY <1>1, <2>1, <3>1, ClaimsStay
      <3>3. Claimed(c, s)' <=> Claimed(c, s)
        BY <2>1 DEF Claimed
      <3> QED BY <1>1, <2>1, <3>1, <3>2, <3>3 DEF TypeOK
    <2>3. ASSUME UNCHANGED <<stored, attached, sharded>>,
                 claims' \in [Slot -> Seq(Claim)], ClaimsSound', Claimed(c, s)',
                 Claimed(c, s) \/ l = "acquire",
                 \A d \in Collector, t \in Slot : <<d, t>> # <<c, s>> => ClaimKept(d, t)
          PROVE  Effect
      <3>1. Grows
        BY <2>3 DEF Grows
      <3> QED BY <1>1, <2>3, <3>1 DEF TypeOK
    <2>4. CASE l = "acquire"
      <3>1. ~Claimed(c, s) /\ UNCHANGED <<stored, attached, sharded>>
        BY <1>1, <2>4 DEF StrayKnows, StrayRuns
      <3>2. CASE CanAcquire(s)
        <4>1. DoAcquire(c, s)
          BY <2>4, <3>2 DEF StrayRuns
        <4> QED BY <1>1, <2>3, <2>4, <3>1, <3>2, <4>1, AcquireEffect
      <3>3. CASE ~CanAcquire(s)
        <4>1. UNCHANGED claims
          BY <2>4, <3>3 DEF StrayRuns
        <4> QED BY <1>1, <2>1, <3>1, <4>1 DEF TypeOK
      <3> QED BY <3>2, <3>3
    <2>5. CASE l \in {"release", "cleanup"}
      <3>1. PICK o \in {"completed", "abandoned"} :
              DoRelease(c, s, o) /\ (o = "completed" => l = "release")
        BY <2>5 DEF StrayRuns
      <3>2. Claimed(c, s) /\ (o = "completed" => stored[s] = c)
        BY <1>1, <2>5, <3>1 DEF StrayKnows
      <3>3. UNCHANGED <<stored, attached, sharded>>
        BY <2>5 DEF StrayRuns
      <3>4. /\ claims' \in [Slot -> Seq(Claim)] /\ ClaimsSound' /\ Claimed(c, s)'
            /\ \A d \in Collector, t \in Slot : <<d, t>> # <<c, s>> => ClaimKept(d, t)
        BY <1>1, <3>1, <3>2, <3>3, ReleaseEffect
      <3> QED BY <2>3, <3>2, <3>3, <3>4
    <2>7. CASE l \in {"shard", "reshard"}
      <3>1. UNCHANGED <<claims, stored, attached>>
        BY <2>7 DEF StrayRuns
      <3>2. sharded' = [sharded EXCEPT ![c] = @ \cup {s}]
        BY <2>7 DEF StrayRuns
      <3> QED BY <1>1, <2>1, <3>1, <3>2, ShardStep
    <2> QED BY <2>4, <2>5, <2>7 DEF InThread, StrayRuns
  <1> HIDE DEF Effect
  <1>6. TypeOK'
    BY <1>1, <1>2, <1>5 DEF TypeOK, Effect
  <1>7. JobKnows(c, s)'
    BY <1>1, <1>3, <1>5
    DEF Effect, JobKnows, Unclaimed, Stored, Attached, Sharded, Executing, Renewed
  <1>8. StrayKnows(c, s)'
    <2>1. \A k \in InThread : <<k, s>> \in stray'[c] => <<k, s>> \in stray[c] /\ k # l
      BY <1>2
    <2>2. <<"acquire", s>> \in stray'[c] => ~Claimed(c, s)' /\ job'[c][s] = "raised"
      BY <1>1, <1>5, <2>1 DEF Effect, StrayKnows, InThread
    <2>3. Claimed(c, s) => Claimed(c, s)'
      BY <1>5 DEF Effect
    <2>4. stored[s] # None => stored'[s] = stored[s]
      BY <1>5 DEF Effect, Grows
    <2> QED BY <1>1, <2>1, <2>2, <2>3, <2>4, RolloutCollectionAssumption DEF StrayKnows, InThread
  <1>9. \A d \in Collector : CollectorKnows(d)'
    BY <1>1, <1>5, <1>6, CollectorKept DEF Effect, Inv, TypeOK
  <1> QED BY <1>4, <1>5, <1>6, <1>7, <1>8, <1>9, SlotStep DEF Effect

LEMMA LapseClaimInv ==
  ASSUME Inv, NEW s \in Slot, LapseClaim(s)
  PROVE  Inv'
  <1>1. UNCHANGED <<stored, run, lease, attached, sharded, manifest, pc, job, stray, writing, reviewed,
                  leaving>>
    BY DEF LapseClaim
  <1>2. /\ claims' \in [Slot -> Seq(Claim)] /\ ClaimsSound'
        /\ \A d \in Collector, t \in Slot : ClaimKept(d, t)
    BY LapseEffect DEF Inv
  <1>3. TypeOK' /\ Grows
    BY <1>1, <1>2 DEF Inv, TypeOK, Grows
  <1>4. \A d \in Collector, t \in Slot : StraysKept(d, t) /\ job'[d][t] = job[d][t]
    BY <1>1 DEF StraysKept
  <1>5. ASSUME NEW d \in Collector, NEW t \in Slot
        PROVE  JobKnows(d, t)' /\ StrayKnows(d, t)'
    BY <1>2, <1>3, <1>4, JobKept, RolloutCollectionAssumption DEF Inv
  <1>6. \A d \in Collector : CollectorKnows(d)'
    BY <1>1 DEF Inv, CollectorKnows, Finishing
  <1> QED BY <1>2, <1>3, <1>5, <1>6 DEF Inv

LEMMA InitInv == Init => Inv
  <1> SUFFICES ASSUME Init PROVE Inv
    OBVIOUS
  <1>1. TypeOK
    BY DEF Init, TypeOK, PC, Ended, Job
  <1>2. ClaimsSound
    BY DEF Init, ClaimsSound, CompletedClaimsBacked
  <1>3. \A c \in Collector, s \in Slot : JobKnows(c, s) /\ StrayKnows(c, s)
    BY DEF Init, JobKnows, StrayKnows, Claimed, Stored, Attached, Sharded, Executing, Renewed
  <1>4. \A c \in Collector : CollectorKnows(c)
    BY DEF Init, CollectorKnows, Finishing
  <1> QED BY <1>1, <1>2, <1>3, <1>4 DEF Inv

LEMMA NextInv == Inv /\ [Next]_vars => Inv'
  <1> SUFFICES ASSUME Inv, [Next]_vars PROVE Inv'
    OBVIOUS
  <1>1. ASSUME NEW c \in Collector, Collect(c) PROVE Inv'
    <2>1. CASE CreateRun(c) \/ Batch(c) \/ RenewRun(c) \/ Publish(c) \/ Joined(c)
      BY <2>1, CollectorMoves
    <2>2. CASE Launch(c) \/ SiblingRaised(c) \/ HeartbeatFails(c) \/ Shutdown(c)
      BY <2>2, TasksMove
    <2>7. CASE LeaseRun(c) \/ Finish(c) \/ FailRun(c)
      BY <2>7, ChecksInv
    <2>8. CASE LeaseWrites(c) \/ FinishWrites(c) \/ FailWrites(c)
      BY <2>8, WritesInv
    <2>3. ASSUME NEW s \in Slot, ReadSlot(c, s) \/ StartReuse(c, s) PROVE Inv'
      BY <2>3, Moves
    <2>4. ASSUME NEW s \in Slot, ReusePut(c, s) \/ ReusePutWrites(c, s) PROVE Inv'
      BY <2>4, ReusePutInv, ReusePutWritesInv
    <2>5. ASSUME NEW s \in Slot, ReuseShard(c, s) PROVE Inv'
      BY <2>5, ReuseShardInv
    <2>6. ASSUME NEW s \in Slot, Task(c, s) PROVE Inv'
      BY <2>6, Moves, AcquireInv, PutInv, PutWritesInv, ShardInv, OutcomeInv, RenewalFailsInv
      DEF Task
    <2> QED BY <1>1, <2>1, <2>2, <2>3, <2>4, <2>5, <2>6, <2>7, <2>8 DEF Collect
  <1>2. ASSUME NEW c \in Collector, Crash(c) PROVE Inv'
    BY <1>2, TasksMove
  <1>3. ASSUME NEW c \in Collector,
               LapseRun(c) \/ RenewWrites(c) \/ Review(c) \/ Reconcile(c) \/ Interrupt(c)
        PROVE  Inv'
    BY <1>3, AroundInv, WritesInv
  <1>4. ASSUME NEW c \in Collector, NEW l \in InThread, NEW s \in Slot,
               StrayRuns(c, l, s) \/ StrayPuts(c, l, s)
        PROVE  Inv'
    BY <1>4, StrayRunsInv, StrayPutsInv
  <1>5. ASSUME NEW s \in Slot, LapseClaim(s) PROVE Inv'
    BY <1>5, LapseClaimInv
  <1>6. CASE UNCHANGED vars
    <2>1. TypeOK' /\ UNCHANGED <<claims, stored, attached, sharded, job, stray>>
      BY <1>6 DEF Inv, TypeOK, vars, shared
    <2>2. ClaimsSound'
      BY <2>1 DEF Inv, ClaimsSound, CompletedClaimsBacked
    <2>3. ASSUME NEW c \in Collector, NEW s \in Slot
          PROVE  JobKnows(c, s)' /\ StrayKnows(c, s)'
      BY <2>1, JobUnmoved DEF Inv
    <2>4. \A c \in Collector : CollectorKnows(c)'
      BY <1>6 DEF Inv, CollectorKnows, Finishing, vars, shared
    <2> QED BY <2>1, <2>2, <2>3, <2>4 DEF Inv
  <1> QED BY <1>1, <1>2, <1>3, <1>4, <1>5, <1>6 DEF Next

LEMMA Inductive == Spec => []Inv
  BY InitInv, NextInv, PTL DEF Spec

-----------------------------------------------------------------------------
(* Theorems                                                                 *)

\* The stores, the collectors and their tasks keep what they are made of.
THEOREM TypeCorrect == Spec => []TypeOK
  <1>1. Inv => TypeOK
    BY DEF Inv
  <1> QED BY <1>1, Inductive, PTL

\* A run is completed only with a trajectory of every planned slot, attached to
\* it and listed in its shard manifest, whatever was cancelled or overtaken.
THEOREM CompletedCoversPlan == Spec => []CompletedRunsWhole
  <1>1. Inv => CompletedRunsWhole
    BY DEF Inv, CollectorKnows, Finishing, CompletedRunsWhole
  <1> QED BY <1>1, Inductive, PTL

\* A claim released as completed has its own worker's trajectory behind it, also
\* when the thread of a cancelled task made the release.
THEOREM CompletedHasTrajectory == Spec => []CompletedClaimsBacked
  <1>1. Inv => CompletedClaimsBacked
    BY DEF Inv, ClaimsSound
  <1> QED BY <1>1, Inductive, PTL

\* Nobody takes over the slot of a worker that is still executing it unless its
\* claim ran out.
THEOREM NotOvertaken == Spec => []OvertakenOnlyWhenLapsed
  <1>1. ASSUME Inv, NEW c \in Collector, NEW s \in Slot, job[c][s] \in Executing
        PROVE  Epoch(c, s) = Len(claims[s]) \/ claims[s][Epoch(c, s)].lapsed
    <2>1. Claimed(c, s) /\ \A e \in DOMAIN claims[s] :
            claims[s][e].owner = c => claims[s][e].outcome = "none"
      BY <1>1 DEF Inv, JobKnows
    <2>2. Epoch(c, s) \in DOMAIN claims[s] /\ claims[s][Epoch(c, s)].outcome = "none"
      BY <1>1, <2>1, EpochIsOwn DEF Inv
    <2>3. Epoch(c, s) \in 1..Len(claims[s]) /\ Len(claims[s]) \in Nat
      BY <1>1, <2>2, ClaimFields DEF Inv
    <2>4. CASE Epoch(c, s) < Len(claims[s])
      BY <1>1, <2>2, <2>4 DEF Inv, ClaimsSound
    <2> QED BY <2>3, <2>4
  <1>2. Inv => OvertakenOnlyWhenLapsed
    BY <1>1 DEF OvertakenOnlyWhenLapsed
  <1> QED BY <1>2, Inductive, PTL

\* Stored trajectories stay, and a run that ended gets only what was past its
\* checks by then, though threads that nobody waits for still make their calls.
THEOREM EndedRunsGetNoMore == Spec => EndedRunsDrain
  <1>1. Inv /\ [Next]_vars => [Drain]_vars
    <2> SUFFICES ASSUME Inv, Next PROVE Drain
      BY DEF vars, shared
    \* What a call that passes its checks, a put and a step that ends a run do.
    <2>1. ASSUME UNCHANGED <<run, stored, attached>>,
                 \A c \in Collector : run[c] # "running" => writing'[c] \subseteq writing[c]
          PROVE  Drain
      BY <2>1 DEF Drain, Terminal
    <2>2. ASSUME NEW c \in Collector, NEW s \in Slot, NEW whose \in Collector \cup {Earlier},
                 CanPut(s, whose), DoPut(c, s, whose), Written(c), UNCHANGED run,
                 <<"put", s>> \in writing[c] \/ <<"reput", s>> \in writing[c]
          PROVE  Drain
      <3>1. \A t \in Slot : stored[t] # None => stored'[t] = stored[t]
        BY <2>2, RolloutCollectionAssumption DEF Inv, TypeOK, CanPut, DoPut
      <3>2. /\ attached'[c] = attached[c] \cup {s}
            /\ \A d \in Collector \ {c} : attached'[d] = attached[d]
        BY <2>2 DEF Inv, TypeOK, DoPut
      <3>3. \A d \in Collector : writing'[d] \subseteq writing[d]
        BY <2>2, WriteStep DEF Inv
      <3>4. \A t \in attached'[c] \ attached[c] : \E l \in {"put", "reput"} : <<l, t>> \in writing[c]
        BY <2>2, <3>2
      <3> QED BY <2>2, <3>1, <3>2, <3>3, <3>4 DEF Drain, Terminal
    <2>3. ASSUME UNCHANGED <<stored, attached>>,
                 \A c \in Collector : run'[c] = run[c] \/ run'[c] \in Terminal \/ run[c] = "none",
                 \A c \in Collector : writing'[c] \subseteq writing[c]
          PROVE  Drain
      BY <2>3 DEF Drain, Terminal
    <2>4. ASSUME NEW c \in Collector, NEW s \in Slot, PutWrites(c, s) \/ ReusePutWrites(c, s)
          PROVE  Drain
      <3>1. CASE PutWrites(c, s) /\ CanPut(s, c)
        BY <2>2, <3>1 DEF PutWrites
      <3>2. CASE PutWrites(c, s) /\ ~CanPut(s, c)
        <4>1. UNCHANGED <<run, stored, attached>> /\ Written(c)
          BY <3>2 DEF PutWrites
        <4> QED BY <2>1, <4>1, WriteStep DEF Inv
      <3>3. CASE ReusePutWrites(c, s)
        <4>1. /\ DoPut(c, s, stored[s]) /\ Written(c) /\ UNCHANGED run
              /\ <<"reput", s>> \in writing[c] /\ CanPut(s, stored[s])
          BY <3>3 DEF ReusePutWrites, CanPut
        <4>2. stored[s] \in Collector \cup {Earlier}
          BY <4>1 DEF Inv, TypeOK, CollectorKnows
        <4> QED BY <2>2, <4>1, <4>2
      <3> QED BY <2>4, <3>1, <3>2, <3>3
    <2>5. ASSUME NEW c \in Collector, CreateRun(c) PROVE Drain
      <3>1. /\ run[c] = "none" /\ \A d \in Collector \ {c} : run'[d] = run[d]
            /\ UNCHANGED <<stored, attached, writing>>
        BY <2>5 DEF CreateRun, Inv, TypeOK, CollectorKnows
      <3> QED BY <2>3, <3>1
    <2>6. ASSUME NEW c \in Collector,
                 LeaseWrites(c) \/ FinishWrites(c) \/ FailWrites(c) \/ RenewWrites(c) \/ Reconcile(c)
          PROVE  Drain
      <3>1. UNCHANGED <<stored, attached>> /\ \A d \in Collector : writing'[d] \subseteq writing[d]
        BY <2>6, WriteStep DEF Inv, LeaseWrites, FinishWrites, FailWrites, RenewWrites, Reconcile
      <3>2. UNCHANGED run \/ \E status \in Terminal : DoFinish(c, status)
        BY <2>6
        DEF LeaseWrites, FinishWrites, FailWrites, RenewWrites, Reconcile, Terminal
      <3>3. \A d \in Collector : run'[d] = run[d] \/ run'[d] \in Terminal
        BY <3>2, FinishStep DEF Inv
      <3> QED BY <2>3, <3>1, <3>3
    <2>7. ASSUME NEW c \in Collector, NEW call \in Writes, run[c] = "running", Checked(c, call),
                 UNCHANGED <<run, stored, attached>>
          PROVE  Drain
      <3>1. \A d \in Collector \ {c} : writing'[d] = writing[d]
        BY <2>7, WriteStep DEF Inv
      <3> QED BY <2>1, <2>7, <3>1
    <2>8. ASSUME NEW c \in Collector, LeaseRun(c) \/ Finish(c) \/ FailRun(c) \/ LapseRun(c)
          PROVE  Drain
      <3>1. {<<"lease", None>>, <<"finish", None>>, <<"fail", None>>, <<"renew", None>>}
              \subseteq Writes
        BY DEF Writes
      <3>2. UNCHANGED <<run, stored, attached>>
        BY <2>8 DEF LeaseRun, Finish, FailRun, LapseRun, shared
      <3>3. UNCHANGED writing \/ \E call \in Writes : run[c] = "running" /\ Checked(c, call)
        BY <2>8, <3>1 DEF LeaseRun, Finish, FailRun, LapseRun, Leased
      <3> QED BY <2>1, <2>7, <3>2, <3>3
    <2>9. ASSUME NEW c \in Collector, NEW s \in Slot, Put(c, s) \/ ReusePut(c, s) PROVE Drain
      <3>1. <<"put", s>> \in Writes /\ <<"reput", s>> \in Writes
        BY DEF Writes
      <3>2. UNCHANGED <<run, stored, attached>>
        BY <2>9 DEF Put, ReusePut, shared
      <3>3. UNCHANGED writing \/ \E call \in Writes : run[c] = "running" /\ Checked(c, call)
        BY <2>9, <3>1 DEF Put, ReusePut, Leased
      <3> QED BY <2>1, <2>7, <3>2, <3>3
    <2>10. ASSUME NEW c \in Collector, NEW l \in InThread, NEW s \in Slot,
                  StrayRuns(c, l, s) \/ StrayPuts(c, l, s)
           PROVE  Drain
      <3>1. UNCHANGED <<run, stored, attached>>
        BY <2>10 DEF StrayRuns, StrayPuts, shared
      <3>2. UNCHANGED writing \/ \E call \in Writes : run[c] = "running" /\ Checked(c, call)
        BY <2>10 DEF StrayRuns, StrayPuts, Leased, Writes
      <3> QED BY <2>1, <2>7, <3>1, <3>2
    <2>11. ASSUME NEW c \in Collector, Crash(c) PROVE Drain
      <3>1. UNCHANGED <<run, stored, attached>> /\ Written(c)
        BY <2>11 DEF Crash, shared
      <3> QED BY <2>1, <3>1, WriteStep DEF Inv
    <2>12. ASSUME NEW c \in Collector,
                  \/ Launch(c) \/ Batch(c) \/ RenewRun(c) \/ Publish(c) \/ SiblingRaised(c)
                  \/ HeartbeatFails(c) \/ Joined(c) \/ Shutdown(c) \/ Review(c) \/ Interrupt(c)
           PROVE  Drain
      BY <2>1, <2>12
      DEF Launch, Batch, RenewRun, Publish, SiblingRaised, HeartbeatFails, Joined, Shutdown,
          Review, Interrupt, shared
    <2>13. ASSUME NEW c \in Collector, NEW s \in Slot,
                  \/ ReadSlot(c, s) \/ StartReuse(c, s) \/ ReuseShard(c, s) \/ Admit(c, s)
                  \/ Acquire(c, s) \/ Model(c, s) \/ AssertCurrent(c, s) \/ Shard(c, s)
                  \/ StopRenewal(c, s) \/ Confirm(c, s) \/ ReleaseCompleted(c, s)
                  \/ Cleanup(c, s) \/ RenewalFails(c, s)
           PROVE  Drain
      BY <2>1, <2>13
      DEF ReadSlot, StartReuse, ReuseShard, Admit, Acquire, Model, AssertCurrent, Shard,
          StopRenewal, Confirm, ReleaseCompleted, Cleanup, RenewalFails, shared
    <2>14. ASSUME NEW s \in Slot, LapseClaim(s) PROVE Drain
      BY <2>1, <2>14 DEF LapseClaim
    <2> QED BY <2>4, <2>5, <2>6, <2>8, <2>9, <2>10, <2>11, <2>12, <2>13, <2>14
            DEF Next, Collect, Task
  <1> QED BY <1>1, Inductive, PTL DEF EndedRunsDrain, Spec
=============================================================================
