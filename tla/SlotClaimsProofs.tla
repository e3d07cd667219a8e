-------------------------- MODULE SlotClaimsProofs --------------------------
(***************************************************************************)
(* Proofs about SlotClaims, for every number of sessions, owners, ttls and *)
(* every bound.  The invariants that say who may hold the slot need prompt *)
(* renewals (RenewalsPrompt); the shape of the store does not.             *)
(***************************************************************************)
EXTENDS SlotClaims, TLAPS

\* Where a call has read epoch "seen" of an existing claim.
HasSeen(s) == pc[s] \in {"acquire.release", "acquire.expiry", "acquire.freed"}

\* Where a session works on the claim it holds.
Working == RenewPC \cup AssertPC \cup ReleasePC \cup {"current", "released"}

\* What is read stays in the store, and captured times are past times.
RegistersOf(s) ==
  /\ at[s] <= clock
  /\ held[s] <= LatestEpoch
  /\ pc[s] \in Working => held[s] \in 1..LatestEpoch
  /\ HasSeen(s) => seen[s] \in 1..LatestEpoch
  /\ pc[s] = "acquire.put" => seen[s] \in 0..LatestEpoch /\ seen[s] < MaxEpoch
  /\ (HasSeen(s) \/ (pc[s] = "acquire.put" /\ seen[s] > 0))
       => claims[seen[s]].acquired <= at[s]
  /\ pc[s] = "acquire.freed" => releases[seen[s]] # None
  /\ pc[s] \in ReleasePC => asked[s] \in Outcome

Registers == \A s \in Session : RegistersOf(s)

ClaimOrder ==
  /\ \A e \in 1..LatestEpoch : claims[e].acquired <= clock
  /\ \A e, f \in 1..LatestEpoch : e < f => claims[e].acquired <= claims[f].acquired

\* The renewal a session is about to store extends the expiry it read, if no
\* other renewal has taken its index.
PendingOf(s) ==
  pc[s] = "renew.put" =>
    /\ seen[s] <= Len(renewals[held[s]])
    /\ Len(renewals[held[s]]) = seen[s] =>
         /\ at[s] < EffectiveExpiry(held[s])
         /\ EffectiveExpiry(held[s]) < bound[s]

\* The expiry a worker was shown is one that was granted.
CoveredOf(s) == pc[s] = "current" => bound[s] <= EffectiveExpiry(held[s])

\* A renew call that began before the expiry is still before it.
InTimeOf(s) ==
  (pc[s] \in RenewPC /\ at[s] < EffectiveExpiry(held[s]))
    => clock < EffectiveExpiry(held[s])

\* A session about to take the slot over saw its predecessor end, and it did.
JustifiedOf(s) ==
  (pc[s] = "acquire.put" /\ seen[s] > 0) =>
    releases[seen[s]] # None \/ EffectiveExpiry(seen[s]) <= at[s]

\* AssertionCovered, for one session.
AssertionOf(s) ==
  (pc[s] = "current" /\ releases[held[s]] = None) =>
    \A e \in held[s] + 1..LatestEpoch : bound[s] <= claims[e].acquired

ReportsRead ==
  \A o \in Observer :
    /\ report[o].at <= clock
    /\ report[o].state \in {"inspect.release", "inspect.renewal", "inspect.freed",
                            "expired"} => report[o].epoch \in 1..LatestEpoch
    /\ report[o].state = "inspect.freed" => releases[report[o].epoch] # None

Shape ==
  /\ TypeOK /\ ClaimOrder /\ ReportsRead
  /\ \A s \in Session : RegistersOf(s) /\ PendingOf(s) /\ CoveredOf(s)

Timing ==
  /\ WindowsRespected /\ ExpiredReportsFinal
  /\ \A s \in Session : InTimeOf(s) /\ JustifiedOf(s) /\ AssertionOf(s)

-----------------------------------------------------------------------------
\* The initial state satisfies everything.
LEMMA InitShape == Init => Shape /\ Timing
  BY SlotClaimsAssumption
  DEF Init, Shape, Timing, TypeOK, RegistersOf, ClaimOrder, PendingOf,
      ReportsRead, CoveredOf, InTimeOf, JustifiedOf, WindowsRespected,
      AssertionOf, ExpiredReportsFinal, HasSeen, Working, LatestEpoch, store,
      Epochs, PC, ReadyPC, AcquirePC, RenewPC, AssertPC, ReleasePC, NoReport,
      Report, Verdict, Reading, Claim

\* Effective expiries are times.
LEMMA ExpiryIsTime ==
  ASSUME TypeOK, NEW e \in 1..LatestEpoch
  PROVE  EffectiveExpiry(e) \in Nat /\ e \in Epochs /\ claims[e] \in Claim
  <1>1. e \in Epochs /\ claims[e] \in Claim /\ renewals[e] \in Seq(Renewal)
    BY SlotClaimsAssumption DEF TypeOK, LatestEpoch, Epochs
  <1>2. CASE renewals[e] = <<>>
    BY <1>1, <1>2 DEF EffectiveExpiry, Claim
  <1>3. CASE renewals[e] # <<>>
    <2>1. renewals[e][Len(renewals[e])] \in Renewal
      BY <1>1, <1>3
    <2>2. QED
      BY <1>1, <1>3, <2>1 DEF EffectiveExpiry, Renewal
  <1>4. QED
    BY <1>2, <1>3

LEMMA ExpiriesAreTimes == TypeOK => \A e \in 1..LatestEpoch : EffectiveExpiry(e) \in Nat
  BY ExpiryIsTime

LEMMA ExpiriesStayTimes ==
  ASSUME TypeOK' PROVE \A e \in 1..LatestEpoch' : EffectiveExpiry(e)' \in Nat
  <1>1. (TypeOK => \A e \in 1..LatestEpoch : EffectiveExpiry(e) \in Nat)'
    BY ExpiriesAreTimes, PTL
  <1>2. QED
    BY <1>1

-----------------------------------------------------------------------------
(* Type correctness *)

\* The registers keep their types in a step that goes on and in one that returns.
RegistersTyped ==
  /\ clock \in 0..MaxClock
  /\ pc \in [Session -> PC]
  /\ held \in [Session -> 0..MaxEpoch]
  /\ at \in [Session -> Nat]
  /\ seen \in [Session -> Nat]
  /\ bound \in [Session -> Nat]
  /\ asked \in [Session -> Outcome \cup {None}]
  /\ report \in [Observer -> Report]

StoreTyped ==
  /\ claims \in Seq(Claim) /\ Len(claims) <= MaxEpoch
  /\ renewals \in [Epochs -> Seq(Renewal)]
  /\ releases \in [Epochs -> Release \cup {None}]

LEMMA GotoTyped ==
  ASSUME TypeOK, NEW s \in Session, NEW l \in PC, NEW e \in 0..MaxEpoch,
         NEW i \in Nat, NEW x \in Nat, Goto(s, l, e, i, x)
  PROVE  RegistersTyped'
  BY DEF TypeOK, Goto, RegistersTyped

LEMMA ReturnTyped ==
  ASSUME TypeOK, NEW s \in Session, NEW e \in 0..MaxEpoch, Return(s, e)
  PROVE  RegistersTyped'
  <1>1. "idle" \in PC
    BY DEF PC, ReadyPC
  <1>2. QED
    BY <1>1 DEF TypeOK, Return, RegistersTyped

LEMMA BeginTyped ==
  ASSUME TypeOK, NEW s \in Session, NEW l \in PC, NEW o \in Outcome \cup {None},
         Begin(s, l, o)
  PROVE  TypeOK'
  BY SlotClaimsAssumption DEF TypeOK, Begin, store

LEMMA StoreUnchangedTyped == TypeOK /\ UNCHANGED store => StoreTyped'
  BY DEF TypeOK, StoreTyped, store

LEMMA Typed == TypeOK' <=> RegistersTyped' /\ StoreTyped'
  BY DEF TypeOK, RegistersTyped, StoreTyped

LEMMA TypeAcquire ==
  ASSUME TypeOK, Registers, NEW s \in Session,
         \/ AcquireBegin(s) \/ AcquireLatest(s) \/ AcquireRelease(s)
         \/ AcquireExpiry(s) \/ AcquirePut(s)
  PROVE  TypeOK'
  <1>1. /\ AcquirePC \subseteq PC /\ held[s] \in 0..MaxEpoch /\ seen[s] \in Nat
        /\ LatestEpoch \in 0..MaxEpoch /\ at[s] \in Nat
    BY DEF PC, TypeOK, LatestEpoch
  <1>2. CASE AcquireBegin(s)
    BY <1>1, <1>2, BeginTyped DEF AcquireBegin, AcquirePC
  <1>3. CASE AcquireLatest(s)
    <2>1. Goto(s, "acquire.put", held[s], 0, 0) \/ Return(s, held[s])
          \/ Goto(s, "acquire.release", held[s], LatestEpoch, 0)
      BY <1>3 DEF AcquireLatest
    <2>2. RegistersTyped'
      BY <1>1, <2>1, GotoTyped, ReturnTyped DEF AcquirePC
    <2>3. QED
      BY <1>3, <2>2, StoreUnchangedTyped, Typed DEF AcquireLatest
  <1>4. CASE AcquireRelease(s)
    <2>1. PICK l \in AcquirePC : Goto(s, l, held[s], seen[s], 0)
      BY <1>4 DEF AcquireRelease, AcquirePC
    <2>2. QED
      BY <1>1, <1>4, <2>1, GotoTyped, StoreUnchangedTyped, Typed DEF AcquireRelease
  <1>5. CASE AcquireExpiry(s)
    <2>1. Goto(s, "acquire.put", held[s], seen[s], 0) \/ Return(s, seen[s])
          \/ Return(s, held[s])
      BY <1>5 DEF AcquireExpiry
    <2>2. seen[s] \in 0..MaxEpoch
      BY <1>1, <1>5, SlotClaimsAssumption DEF AcquireExpiry, Registers, RegistersOf, HasSeen
    <2>3. QED
      BY <1>1, <1>5, <2>1, <2>2, GotoTyped, ReturnTyped, StoreUnchangedTyped, Typed
      DEF AcquireExpiry, AcquirePC
  <1>6. CASE AcquirePut(s)
    <2>1. seen[s] + 1 \in 0..MaxEpoch
      BY <1>1, <1>6, SlotClaimsAssumption DEF AcquirePut, Registers, RegistersOf
    <2>2. PICK e \in 0..MaxEpoch : Return(s, e)
      BY <1>1, <1>6, <2>1 DEF AcquirePut
    <2>3. StoreTyped'
      <3>1. CASE UNCHANGED store
        BY <3>1, StoreUnchangedTyped
      <3>2. ASSUME NEW ttl \in TTLs, LatestEpoch = seen[s],
                   claims' = Append(claims, [owner |-> OwnerOf[s], acquired |-> at[s],
                                             expires |-> at[s] + ttl]),
                   UNCHANGED <<renewals, releases>>
            PROVE  StoreTyped'
        <4>1. [owner |-> OwnerOf[s], acquired |-> at[s], expires |-> at[s] + ttl] \in Claim
          BY <1>1, SlotClaimsAssumption DEF Claim
        <4>2. QED
          BY <1>1, <2>1, <3>2, <4>1 DEF TypeOK, StoreTyped, LatestEpoch
      <3>3. QED
        BY <1>6, <3>1, <3>2 DEF AcquirePut
    <2>4. QED
      BY <2>2, <2>3, ReturnTyped, Typed
  <1>7. QED
    BY <1>2, <1>3, <1>4, <1>5, <1>6

LEMMA TypeRenew ==
  ASSUME TypeOK, Registers, NEW s \in Session,
         \/ RenewBegin(s) \/ RenewLatest(s) \/ RenewRelease(s)
         \/ RenewRenewal(s) \/ RenewPut(s)
  PROVE  TypeOK'
  <1>1. RenewPC \subseteq PC /\ held[s] \in 0..MaxEpoch /\ seen[s] \in Nat /\ at[s] \in Nat
    BY DEF PC, TypeOK
  <1>2. CASE RenewBegin(s)
    BY <1>1, <1>2, BeginTyped DEF RenewBegin, RenewPC
  <1>3. CASE RenewLatest(s)
    <2>1. Goto(s, "renew.release", held[s], 0, 0) \/ Return(s, held[s])
      BY <1>3 DEF RenewLatest
    <2>2. QED
      BY <1>1, <1>3, <2>1, GotoTyped, ReturnTyped, StoreUnchangedTyped, Typed
      DEF RenewLatest, RenewPC
  <1>4. CASE RenewRelease(s)
    <2>1. Goto(s, "renew.renewal", held[s], 0, 0) \/ Return(s, held[s])
      BY <1>4 DEF RenewRelease
    <2>2. QED
      BY <1>1, <1>4, <2>1, GotoTyped, ReturnTyped, StoreUnchangedTyped, Typed
      DEF RenewRelease, RenewPC
  <1>5. CASE RenewRenewal(s)
    <2>1. PICK ttl \in TTLs :
            \/ Goto(s, "renew.put", held[s], Len(renewals[held[s]]), at[s] + ttl)
            \/ Return(s, held[s])
      BY <1>5 DEF RenewRenewal
    <2>2. at[s] + ttl \in Nat
      BY <1>1, SlotClaimsAssumption
    <2>3. Len(renewals[held[s]]) \in Nat
      <3>1. pc[s] \in Working
        BY <1>5 DEF RenewRenewal, Working, RenewPC
      <3>2. held[s] \in Epochs
        BY <3>1, SlotClaimsAssumption DEF Registers, RegistersOf, Epochs, TypeOK, LatestEpoch
      <3>3. QED
        BY <3>2 DEF TypeOK
    <2>4. RegistersTyped'
      BY <1>1, <2>1, <2>2, <2>3, GotoTyped, ReturnTyped DEF RenewPC
    <2>5. QED
      BY <1>5, <2>4, StoreUnchangedTyped, Typed DEF RenewRenewal
  <1>6. CASE RenewPut(s)
    <2>1. Return(s, held[s]) /\ UNCHANGED <<claims, releases>>
      BY <1>6 DEF RenewPut
    <2>2. renewals' \in [Epochs -> Seq(Renewal)]
      <3>1. CASE UNCHANGED renewals
        BY <3>1 DEF TypeOK
      <3>2. CASE renewals' = [renewals EXCEPT
                  ![held[s]] = Append(@, [renewed |-> at[s], expires |-> bound[s]])]
        <4>1. [renewed |-> at[s], expires |-> bound[s]] \in Renewal
          BY DEF TypeOK, Renewal
        <4>2. held[s] \in Epochs
          BY <1>6, SlotClaimsAssumption
          DEF RenewPut, Registers, RegistersOf, Working, RenewPC, Epochs, TypeOK, LatestEpoch
        <4>3. Append(renewals[held[s]], [renewed |-> at[s], expires |-> bound[s]])
                \in Seq(Renewal)
          BY <4>1, <4>2 DEF TypeOK
        <4>4. QED
          BY <3>2, <4>3 DEF TypeOK
      <3>3. QED
        BY <1>6, <3>1, <3>2 DEF RenewPut
    <2>3. StoreTyped'
      BY <2>1, <2>2 DEF TypeOK, StoreTyped
    <2>4. QED
      BY <1>1, <2>1, <2>3, ReturnTyped, Typed
  <1>7. QED
    BY <1>2, <1>3, <1>4, <1>5, <1>6

LEMMA TypeAssert ==
  ASSUME TypeOK, Registers, NEW s \in Session,
         \/ AssertBegin(s) \/ AssertLatest(s) \/ AssertRelease(s) \/ AssertExpiry(s)
  PROVE  TypeOK'
  <1>1. /\ AssertPC \subseteq PC /\ "current" \in PC
        /\ held[s] \in 0..MaxEpoch /\ seen[s] \in Nat /\ at[s] \in Nat
    BY DEF PC, ReadyPC, TypeOK
  <1>2. CASE AssertBegin(s)
    BY <1>1, <1>2, BeginTyped DEF AssertBegin, AssertPC
  <1>3. CASE AssertLatest(s)
    <2>1. Goto(s, "assert.release", held[s], 0, 0) \/ Return(s, held[s])
      BY <1>3 DEF AssertLatest
    <2>2. QED
      BY <1>1, <1>3, <2>1, GotoTyped, ReturnTyped, StoreUnchangedTyped, Typed
      DEF AssertLatest, AssertPC
  <1>4. CASE AssertRelease(s)
    <2>1. Goto(s, "assert.expiry", held[s], 0, 0) \/ Return(s, held[s])
      BY <1>4 DEF AssertRelease
    <2>2. QED
      BY <1>1, <1>4, <2>1, GotoTyped, ReturnTyped, StoreUnchangedTyped, Typed
      DEF AssertRelease, AssertPC
  <1>5. CASE AssertExpiry(s)
    <2>1. \/ Goto(s, "current", held[s], 0, EffectiveExpiry(held[s]))
          \/ Return(s, held[s])
      BY <1>5 DEF AssertExpiry
    <2>2. held[s] \in 1..LatestEpoch
      BY <1>5 DEF AssertExpiry, Registers, RegistersOf, Working, AssertPC
    <2>3. RegistersTyped'
      BY <1>1, <2>1, <2>2, ExpiryIsTime, GotoTyped, ReturnTyped
    <2>4. QED
      BY <1>5, <2>3, StoreUnchangedTyped, Typed DEF AssertExpiry
  <1>6. QED
    BY <1>2, <1>3, <1>4, <1>5

LEMMA TypeRelease ==
  ASSUME TypeOK, Registers, NEW s \in Session,
         ReleaseBegin(s) \/ ReleaseHead(s) \/ ReleasePut(s)
  PROVE  TypeOK'
  <1>1. /\ ReleasePC \subseteq PC /\ "released" \in PC
        /\ held[s] \in 0..MaxEpoch /\ seen[s] \in Nat /\ at[s] \in Nat
    BY DEF PC, ReadyPC, TypeOK
  <1>2. CASE ReleaseBegin(s)
    BY <1>1, <1>2, BeginTyped DEF ReleaseBegin, ReleasePC
  <1>3. CASE ReleaseHead(s)
    <2>1. \/ Goto(s, "release.put", held[s], 0, 0)
          \/ Goto(s, "released", held[s], 0, 0)
          \/ Return(s, held[s])
      BY <1>3 DEF ReleaseHead, ValidateExisting
    <2>2. QED
      BY <1>1, <1>3, <2>1, GotoTyped, ReturnTyped, StoreUnchangedTyped, Typed
      DEF ReleaseHead, ReleasePC
  <1>4. CASE ReleasePut(s)
    <2>1. Goto(s, "released", held[s], 0, 0) \/ Return(s, held[s])
      BY <1>4 DEF ReleasePut, ValidateExisting
    <2>2. releases' \in [Epochs -> Release \cup {None}]
      <3>1. asked[s] \in Outcome
        BY <1>4 DEF ReleasePut, Registers, RegistersOf, ReleasePC
      <3>2. [outcome |-> asked[s], released |-> at[s]] \in Release
        BY <1>1, <3>1 DEF Release
      <3>3. QED
        BY <1>4, <3>2 DEF ReleasePut, TypeOK
    <2>3. QED
      BY <1>1, <1>4, <2>1, <2>2, GotoTyped, ReturnTyped, Typed
      DEF ReleasePut, StoreTyped, TypeOK
  <1>5. QED
    BY <1>2, <1>3, <1>4

LEMMA TypeInspect ==
  ASSUME TypeOK, ReportsRead, NEW o \in Observer, Status(o)
  PROVE  TypeOK'
  <1>1. PICK state \in Verdict \cup Reading, t \in Nat, e \in 0..MaxEpoch :
          Inspect(o, state, t, e)
    <2>1. report[o].at \in Nat /\ report[o].epoch \in 0..MaxEpoch /\ clock \in Nat
          /\ LatestEpoch \in 0..MaxEpoch
      BY SlotClaimsAssumption DEF TypeOK, Report, LatestEpoch
    <2>2. \A e \in Epochs : releases[e] # None => releases[e].outcome \in Verdict
      BY DEF TypeOK, Release, Outcome, Verdict
    <2>3. CASE InspectBegin(o)
      BY <2>1, <2>3, SlotClaimsAssumption DEF InspectBegin, Reading
    <2>4. CASE InspectClaim(o)
      BY <2>1, <2>4 DEF InspectClaim, Reading, Verdict
    <2>5. CASE InspectRelease(o)
      BY <2>1, <2>5 DEF InspectRelease, Reading
    <2>6. CASE InspectRenewal(o)
      <3>1. report[o].epoch \in Epochs
        BY <2>1, <2>6, SlotClaimsAssumption DEF InspectRenewal, ReportsRead, Epochs
      <3>2. report[o].state = "inspect.freed" => releases[report[o].epoch].outcome \in Verdict
        BY <2>2, <3>1 DEF ReportsRead
      <3>3. QED
        BY <2>1, <2>6, <3>2 DEF InspectRenewal, Verdict
    <2>7. QED
      BY <2>3, <2>4, <2>5, <2>6 DEF Status
  <1>2. [state |-> state, at |-> t, epoch |-> e] \in Report
    BY DEF Report
  <1>3. QED
    BY <1>1, <1>2 DEF Inspect, TypeOK, store, calls

LEMMA TypeStep == TypeOK /\ Registers /\ ReportsRead /\ [Next]_vars => TypeOK'
  <1> SUFFICES ASSUME TypeOK, Registers, ReportsRead, [Next]_vars PROVE TypeOK'
    OBVIOUS
  <1>1. CASE Tick
    BY <1>1, SlotClaimsAssumption DEF Tick, TypeOK, store, calls
  <1>2. ASSUME NEW s \in Session, Call(s) PROVE TypeOK'
    BY <1>2, TypeAcquire, TypeRenew, TypeAssert, TypeRelease DEF Call
  <1>3. ASSUME NEW s \in Session, Crash(s) PROVE TypeOK'
    <2>1. 0 \in 0..MaxEpoch
      BY SlotClaimsAssumption
    <2>2. QED
      BY <1>3, <2>1, ReturnTyped, StoreUnchangedTyped, Typed DEF Crash
  <1>4. ASSUME NEW o \in Observer, Status(o) PROVE TypeOK'
    BY <1>4, TypeInspect
  <1>5. CASE UNCHANGED vars
    BY <1>5 DEF vars, store, calls, TypeOK
  <1>6. QED
    BY <1>1, <1>2, <1>3, <1>4, <1>5 DEF Next

-----------------------------------------------------------------------------
(* How the store changes *)

\* A claim, a renewal or a release is created; nothing else changes the store.
Claimed(s) ==
  /\ pc[s] = "acquire.put" /\ LatestEpoch = seen[s]
  /\ \E ttl \in TTLs :
       claims' = Append(claims, [owner |-> OwnerOf[s], acquired |-> at[s],
                                 expires |-> at[s] + ttl])
  /\ UNCHANGED <<renewals, releases, clock>>
  /\ Return(s, seen[s] + 1)

Renewed(s) ==
  /\ pc[s] = "renew.put" /\ Len(renewals[held[s]]) = seen[s]
  /\ renewals' = [renewals EXCEPT
       ![held[s]] = Append(@, [renewed |-> at[s], expires |-> bound[s]])]
  /\ UNCHANGED <<claims, releases, clock>>
  /\ Return(s, held[s])

Released(s) ==
  /\ pc[s] = "release.put" /\ releases[held[s]] = None
  /\ releases' = [releases EXCEPT
       ![held[s]] = [outcome |-> asked[s], released |-> at[s]]]
  /\ UNCHANGED <<claims, renewals, clock>>
  /\ Goto(s, "released", held[s], 0, 0)

LEMMA StoreChange ==
  [Next]_vars => \/ UNCHANGED store
                 \/ \E s \in Session : Claimed(s) \/ Renewed(s) \/ Released(s)
  <1> SUFFICES ASSUME [Next]_vars
               PROVE  \/ UNCHANGED store
                      \/ \E s \in Session : Claimed(s) \/ Renewed(s) \/ Released(s)
    OBVIOUS
  <1>1. CASE Tick
    BY <1>1 DEF Tick
  <1>2. ASSUME NEW s \in Session, Call(s)
        PROVE  UNCHANGED store \/ Claimed(s) \/ Renewed(s) \/ Released(s)
    <2>1. CASE AcquirePut(s)
      BY <2>1 DEF AcquirePut, Claimed, Return, store
    <2>2. CASE RenewPut(s)
      BY <2>2 DEF RenewPut, Renewed, Return, store
    <2>3. CASE ReleasePut(s)
      BY <2>3 DEF ReleasePut, Released, Goto, store
    <2>4. QED
      BY <1>2, <2>1, <2>2, <2>3
      DEF Call, Begin, AcquireBegin, AcquireLatest, AcquireRelease, AcquireExpiry,
          RenewBegin, RenewLatest, RenewRelease, RenewRenewal, AssertBegin,
          AssertLatest, AssertRelease, AssertExpiry, ReleaseBegin, ReleaseHead
  <1>3. ASSUME NEW s \in Session, Crash(s) PROVE UNCHANGED store
    BY <1>3 DEF Crash
  <1>4. ASSUME NEW o \in Observer, Status(o) PROVE UNCHANGED store
    BY <1>4 DEF Status, InspectBegin, InspectClaim, InspectRelease, InspectRenewal,
                Inspect
  <1>5. CASE UNCHANGED vars
    BY <1>5 DEF vars
  <1>6. QED
    BY <1>1, <1>2, <1>3, <1>4, <1>5 DEF Next

\* The store grows, and an expiry that changes is moved forward.
Growth ==
  /\ LatestEpoch' \in Nat /\ LatestEpoch <= LatestEpoch'
  /\ \A e \in 1..LatestEpoch : claims'[e] = claims[e]
  /\ \A e \in Epochs :
       /\ Len(renewals[e]) <= Len(renewals'[e])
       /\ \A i \in 1..Len(renewals[e]) : renewals'[e][i] = renewals[e][i]
       /\ Len(renewals'[e]) = Len(renewals[e]) => renewals'[e] = renewals[e]
       /\ releases[e] # None => releases'[e] = releases[e]

Later ==
  /\ clock <= clock'
  /\ \A e \in 1..LatestEpoch :
       \/ EffectiveExpiry(e)' = EffectiveExpiry(e)
       \/ /\ EffectiveExpiry(e) < EffectiveExpiry(e)'
          /\ clock' = clock
          /\ \E s \in Session : Renewed(s) /\ held[s] = e /\ at[s] < EffectiveExpiry(e)

LEMMA StoreGrows == Shape /\ [Next]_vars => Growth
  <1> SUFFICES ASSUME Shape, [Next]_vars PROVE Growth
    OBVIOUS
  <1>1. /\ claims \in Seq(Claim) /\ LatestEpoch \in Nat
        /\ \A e \in Epochs : renewals[e] \in Seq(Renewal)
    BY DEF Shape, TypeOK, LatestEpoch
  <1>2. CASE UNCHANGED store
    BY <1>1, <1>2 DEF Growth, store, LatestEpoch
  <1>3. ASSUME NEW s \in Session, Claimed(s) PROVE Growth
    <2>1. PICK ttl \in TTLs :
            claims' = Append(claims, [owner |-> OwnerOf[s], acquired |-> at[s],
                                      expires |-> at[s] + ttl])
      BY <1>3 DEF Claimed
    <2>2. [owner |-> OwnerOf[s], acquired |-> at[s], expires |-> at[s] + ttl] \in Claim
      BY SlotClaimsAssumption DEF Shape, TypeOK, Claim
    <2>3. /\ Len(claims') = LatestEpoch + 1
          /\ \A e \in 1..LatestEpoch : claims'[e] = claims[e]
      BY <1>1, <2>1, <2>2 DEF LatestEpoch
    <2>4. UNCHANGED <<renewals, releases>>
      BY <1>3 DEF Claimed
    <2>5. QED
      BY <1>1, <2>3, <2>4 DEF Growth, LatestEpoch
  <1>4. ASSUME NEW s \in Session, Renewed(s) PROVE Growth
    <2> DEFINE r == [renewed |-> at[s], expires |-> bound[s]]
    <2>1. r \in Renewal
      BY DEF Shape, TypeOK, Renewal
    <2>2. UNCHANGED <<claims, releases>>
      BY <1>4 DEF Renewed
    <2>3. ASSUME NEW e \in Epochs
          PROVE  /\ Len(renewals[e]) <= Len(renewals'[e])
                 /\ \A i \in 1..Len(renewals[e]) : renewals'[e][i] = renewals[e][i]
                 /\ Len(renewals'[e]) = Len(renewals[e]) => renewals'[e] = renewals[e]
      <3>1. CASE e = held[s]
        <4>1. renewals'[e] = Append(renewals[e], r)
          BY <1>4, <3>1 DEF Renewed, Shape, TypeOK
        <4>2. QED
          BY <1>1, <2>1, <4>1
      <3>2. CASE e # held[s]
        <4>1. renewals'[e] = renewals[e]
          BY <1>4, <3>2 DEF Renewed, Shape, TypeOK
        <4>2. QED
          BY <1>1, <4>1
      <3>3. QED
        BY <3>1, <3>2
    <2>4. QED
      BY <1>1, <2>2, <2>3 DEF Growth, LatestEpoch
  <1>5. ASSUME NEW s \in Session, Released(s) PROVE Growth
    BY <1>1, <1>5 DEF Released, Growth, LatestEpoch, Shape, TypeOK
  <1>6. QED
    BY <1>2, <1>3, <1>4, <1>5, StoreChange

\* An expiry only depends on the claim and the renewals of its epoch.
LEMMA SameExpiry ==
  ASSUME NEW e, claims'[e] = claims[e], renewals'[e] = renewals[e]
  PROVE  EffectiveExpiry(e)' = EffectiveExpiry(e)
  BY DEF EffectiveExpiry

\* The numbers of the store and of a session.
LEMMA Numbers ==
  ASSUME Shape
  PROVE  /\ TypeOK /\ clock \in Nat /\ MaxEpoch \in Nat /\ LatestEpoch \in 0..MaxEpoch
         /\ \A s \in Session : /\ at[s] \in Nat /\ held[s] \in Nat
                               /\ seen[s] \in Nat /\ bound[s] \in Nat
  <1>1. TypeOK /\ MaxEpoch \in Nat /\ MaxClock \in Nat
    BY SlotClaimsAssumption DEF Shape
  <1>2. clock \in Nat
    BY <1>1 DEF TypeOK
  <1>3. LatestEpoch \in 0..MaxEpoch
    <2>1. Len(claims) \in Nat /\ Len(claims) <= MaxEpoch
      BY <1>1 DEF TypeOK
    <2>2. QED
      BY <1>1, <2>1 DEF LatestEpoch
  <1>4. ASSUME NEW s \in Session
        PROVE  at[s] \in Nat /\ held[s] \in Nat /\ seen[s] \in Nat /\ bound[s] \in Nat
    BY <1>1 DEF TypeOK
  <1>5. QED
    BY <1>1, <1>2, <1>3, <1>4

\* Only a tick moves the clock.
LEMMA ClockStands == [Next]_vars => clock' = clock \/ Tick
  <1>1. ASSUME NEW s \in Session, Call(s) PROVE clock' = clock
    BY <1>1
    DEF Call, Goto, Return, Begin, AcquireBegin, AcquireLatest, AcquireRelease,
        AcquireExpiry, AcquirePut, RenewBegin, RenewLatest, RenewRelease,
        RenewRenewal, RenewPut, AssertBegin, AssertLatest, AssertRelease,
        AssertExpiry, ReleaseBegin, ReleaseHead, ReleasePut, ValidateExisting
  <1>2. ASSUME NEW s \in Session, Crash(s) PROVE clock' = clock
    BY <1>2 DEF Crash, Return
  <1>3. ASSUME NEW o \in Observer, Status(o) PROVE clock' = clock
    BY <1>3 DEF Status, InspectBegin, InspectClaim, InspectRelease,
                InspectRenewal, Inspect
  <1>4. QED
    BY <1>1, <1>2, <1>3 DEF Next, vars

LEMMA TimePasses == Shape /\ [Next]_vars => Later
  <1> SUFFICES ASSUME Shape, [Next]_vars PROVE Later
    OBVIOUS
  <1>1. clock <= clock'
    <2>1. clock \in Nat
      BY SlotClaimsAssumption DEF Shape, TypeOK
    <2>2. QED
      BY <2>1, ClockStands DEF Tick
  <1>2. ASSUME NEW e \in 1..LatestEpoch
        PROVE  \/ EffectiveExpiry(e)' = EffectiveExpiry(e)
               \/ /\ EffectiveExpiry(e) < EffectiveExpiry(e)'
                  /\ clock' = clock
                  /\ \E s \in Session :
                       Renewed(s) /\ held[s] = e /\ at[s] < EffectiveExpiry(e)
    <2>1. claims'[e] = claims[e] /\ e \in Epochs
      BY StoreGrows, ExpiryIsTime DEF Growth, Shape
    <2>2. CASE renewals'[e] = renewals[e]
      BY <2>1, <2>2, SameExpiry
    <2>3. CASE renewals'[e] # renewals[e]
      <3>1. PICK s \in Session : Renewed(s)
        BY <2>3, StoreChange DEF store, Claimed, Released
      <3>2. /\ held[s] = e
            /\ renewals'[e] = Append(renewals[e], [renewed |-> at[s], expires |-> bound[s]])
        BY <2>1, <2>3, <3>1 DEF Renewed, Shape, TypeOK
      <3>3. EffectiveExpiry(e)' = bound[s]
        <4>1. [renewed |-> at[s], expires |-> bound[s]] \in Renewal
          BY DEF Shape, TypeOK, Renewal
        <4>2. renewals[e] \in Seq(Renewal)
          BY <2>1 DEF Shape, TypeOK
        <4>3. /\ renewals'[e] # <<>>
              /\ renewals'[e][Len(renewals'[e])]
                   = [renewed |-> at[s], expires |-> bound[s]]
          BY <3>2, <4>1, <4>2
        <4>4. QED
          BY <4>3 DEF EffectiveExpiry
      <3>4. at[s] < EffectiveExpiry(e) /\ EffectiveExpiry(e) < bound[s]
        BY <3>1, <3>2 DEF Renewed, Shape, PendingOf
      <3>5. QED
        BY <3>1, <3>2, <3>3, <3>4 DEF Renewed
    <2>4. QED
      BY <2>2, <2>3
  <1>3. QED
    BY <1>1, <1>2 DEF Later

-----------------------------------------------------------------------------
(* Shape is inductive *)

ShapeOf(s) == RegistersOf(s) /\ PendingOf(s) /\ CoveredOf(s)

\* A session that does not move.
Still(q) ==
  /\ pc'[q] = pc[q] /\ held'[q] = held[q] /\ at'[q] = at[q]
  /\ seen'[q] = seen[q] /\ bound'[q] = bound[q] /\ asked'[q] = asked[q]

LEMMA StillShape ==
  ASSUME Shape, Growth, Later, TypeOK', NEW q \in Session, Still(q)
  PROVE  ShapeOf(q)'
  <1>1. /\ ShapeOf(q) /\ held[q] \in Nat /\ seen[q] \in Nat /\ at[q] \in Nat
        /\ bound[q] \in Nat /\ LatestEpoch \in Nat /\ clock \in Nat /\ clock' \in Nat
    BY SlotClaimsAssumption DEF Shape, ShapeOf, TypeOK, LatestEpoch
  <1>2. ASSUME NEW e \in 1..LatestEpoch
        PROVE  /\ e \in Epochs /\ claims'[e] = claims[e]
               /\ EffectiveExpiry(e) \in Nat /\ EffectiveExpiry(e)' \in Nat
               /\ EffectiveExpiry(e) <= EffectiveExpiry(e)'
    <2>1. e \in 1..LatestEpoch'
      BY <1>1 DEF Growth
    <2>2. EffectiveExpiry(e) \in Nat /\ e \in Epochs
      BY ExpiryIsTime DEF Shape
    <2>3. EffectiveExpiry(e)' \in Nat
      BY <2>1, ExpiriesStayTimes
    <2>4. QED
      BY <2>2, <2>3 DEF Growth, Later
  <1>3. RegistersOf(q)'
    <2>1. LatestEpoch <= LatestEpoch' /\ LatestEpoch' \in Nat
      BY DEF Growth
    <2>2. /\ at'[q] <= clock'
          /\ held'[q] <= LatestEpoch'
          /\ pc'[q] \in Working => held'[q] \in 1..LatestEpoch'
      BY <1>1, <2>1 DEF ShapeOf, RegistersOf, Still, Later
    <2>3. /\ HasSeen(q)' => seen'[q] \in 1..LatestEpoch'
          /\ pc'[q] = "acquire.put" => seen'[q] \in 0..LatestEpoch' /\ seen'[q] < MaxEpoch
      BY <1>1, <2>1 DEF ShapeOf, RegistersOf, Still, HasSeen
    <2>4. (HasSeen(q)' \/ (pc'[q] = "acquire.put" /\ seen'[q] > 0))
            => claims'[seen'[q]].acquired <= at'[q]
      <3>1. SUFFICES ASSUME HasSeen(q) \/ (pc[q] = "acquire.put" /\ seen[q] > 0)
                     PROVE  claims'[seen[q]].acquired <= at[q]
        BY DEF Still, HasSeen
      <3>2. seen[q] \in 1..LatestEpoch /\ claims[seen[q]].acquired <= at[q]
        BY <1>1, <3>1 DEF ShapeOf, RegistersOf
      <3>3. QED
        BY <1>2, <3>2
    <2>5. pc'[q] = "acquire.freed" => releases'[seen'[q]] # None
      <3>1. SUFFICES ASSUME pc[q] = "acquire.freed" PROVE releases'[seen[q]] # None
        BY DEF Still
      <3>2. releases[seen[q]] # None /\ seen[q] \in 1..LatestEpoch
        BY <1>1, <3>1 DEF ShapeOf, RegistersOf, HasSeen
      <3>3. QED
        BY <1>2, <3>2 DEF Growth
    <2>6. pc'[q] \in ReleasePC => asked'[q] \in Outcome
      BY <1>1 DEF ShapeOf, RegistersOf, Still
    <2>7. QED
      BY <2>2, <2>3, <2>4, <2>5, <2>6 DEF RegistersOf
  <1>4. PendingOf(q)'
    <2>1. SUFFICES ASSUME pc[q] = "renew.put"
                   PROVE  /\ seen[q] <= Len(renewals'[held[q]])
                          /\ Len(renewals'[held[q]]) = seen[q] =>
                               /\ at[q] < EffectiveExpiry(held[q])'
                               /\ EffectiveExpiry(held[q])' < bound[q]
      BY DEF PendingOf, Still, EffectiveExpiry
    <2>2. held[q] \in 1..LatestEpoch /\ held[q] \in Epochs
      BY <1>1, <1>2, <2>1 DEF ShapeOf, RegistersOf, Working, RenewPC
    <2>3. /\ Len(renewals[held[q]]) \in Nat /\ Len(renewals'[held[q]]) \in Nat
          /\ Len(renewals[held[q]]) <= Len(renewals'[held[q]])
          /\ Len(renewals'[held[q]]) = Len(renewals[held[q]])
               => renewals'[held[q]] = renewals[held[q]]
      <3>1. renewals[held[q]] \in Seq(Renewal) /\ renewals'[held[q]] \in Seq(Renewal)
        BY <2>2 DEF Shape, TypeOK
      <3>2. Len(renewals[held[q]]) \in Nat /\ Len(renewals'[held[q]]) \in Nat
        BY <3>1
      <3>3. QED
        BY <2>2, <3>2 DEF Growth
    <2>4. seen[q] <= Len(renewals[held[q]])
      BY <1>1, <2>1 DEF ShapeOf, PendingOf
    <2>5. ASSUME Len(renewals'[held[q]]) = seen[q]
          PROVE  /\ at[q] < EffectiveExpiry(held[q])'
                 /\ EffectiveExpiry(held[q])' < bound[q]
      <3>1. renewals'[held[q]] = renewals[held[q]] /\ Len(renewals[held[q]]) = seen[q]
        BY <1>1, <2>3, <2>4, <2>5
      <3>2. claims'[held[q]] = claims[held[q]]
        BY <1>2, <2>2
      <3>3. QED
        BY <1>1, <2>1, <3>1, <3>2 DEF ShapeOf, PendingOf, EffectiveExpiry, Still
    <2>6. QED
      BY <1>1, <2>3, <2>4, <2>5
  <1>5. CoveredOf(q)'
    <2>1. SUFFICES ASSUME pc[q] = "current"
                   PROVE  bound[q] <= EffectiveExpiry(held[q])'
      BY DEF CoveredOf, Still, EffectiveExpiry
    <2>2. held[q] \in 1..LatestEpoch
      BY <1>1, <2>1 DEF ShapeOf, RegistersOf, Working
    <2>3. bound[q] <= EffectiveExpiry(held[q])
      BY <1>1, <2>1 DEF ShapeOf, CoveredOf
    <2>4. /\ EffectiveExpiry(held[q]) <= EffectiveExpiry(held[q])'
          /\ EffectiveExpiry(held[q]) \in Nat /\ EffectiveExpiry(held[q])' \in Nat
      BY <1>2, <2>2 DEF Still
    <2>5. QED
      BY <1>1, <2>3, <2>4
  <1>6. QED
    BY <1>3, <1>4, <1>5 DEF ShapeOf

\* After a call returned or began nothing is pending.
LEMMA ReturnShape ==
  ASSUME TypeOK, TypeOK', NEW s \in Session, NEW e \in Nat, e <= LatestEpoch', Return(s, e)
  PROVE  ShapeOf(s)'
  <1>1. pc'[s] = "idle" /\ held'[s] = e /\ at'[s] = 0
    BY DEF TypeOK, Return
  <1>2. clock' \in Nat
    BY SlotClaimsAssumption DEF TypeOK
  <1>3. QED
    BY <1>1, <1>2
    DEF ShapeOf, RegistersOf, PendingOf, CoveredOf, HasSeen, Working, RenewPC,
        AssertPC, ReleasePC

LEMMA BeginShape ==
  ASSUME Shape, NEW s \in Session, NEW l, NEW o, Begin(s, l, o),
         \/ l = "acquire.latest"
         \/ l \in {"renew.latest", "assert.latest"} /\ held[s] > 0
         \/ l = "release.head" /\ held[s] > 0 /\ o \in Outcome
  PROVE  ShapeOf(s)'
  <1>1. /\ pc'[s] = l /\ held'[s] = held[s] /\ at'[s] = clock /\ asked'[s] = o
        /\ clock' = clock /\ claims' = claims
    BY DEF Shape, TypeOK, Begin, store
  <1>2. /\ held[s] <= LatestEpoch /\ held[s] \in Nat /\ LatestEpoch \in Nat
        /\ clock \in Nat
    BY SlotClaimsAssumption DEF Shape, RegistersOf, TypeOK, LatestEpoch
  <1>3. RegistersOf(s)'
    BY <1>1, <1>2
    DEF RegistersOf, HasSeen, Working, RenewPC, AssertPC, ReleasePC, LatestEpoch
  <1>4. PendingOf(s)' /\ CoveredOf(s)'
    BY <1>1 DEF PendingOf, CoveredOf
  <1>5. QED
    BY <1>3, <1>4 DEF ShapeOf

LEMMA Effects ==
  ASSUME TypeOK, NEW s \in Session, NEW l, NEW e, NEW i, NEW x, Goto(s, l, e, i, x)
  PROVE  /\ pc'[s] = l /\ held'[s] = e /\ seen'[s] = i /\ bound'[s] = x
         /\ at'[s] = at[s] /\ asked'[s] = asked[s] /\ clock' = clock
  BY DEF TypeOK, Goto

\* A call on a held claim that goes on to its next read.
LEMMA WorkingShape ==
  ASSUME Shape, NEW s \in Session, NEW l, Goto(s, l, held[s], 0, 0), claims' = claims,
         pc[s] \in Working, l \in Working \ {"renew.put", "current"},
         l \in ReleasePC => pc[s] \in ReleasePC
  PROVE  ShapeOf(s)'
  <1>1. /\ pc'[s] = l /\ held'[s] = held[s] /\ at'[s] = at[s] /\ asked'[s] = asked[s]
        /\ clock' = clock
    BY Effects DEF Shape
  <1>2. RegistersOf(s)
    BY DEF Shape
  <1>3. RegistersOf(s)'
    BY <1>1, <1>2
    DEF RegistersOf, HasSeen, Working, RenewPC, AssertPC, ReleasePC, LatestEpoch
  <1>4. PendingOf(s)' /\ CoveredOf(s)'
    BY <1>1 DEF PendingOf, CoveredOf
  <1>5. QED
    BY <1>3, <1>4 DEF ShapeOf

LEMMA AcquireShape ==
  ASSUME Shape, TypeOK', NEW s \in Session,
         \/ AcquireBegin(s) \/ AcquireLatest(s) \/ AcquireRelease(s)
         \/ AcquireExpiry(s) \/ AcquirePut(s)
  PROVE  ShapeOf(s)'
  <1>1. /\ TypeOK /\ RegistersOf(s) /\ held[s] \in Nat /\ seen[s] \in Nat /\ at[s] \in Nat
        /\ LatestEpoch \in 0..MaxEpoch /\ MaxEpoch \in Nat
    BY Numbers DEF Shape
  <1>2. CASE AcquireBegin(s)
    BY <1>2, BeginShape DEF AcquireBegin
  <1>3. ASSUME UNCHANGED store, NEW e \in Nat, e <= LatestEpoch, Return(s, e)
        PROVE  ShapeOf(s)'
    <2>1. e <= LatestEpoch'
      BY <1>3 DEF store, LatestEpoch
    <2>2. QED
      BY <1>1, <1>3, <2>1, ReturnShape
  <1>4. ASSUME UNCHANGED store, NEW l, NEW i \in Nat, Goto(s, l, held[s], i, 0),
               l \in {"acquire.release", "acquire.expiry", "acquire.freed", "acquire.put"},
               i <= LatestEpoch, l = "acquire.put" => i < MaxEpoch,
               l # "acquire.put" => i > 0, i > 0 => claims[i].acquired <= at[s],
               l = "acquire.freed" => releases[i] # None
        PROVE  ShapeOf(s)'
    <2>1. /\ pc'[s] = l /\ held'[s] = held[s] /\ at'[s] = at[s] /\ seen'[s] = i
          /\ clock' = clock
      BY <1>1, <1>4, Effects
    <2>2. RegistersOf(s)'
      BY <1>1, <1>4, <2>1
      DEF RegistersOf, HasSeen, Working, RenewPC, AssertPC, ReleasePC, LatestEpoch, store
    <2>3. PendingOf(s)' /\ CoveredOf(s)'
      BY <1>4, <2>1 DEF PendingOf, CoveredOf
    <2>4. QED
      BY <2>2, <2>3 DEF ShapeOf
  <1>5. held[s] <= LatestEpoch
    BY <1>1 DEF RegistersOf
  <1>6. CASE AcquireLatest(s)
    <2>1. CASE LatestEpoch = 0 /\ Goto(s, "acquire.put", held[s], 0, 0)
      BY <1>1, <1>4, <1>6, <2>1, SlotClaimsAssumption DEF AcquireLatest
    <2>2. CASE /\ LatestEpoch > 0 /\ at[s] >= claims[LatestEpoch].acquired
               /\ Goto(s, "acquire.release", held[s], LatestEpoch, 0)
      <3>1. claims[LatestEpoch].acquired \in Nat
        BY <1>1, <2>2, ExpiryIsTime DEF Claim
      <3>2. QED
        BY <1>1, <1>4, <1>6, <2>2, <3>1 DEF AcquireLatest
    <2>3. CASE Return(s, held[s])
      BY <1>1, <1>3, <1>5, <1>6, <2>3 DEF AcquireLatest
    <2>4. QED
      BY <1>6, <2>1, <2>2, <2>3 DEF AcquireLatest
  <1>7. (pc[s] \in {"acquire.release", "acquire.expiry", "acquire.freed"}) =>
          /\ seen[s] \in 1..LatestEpoch /\ claims[seen[s]].acquired <= at[s]
          /\ pc[s] = "acquire.freed" => releases[seen[s]] # None
    BY <1>1 DEF RegistersOf, HasSeen
  <1>8. CASE AcquireRelease(s)
    BY <1>1, <1>4, <1>7, <1>8 DEF AcquireRelease
  <1>9. CASE AcquireExpiry(s)
    <2>1. CASE seen[s] < MaxEpoch /\ Goto(s, "acquire.put", held[s], seen[s], 0)
      BY <1>1, <1>4, <1>7, <1>9, <2>1 DEF AcquireExpiry
    <2>2. CASE Return(s, seen[s]) \/ Return(s, held[s])
      BY <1>1, <1>3, <1>5, <1>7, <1>9, <2>2 DEF AcquireExpiry
    <2>3. QED
      BY <1>9, <2>1, <2>2 DEF AcquireExpiry
  <1>10. CASE AcquirePut(s)
    <2>1. seen[s] \in 0..LatestEpoch
      BY <1>1, <1>10 DEF AcquirePut, RegistersOf
    <2>2. CASE UNCHANGED store
      <3>1. CASE LatestEpoch > seen[s]
        BY <1>1, <1>3, <1>5, <1>10, <2>1, <2>2, <3>1 DEF AcquirePut
      <3>2. CASE LatestEpoch = seen[s]
        <4>1. claims' = claims /\ Len(claims') = Len(claims)
          BY <2>2 DEF store
        <4>2. PICK ttl \in TTLs :
                claims' = Append(claims, [owner |-> OwnerOf[s], acquired |-> at[s],
                                          expires |-> at[s] + ttl])
          BY <1>1, <1>10, <3>2 DEF AcquirePut
        <4>3. Len(claims') = Len(claims) + 1
          BY <1>1, <4>2, SlotClaimsAssumption DEF TypeOK, Claim
        <4>4. QED
          BY <1>1, <4>1, <4>3 DEF LatestEpoch
      <3>3. QED
        BY <1>1, <2>1, <3>1, <3>2
    <2>3. CASE /\ LatestEpoch = seen[s] /\ Return(s, seen[s] + 1)
               /\ \E ttl \in TTLs :
                    claims' = Append(claims, [owner |-> OwnerOf[s], acquired |-> at[s],
                                              expires |-> at[s] + ttl])
      <3>1. LatestEpoch' = LatestEpoch + 1
        <4>1. PICK ttl \in TTLs :
                claims' = Append(claims, [owner |-> OwnerOf[s], acquired |-> at[s],
                                          expires |-> at[s] + ttl])
          BY <2>3
        <4>2. QED
          BY <1>1, <4>1, SlotClaimsAssumption DEF LatestEpoch, TypeOK, Claim
      <3>2. QED
        BY <1>1, <2>3, <3>1, ReturnShape
    <2>4. QED
      BY <1>10, <2>2, <2>3 DEF AcquirePut
  <1>11. QED
    BY <1>2, <1>6, <1>8, <1>9, <1>10

LEMMA RenewShape ==
  ASSUME Shape, TypeOK', NEW s \in Session,
         \/ RenewBegin(s) \/ RenewLatest(s) \/ RenewRelease(s)
         \/ RenewRenewal(s) \/ RenewPut(s)
  PROVE  ShapeOf(s)'
  <1>1. /\ TypeOK /\ RegistersOf(s) /\ held[s] \in Nat /\ at[s] \in Nat
        /\ held[s] <= LatestEpoch
    BY DEF Shape, TypeOK, RegistersOf
  <1>2. CASE RenewBegin(s)
    BY <1>1, <1>2, BeginShape DEF RenewBegin
  <1>3. ASSUME claims' = claims, Return(s, held[s]) PROVE ShapeOf(s)'
    <2>1. held[s] <= LatestEpoch'
      BY <1>1, <1>3 DEF LatestEpoch
    <2>2. QED
      BY <1>1, <1>3, <2>1, ReturnShape
  <1>4. CASE RenewLatest(s)
    BY <1>3, <1>4, WorkingShape
    DEF RenewLatest, Working, RenewPC, AssertPC, ReleasePC, store
  <1>5. CASE RenewRelease(s)
    BY <1>3, <1>5, WorkingShape
    DEF RenewRelease, Working, RenewPC, AssertPC, ReleasePC, store
  <1>6. CASE RenewRenewal(s)
    <2>1. CASE Return(s, held[s])
      BY <1>3, <1>6, <2>1 DEF RenewRenewal, store
    <2>2. ASSUME NEW ttl \in TTLs, EffectiveExpiry(held[s]) > at[s],
                 at[s] + ttl > EffectiveExpiry(held[s]),
                 Goto(s, "renew.put", held[s], Len(renewals[held[s]]), at[s] + ttl)
          PROVE  ShapeOf(s)'
      <3>1. /\ pc'[s] = "renew.put" /\ held'[s] = held[s] /\ at'[s] = at[s]
            /\ seen'[s] = Len(renewals[held[s]]) /\ bound'[s] = at[s] + ttl
            /\ clock' = clock
        BY <1>1, <2>2, Effects
      <3>2. /\ claims' = claims /\ renewals' = renewals
        BY <1>6 DEF RenewRenewal, store
      <3>3. held[s] \in 1..LatestEpoch
        BY <1>1, <1>6 DEF RenewRenewal, RegistersOf, Working, RenewPC
      <3>4. EffectiveExpiry(held[s]) \in Nat /\ held[s] \in Epochs
        BY <1>1, <3>3, ExpiryIsTime
      <3>5. RegistersOf(s)'
        BY <1>1, <3>1, <3>2, <3>3
        DEF RegistersOf, HasSeen, Working, RenewPC, AssertPC, ReleasePC, LatestEpoch
      <3>6. EffectiveExpiry(held[s])' = EffectiveExpiry(held[s])
        BY <3>1, <3>2 DEF EffectiveExpiry
      <3>7. Len(renewals[held[s]]) \in Nat
        BY <1>1, <3>4 DEF TypeOK
      <3>8. PendingOf(s)'
        BY <1>1, <2>2, <3>1, <3>2, <3>4, <3>6, <3>7 DEF PendingOf
      <3>9. CoveredOf(s)'
        BY <3>1 DEF CoveredOf
      <3>10. QED
        BY <3>5, <3>8, <3>9 DEF ShapeOf
    <2>3. QED
      BY <1>6, <2>1, <2>2 DEF RenewRenewal
  <1>7. CASE RenewPut(s)
    BY <1>3, <1>7 DEF RenewPut
  <1>8. QED
    BY <1>2, <1>4, <1>5, <1>6, <1>7

LEMMA AssertShape ==
  ASSUME Shape, TypeOK', NEW s \in Session,
         \/ AssertBegin(s) \/ AssertLatest(s) \/ AssertRelease(s) \/ AssertExpiry(s)
  PROVE  ShapeOf(s)'
  <1>1. /\ TypeOK /\ RegistersOf(s) /\ held[s] \in Nat /\ at[s] \in Nat
        /\ held[s] <= LatestEpoch
    BY DEF Shape, TypeOK, RegistersOf
  <1>2. CASE AssertBegin(s)
    BY <1>1, <1>2, BeginShape DEF AssertBegin
  <1>3. ASSUME claims' = claims, Return(s, held[s]) PROVE ShapeOf(s)'
    <2>1. held[s] <= LatestEpoch'
      BY <1>1, <1>3 DEF LatestEpoch
    <2>2. QED
      BY <1>1, <1>3, <2>1, ReturnShape
  <1>4. CASE AssertLatest(s)
    BY <1>3, <1>4, WorkingShape
    DEF AssertLatest, Working, RenewPC, AssertPC, ReleasePC, store
  <1>5. CASE AssertRelease(s)
    BY <1>3, <1>5, WorkingShape
    DEF AssertRelease, Working, RenewPC, AssertPC, ReleasePC, store
  <1>6. CASE AssertExpiry(s)
    <2>1. CASE Return(s, held[s])
      BY <1>3, <1>6, <2>1 DEF AssertExpiry, store
    <2>2. CASE Goto(s, "current", held[s], 0, EffectiveExpiry(held[s]))
      <3>1. /\ pc'[s] = "current" /\ held'[s] = held[s] /\ at'[s] = at[s]
            /\ bound'[s] = EffectiveExpiry(held[s]) /\ clock' = clock
        BY <1>1, <2>2, Effects
      <3>2. /\ claims' = claims /\ renewals' = renewals
        BY <1>6 DEF AssertExpiry, store
      <3>3. held[s] \in 1..LatestEpoch
        BY <1>1, <1>6 DEF AssertExpiry, RegistersOf, Working, AssertPC
      <3>4. EffectiveExpiry(held[s]) \in Nat
        BY <1>1, <3>3, ExpiryIsTime
      <3>5. RegistersOf(s)'
        BY <1>1, <3>1, <3>2, <3>3
        DEF RegistersOf, HasSeen, Working, RenewPC, AssertPC, ReleasePC, LatestEpoch
      <3>6. EffectiveExpiry(held[s])' = EffectiveExpiry(held[s])
        BY <3>1, <3>2 DEF EffectiveExpiry
      <3>7. PendingOf(s)' /\ CoveredOf(s)'
        BY <3>1, <3>4, <3>6 DEF PendingOf, CoveredOf
      <3>8. QED
        BY <3>5, <3>7 DEF ShapeOf
    <2>3. QED
      BY <1>6, <2>1, <2>2 DEF AssertExpiry
  <1>7. QED
    BY <1>2, <1>4, <1>5, <1>6

LEMMA ReleaseShape ==
  ASSUME Shape, TypeOK', NEW s \in Session,
         ReleaseBegin(s) \/ ReleaseHead(s) \/ ReleasePut(s)
  PROVE  ShapeOf(s)'
  <1>1. /\ TypeOK /\ RegistersOf(s) /\ held[s] \in Nat /\ held[s] <= LatestEpoch
    BY Numbers DEF Shape, RegistersOf
  <1>2. CASE ReleaseBegin(s)
    BY <1>1, <1>2, BeginShape DEF ReleaseBegin
  <1>3. ASSUME claims' = claims, Return(s, held[s]) PROVE ShapeOf(s)'
    <2>1. held[s] <= LatestEpoch'
      BY <1>1, <1>3 DEF LatestEpoch
    <2>2. QED
      BY <1>1, <1>3, <2>1, ReturnShape
  <1>4. ASSUME claims' = claims, pc[s] \in ReleasePC,
               \/ Goto(s, "release.put", held[s], 0, 0)
               \/ Goto(s, "released", held[s], 0, 0)
        PROVE  ShapeOf(s)'
    BY <1>4, WorkingShape DEF Working, RenewPC, AssertPC, ReleasePC
  <1>5. CASE ReleaseHead(s)
    BY <1>3, <1>4, <1>5 DEF ReleaseHead, ValidateExisting, ReleasePC, store
  <1>6. CASE ReleasePut(s)
    BY <1>3, <1>4, <1>6 DEF ReleasePut, ValidateExisting, ReleasePC
  <1>7. QED
    BY <1>2, <1>5, <1>6

\* A call moves one session only.
LEMMA OthersStill ==
  ASSUME TypeOK, NEW s \in Session, Call(s) \/ Crash(s), NEW q \in Session, q # s
  PROVE  Still(q)
  <1>1. ASSUME NEW l, NEW e, NEW i, NEW x, Goto(s, l, e, i, x) PROVE Still(q)
    BY <1>1 DEF Goto, Still, TypeOK
  <1>2. ASSUME NEW e, Return(s, e) PROVE Still(q)
    BY <1>2 DEF Return, Still, TypeOK
  <1>3. ASSUME NEW l, NEW o, Begin(s, l, o) PROVE Still(q)
    BY <1>3 DEF Begin, Still, TypeOK
  <1>4. QED
    BY <1>1, <1>2, <1>3
    DEF Call, Crash, AcquireBegin, AcquireLatest, AcquireRelease,
        AcquireExpiry, AcquirePut, RenewBegin, RenewLatest, RenewRelease,
        RenewRenewal, RenewPut, AssertBegin, AssertLatest, AssertRelease,
        AssertExpiry, ReleaseBegin, ReleaseHead, ReleasePut, ValidateExisting

LEMMA CallKeepsReports ==
  ASSUME NEW s \in Session, Call(s) \/ Crash(s)
  PROVE  report' = report
  BY DEF Call, Crash, Goto, Return, Begin, AcquireBegin, AcquireLatest, AcquireRelease,
         AcquireExpiry, AcquirePut, RenewBegin, RenewLatest, RenewRelease,
         RenewRenewal, RenewPut, AssertBegin, AssertLatest, AssertRelease,
         AssertExpiry, ReleaseBegin, ReleaseHead, ReleasePut, ValidateExisting

\* Nobody moves while the clock does, an observer reads, or nothing happens.
LEMMA AllStill ==
  ASSUME Tick \/ (\E o \in Observer : Status(o)) \/ UNCHANGED vars, NEW q \in Session
  PROVE  Still(q) /\ UNCHANGED store
  BY DEF Tick, Status, InspectBegin, InspectClaim, InspectRelease, InspectRenewal,
         Inspect, calls, vars, Still

LEMMA SessionsStep ==
  ASSUME Shape, [Next]_vars, TypeOK', NEW q \in Session
  PROVE  ShapeOf(q)'
  <1>1. Growth /\ Later /\ TypeOK
    BY StoreGrows, TimePasses DEF Shape
  <1>2. CASE Tick \/ (\E o \in Observer : Status(o)) \/ UNCHANGED vars
    BY <1>1, <1>2, AllStill, StillShape
  <1>3. ASSUME NEW s \in Session, Call(s) PROVE ShapeOf(q)'
    <2>1. CASE q = s
      BY <1>3, <2>1, AcquireShape, RenewShape, AssertShape, ReleaseShape DEF Call
    <2>2. CASE q # s
      BY <1>1, <1>3, <2>2, OthersStill, StillShape
    <2>3. QED
      BY <2>1, <2>2
  <1>4. ASSUME NEW s \in Session, Crash(s) PROVE ShapeOf(q)'
    <2>1. CASE q = s
      <3>1. 0 <= LatestEpoch'
        BY <1>1 DEF Growth
      <3>2. QED
        BY <1>1, <1>4, <2>1, <3>1, ReturnShape DEF Crash
    <2>2. CASE q # s
      BY <1>1, <1>4, <2>2, OthersStill, StillShape
    <2>3. QED
      BY <2>1, <2>2
  <1>5. QED
    BY <1>2, <1>3, <1>4 DEF Next

LEMMA ClaimOrderStep == Shape /\ [Next]_vars => ClaimOrder'
  <1> SUFFICES ASSUME Shape, [Next]_vars PROVE ClaimOrder'
    OBVIOUS
  <1>1. /\ TypeOK /\ ClaimOrder /\ Growth /\ LatestEpoch \in Nat
        /\ clock \in Nat /\ clock' \in Int /\ clock <= clock'
    <2>1. Growth /\ Later
      BY StoreGrows, TimePasses
    <2>2. TypeOK /\ Registers /\ ReportsRead
      BY DEF Shape, Registers
    <2>3. TypeOK'
      BY <2>2, TypeStep
    <2>4. clock \in Nat /\ clock' \in Int
      BY <2>2, <2>3, SlotClaimsAssumption DEF TypeOK
    <2>5. QED
      BY <2>1, <2>2, <2>4 DEF Later, Shape, TypeOK, LatestEpoch
  <1>2. \A e \in 1..LatestEpoch :
          claims'[e] = claims[e] /\ claims[e].acquired \in Nat
    BY <1>1, ExpiryIsTime DEF Growth, Claim
  <1>3. CASE LatestEpoch' = LatestEpoch
    BY <1>1, <1>2, <1>3 DEF ClaimOrder
  <1>4. ASSUME NEW s \in Session, Claimed(s) PROVE ClaimOrder'
    <2>1. PICK ttl \in TTLs :
            claims' = Append(claims, [owner |-> OwnerOf[s], acquired |-> at[s],
                                      expires |-> at[s] + ttl])
      BY <1>4 DEF Claimed
    <2>2. LatestEpoch' = LatestEpoch + 1 /\ claims'[LatestEpoch + 1].acquired = at[s]
      BY <1>1, <2>1, SlotClaimsAssumption DEF LatestEpoch, TypeOK, Claim
    <2>3. /\ at[s] \in Nat /\ at[s] <= clock
          /\ LatestEpoch > 0 => claims[LatestEpoch].acquired <= at[s]
      BY <1>1, <1>4 DEF Claimed, Shape, RegistersOf, TypeOK
    <2>4. \A e \in 1..LatestEpoch : claims[e].acquired <= at[s]
      BY <1>1, <1>2, <2>3 DEF ClaimOrder
    <2>5. clock' = clock
      BY <1>4 DEF Claimed
    <2>6. QED
      BY <1>1, <1>2, <2>2, <2>3, <2>4, <2>5 DEF ClaimOrder
  <1>5. QED
    BY <1>3, <1>4, StoreChange DEF store, Renewed, Released, LatestEpoch

LEMMA ReportsStep == Shape /\ [Next]_vars => ReportsRead'
  <1> SUFFICES ASSUME Shape, [Next]_vars, NEW o \in Observer
               PROVE  /\ report'[o].at <= clock'
                      /\ report'[o].state \in {"inspect.release", "inspect.renewal",
                                               "inspect.freed", "expired"}
                           => report'[o].epoch \in 1..LatestEpoch'
                      /\ report'[o].state = "inspect.freed"
                           => releases'[report'[o].epoch] # None
    BY DEF ReportsRead
  <1>1. /\ TypeOK /\ Growth /\ Later /\ LatestEpoch \in Nat /\ clock \in Nat
        /\ report[o].at \in Nat /\ report[o].epoch \in 0..MaxEpoch /\ MaxEpoch \in Nat
    <2>1. report[o].at \in Nat /\ report[o].epoch \in 0..MaxEpoch
      BY SlotClaimsAssumption DEF Shape, TypeOK, Report
    <2>2. QED
      BY <2>1, Numbers, StoreGrows, TimePasses
  <1>2. /\ report[o].at <= clock
        /\ report[o].state \in {"inspect.release", "inspect.renewal", "inspect.freed",
                                "expired"} => report[o].epoch \in 1..LatestEpoch
        /\ report[o].state = "inspect.freed" => releases[report[o].epoch] # None
    BY DEF Shape, ReportsRead
  <1>3. CASE report'[o] = report[o]
    <2>1. report'[o].at <= clock'
      <3>1. clock' \in Int /\ clock <= clock'
        <4>1. TypeOK'
          BY TypeStep DEF Shape, Registers
        <4>2. QED
          BY <1>1, <4>1, SlotClaimsAssumption DEF Later, TypeOK
      <3>2. QED
        BY <1>1, <1>2, <1>3, <3>1
    <2>2. LatestEpoch' \in Nat /\ LatestEpoch <= LatestEpoch'
      BY <1>1 DEF Growth
    <2>3. report[o].epoch > 0 /\ releases[report[o].epoch] # None
            => releases'[report[o].epoch] = releases[report[o].epoch]
      BY <1>1 DEF Growth, Epochs
    <2>4. QED
      BY <1>1, <1>2, <1>3, <2>1, <2>2, <2>3
  <1>4. CASE Status(o)
    <2>1. UNCHANGED <<store, clock>> /\ claims' = claims /\ releases' = releases
          /\ LatestEpoch' = LatestEpoch
      BY <1>4 DEF Status, InspectBegin, InspectClaim, InspectRelease, InspectRenewal,
                  Inspect, store, LatestEpoch
    <2>2. report \in [Observer -> Report]
      BY <1>1 DEF TypeOK
    <2>3. CASE InspectBegin(o)
      <3>1. report'[o] = [state |-> "inspect.claim", at |-> clock, epoch |-> 0]
        BY <2>2, <2>3 DEF InspectBegin, Inspect
      <3>2. QED
        BY <1>1, <2>1, <3>1
    <2>4. CASE InspectClaim(o)
      <3>1. /\ report'[o].at = report[o].at /\ report'[o].epoch = LatestEpoch
            /\ report'[o].state \in {"unclaimed", "error", "inspect.release"}
            /\ report'[o].state = "inspect.release" => LatestEpoch # 0
        BY <2>2, <2>4 DEF InspectClaim, Inspect
      <3>2. QED
        BY <1>1, <1>2, <2>1, <3>1
    <2>5. CASE InspectRelease(o)
      <3>1. /\ report'[o].at = report[o].at /\ report'[o].epoch = report[o].epoch
            /\ report[o].state = "inspect.release"
            /\ report'[o].state = "inspect.freed" => releases[report[o].epoch] # None
        BY <2>2, <2>5 DEF InspectRelease, Inspect
      <3>2. QED
        BY <1>1, <1>2, <2>1, <3>1
    <2>6. CASE InspectRenewal(o)
      <3>1. report[o].epoch \in 1..LatestEpoch
        BY <1>2, <2>6 DEF InspectRenewal
      <3>2. report'[o].at = report[o].at /\ report'[o].epoch = report[o].epoch
        BY <2>2, <2>6 DEF InspectRenewal, Inspect
      <3>3. report'[o].state # "inspect.freed"
        <4>1. report[o].state = "inspect.freed" =>
                releases[report[o].epoch].outcome \in Outcome
          BY <1>1, <1>2, <3>1, ExpiryIsTime DEF TypeOK, Release
        <4>2. \/ report'[o].state \in {"error", "expired", "active"}
              \/ /\ report[o].state = "inspect.freed"
                 /\ report'[o].state = releases[report[o].epoch].outcome
          BY <2>2, <2>6 DEF InspectRenewal, Inspect
        <4>3. QED
          BY <4>1, <4>2 DEF Outcome
      <3>4. QED
        BY <1>1, <1>2, <2>1, <3>1, <3>2, <3>3
    <2>7. QED
      BY <1>4, <2>3, <2>4, <2>5, <2>6 DEF Status
  <1>5. ASSUME NEW p \in Observer, Status(p), p # o PROVE report'[o] = report[o]
    BY <1>1, <1>5 DEF Status, InspectBegin, InspectClaim, InspectRelease, InspectRenewal,
                Inspect, TypeOK
  <1>6. QED
    BY <1>3, <1>4, <1>5, CallKeepsReports DEF Next, Tick, vars

LEMMA ShapeStep == Shape /\ [Next]_vars => Shape'
  <1> SUFFICES ASSUME Shape, [Next]_vars PROVE Shape'
    OBVIOUS
  <1>1. TypeOK'
    BY TypeStep DEF Shape, Registers
  <1>2. ClaimOrder' /\ ReportsRead'
    BY ClaimOrderStep, ReportsStep
  <1>3. ASSUME NEW q \in Session PROVE ShapeOf(q)'
    BY <1>1, SessionsStep
  <1>4. QED
    BY <1>1, <1>2, <1>3 DEF Shape, ShapeOf

-----------------------------------------------------------------------------
(* Timing is inductive where no lease runs out inside a renew call on it *)

\* An expiry that has passed stays as it is: a renewal that is stored finds
\* the lease it extends unexpired.
LEMMA PassedIsFinal ==
  ASSUME Shape, Timing, [Next]_vars, NEW e \in 1..LatestEpoch
  PROVE  \/ EffectiveExpiry(e)' = EffectiveExpiry(e)
         \/ /\ clock' = clock /\ clock < EffectiveExpiry(e)
            /\ EffectiveExpiry(e) < EffectiveExpiry(e)'
  <1>1. SUFFICES ASSUME NEW s \in Session, Renewed(s), held[s] = e,
                        at[s] < EffectiveExpiry(e)
                 PROVE  clock < EffectiveExpiry(e)
    BY TimePasses DEF Later
  <1>2. QED
    BY <1>1 DEF Timing, InTimeOf, Renewed, RenewPC

\* The values a session and the store hold, for arithmetic.
LEMMA Values ==
  ASSUME Shape, [Next]_vars
  PROVE  /\ TypeOK /\ TypeOK' /\ Growth /\ Later
         /\ clock \in Nat /\ clock' \in Nat /\ LatestEpoch \in Nat
         /\ \A q \in Session : /\ at[q] \in Nat /\ held[q] \in Nat
                               /\ seen[q] \in Nat /\ bound[q] \in Nat
         /\ \A e \in 1..LatestEpoch :
              /\ e \in Epochs /\ e \in 1..LatestEpoch'
              /\ claims'[e] = claims[e] /\ claims[e].acquired \in Nat
              /\ EffectiveExpiry(e) \in Nat /\ EffectiveExpiry(e)' \in Nat
  <1>1. TypeOK /\ TypeOK' /\ Growth /\ Later
    BY StoreGrows, TimePasses, TypeStep DEF Shape, Registers
  <1>2. /\ clock \in Nat /\ clock' \in Nat /\ LatestEpoch \in Nat
        /\ \A q \in Session : /\ at[q] \in Nat /\ held[q] \in Nat
                              /\ seen[q] \in Nat /\ bound[q] \in Nat
    BY <1>1, SlotClaimsAssumption DEF TypeOK, LatestEpoch
  <1>3. ASSUME NEW e \in 1..LatestEpoch
        PROVE  /\ e \in Epochs /\ e \in 1..LatestEpoch'
               /\ claims'[e] = claims[e] /\ claims[e].acquired \in Nat
               /\ EffectiveExpiry(e) \in Nat /\ EffectiveExpiry(e)' \in Nat
    <2>1. e \in 1..LatestEpoch'
      BY <1>1, <1>2 DEF Growth
    <2>2. QED
      BY <1>1, <2>1, ExpiryIsTime, ExpiriesStayTimes DEF Growth, Claim
  <1>4. QED
    BY <1>1, <1>2, <1>3

TimingOf(s) == InTimeOf(s) /\ JustifiedOf(s) /\ AssertionOf(s)

\* A claim is created at or after the last expiry of the one before it.
LEMMA TakeoverJustified ==
  ASSUME Shape, Timing, [Next]_vars, NEW s \in Session, Claimed(s)
  PROVE  /\ LatestEpoch' = LatestEpoch + 1
         /\ claims'[LatestEpoch + 1].acquired = at[s] /\ at[s] \in Nat
         /\ renewals' = renewals /\ releases' = releases
         /\ LatestEpoch > 0 =>
              /\ claims[LatestEpoch].acquired <= at[s]
              /\ releases[LatestEpoch] # None \/ EffectiveExpiry(LatestEpoch) <= at[s]
  <1>1. PICK ttl \in TTLs :
          claims' = Append(claims, [owner |-> OwnerOf[s], acquired |-> at[s],
                                    expires |-> at[s] + ttl])
    BY DEF Claimed
  <1>2. LatestEpoch' = LatestEpoch + 1 /\ claims'[LatestEpoch + 1].acquired = at[s]
    BY <1>1, Values, SlotClaimsAssumption DEF LatestEpoch, TypeOK, Claim
  <1>3. RegistersOf(s) /\ JustifiedOf(s)
    BY DEF Shape, Timing
  <1>4. QED
    BY <1>2, <1>3, Values DEF Claimed, RegistersOf, JustifiedOf

LEMMA WindowsStep == Shape /\ Timing /\ [Next]_vars => WindowsRespected'
  <1> SUFFICES ASSUME Shape, Timing, [Next]_vars, NEW e, e \in 1..LatestEpoch' - 1
               PROVE  \/ releases'[e] # None
                      \/ EffectiveExpiry(e)' <= claims'[e+1].acquired
    BY DEF WindowsRespected
  <1>1. LatestEpoch \in Nat
    BY Values
  <1>2. CASE e \in 1..LatestEpoch - 1
    <2>1. e \in 1..LatestEpoch /\ e + 1 \in 1..LatestEpoch /\ e \in 1..LatestEpoch - 1
      BY <1>1, <1>2
    <2>2. releases[e] # None \/ EffectiveExpiry(e) <= claims[e+1].acquired
      BY <2>1 DEF Timing, WindowsRespected
    <2>3. releases[e] # None => releases'[e] # None
      BY <2>1, Values DEF Growth
    <2>4. claims'[e+1] = claims[e+1] /\ claims[e+1].acquired <= clock
          /\ claims[e+1].acquired \in Nat
      BY <2>1, Values DEF Shape, ClaimOrder
    <2>5. EffectiveExpiry(e) \in Nat /\ clock \in Nat
      BY <2>1, Values
    <2>6. \/ EffectiveExpiry(e)' = EffectiveExpiry(e)
          \/ clock < EffectiveExpiry(e)
      BY <2>1, PassedIsFinal
    <2>7. QED
      BY <2>2, <2>3, <2>4, <2>5, <2>6
  <1>3. ASSUME NEW s \in Session, Claimed(s), e = LatestEpoch, LatestEpoch > 0
        PROVE  \/ releases'[e] # None
               \/ EffectiveExpiry(e)' <= claims'[e+1].acquired
    <2>1. e \in 1..LatestEpoch
      BY <1>1, <1>3
    <2>2. EffectiveExpiry(e)' = EffectiveExpiry(e)
      BY <1>3, <2>1, Values, SameExpiry, TakeoverJustified
    <2>3. QED
      BY <1>3, <2>2, TakeoverJustified
  <1>4. CASE LatestEpoch' = LatestEpoch
    BY <1>2, <1>4
  <1>5. ASSUME NEW s \in Session, Claimed(s)
        PROVE  e \in 1..LatestEpoch - 1 \/ (e = LatestEpoch /\ LatestEpoch > 0)
    <2>1. e \in 1..(LatestEpoch + 1) - 1
      BY <1>5, TakeoverJustified
    <2>2. QED
      BY <1>1, <2>1
  <1>6. QED
    BY <1>2, <1>3, <1>4, <1>5, StoreChange DEF store, Renewed, Released, LatestEpoch

LEMMA ExpiredStep == Shape /\ Timing /\ [Next]_vars => ExpiredReportsFinal'
  <1> SUFFICES ASSUME Shape, Timing, [Next]_vars, NEW o \in Observer,
                      report'[o].state = "expired"
               PROVE  EffectiveExpiry(report[o].epoch)' <= report'[o].at
    BY DEF ExpiredReportsFinal
  <1>1. CASE report'[o] = report[o]
    <2>1. PICK e \in 1..LatestEpoch : e = report[o].epoch
      BY <1>1 DEF Shape, ReportsRead
    <2>2. EffectiveExpiry(e) <= report[o].at /\ report[o].at <= clock
      BY <1>1, <2>1 DEF Timing, ExpiredReportsFinal, Shape, ReportsRead
    <2>3. report[o].at \in Nat
      BY Values DEF TypeOK, Report
    <2>4. EffectiveExpiry(e)' = EffectiveExpiry(e)
      BY <2>2, <2>3, Values, PassedIsFinal
    <2>5. EffectiveExpiry(report[o].epoch)' = EffectiveExpiry(e)'
      BY <1>1, <2>1
    <2>6. QED
      BY <1>1, <2>2, <2>4, <2>5
  <1>2. CASE Status(o)
    <2>1. report \in [Observer -> Report]
      BY Values DEF TypeOK
    <2>2. InspectRenewal(o)
      <3>1. CASE InspectBegin(o)
        BY <2>1, <3>1 DEF InspectBegin, Inspect
      <3>2. CASE InspectClaim(o)
        BY <2>1, <3>2 DEF InspectClaim, Inspect
      <3>3. CASE InspectRelease(o)
        BY <2>1, <3>3 DEF InspectRelease, Inspect
      <3>4. QED
        BY <1>2, <3>1, <3>2, <3>3 DEF Status
    <2>3. PICK e \in 1..LatestEpoch : e = report[o].epoch
      BY <2>2 DEF InspectRenewal, Shape, ReportsRead
    <2>4. /\ report'[o].at = report[o].at /\ report'[o].epoch = e
          /\ \/ report'[o].state = "expired" /\ EffectiveExpiry(e) <= report[o].at
             \/ report'[o].state \in {"error", "active"}
             \/ /\ report[o].state = "inspect.freed"
                /\ report'[o].state = releases[e].outcome
      BY <2>1, <2>2, <2>3 DEF InspectRenewal, Inspect
    <2>5. report[o].state = "inspect.freed" => releases[e].outcome \in Outcome
      BY <2>3, Values DEF TypeOK, Release, Shape, ReportsRead
    <2>6. EffectiveExpiry(e) <= report[o].at
      BY <2>4, <2>5 DEF Outcome
    <2>7. EffectiveExpiry(report[o].epoch)' = EffectiveExpiry(e)
      BY <2>2, <2>4 DEF InspectRenewal, Inspect, store, EffectiveExpiry
    <2>8. QED
      BY <2>4, <2>6, <2>7
  <1>3. ASSUME NEW p \in Observer, Status(p), p # o PROVE report'[o] = report[o]
    BY <1>3, Values DEF Status, InspectBegin, InspectClaim, InspectRelease,
                InspectRenewal, Inspect, TypeOK
  <1>4. QED
    BY <1>1, <1>2, <1>3, CallKeepsReports DEF Next, Tick, vars

LEMMA InTimeStep ==
  ASSUME RenewalsPrompt, Shape, Timing, [Next]_vars, NEW q \in Session
  PROVE  InTimeOf(q)'
  <1>1. TypeOK /\ InTimeOf(q) /\ RegistersOf(q)
    BY Values DEF Timing, Shape
  <1>2. ASSUME Still(q) PROVE InTimeOf(q)'
    <2>1. SUFFICES ASSUME pc[q] \in RenewPC, NEW e \in 1..LatestEpoch, e = held[q],
                          at[q] < EffectiveExpiry(e)'
                   PROVE  clock' < EffectiveExpiry(e)'
      <3>1. pc[q] \in RenewPC => held[q] \in 1..LatestEpoch
        BY <1>1 DEF RegistersOf, Working
      <3>2. pc'[q] = pc[q] /\ at'[q] = at[q] /\ held'[q] = held[q]
        BY <1>2 DEF Still
      <3>3. QED
        BY <1>2, <3>1, <3>2 DEF InTimeOf, Still
    <2>2. \/ EffectiveExpiry(e)' = EffectiveExpiry(e)
          \/ clock' = clock /\ clock < EffectiveExpiry(e)'
      <3>1. /\ EffectiveExpiry(e) \in Nat /\ EffectiveExpiry(e)' \in Nat
            /\ clock \in Nat
        BY Values
      <3>2. QED
        BY <3>1, PassedIsFinal
    <2>3. CASE clock' = clock
      BY <1>1, <2>1, <2>2, <2>3 DEF InTimeOf
    <2>4. CASE Tick
      <3>1. ~RunsOutInRenew(q, clock + 1) /\ clock' = clock + 1
        BY <2>4 DEF Tick
      <3>2. EffectiveExpiry(e)' = EffectiveExpiry(e)
        BY <2>2, <3>1, Values
      <3>3. ~(EffectiveExpiry(e) <= clock + 1)
        BY <2>1, <3>1, <3>2 DEF RunsOutInRenew
      <3>4. QED
        BY <3>1, <3>2, <3>3, Values
    <2>5. QED
      BY <2>3, <2>4, ClockStands
  <1>3. ASSUME Call(q) \/ Crash(q) PROVE InTimeOf(q)'
    <2>1. CASE pc'[q] \notin RenewPC
      BY <2>1 DEF InTimeOf
    <2>2. CASE RenewBegin(q)
      <3>1. at'[q] = clock /\ clock' = clock
        BY <1>1, <2>2 DEF RenewBegin, Begin, TypeOK
      <3>2. QED
        BY <3>1 DEF InTimeOf
    <2>3. CASE /\ pc[q] \in RenewPC /\ UNCHANGED <<store, clock>>
               /\ at'[q] = at[q] /\ held'[q] = held[q]
      BY <1>1, <2>3 DEF InTimeOf, EffectiveExpiry, store
    <2>4. CASE RenewLatest(q) \/ RenewRelease(q) \/ RenewRenewal(q)
      <3>1. ASSUME NEW l, NEW i, NEW x, Goto(q, l, held[q], i, x)
            PROVE  at'[q] = at[q] /\ held'[q] = held[q] /\ clock' = clock
        BY <1>1, <3>1, Effects
      <3>2. Return(q, held[q]) => pc'[q] = "idle"
        BY <1>1 DEF Return, TypeOK
      <3>3. QED
        BY <2>1, <2>3, <2>4, <3>1, <3>2
        DEF RenewLatest, RenewRelease, RenewRenewal, RenewPC
    <2>5. ASSUME ~RenewBegin(q), ~RenewLatest(q), ~RenewRelease(q), ~RenewRenewal(q)
          PROVE  pc'[q] \notin RenewPC
      <3>1. ASSUME NEW l, NEW e, NEW i, NEW x, Goto(q, l, e, i, x) PROVE pc'[q] = l
        BY <1>1, <3>1, Effects
      <3>2. ASSUME NEW e, Return(q, e) PROVE pc'[q] = "idle"
        BY <1>1, <3>2 DEF Return, TypeOK
      <3>3. ASSUME NEW l, NEW o, Begin(q, l, o) PROVE pc'[q] = l
        BY <1>1, <3>3 DEF Begin, TypeOK
      <3>4. QED
        BY <1>3, <2>5, <3>1, <3>2, <3>3
        DEF Call, Crash, AcquireBegin, AcquireLatest, AcquireRelease, AcquireExpiry,
            AcquirePut, RenewPut, AssertBegin, AssertLatest, AssertRelease,
            AssertExpiry, ReleaseBegin, ReleaseHead, ReleasePut, ValidateExisting,
            RenewPC
    <2>6. QED
      BY <2>1, <2>2, <2>4, <2>5
  <1>4. QED
    BY <1>1, <1>2, <1>3, AllStill, OthersStill DEF Next

LEMMA JustifiedStep ==
  ASSUME Shape, Timing, [Next]_vars, NEW q \in Session
  PROVE  JustifiedOf(q)'
  <1>1. TypeOK /\ JustifiedOf(q) /\ RegistersOf(q)
    BY Values DEF Timing, Shape
  <1>2. ASSUME Still(q) PROVE JustifiedOf(q)'
    <2>1. SUFFICES ASSUME pc[q] = "acquire.put", NEW e \in 1..LatestEpoch, e = seen[q]
                   PROVE  releases'[e] # None \/ EffectiveExpiry(e)' <= at[q]
      <3>1. pc[q] = "acquire.put" /\ seen[q] > 0 => seen[q] \in 1..LatestEpoch
        BY <1>1, Values DEF RegistersOf
      <3>2. QED
        BY <1>2, <3>1 DEF JustifiedOf, Still
    <2>2. releases[e] # None \/ EffectiveExpiry(e) <= at[q]
      BY <1>1, <2>1 DEF JustifiedOf
    <2>3. releases[e] # None => releases'[e] # None
      BY Values DEF Growth
    <2>4. at[q] <= clock
      BY <1>1 DEF RegistersOf
    <2>5. QED
      BY <2>2, <2>3, <2>4, Values, PassedIsFinal
  <1>3. ASSUME Call(q) \/ Crash(q) PROVE JustifiedOf(q)'
    <2>1. CASE pc'[q] # "acquire.put" \/ ~(seen'[q] > 0)
      BY <2>1 DEF JustifiedOf
    <2>2. CASE AcquireExpiry(q)
      <3>1. ASSUME NEW e, Return(q, e) PROVE pc'[q] = "idle"
        BY <1>1, <3>1 DEF Return, TypeOK
      <3>2. CASE /\ Goto(q, "acquire.put", held[q], seen[q], 0)
                 /\ ~(pc[q] = "acquire.expiry" /\ EffectiveExpiry(seen[q]) > at[q])
        <4>1. seen'[q] = seen[q] /\ at'[q] = at[q]
          BY <1>1, <3>2, Effects
        <4>2. UNCHANGED store /\ pc[q] \in {"acquire.expiry", "acquire.freed"}
          BY <2>2 DEF AcquireExpiry
        <4>3. seen[q] \in 1..LatestEpoch /\ EffectiveExpiry(seen[q]) \in Nat
          BY <1>1, <4>2, Values DEF RegistersOf, HasSeen
        <4>4. releases[seen[q]] # None \/ EffectiveExpiry(seen[q]) <= at[q]
          BY <1>1, <3>2, <4>2, <4>3, Values DEF RegistersOf
        <4>5. EffectiveExpiry(seen[q])' = EffectiveExpiry(seen[q])
          BY <4>1, <4>2 DEF EffectiveExpiry, store
        <4>6. QED
          BY <4>1, <4>2, <4>4, <4>5 DEF JustifiedOf, store
      <3>3. QED
        BY <2>1, <2>2, <3>1, <3>2 DEF AcquireExpiry
    <2>3. ASSUME ~AcquireExpiry(q)
          PROVE  pc'[q] # "acquire.put" \/ ~(seen'[q] > 0)
      <3>1. ASSUME NEW l, NEW e, NEW i, NEW x, Goto(q, l, e, i, x)
            PROVE  pc'[q] = l /\ seen'[q] = i
        BY <1>1, <3>1, Effects
      <3>2. ASSUME NEW e, Return(q, e) PROVE pc'[q] = "idle"
        BY <1>1, <3>2 DEF Return, TypeOK
      <3>3. ASSUME NEW l, NEW o, Begin(q, l, o) PROVE pc'[q] = l
        BY <1>1, <3>3 DEF Begin, TypeOK
      <3>4. QED
        BY <1>3, <2>3, <3>1, <3>2, <3>3
        DEF Call, Crash, AcquireBegin, AcquireLatest, AcquireRelease, AcquirePut,
            RenewBegin, RenewLatest, RenewRelease, RenewRenewal, RenewPut,
            AssertBegin, AssertLatest, AssertRelease, AssertExpiry, ReleaseBegin,
            ReleaseHead, ReleasePut, ValidateExisting
    <2>4. QED
      BY <2>1, <2>2, <2>3
  <1>4. QED
    BY <1>1, <1>2, <1>3, AllStill, OthersStill DEF Next

LEMMA AssertionStep ==
  ASSUME Shape, Timing, [Next]_vars, NEW q \in Session
  PROVE  AssertionOf(q)'
  <1>1. /\ TypeOK /\ AssertionOf(q) /\ RegistersOf(q) /\ CoveredOf(q)
        /\ ClaimOrder /\ WindowsRespected
    BY Values DEF Timing, Shape
  <1>2. ASSUME Still(q) PROVE AssertionOf(q)'
    <2>1. SUFFICES ASSUME pc[q] = "current", NEW h \in 1..LatestEpoch, h = held[q],
                          releases'[h] = None, NEW e \in h + 1..LatestEpoch'
                   PROVE  bound[q] <= claims'[e].acquired
      <3>1. pc[q] = "current" => held[q] \in 1..LatestEpoch
        BY <1>1 DEF RegistersOf, Working
      <3>2. QED
        BY <1>2, <3>1 DEF AssertionOf, Still
    <2>2. releases[h] = None /\ LatestEpoch' \in Nat /\ LatestEpoch \in Nat /\ h \in Nat
      BY <2>1, Values DEF Growth
    <2>3. CASE e <= LatestEpoch
      <3>1. e \in 1..LatestEpoch /\ e \in held[q] + 1..LatestEpoch
        BY <2>1, <2>2, <2>3
      <3>2. bound[q] <= claims[e].acquired
        BY <1>1, <2>1, <2>2, <3>1 DEF AssertionOf
      <3>3. claims'[e] = claims[e]
        BY <3>1, Values
      <3>4. QED
        BY <3>2, <3>3
    <2>4. CASE ~(e <= LatestEpoch)
      <3>1. LatestEpoch' # LatestEpoch
        BY <2>2, <2>4
      <3>2. PICK s \in Session : Claimed(s)
        BY <3>1, StoreChange DEF store, Renewed, Released, LatestEpoch
      <3>3. LatestEpoch' = LatestEpoch + 1 /\ e = LatestEpoch + 1 /\ LatestEpoch > 0
        BY <2>2, <2>4, <3>2, TakeoverJustified
      <3>4. claims'[e].acquired = at[s] /\ at[s] \in Nat /\ bound[q] \in Nat
        BY <3>2, <3>3, TakeoverJustified, Values
      <3>5. CASE h = LatestEpoch
        <4>1. EffectiveExpiry(h) <= at[s] /\ EffectiveExpiry(h) \in Nat
          BY <2>2, <3>2, <3>3, <3>5, TakeoverJustified, Values
        <4>2. bound[q] <= EffectiveExpiry(h)
          BY <1>1, <2>1 DEF CoveredOf
        <4>3. QED
          BY <3>4, <4>1, <4>2
      <3>6. CASE h # LatestEpoch
        <4>1. LatestEpoch \in h + 1..LatestEpoch /\ LatestEpoch \in 1..LatestEpoch
          BY <2>2, <3>6
        <4>2. bound[q] <= claims[LatestEpoch].acquired
          BY <1>1, <2>1, <2>2, <4>1 DEF AssertionOf
        <4>3. claims[LatestEpoch].acquired <= at[s] /\ claims[LatestEpoch].acquired \in Nat
          BY <3>2, <3>3, <4>1, TakeoverJustified, Values
        <4>4. QED
          BY <3>4, <4>2, <4>3
      <3>7. QED
        BY <3>5, <3>6
    <2>5. QED
      BY <2>3, <2>4
  <1>3. ASSUME Call(q) \/ Crash(q) PROVE AssertionOf(q)'
    <2>1. CASE pc'[q] # "current"
      BY <2>1 DEF AssertionOf
    <2>2. CASE AssertExpiry(q) /\ Goto(q, "current", held[q], 0, EffectiveExpiry(held[q]))
      <3>1. /\ held'[q] = held[q] /\ bound'[q] = EffectiveExpiry(held[q])
            /\ UNCHANGED store
        BY <1>1, <2>2, Effects DEF AssertExpiry
      <3>2. held[q] \in 1..LatestEpoch
        BY <1>1, <2>2 DEF AssertExpiry, RegistersOf, Working, AssertPC
      <3>3. SUFFICES ASSUME releases[held[q]] = None, NEW e \in held[q] + 1..LatestEpoch
                     PROVE  EffectiveExpiry(held[q]) <= claims[e].acquired
        BY <3>1 DEF AssertionOf, store, LatestEpoch
      <3>4. /\ held[q] \in 1..LatestEpoch - 1 /\ held[q] + 1 \in 1..LatestEpoch
            /\ e \in 1..LatestEpoch /\ held[q] + 1 <= e
        BY <3>2, <3>3, Values
      <3>5. EffectiveExpiry(held[q]) <= claims[held[q] + 1].acquired
        BY <1>1, <3>3, <3>4 DEF WindowsRespected
      <3>6. claims[held[q] + 1].acquired <= claims[e].acquired
        BY <1>1, <3>4, Values DEF ClaimOrder
      <3>7. /\ claims[held[q] + 1].acquired \in Nat /\ claims[e].acquired \in Nat
            /\ EffectiveExpiry(held[q]) \in Nat
        BY <3>2, <3>4, Values
      <3>8. QED
        BY <3>5, <3>6, <3>7
    <2>3. ASSUME ~(AssertExpiry(q) /\ Goto(q, "current", held[q], 0, EffectiveExpiry(held[q])))
          PROVE  pc'[q] # "current"
      <3>1. ASSUME NEW l, NEW e, NEW i, NEW x, Goto(q, l, e, i, x) PROVE pc'[q] = l
        BY <1>1, <3>1, Effects
      <3>2. ASSUME NEW e, Return(q, e) PROVE pc'[q] = "idle"
        BY <1>1, <3>2 DEF Return, TypeOK
      <3>3. ASSUME NEW l, NEW o, Begin(q, l, o) PROVE pc'[q] = l
        BY <1>1, <3>3 DEF Begin, TypeOK
      <3>4. QED
        BY <1>3, <2>3, <3>1, <3>2, <3>3
        DEF Call, Crash, AcquireBegin, AcquireLatest, AcquireRelease, AcquireExpiry,
            AcquirePut, RenewBegin, RenewLatest, RenewRelease, RenewRenewal, RenewPut,
            AssertBegin, AssertLatest, AssertRelease, AssertExpiry, ReleaseBegin,
            ReleaseHead, ReleasePut, ValidateExisting
    <2>4. QED
      BY <2>1, <2>2, <2>3
  <1>4. QED
    BY <1>1, <1>2, <1>3, AllStill, OthersStill DEF Next

LEMMA TimingStep ==
  ASSUME RenewalsPrompt, Shape, Timing, [Next]_vars
  PROVE  Timing'
  BY WindowsStep, ExpiredStep, InTimeStep, JustifiedStep, AssertionStep DEF Timing

-----------------------------------------------------------------------------
(* The theorems *)

\* No call, in any interleaving, corrupts a register or the store: every
\* object has its contract's type, and every epoch a session or an observer
\* names has been claimed.
THEOREM TypeCorrect == Spec => []TypeOK
  <1>1. Init => Shape
    BY InitShape
  <1>2. Shape => TypeOK
    BY DEF Shape
  <1>3. QED
    BY <1>1, <1>2, ShapeStep, PTL DEF Spec

\* Claims are created in clock order and never start in the future, although
\* every caller captured its time before it read the store.
THEOREM ClaimsInClockOrder == Spec => []EpochsInClockOrder
  <1>1. Init => Shape
    BY InitShape
  <1>2. Shape => EpochsInClockOrder
    <2>1. SUFFICES ASSUME Shape PROVE EpochsInClockOrder
      OBVIOUS
    <2>2. ClaimOrder /\ LatestEpoch \in Nat
      BY <2>1 DEF Shape, TypeOK, LatestEpoch
    <2>3. QED
      BY <2>2 DEF ClaimOrder, EpochsInClockOrder
  <1>3. QED
    BY <1>1, <1>2, ShapeStep, PTL DEF Spec

\* No step rewrites or removes a stored claim, renewal or release.
THEOREM StoreIsAppendOnly == Spec => StoreOnlyGrows
  <1>1. Init => Shape
    BY InitShape
  <1>2. Shape /\ [Next]_vars => [StoreKept]_vars
    <2>1. SUFFICES ASSUME Shape, [Next]_vars PROVE StoreKept
      OBVIOUS
    <2>2. Growth /\ TypeOK /\ TypeOK'
      BY <2>1, Values
    <2>3. ASSUME NEW e \in 1..LatestEpoch
          PROVE  /\ e <= Len(claims') /\ claims'[e] = claims[e]
                 /\ \A i \in 1..Len(renewals[e]) :
                      i <= Len(renewals'[e]) /\ renewals'[e][i] = renewals[e][i]
      <3>1. /\ e \in Epochs /\ e \in 1..LatestEpoch' /\ claims'[e] = claims[e]
        BY <2>1, Values
      <3>2. Len(renewals[e]) \in Nat /\ Len(renewals'[e]) \in Nat
        <4>1. renewals[e] \in Seq(Renewal) /\ renewals'[e] \in Seq(Renewal)
          BY <2>2, <3>1 DEF TypeOK
        <4>2. QED
          BY <4>1
      <3>3. /\ Len(renewals[e]) <= Len(renewals'[e])
            /\ \A i \in 1..Len(renewals[e]) : renewals'[e][i] = renewals[e][i]
        BY <2>2, <3>1 DEF Growth
      <3>4. e <= Len(claims')
        BY <3>1 DEF LatestEpoch
      <3>5. QED
        BY <3>1, <3>2, <3>3, <3>4
    <2>4. QED
      BY <2>2, <2>3 DEF Growth, StoreKept
  <1>3. QED
    BY <1>1, <1>2, ShapeStep, PTL DEF Spec, StoreOnlyGrows

\* Where every renew call ends before the lease it extends runs out, Shape and
\* Timing hold throughout.
LEMMA Inductive == ASSUME RenewalsPrompt PROVE Spec => [](Shape /\ Timing)
  <1>1. Init => Shape /\ Timing
    BY InitShape
  <1>2. Shape /\ Timing /\ [Next]_vars => (Shape /\ Timing)'
    BY ShapeStep, TimingStep
  <1>3. QED
    BY <1>1, <1>2, PTL DEF Spec

\* Where renew calls are prompt, nobody takes an unreleased slot over inside a
\* window a claim or a renewal granted.
THEOREM NoEarlyTakeover == ASSUME RenewalsPrompt PROVE Spec => []WindowsRespected
  <1>1. Shape /\ Timing => WindowsRespected
    BY DEF Timing
  <1>2. QED
    BY <1>1, Inductive, PTL

\* Where renew calls are prompt, a worker that assert_current let through is
\* alone until the expiry it was shown, unless its claim is released.
THEOREM AssertionHolds == ASSUME RenewalsPrompt PROVE Spec => []AssertionCovered
  <1>1. Shape /\ Timing => AssertionCovered
    BY DEF Timing, AssertionCovered, AssertionOf
  <1>2. QED
    BY <1>1, Inductive, PTL

\* Where renew calls are prompt, a claim reported as expired stays expired.
THEOREM ExpiryIsFinal == ASSUME RenewalsPrompt PROVE Spec => []ExpiredReportsFinal
  <1>1. Shape /\ Timing => ExpiredReportsFinal
    BY DEF Timing
  <1>2. QED
    BY <1>1, Inductive, PTL

-----------------------------------------------------------------------------
(* Workers that agree on one time to live.                                   *)

\* Every expiry is one time to live after the time it was granted at, also the one
\* that a session has still to store; and an epoch has no renewals before its claim.
Steady(d) ==
  /\ \A e \in 1..LatestEpoch : claims[e].expires = claims[e].acquired + d
  /\ \A e \in Epochs : \A i \in 1..Len(renewals[e]) :
       renewals[e][i].expires = renewals[e][i].renewed + d
  /\ \A e \in Epochs : e > LatestEpoch => renewals[e] = <<>>
  /\ \A s \in Session : pc[s] = "renew.put" => bound[s] = at[s] + d

LEMMA SteadyPending ==
  ASSUME NEW d, TTLs = {d}, Shape, Steady(d), [Next]_vars
  PROVE  \A q \in Session : pc'[q] = "renew.put" => bound'[q] = at'[q] + d
  <1> DEFINE P(q) == pc'[q] = "renew.put" => bound'[q] = at'[q] + d
  <1>0. TypeOK /\ \A q \in Session : pc[q] = "renew.put" => bound[q] = at[q] + d
    BY DEF Shape, Steady
  <1>1. CASE UNCHANGED calls
    BY <1>0, <1>1 DEF calls
  <1>2. ASSUME NEW s \in Session, Call(s), NEW q \in Session PROVE P(q)
    <2>1. CASE q # s
      <3>1. pc'[q] = pc[q] /\ bound'[q] = bound[q] /\ at'[q] = at[q]
        BY <1>0, <1>2, <2>1, OthersStill DEF Still
      <3> QED BY <1>0, <3>1
    <2>2. CASE q = s /\ RenewRenewal(s)
      <3>1. PICK ttl \in TTLs : Goto(s, "renew.put", held[s], Len(renewals[held[s]]), at[s] + ttl)
                                 \/ Return(s, held[s])
        BY <2>2 DEF RenewRenewal
      <3> QED BY <1>0, <2>2, <3>1 DEF Goto, Return, TypeOK
    <2>3. CASE q = s /\ ~RenewRenewal(s)
      <3>1. pc'[s] # "renew.put"
        BY <1>0, <1>2, <2>3
        DEF Call, AcquireBegin, AcquireLatest, AcquireRelease, AcquireExpiry, AcquirePut,
            RenewBegin, RenewLatest, RenewRelease, RenewPut, AssertBegin, AssertLatest,
            AssertRelease, AssertExpiry, ReleaseBegin, ReleaseHead, ReleasePut,
            ValidateExisting, Begin, Goto, Return, TypeOK
      <3> QED BY <2>3, <3>1
    <2> QED BY <2>1, <2>2, <2>3
  <1>3. ASSUME NEW s \in Session, Crash(s), NEW q \in Session PROVE P(q)
    <2>1. CASE q # s
      BY <1>0, <1>3, <2>1, OthersStill DEF Still
    <2>2. CASE q = s
      BY <1>0, <1>3, <2>2 DEF Crash, Return, TypeOK
    <2> QED BY <2>1, <2>2
  <1> QED BY <1>1, <1>2, <1>3 DEF Next, Tick, Status, InspectBegin, InspectClaim, InspectRelease,
                                    InspectRenewal, Inspect, vars

LEMMA SteadyStep ==
  ASSUME NEW d, TTLs = {d}, Shape, Steady(d), HistoriesReadable, [Next]_vars
  PROVE  Steady(d)' /\ HistoriesReadable'
  <1>0. /\ d \in Nat /\ TypeOK /\ TypeOK' /\ LatestEpoch \in 0..MaxEpoch /\ MaxEpoch \in Nat
        /\ \A e \in Epochs : renewals[e] \in Seq(Renewal)
    <2>1. TypeOK /\ TypeOK'
      <3>1. Shape'
        BY ShapeStep
      <3> QED BY <3>1 DEF Shape
    <2>2. d \in Nat /\ MaxEpoch \in Nat
      BY SlotClaimsAssumption DEF SlotClaimsAssumption
    <2>3. LatestEpoch \in 0..MaxEpoch
      <3>1. Len(claims) \in Nat /\ Len(claims) <= MaxEpoch
        BY <2>1 DEF TypeOK
      <3> QED BY <2>2, <3>1 DEF LatestEpoch
    <2>4. \A e \in Epochs : renewals[e] \in Seq(Renewal)
      BY <2>1 DEF TypeOK
    <2> QED BY <2>1, <2>2, <2>3, <2>4
  <1>1. CASE UNCHANGED <<claims, renewals>>
    <2>1. \A e : HistoryReadable(e)' = HistoryReadable(e)
      BY <1>1 DEF HistoryReadable
    <2> QED BY <1>1, <2>1, SteadyPending DEF Steady, HistoriesReadable, LatestEpoch
  <1>2. ASSUME NEW s \in Session, Claimed(s) PROVE Steady(d)' /\ HistoriesReadable'
    <2> DEFINE c == [owner |-> OwnerOf[s], acquired |-> at[s], expires |-> at[s] + d]
               n == LatestEpoch + 1
    <2>1. claims' = Append(claims, c) /\ renewals' = renewals
      BY <1>2 DEF Claimed
    <2>2. c \in Claim /\ c.expires = c.acquired + d
      BY <1>0, SlotClaimsAssumption DEF TypeOK, Claim
    <2>3. /\ LatestEpoch' = n /\ n \in Epochs /\ claims'[n] = c
          /\ \A e \in 1..LatestEpoch : claims'[e] = claims[e]
      <3>1. claims \in Seq(Claim) /\ Len(claims) \in Nat
        BY <1>0 DEF TypeOK
      <3>2. /\ Len(claims') = Len(claims) + 1 /\ claims'[Len(claims) + 1] = c
            /\ \A e \in 1..Len(claims) : claims'[e] = claims[e]
        BY <2>1, <2>2, <3>1
      <3>3. Len(claims') <= MaxEpoch
        BY <1>0 DEF TypeOK
      <3> HIDE DEF c
      <3> QED BY <1>0, <3>1, <3>2, <3>3 DEF LatestEpoch, Epochs
    <2>4. renewals[n] = <<>> /\ \A e \in Epochs : e > LatestEpoch' => renewals'[e] = <<>>
      <3>1. \A e \in Epochs : e > LatestEpoch => renewals[e] = <<>>
        BY DEF Steady
      <3>2. LatestEpoch \in Nat /\ Epochs \subseteq Nat /\ n > LatestEpoch
        BY <1>0 DEF Epochs
      <3>3. \A e \in Epochs : e > n => e > LatestEpoch
        BY <3>2
      <3> HIDE DEF n
      <3> QED BY <2>1, <2>3, <3>1, <3>2, <3>3
    <2>5. \A e \in 1..LatestEpoch' : claims'[e].expires = claims'[e].acquired + d
      BY <1>0, <2>2, <2>3 DEF Steady
    <2>6. ASSUME NEW e \in 1..LatestEpoch' PROVE HistoryReadable(e)'
      <3>1. CASE e = n
        BY <2>1, <2>4, <3>1 DEF HistoryReadable
      <3>2. CASE e # n
        <4>1. e \in 1..LatestEpoch /\ claims'[e] = claims[e]
          BY <1>0, <2>3, <3>2
        <4> QED BY <2>1, <4>1 DEF HistoriesReadable, HistoryReadable
      <3> QED BY <3>1, <3>2
    <2> QED BY <2>1, <2>4, <2>5, <2>6, SteadyPending DEF Steady, HistoriesReadable
  <1>3. ASSUME NEW s \in Session, Renewed(s) PROVE Steady(d)' /\ HistoriesReadable'
    <2>0. PICK h : h = held[s]
      OBVIOUS
    <2> DEFINE r == [renewed |-> at[s], expires |-> bound[s]]
               last == Len(renewals[h])
    <2>1. h \in 1..LatestEpoch /\ h \in Epochs /\ at[s] \in Nat /\ bound[s] \in Nat
      BY <1>0, <1>3, <2>0 DEF Shape, RegistersOf, Renewed, Working, RenewPC, TypeOK, Epochs
    <2>2. EffectiveExpiry(h) < bound[s] /\ bound[s] = at[s] + d
      BY <1>3, <2>0 DEF Renewed, Shape, PendingOf, Steady
    <2>3. /\ claims' = claims /\ renewals'[h] = Append(renewals[h], r)
          /\ \A e \in Epochs : e # h => renewals'[e] = renewals[e]
      BY <1>0, <1>3, <2>0, <2>1 DEF Renewed, TypeOK
    <2>4. /\ r \in Renewal /\ r.renewed = at[s] /\ r.expires = bound[s]
          /\ r.expires = r.renewed + d
      BY <2>1, <2>2 DEF Renewal
    <2> HIDE DEF r
    <2>5. /\ last \in Nat /\ Len(renewals'[h]) = last + 1 /\ renewals'[h][last + 1] = r
          /\ \A i \in 1..last : renewals'[h][i] = renewals[h][i]
      <3>1. renewals[h] \in Seq(Renewal)
        BY <1>0, <2>1
      <3> QED BY <2>3, <2>4, <3>1
    <2>6. /\ claims[h].expires = claims[h].acquired + d /\ claims[h].acquired \in Nat
          /\ \A i \in 1..last : /\ renewals[h][i].expires = renewals[h][i].renewed + d
                               /\ renewals[h][i].renewed \in Nat
      <3>1. claims[h] \in Claim
        <4>1. claims \in Seq(Claim)
          BY <1>0 DEF TypeOK
        <4>2. h \in 1..Len(claims)
          BY <2>1 DEF LatestEpoch
        <4> QED BY <4>1, <4>2
      <3>2. \A i \in 1..last : renewals[h][i] \in Renewal
        <4>1. renewals[h] \in Seq(Renewal)
          BY <1>0, <2>1
        <4> QED BY <4>1
      <3> QED BY <2>1, <3>1, <3>2 DEF Steady, Claim, Renewal
    <2>7. /\ last = 0 => EffectiveExpiry(h) = claims[h].expires
          /\ last # 0 => EffectiveExpiry(h) = renewals[h][last].expires
      <3>1. renewals[h] \in Seq(Renewal)
        BY <1>0, <2>1
      <3> QED BY <3>1 DEF EffectiveExpiry
    <2> HIDE DEF last
    <2>8. /\ r.renewed >= (IF last = 0 THEN claims[h].acquired ELSE renewals[h][last].renewed)
          /\ r.expires > (IF last = 0 THEN claims[h].expires ELSE renewals[h][last].expires)
      <3>1. CASE last = 0
        <4>1. d \in Nat /\ claims[h].expires < bound[s]
          BY <1>0, <2>2, <2>7, <3>1
        <4>2. claims[h].expires = claims[h].acquired + d /\ claims[h].acquired \in Nat
          BY <2>6
        <4> QED BY <2>1, <2>2, <2>4, <3>1, <4>1, <4>2
      <3>2. CASE last # 0
        <4>1. last \in 1..last
          BY <2>5, <3>2
        <4>2. renewals[h][last].expires < bound[s]
          BY <2>2, <2>7, <3>2
        <4>3. /\ renewals[h][last].expires = renewals[h][last].renewed + d
              /\ renewals[h][last].renewed \in Nat
          BY <2>6, <4>1
        <4>4. d \in Nat
          BY <1>0
        <4> QED BY <2>1, <2>2, <2>4, <3>2, <4>2, <4>3, <4>4
      <3> QED BY <3>1, <3>2
    <2>9. ASSUME NEW e \in Epochs, NEW i \in 1..Len(renewals'[e])
          PROVE  renewals'[e][i].expires = renewals'[e][i].renewed + d
      <3>1. CASE e = h
        <4>1. i \in 1..(last + 1)
          BY <2>5, <2>9, <3>1
        <4> QED BY <2>4, <2>5, <2>6, <3>1, <4>1
      <3>2. CASE e # h
        <4>1. renewals'[e] = renewals[e]
          BY <2>3, <3>2
        <4> QED BY <2>9, <4>1 DEF Steady
      <3> QED BY <3>1, <3>2
    <2>10. HistoryReadable(h)'
      <3>1. HistoryReadable(h)
        BY <2>1 DEF HistoriesReadable
      <3>2. ASSUME NEW i \in 1..(last + 1)
            PROVE  /\ renewals'[h][i].renewed >=
                        IF i = 1 THEN claims'[h].acquired ELSE renewals'[h][i-1].renewed
                   /\ renewals'[h][i].expires >
                        IF i = 1 THEN claims'[h].expires ELSE renewals'[h][i-1].expires
        <4>1. CASE i = last + 1
          <5>1. CASE last = 0
            BY <2>3, <2>5, <2>8, <4>1, <5>1
          <5>2. CASE last # 0
            <6>1. i # 1 /\ i - 1 = last /\ renewals'[h][last] = renewals[h][last]
              BY <2>5, <4>1, <5>2
            <6> QED BY <2>5, <2>8, <4>1, <5>2, <6>1
          <5> QED BY <5>1, <5>2
        <4>2. CASE i # last + 1
          <5>1. i \in 1..last /\ (i # 1 => i - 1 \in 1..last)
            BY <2>5, <4>2
          <5>2. /\ renewals[h][i].renewed >= IF i = 1 THEN claims[h].acquired ELSE renewals[h][i-1].renewed
                /\ renewals[h][i].expires > IF i = 1 THEN claims[h].expires ELSE renewals[h][i-1].expires
            BY <3>1, <5>1 DEF HistoryReadable, last
          <5> QED BY <2>3, <2>5, <5>1, <5>2
        <4> QED BY <4>1, <4>2
      <3> QED BY <2>5, <3>2 DEF HistoryReadable
    <2>11. HistoriesReadable'
      <3>1. LatestEpoch' = LatestEpoch
        BY <2>3 DEF LatestEpoch
      <3>2. ASSUME NEW e \in 1..LatestEpoch, e # h PROVE HistoryReadable(e)'
        <4>1. e \in Epochs
          BY <1>0 DEF Epochs
        <4>2. claims' = claims /\ renewals'[e] = renewals[e] /\ HistoryReadable(e)
          BY <2>3, <3>2, <4>1 DEF HistoriesReadable
        <4> QED BY <4>2 DEF HistoryReadable
      <3> QED BY <2>10, <3>1, <3>2 DEF HistoriesReadable
    <2>12. Steady(d)'
      <3>1. LatestEpoch' = LatestEpoch
        BY <2>3 DEF LatestEpoch
      <3>2. ASSUME NEW e \in Epochs, e > LatestEpoch PROVE renewals'[e] = <<>>
        <4>1. e # h
          BY <1>0, <2>1, <3>2
        <4> QED BY <2>3, <3>2, <4>1 DEF Steady
      <3> QED BY <2>3, <2>9, <3>1, <3>2, SteadyPending DEF Steady
    <2> QED BY <2>11, <2>12
  <1> QED BY <1>1, <1>2, <1>3, StoreChange DEF store, Released

\* Where all workers pass the same time to live, every renewal history can be read
\* again, whatever the order in which concurrent renew calls take their times and
\* store: a later expiry is then a later time of renewal.
THEOREM OneTtlReadable == ASSUME NEW d, TTLs = {d} PROVE Spec => []HistoriesReadable
  <1>1. Init => Shape /\ Steady(d) /\ HistoriesReadable
    BY InitShape DEF Init, Steady, HistoriesReadable, LatestEpoch
  <1>2. Shape /\ Steady(d) /\ HistoriesReadable /\ [Next]_vars =>
          (Shape /\ Steady(d) /\ HistoriesReadable)'
    BY ShapeStep, SteadyStep
  <1>3. QED
    BY <1>1, <1>2, PTL DEF Spec
=============================================================================
