----------------------------- MODULE SlotClaims -----------------------------
(***************************************************************************)
(* SlotClaimCoordinator (src/agentic_rl_forge/storage/claims.py): leases   *)
(* on one planned rollout slot, kept as immutable objects of a             *)
(* ConditionalBlobStore.  The coordinator holds no lock: every call is a   *)
(* clock reading followed by separate reads of the store and at most one   *)
(* conditional create, and each of those is a step here, so that calls of  *)
(* different workers (and of the two tasks of one worker) interleave as    *)
(* they do against a shared store.                                         *)
(*                                                                         *)
(* Slots never share a key, so one slot is enough.  Objects are only ever  *)
(* created, so the objects claims/1, claims/2, ... are the sequence        *)
(* "claims", and renewals/<epoch>/1, ... the sequence renewals[epoch].     *)
(***************************************************************************)
EXTENDS Integers, Sequences

CONSTANTS
  Session,          \* sequential callers of the coordinator
  Observer,         \* callers of the read-only inspect_plan
  Owner,            \* claim owner identities
  OwnerOf,          \* the owner identity each session claims under
  TTLs,             \* the ttl_s values callers pass
  RenewalsPrompt,   \* TRUE: no lease runs out inside a renew call on it
  MaxClock,         \* bound: the clock stops here
  MaxEpoch,         \* bound: claims per slot
  MaxRenewals,      \* bound: renewals per claim
  None

ASSUME SlotClaimsAssumption ==
  /\ OwnerOf \in [Session -> Owner]
  /\ TTLs \subseteq Nat \ {0}
  /\ RenewalsPrompt \in BOOLEAN
  /\ MaxClock \in Nat
  /\ MaxEpoch \in Nat \ {0}
  /\ MaxRenewals \in Nat

VARIABLES
  clock,      \* the synchronized clock the workers read
  claims,     \* claims/<epoch>: the sequence of SlotClaim objects
  renewals,   \* renewals/<epoch>/<index>: a sequence for each epoch
  releases,   \* releases/<epoch>: a SlotClaimRelease, or None
  pc,         \* where each session is in the call it makes
  held,       \* the epoch of the claim object a session holds, 0 for none
  at,         \* current_time, captured when the call began
  seen,       \* the latest epoch (acquire) or renewal index (renew) read
  bound,      \* the expiry read (assert_current) or to be written (renew)
  asked,      \* the outcome a session asked release to record
  report      \* what each observer's inspect_plan has read or returned

store == <<claims, renewals, releases>>
calls == <<pc, held, at, seen, bound, asked>>
vars == <<clock, store, calls, report>>

Epochs == 1..MaxEpoch
Outcome == {"completed", "abandoned"}
Claim == [owner : Owner, acquired : Nat, expires : Nat]
Renewal == [renewed : Nat, expires : Nat]
Release == [outcome : Outcome, released : Nat]

AcquirePC == {"acquire.latest", "acquire.release", "acquire.expiry",
              "acquire.freed", "acquire.put"}
RenewPC == {"renew.latest", "renew.release", "renew.renewal", "renew.put"}
AssertPC == {"assert.latest", "assert.release", "assert.expiry"}
ReleasePC == {"release.head", "release.put"}
ReadyPC == {"idle", "current", "released"}
PC == ReadyPC \cup AcquirePC \cup RenewPC \cup AssertPC \cup ReleasePC

Verdict == {"none", "active", "expired", "completed", "abandoned", "unclaimed",
            "error"}
Reading == {"inspect.claim", "inspect.release", "inspect.renewal",
            "inspect.freed"}
Report == [state : Verdict \cup Reading, at : Nat, epoch : 0..MaxEpoch]
NoReport == [state |-> "none", at |-> 0, epoch |-> 0]

-----------------------------------------------------------------------------
(* What the stored objects say. *)

LatestEpoch == Len(claims)

\* effective_expiry: the last renewal's expiry, or the claim's own.
EffectiveExpiry(e) ==
  IF renewals[e] = <<>> THEN claims[e].expires
  ELSE renewals[e][Len(renewals[e])].expires

\* latest_renewal accepts a history only when every renewal is at least as
\* recent as the one before it and strictly extends the expiry.
HistoryReadable(e) ==
  \A i \in 1..Len(renewals[e]) :
    LET renewedBefore == IF i = 1 THEN claims[e].acquired
                         ELSE renewals[e][i-1].renewed
        expiresBefore == IF i = 1 THEN claims[e].expires
                         ELSE renewals[e][i-1].expires
    IN  /\ renewals[e][i].renewed >= renewedBefore
        /\ renewals[e][i].expires > expiresBefore

-----------------------------------------------------------------------------
TypeOK ==
  /\ clock \in 0..MaxClock
  /\ claims \in Seq(Claim) /\ Len(claims) <= MaxEpoch
  /\ renewals \in [Epochs -> Seq(Renewal)]
  /\ releases \in [Epochs -> Release \cup {None}]
  /\ pc \in [Session -> PC]
  /\ held \in [Session -> 0..MaxEpoch]
  /\ at \in [Session -> Nat]
  /\ seen \in [Session -> Nat]
  /\ bound \in [Session -> Nat]
  /\ asked \in [Session -> Outcome \cup {None}]
  /\ report \in [Observer -> Report]

Init ==
  /\ clock = 0
  /\ claims = <<>>
  /\ renewals = [e \in Epochs |-> <<>>]
  /\ releases = [e \in Epochs |-> None]
  /\ pc = [s \in Session |-> "idle"]
  /\ held = [s \in Session |-> 0]
  /\ at = [s \in Session |-> 0]
  /\ seen = [s \in Session |-> 0]
  /\ bound = [s \in Session |-> 0]
  /\ asked = [s \in Session |-> None]
  /\ report = [o \in Observer |-> NoReport]

-----------------------------------------------------------------------------
(* Steps every call is made of. *)

\* The session goes to label l; the registers take the given values.
Goto(s, l, e, i, x) ==
  /\ pc' = [pc EXCEPT ![s] = l]
  /\ held' = [held EXCEPT ![s] = e]
  /\ seen' = [seen EXCEPT ![s] = i]
  /\ bound' = [bound EXCEPT ![s] = x]
  /\ UNCHANGED <<at, asked, clock, report>>

\* The call returns to its caller, who then holds the claim of epoch e.
\* What the call read is forgotten.
Return(s, e) ==
  /\ pc' = [pc EXCEPT ![s] = "idle"]
  /\ held' = [held EXCEPT ![s] = e]
  /\ at' = [at EXCEPT ![s] = 0]
  /\ seen' = [seen EXCEPT ![s] = 0]
  /\ bound' = [bound EXCEPT ![s] = 0]
  /\ asked' = [asked EXCEPT ![s] = None]
  /\ UNCHANGED <<clock, report>>

\* Every call reads the clock before it reads the store (_aware_now).
Begin(s, l, outcome) ==
  /\ pc[s] \in ReadyPC
  /\ pc' = [pc EXCEPT ![s] = l]
  /\ at' = [at EXCEPT ![s] = clock]
  /\ seen' = [seen EXCEPT ![s] = 0]
  /\ bound' = [bound EXCEPT ![s] = 0]
  /\ asked' = [asked EXCEPT ![s] = outcome]
  /\ UNCHANGED <<clock, held, store, report>>
-----------------------------------------------------------------------------
(* acquire *)

AcquireBegin(s) == Begin(s, "acquire.latest", None)

\* No claim yet: epoch 1 is free.  A claim newer than the captured time is
\* refused (claim time cannot move backwards).
AcquireLatest(s) ==
  /\ pc[s] = "acquire.latest"
  /\ \/ /\ LatestEpoch = 0
        /\ Goto(s, "acquire.put", held[s], 0, 0)
     \/ /\ LatestEpoch > 0 /\ at[s] >= claims[LatestEpoch].acquired
        /\ Goto(s, "acquire.release", held[s], LatestEpoch, 0)
     \/ /\ LatestEpoch > 0 /\ at[s] < claims[LatestEpoch].acquired
        /\ Return(s, held[s])
  /\ UNCHANGED store

AcquireRelease(s) ==
  /\ pc[s] = "acquire.release"
  /\ Goto(s, IF releases[seen[s]] = None THEN "acquire.expiry" ELSE "acquire.freed",
          held[s], seen[s], 0)
  /\ UNCHANGED store

\* Mutant: the takeover check looks at the claim's own expiry only.
AcquireExpiryUnrenewed(s) ==
  /\ pc[s] \in {"acquire.expiry", "acquire.freed"}
  /\ LET e == seen[s]
         active == pc[s] = "acquire.expiry" /\ claims[e].expires > at[s]
     IN  IF ~active /\ e < MaxEpoch
         THEN Goto(s, "acquire.put", held[s], e, 0)
         ELSE Return(s, IF active /\ claims[e].owner = OwnerOf[s] THEN e ELSE held[s])
  /\ UNCHANGED store

\* The expiry is read after the release, whatever the release said.
AcquireExpiry(s) ==
  /\ pc[s] \in {"acquire.expiry", "acquire.freed"}
  /\ LET e == seen[s]
         active == pc[s] = "acquire.expiry" /\ EffectiveExpiry(e) > at[s]
     IN  \/ /\ HistoryReadable(e) /\ ~active /\ e < MaxEpoch
            /\ Goto(s, "acquire.put", held[s], e, 0)
         \/ /\ HistoryReadable(e) /\ active /\ claims[e].owner = OwnerOf[s]
            /\ Return(s, e)
         \/ /\ \/ ~HistoryReadable(e)
               \/ active /\ claims[e].owner # OwnerOf[s]
               \/ ~active /\ e = MaxEpoch       \* bound
            /\ Return(s, held[s])
  /\ UNCHANGED store

\* put_if_absent of claims/<seen + 1>; a conflict returns the winner to its
\* own owner and refuses everybody else.
AcquirePut(s) ==
  /\ pc[s] = "acquire.put"
  /\ \/ /\ LatestEpoch = seen[s]
        /\ \E ttl \in TTLs :
             claims' = Append(claims, [owner |-> OwnerOf[s], acquired |-> at[s],
                                       expires |-> at[s] + ttl])
        /\ UNCHANGED <<renewals, releases>>
        /\ Return(s, seen[s] + 1)
     \/ /\ LatestEpoch > seen[s]
        /\ Return(s, IF claims[seen[s] + 1].owner = OwnerOf[s] THEN seen[s] + 1
                     ELSE held[s])
        /\ UNCHANGED store

-----------------------------------------------------------------------------
(* renew *)

RenewBegin(s) == held[s] > 0 /\ Begin(s, "renew.latest", None)

RenewLatest(s) ==
  /\ pc[s] = "renew.latest"
  /\ IF LatestEpoch = held[s] THEN Goto(s, "renew.release", held[s], 0, 0)
                               ELSE Return(s, held[s])
  /\ UNCHANGED store

RenewRelease(s) ==
  /\ pc[s] = "renew.release"
  /\ IF releases[held[s]] = None /\ at[s] >= claims[held[s]].acquired
     THEN Goto(s, "renew.renewal", held[s], 0, 0)
     ELSE Return(s, held[s])
  /\ UNCHANGED store

\* Mutant: a renewal that does not move the expiry is stored too.
RenewRenewalSameExpiry(s) ==
  /\ pc[s] = "renew.renewal"
  /\ LET e == held[s]
         open == HistoryReadable(e) /\ EffectiveExpiry(e) > at[s]
                 /\ Len(renewals[e]) < MaxRenewals
     IN  \E ttl \in TTLs :
           IF open /\ at[s] + ttl >= EffectiveExpiry(e)
           THEN Goto(s, "renew.put", e, Len(renewals[e]), at[s] + ttl)
           ELSE Return(s, e)
  /\ UNCHANGED store

\* A renewal must extend an expiry that has not passed; one that does not
\* extend it is refused (or is the very renewal already there).
RenewRenewal(s) ==
  /\ pc[s] = "renew.renewal"
  /\ LET e == held[s]
         open == HistoryReadable(e) /\ EffectiveExpiry(e) > at[s]
                 /\ Len(renewals[e]) < MaxRenewals            \* bound
     IN  \E ttl \in TTLs :
           IF open /\ at[s] + ttl > EffectiveExpiry(e)
           THEN Goto(s, "renew.put", e, Len(renewals[e]), at[s] + ttl)
           ELSE Return(s, e)
  /\ UNCHANGED store

\* put_if_absent of renewals/<epoch>/<seen + 1>; a conflict returns the winner.
RenewPut(s) ==
  /\ pc[s] = "renew.put"
  /\ LET e == held[s]
     IN  IF Len(renewals[e]) = seen[s]
         THEN renewals' = [renewals EXCEPT
                ![e] = Append(@, [renewed |-> at[s], expires |-> bound[s]])]
         ELSE UNCHANGED renewals
  /\ UNCHANGED <<claims, releases>>
  /\ Return(s, held[s])

-----------------------------------------------------------------------------
(* assert_current *)

AssertBegin(s) == held[s] > 0 /\ Begin(s, "assert.latest", None)

AssertLatest(s) ==
  /\ pc[s] = "assert.latest"
  /\ IF LatestEpoch = held[s] THEN Goto(s, "assert.release", held[s], 0, 0)
                               ELSE Return(s, held[s])
  /\ UNCHANGED store

AssertRelease(s) ==
  /\ pc[s] = "assert.release"
  /\ IF releases[held[s]] = None /\ at[s] >= claims[held[s]].acquired
     THEN Goto(s, "assert.expiry", held[s], 0, 0)
     ELSE Return(s, held[s])
  /\ UNCHANGED store

\* A session in "current" was told its claim is current until "bound".
AssertExpiry(s) ==
  /\ pc[s] = "assert.expiry"
  /\ LET e == held[s]
     IN  IF HistoryReadable(e) /\ EffectiveExpiry(e) > at[s]
         THEN Goto(s, "current", e, 0, EffectiveExpiry(e))
         ELSE Return(s, e)
  /\ UNCHANGED store

-----------------------------------------------------------------------------
(* release: no check that the claim is still the current one. *)

ReleaseBegin(s) ==
  /\ held[s] > 0
  /\ clock >= claims[held[s]].acquired
  /\ \E outcome \in Outcome : Begin(s, "release.head", outcome)

\* _validate_existing_release: repeating the outcome is idempotent, changing
\* it is refused.
ValidateExisting(s) ==
  IF releases[held[s]].outcome = asked[s]
  THEN Goto(s, "released", held[s], 0, 0)
  ELSE Return(s, held[s])

ReleaseHead(s) ==
  /\ pc[s] = "release.head"
  /\ IF releases[held[s]] = None THEN Goto(s, "release.put", held[s], 0, 0)
                                  ELSE ValidateExisting(s)
  /\ UNCHANGED store

ReleasePut(s) ==
  /\ pc[s] = "release.put"
  /\ IF releases[held[s]] = None
     THEN /\ releases' = [releases EXCEPT
                ![held[s]] = [outcome |-> asked[s], released |-> at[s]]]
          /\ Goto(s, "released", held[s], 0, 0)
     ELSE UNCHANGED releases /\ ValidateExisting(s)
  /\ UNCHANGED <<claims, renewals>>

-----------------------------------------------------------------------------
(* inspect_plan, for this slot *)

Inspect(o, state, t, e) ==
  /\ report' = [report EXCEPT ![o] = [state |-> state, at |-> t, epoch |-> e]]
  /\ UNCHANGED <<clock, store, calls>>

InspectBegin(o) ==
  /\ report[o].state \in Verdict
  /\ Inspect(o, "inspect.claim", clock, 0)

InspectClaim(o) ==
  /\ report[o].state = "inspect.claim"
  /\ Inspect(o,
       IF LatestEpoch = 0 THEN "unclaimed"
       ELSE IF report[o].at < claims[LatestEpoch].acquired THEN "error"
       ELSE "inspect.release",
       report[o].at, LatestEpoch)

InspectRelease(o) ==
  /\ report[o].state = "inspect.release"
  /\ Inspect(o,
       IF releases[report[o].epoch] = None THEN "inspect.renewal" ELSE "inspect.freed",
       report[o].at, report[o].epoch)

\* Mutant: renewals are ignored.
InspectRenewalUnrenewed(o) ==
  /\ report[o].state \in {"inspect.renewal", "inspect.freed"}
  /\ LET e == report[o].epoch
         t == report[o].at
     IN  Inspect(o,
           IF report[o].state = "inspect.freed" THEN releases[e].outcome
           ELSE IF claims[e].expires <= t THEN "expired" ELSE "active", t, e)

InspectRenewal(o) ==
  /\ report[o].state \in {"inspect.renewal", "inspect.freed"}
  /\ LET e == report[o].epoch
         t == report[o].at
         state ==
           IF ~HistoryReadable(e) \/ (renewals[e] # <<>> /\ t < renewals[e][Len(renewals[e])].renewed)
           THEN "error"
           ELSE IF report[o].state = "inspect.freed"
           THEN IF t < releases[e].released THEN "error" ELSE releases[e].outcome
           ELSE IF EffectiveExpiry(e) <= t THEN "expired" ELSE "active"
     IN  Inspect(o, state, t, e)

-----------------------------------------------------------------------------
(* A worker dies with what it held in memory, between any two steps. *)
Crash(s) ==
  /\ held[s] > 0 \/ pc[s] # "idle"
  /\ Return(s, 0)
  /\ UNCHANGED store

\* The lease a renew call in flight is extending would run out at time t.
RunsOutInRenew(s, t) ==
  /\ pc[s] \in RenewPC
  /\ at[s] < EffectiveExpiry(held[s])
  /\ EffectiveExpiry(held[s]) <= t

Tick ==
  /\ clock < MaxClock
  /\ RenewalsPrompt => \A s \in Session : ~RunsOutInRenew(s, clock + 1)
  /\ clock' = clock + 1
  /\ UNCHANGED <<store, calls, report>>

Call(s) ==
  \/ AcquireBegin(s) \/ AcquireLatest(s) \/ AcquireRelease(s)
  \/ AcquireExpiry(s) \/ AcquirePut(s)
  \/ RenewBegin(s) \/ RenewLatest(s) \/ RenewRelease(s)
  \/ RenewRenewal(s) \/ RenewPut(s)
  \/ AssertBegin(s) \/ AssertLatest(s) \/ AssertRelease(s) \/ AssertExpiry(s)
  \/ ReleaseBegin(s) \/ ReleaseHead(s) \/ ReleasePut(s)

Status(o) ==
  InspectBegin(o) \/ InspectClaim(o) \/ InspectRelease(o) \/ InspectRenewal(o)

Next ==
  \/ Tick
  \/ \E s \in Session : Call(s) \/ Crash(s)
  \/ \E o \in Observer : Status(o)

Spec == Init /\ [][Next]_vars

-----------------------------------------------------------------------------
(* Properties *)

\* No takeover inside a granted window: a claim is followed by another one
\* only if it was released, or if the successor was acquired at or after the
\* last expiry its renewals granted ("Each claim and renewal grants a fixed
\* ownership window", docs/slot-claims.md).
WindowsRespected ==
  \A e \in 1..LatestEpoch - 1 :
    \/ releases[e] # None
    \/ EffectiveExpiry(e) <= claims[e+1].acquired

\* A worker that assert_current let through is not overtaken before the
\* expiry it was shown, unless its claim is released.
AssertionCovered ==
  \A s \in Session :
    (pc[s] = "current" /\ releases[held[s]] = None) =>
      \A e \in held[s] + 1..LatestEpoch : bound[s] <= claims[e].acquired

\* Every stored renewal history is one latest_renewal accepts: no order of
\* concurrent renew calls leaves a slot no call can read again.
HistoriesReadable == \A e \in 1..LatestEpoch : HistoryReadable(e)

\* A claim inspect_plan reported as expired is never renewed again.
ExpiredReportsFinal ==
  \A o \in Observer :
    report[o].state = "expired" => EffectiveExpiry(report[o].epoch) <= report[o].at

\* Epochs are acquired in clock order, and a claim never starts in the future.
EpochsInClockOrder ==
  /\ \A e \in 1..LatestEpoch : claims[e].acquired <= clock
  /\ \A e \in 1..LatestEpoch - 1 : claims[e].acquired <= claims[e+1].acquired

\* What is stored stays: no step rewrites or removes a claim, a renewal or a
\* release ("created conditionally and never overwritten").
StoreKept ==
  /\ \A e \in 1..LatestEpoch :
       /\ e <= Len(claims') /\ claims'[e] = claims[e]
       /\ \A i \in 1..Len(renewals[e]) :
            i <= Len(renewals'[e]) /\ renewals'[e][i] = renewals[e][i]
  /\ \A e \in Epochs : releases[e] # None => releases'[e] = releases[e]
StoreOnlyGrows == [][StoreKept]_vars
=============================================================================
