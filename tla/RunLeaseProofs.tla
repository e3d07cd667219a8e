---------------------------- MODULE RunLeaseProofs ----------------------------
(***************************************************************************)
(* Theorems about RunLease, for any callers, clocks and epochs.            *)
(*                                                                         *)
(* The first part is for any assignment of callers to store instances, so  *)
(* for any number of processes: what a caller has read may be stale when   *)
(* it writes (Typed says what is left), and RunLease_fails_open.cfg and    *)
(* its siblings have behaviours that lose what one instance ensures.       *)
(*                                                                         *)
(* The second part is about the callers of one instance, a collection task *)
(* and the task that renews its lease: the lock makes a call alone from    *)
(* its first read to its write (Held), so that what it has read of the     *)
(* database still holds when it writes (WorkerKnows, OperatorKnows).       *)
(***************************************************************************)
EXTENDS RunLease, TLAPS

-----------------------------------------------------------------------------
(* Any processes                                                             *)

\* What is known of the arguments of a call and of the row it writes, whatever
\* the other processes do.
WorkerTyped(w) ==
  /\ pc[w] \in AcquirePC => asked[w] \in Identity
  /\ pc[w] \in FinishPC => asked[w] \in Terminal
  /\ pc[w] \in PutPC => asked[w] \in Trajectory
  /\ pc[w] = "acquire.write" => row[w] \in Row /\ row[w].owner \in Identity
  /\ pc[w] \in {"renew.write", "release.write"} => lease # None

Typed == TypeOK /\ \A w \in Worker : WorkerTyped(w)

LEMMA CallTyped ==
  ASSUME Typed, NEW c \in Caller, TypeOK', lease # None => lease' # None,
         \A d \in Caller \ {c} : pc'[d] = pc[d] /\ asked'[d] = asked[d] /\ row'[d] = row[d],
         c \in Worker => WorkerTyped(c)'
  PROVE  Typed'
  <1> SUFFICES ASSUME NEW w \in Worker, w # c PROVE WorkerTyped(w)'
    BY DEF Typed
  <1>1. WorkerTyped(w) /\ w \in Caller
    BY DEF Typed, Caller
  <1> QED BY <1>1 DEF WorkerTyped

LEMMA BeginsTyped ==
  ASSUME Typed, NEW c \in Caller, Begin(c, "acquire.status"), NEW x \in Identity,
         asked' = [asked EXCEPT ![c] = x]
  PROVE  Typed'
  <1>1. TypeOK'
    BY DEF Typed, TypeOK, Begin, db, PC, AcquirePC
  <1>2. pc'[c] = "acquire.status" /\ asked'[c] \in Identity
    BY DEF Typed, TypeOK, Begin
  <1>3. WorkerTyped(c)'
    BY <1>2 DEF WorkerTyped, AcquirePC, FinishPC, PutPC
  <1> QED BY <1>1, <1>3, CallTyped DEF Begin, db, Typed, TypeOK

LEMMA BeginsBareTyped ==
  ASSUME Typed, NEW c \in Caller, UNCHANGED asked,
         NEW l \in {"renew.status", "release.row", "preview.run", "reconcile.existing"}, Begin(c, l)
  PROVE  Typed'
  <1>1. TypeOK'
    BY DEF Typed, TypeOK, Begin, db, PC, RenewPC, ReleasePC, ReconcilePC
  <1>2. pc'[c] = l
    BY DEF Typed, TypeOK, Begin
  <1>3. WorkerTyped(c)'
    BY <1>2 DEF WorkerTyped, AcquirePC, FinishPC, PutPC
  <1> QED BY <1>1, <1>3, CallTyped DEF Begin, db, Typed, TypeOK

LEMMA LeavesTyped ==
  ASSUME Typed, NEW c \in Caller, NEW l \in {"idle", "previewed"}, Leave(c, l),
         clock' = clock, run' \in Status, lease' \in Row \cup {None}, lease # None => lease' # None,
         recon' \in Reconciliation \cup {None}, attached' \subseteq Trajectory,
         token' \in [Worker -> Token \cup {None}],
         NEW x \in Preview, row' = [row EXCEPT ![c] = x],
         asked' = asked \/ asked' = [asked EXCEPT ![c] = None]
  PROVE  Typed'
  <1>1. TypeOK'
    BY RunLeaseAssumption DEF Typed, TypeOK, Leave, PC, ReconcilePC
  <1>2. pc'[c] = l
    BY DEF Typed, TypeOK, Leave
  <1>3. WorkerTyped(c)'
    BY <1>2 DEF WorkerTyped, AcquirePC, FinishPC, PutPC
  <1>4. \A d \in Caller \ {c} : pc'[d] = pc[d] /\ asked'[d] = asked[d] /\ row'[d] = row[d]
    BY DEF Typed, TypeOK, Leave
  <1> QED BY <1>1, <1>3, <1>4, CallTyped

LEMMA ReturnsTyped ==
  ASSUME Typed, NEW c \in Caller, Return(c),
         clock' = clock, run' \in Status, lease' \in Row \cup {None}, lease # None => lease' # None,
         recon' \in Reconciliation \cup {None}, attached' \subseteq Trajectory,
         token' \in [Worker -> Token \cup {None}]
  PROVE  Typed'
  BY LeavesTyped DEF Return, Preview

LEMMA ReadReturnsTyped ==
  ASSUME Typed, NEW c \in Caller, NEW here, Read(c, here), Return(c)
  PROVE  Typed'
  BY ReturnsTyped DEF Read, db, Typed, TypeOK

LEMMA GoesTyped ==
  ASSUME Typed, NEW c \in Caller, NEW here, NEW l \in PC, Read(c, here), Goes(c, l),
         at' = at \/ at' = [at EXCEPT ![c] = clock],
         row' = row \/ \E x \in Preview : row' = [row EXCEPT ![c] = x],
         asked' = asked \/ \E x \in Terminal \cup Trajectory : asked' = [asked EXCEPT ![c] = x],
         c \in Worker => WorkerTyped(c)'
  PROVE  Typed'
  <1>1. TypeOK'
    <2>1. clock \in Nat /\ UNCHANGED <<clock, run, lease, recon, attached, token>>
      BY RunLeaseAssumption DEF Read, db, Typed, TypeOK
    <2>2. at' \in [Caller -> Nat]
      BY <2>1 DEF Typed, TypeOK
    <2>3. row' \in [Caller -> Preview]
      BY DEF Typed, TypeOK
    <2>4. asked' \in [Caller -> Identity \cup Terminal \cup Trajectory \cup {None}]
      BY DEF Typed, TypeOK
    <2>5. pc' \in [Caller -> PC] /\ lock' \in [Store -> Caller \cup {None}]
      BY RunLeaseAssumption DEF Typed, TypeOK, Goes
    <2> QED BY <2>1, <2>2, <2>3, <2>4, <2>5 DEF Typed, TypeOK
  <1>2. \A d \in Caller \ {c} : pc'[d] = pc[d] /\ asked'[d] = asked[d] /\ row'[d] = row[d]
    BY DEF Typed, TypeOK, Goes
  <1> QED BY <1>1, <1>2, CallTyped DEF Read, db

\* A read that goes on with what it had.
LEMMA ContinuesTyped ==
  ASSUME Typed, NEW c \in Caller, NEW here, Read(c, here),
         NEW l \in PC, Continue(c, l), UNCHANGED <<at, row>>,
         c \in Worker =>
           \/ l = "acquire.row" /\ here = "acquire.status"
           \/ l = "finish.write" /\ here = "finish.row"
           \/ l = "put.write" /\ here = "put.row"
           \/ l = "renew.row"
           \/ l \in {"renew.write", "release.write"} /\ lease # None
  PROVE  Typed'
  <1>1. pc[c] = here /\ pc'[c] = l /\ UNCHANGED <<lease, asked>>
    BY DEF Typed, TypeOK, Read, db, Continue, Goes
  <1>2. c \in Worker => WorkerTyped(c)'
    <2> SUFFICES ASSUME c \in Worker PROVE WorkerTyped(c)'
      OBVIOUS
    <2>1. WorkerTyped(c)
      BY DEF Typed
    <2> QED BY <1>1, <2>1 DEF WorkerTyped, AcquirePC, FinishPC, PutPC
  <1> QED BY <1>2, GoesTyped DEF Continue

LEMMA AcquireReads ==
  ASSUME Typed, NEW w \in Worker, AcquireRow(w)
  PROVE  Typed'
  <1>1. w \in Caller /\ pc[w] = "acquire.row" /\ WorkerTyped(w)
    BY DEF Typed, Caller, AcquireRow, Read
  <1>2. at[w] \in Nat /\ asked[w] \in Identity /\ lease \in Row \cup {None}
    BY <1>1 DEF Typed, TypeOK, WorkerTyped, AcquirePC
  <1> DEFINE fresh(e) == [owner |-> asked[w], epoch |-> e, acquired |-> at[w],
                          beat |-> at[w], expires |-> at[w], released |-> None]
  <1>3. ASSUME NEW e \in Nat \ {0} PROVE fresh(e) \in Row /\ fresh(e).owner \in Identity
    BY <1>2 DEF Row, Owner
  <1>4. lease # None => lease.epoch + 1 \in Nat \ {0}
    BY <1>2 DEF Row
  <1>5. lease = None => Acquired(w) = fresh(1)
    BY DEF Acquired
  <1>6. \/ Acquired(w) \in {fresh(1), None}
        \/ lease # None /\ Acquired(w) = fresh(lease.epoch + 1)
        \/ lease # None /\ Acquired(w) = lease /\ lease.owner = asked[w]
    BY DEF Acquired
  <1> HIDE DEF fresh
  <1>7. Acquired(w) # None => Acquired(w) \in Row /\ Acquired(w).owner \in Identity
    BY <1>2, <1>3, <1>4, <1>6
  <1>8. CASE Return(w)
    BY <1>1, <1>8, ReadReturnsTyped DEF AcquireRow
  <1>9. CASE /\ Acquired(w) # None /\ Continue(w, "acquire.write") /\ at' = at
             /\ row' = [row EXCEPT ![w] = Acquired(w)]
    <2>1. Acquired(w) \in Preview /\ row'[w] = Acquired(w)
      BY <1>1, <1>7, <1>9 DEF Preview, Typed, TypeOK
    <2>2. pc'[w] = "acquire.write" /\ asked'[w] = asked[w]
      BY <1>1, <1>9 DEF Continue, Goes, Typed, TypeOK
    <2>3. WorkerTyped(w)'
      BY <1>2, <1>7, <1>9, <2>1, <2>2 DEF WorkerTyped, AcquirePC, FinishPC, PutPC
    <2>4. "acquire.write" \in PC
      BY DEF PC, AcquirePC
    <2> QED BY <1>1, <1>9, <2>1, <2>3, <2>4, GoesTyped DEF AcquireRow, Continue
  <1> QED BY <1>8, <1>9 DEF AcquireRow

LEMMA WorkerReadsTyped ==
  ASSUME Typed, NEW w \in Worker,
         \/ AcquireCall(w) \/ AcquireStatus(w) \/ AcquireRow(w)
         \/ RenewCall(w) \/ RenewStatus(w) \/ RenewRow(w)
         \/ ReleaseCall(w) \/ ReleaseRow(w)
         \/ FinishStatus(w) \/ FinishRow(w) \/ PutStatus(w) \/ PutRow(w)
  PROVE  Typed'
  <1>1. w \in Caller /\ OwnersOf[w] \subseteq Identity
    BY RunLeaseAssumption DEF Caller
  <1>2. CASE AcquireCall(w)
    BY <1>1, <1>2, BeginsTyped DEF AcquireCall
  <1>3. CASE RenewCall(w) \/ ReleaseCall(w)
    BY <1>1, <1>3, BeginsBareTyped DEF RenewCall, ReleaseCall
  <1>4. ASSUME NEW here, Read(w, here), Return(w) PROVE Typed'
    BY <1>1, <1>4, ReadReturnsTyped
  <1>5. {"acquire.row", "renew.row", "renew.write", "release.write", "finish.row",
         "finish.write", "put.row", "put.write"} \subseteq PC
    BY DEF PC, AcquirePC, RenewPC, ReleasePC, FinishPC, PutPC
  <1>6. CASE AcquireStatus(w)
    BY <1>1, <1>4, <1>5, <1>6, ContinuesTyped DEF AcquireStatus
  <1>7. CASE RenewStatus(w)
    BY <1>1, <1>4, <1>5, <1>7, ContinuesTyped DEF RenewStatus
  <1>8. CASE RenewRow(w)
    BY <1>1, <1>4, <1>5, <1>8, ContinuesTyped DEF RenewRow, ActiveLease
  <1>9. CASE ReleaseRow(w)
    BY <1>1, <1>4, <1>5, <1>9, ContinuesTyped DEF ReleaseRow
  <1>10. CASE FinishRow(w)
    BY <1>1, <1>4, <1>5, <1>10, ContinuesTyped DEF FinishRow
  <1>11. CASE PutRow(w)
    BY <1>1, <1>4, <1>5, <1>11, ContinuesTyped DEF PutRow
  <1>12. CASE FinishStatus(w)
    <2>1. PICK x \in Terminal : asked' = [asked EXCEPT ![w] = x]
      BY <1>12 DEF FinishStatus, With
    <2>2. Goes(w, "finish.row")
      BY <1>12 DEF FinishStatus, With
    <2>3. pc'[w] = "finish.row" /\ asked'[w] \in Terminal
      BY <1>1, <2>1, <2>2 DEF Goes, Typed, TypeOK
    <2>4. WorkerTyped(w)'
      BY <2>3 DEF WorkerTyped, AcquirePC, FinishPC, PutPC
    <2> QED BY <1>1, <1>5, <1>12, <2>1, <2>2, <2>4, GoesTyped DEF FinishStatus
  <1>13. CASE PutStatus(w)
    <2>1. PICK x \in Trajectory : asked' = [asked EXCEPT ![w] = x]
      BY <1>13 DEF PutStatus, With
    <2>2. Goes(w, "put.row")
      BY <1>13 DEF PutStatus, With
    <2>3. pc'[w] = "put.row" /\ asked'[w] \in Trajectory
      BY <1>1, <2>1, <2>2 DEF Goes, Typed, TypeOK
    <2>4. WorkerTyped(w)'
      BY <2>3 DEF WorkerTyped, AcquirePC, FinishPC, PutPC
    <2> QED BY <1>1, <1>5, <1>13, <2>1, <2>2, <2>4, GoesTyped DEF PutStatus
  <1>14. CASE AcquireRow(w)
    BY <1>14, AcquireReads
  <1> QED BY <1>2, <1>3, <1>6, <1>7, <1>8, <1>9, <1>10, <1>11, <1>12, <1>13, <1>14

LEMMA WorkerWritesTyped ==
  ASSUME Typed, NEW w \in Worker,
         AcquireWrite(w) \/ RenewWrite(w) \/ ReleaseWrite(w) \/ FinishWrite(w) \/ PutWrite(w)
  PROVE  Typed'
  <1>1. w \in Caller /\ WorkerTyped(w) /\ at[w] \in Nat
    BY DEF Typed, TypeOK, Caller
  <1>2. ASSUME NEW r \in Row, NEW ttl \in TTLs
        PROVE  [r EXCEPT !.beat = at[w], !.expires = at[w] + ttl] \in Row
    <2>1. at[w] + ttl \in Nat
      BY <1>1, RunLeaseAssumption
    <2> QED BY <1>1, <2>1 DEF Row
  <1>3. None \notin Row
    BY RunLeaseAssumption
  <1>4. CASE AcquireWrite(w)
    <2>1. row[w] \in Row /\ row[w].owner \in Identity
      BY <1>1, <1>4 DEF AcquireWrite, Write, WorkerTyped
    <2>2. lease' \in Row
      BY <1>2, <1>4, <2>1 DEF AcquireWrite
    <2>3. [owner |-> row[w].owner, epoch |-> row[w].epoch] \in Token
      BY <2>1 DEF Row, Token
    <2>4. token' \in [Worker -> Token \cup {None}]
      BY <1>4, <2>3 DEF AcquireWrite, Typed, TypeOK
    <2> QED BY <1>1, <1>3, <1>4, <2>2, <2>4, ReturnsTyped DEF AcquireWrite, Write, Typed, TypeOK
  <1>5. CASE RenewWrite(w)
    <2>1. lease \in Row
      BY <1>1, <1>5 DEF RenewWrite, Write, WorkerTyped, Typed, TypeOK
    <2>2. lease' \in Row
      BY <1>2, <1>5, <2>1 DEF RenewWrite
    <2> QED BY <1>1, <1>3, <1>5, <2>2, ReturnsTyped DEF RenewWrite, Write, Typed, TypeOK
  <1>6. CASE ReleaseWrite(w)
    <2>1. lease \in Row
      BY <1>1, <1>6 DEF ReleaseWrite, Write, WorkerTyped, Typed, TypeOK
    <2>2. lease' \in Row
      BY <1>1, <1>6, <2>1 DEF ReleaseWrite, Row
    <2> QED BY <1>1, <1>3, <1>6, <2>2, ReturnsTyped DEF ReleaseWrite, Write, Typed, TypeOK
  <1>7. CASE FinishWrite(w)
    <2>1. run' \in Status
      BY <1>1, <1>7 DEF FinishWrite, Write, WorkerTyped, FinishPC, Status
    <2>2. CASE lease # None /\ lease.released = None
      <3>1. lease' \in Row
        BY <1>1, <1>7, <2>2 DEF FinishWrite, Row, Typed, TypeOK
      <3> QED BY <1>1, <1>3, <1>7, <2>1, <3>1, ReturnsTyped DEF FinishWrite, Write, Typed, TypeOK
    <2>3. CASE lease' = lease
      BY <1>1, <1>7, <2>1, <2>3, ReturnsTyped DEF FinishWrite, Write, Typed, TypeOK
    <2> QED BY <1>7, <2>2, <2>3 DEF FinishWrite
  <1>8. CASE PutWrite(w)
    <2>1. attached' \subseteq Trajectory
      BY <1>1, <1>8 DEF PutWrite, Write, WorkerTyped, PutPC, Typed, TypeOK
    <2> QED BY <1>1, <1>8, <2>1, ReturnsTyped DEF PutWrite, Write, Typed, TypeOK
  <1> QED BY <1>4, <1>5, <1>6, <1>7, <1>8

LEMMA OperatorTyped ==
  ASSUME Typed, NEW o \in Operator, Operate(o)
  PROVE  Typed'
  <1>1. o \in Caller /\ o \notin Worker /\ at[o] \in Nat
    BY RunLeaseAssumption DEF Caller, Typed, TypeOK
  <1>2. CASE PreviewCall(o) \/ ReconcileCall(o)
    BY <1>1, <1>2, BeginsBareTyped DEF PreviewCall, ReconcileCall
  <1>3. ASSUME NEW here, Read(o, here), Return(o) PROVE Typed'
    BY <1>1, <1>3, ReadReturnsTyped
  <1>4. {"preview.row", "reconcile.run", "reconcile.row", "reconcile.write"} \subseteq PC
    BY DEF PC, ReconcilePC
  <1>5. CASE PreviewRun(o)
    BY <1>1, <1>3, <1>4, <1>5, ContinuesTyped DEF PreviewRun
  <1>6. CASE PreviewRow(o)
    <2>1. CASE Leave(o, "previewed") /\ row' = [row EXCEPT ![o] = lease] /\ UNCHANGED asked
      BY <1>1, <1>6, <2>1, LeavesTyped DEF PreviewRow, Read, db, Typed, TypeOK, Preview
    <2> QED BY <1>3, <1>6, <2>1 DEF PreviewRow
  <1>7. CASE ReconcileExisting(o)
    BY <1>1, <1>3, <1>4, <1>7, ContinuesTyped DEF ReconcileExisting
  <1>8. CASE ReconcileRun(o)
    BY <1>1, <1>3, <1>4, <1>8, ContinuesTyped DEF ReconcileRun
  <1>9. CASE ReconcileRow(o)
    BY <1>1, <1>3, <1>4, <1>9, ContinuesTyped DEF ReconcileRow
  <1>10. CASE ReconcileWrite(o)
    <2> DEFINE epoch == IF row[o] = None THEN 1 ELSE row[o].epoch + 1
    <2>1. epoch \in Nat \ {0} /\ o \in Owner
      BY <1>1 DEF Typed, TypeOK, Preview, Row, Owner
    <2> HIDE DEF epoch
    <2>2. [owner |-> o, epoch |-> epoch, acquired |-> at[o],
           beat |-> at[o], expires |-> at[o], released |-> at[o]] \in Row
      BY <1>1, <2>1 DEF Row
    <2>3. CASE UNCHANGED <<run, lease, recon>>
      BY <1>1, <1>10, <2>3, ReturnsTyped DEF ReconcileWrite, Write, Typed, TypeOK
    <2>4. CASE lease' \in Row /\ run' = "failed" /\ recon' \in Nat \ {0}
      BY <1>1, <1>10, <2>4, ReturnsTyped, RunLeaseAssumption
         DEF ReconcileWrite, Write, Typed, TypeOK, Status, Terminal, Reconciliation
    <2> QED BY <1>10, <2>1, <2>2, <2>3, <2>4 DEF ReconcileWrite, epoch
  <1> QED BY <1>2, <1>5, <1>6, <1>7, <1>8, <1>9, <1>10 DEF Operate

LEMMA NextTyped ==
  ASSUME Typed, [Next]_vars
  PROVE  Typed'
  <1>1. CASE UNCHANGED vars
    BY <1>1 DEF vars, db, Typed, TypeOK, WorkerTyped
  <1>2. CASE Tick
    <2>1. clock' \in 0..MaxClock
      BY <1>2, RunLeaseAssumption DEF Tick, Typed, TypeOK
    <2> QED BY <1>2, <2>1 DEF Tick, db, Typed, TypeOK, WorkerTyped
  <1>3. ASSUME NEW i \in Store, Crash(i) PROVE Typed'
    <2>1. TypeOK'
      BY <1>3, RunLeaseAssumption DEF Typed, TypeOK, Crash, db, PC, Preview, Caller
    <2>2. ASSUME NEW w \in Worker PROVE WorkerTyped(w)'
      <3>1. w \in Caller /\ WorkerTyped(w) /\ lease' = lease
        BY <1>3 DEF Caller, Typed, Crash, db
      <3>2. CASE StoreOf[w] = i
        BY <1>3, <3>1, <3>2 DEF Crash, WorkerTyped, AcquirePC, FinishPC, PutPC
      <3>3. CASE StoreOf[w] # i
        BY <1>3, <3>1, <3>3 DEF Crash, WorkerTyped
      <3> QED BY <3>2, <3>3
    <2> QED BY <2>1, <2>2 DEF Typed
  <1>4. ASSUME NEW w \in Worker, Work(w) PROVE Typed'
    BY <1>4, WorkerReadsTyped, WorkerWritesTyped DEF Work
  <1>5. ASSUME NEW o \in Operator, Operate(o) PROVE Typed'
    BY <1>5, OperatorTyped
  <1> QED BY <1>1, <1>2, <1>3, <1>4, <1>5 DEF Next

LEMMA AlwaysTyped == Spec => []Typed
  <1>1. Init => Typed
    <2> SUFFICES ASSUME Init PROVE Typed
      OBVIOUS
    <2>1. TypeOK
      BY RunLeaseAssumption DEF Init, TypeOK, Status, Preview, PC
    <2> QED BY <2>1 DEF Init, Typed, WorkerTyped, Caller, AcquirePC, FinishPC, PutPC
  <1>2. Typed /\ [Next]_vars => Typed'
    BY NextTyped
  <1> QED BY <1>1, <1>2, PTL DEF Spec

\* The pcs of calls in flight.
Past == {"acquire.row", "acquire.write", "renew.row", "renew.write", "finish.row",
         "finish.write", "put.row", "put.write", "reconcile.row", "reconcile.write"}

LEMMA StepDrains ==
  ASSUME Typed, NEW c \in Caller, NEW l, pc' = [pc EXCEPT ![c] = l], l \in Past => pc[c] \in Past
  PROVE  /\ InFlight' \subseteq InFlight
         /\ pc[c] \in Past /\ l \notin Past => InFlight' # InFlight
  <1>1. InFlight = {d \in Caller : pc[d] \in Past} /\ InFlight' = {d \in Caller : pc'[d] \in Past}
    BY DEF InFlight, Past
  <1>2. pc'[c] = l /\ \A d \in Caller \ {c} : pc'[d] = pc[d]
    BY DEF Typed, TypeOK
  <1> QED BY <1>1, <1>2

LEMMA ReadDrains ==
  ASSUME Typed, run # "running", UNCHANGED db, NEW c \in Caller, NEW l,
         pc' = [pc EXCEPT ![c] = l], l \in Past => pc[c] \in Past
  PROVE  DrainsWhenEnded
  BY StepDrains DEF DrainsWhenEnded, db

LEMMA WriteDrains ==
  ASSUME Typed, run # "running", NEW c \in Caller, pc[c] \in Past, Return(c),
         run' # "running", recon # None => recon' = recon
  PROVE  DrainsWhenEnded
  <1>1. pc' = [pc EXCEPT ![c] = "idle"] /\ "idle" \notin Past
    BY DEF Return, Leave, Past
  <1> QED BY <1>1, StepDrains DEF DrainsWhenEnded

LEMMA WorkDrains ==
  ASSUME Typed, run # "running", NEW w \in Worker, Work(w)
  PROVE  DrainsWhenEnded
  <1>1. w \in Caller /\ WorkerTyped(w) /\ at[w] \in Nat
    BY DEF Typed, TypeOK, Caller
  <1>2. CASE AcquireCall(w) \/ RenewCall(w) \/ ReleaseCall(w)
    BY <1>1, <1>2, ReadDrains DEF AcquireCall, RenewCall, ReleaseCall, Begin, Past
  <1>3. CASE AcquireStatus(w) \/ RenewStatus(w)
    BY <1>1, <1>3, ReadDrains DEF AcquireStatus, RenewStatus, Read, Return, Leave, Past
  <1>4. CASE AcquireRow(w) \/ RenewRow(w) \/ FinishRow(w) \/ PutRow(w)
    <2>1. pc[w] \in Past /\ UNCHANGED db
      BY <1>4 DEF AcquireRow, RenewRow, FinishRow, PutRow, Read, Past
    <2>2. PICK l : pc' = [pc EXCEPT ![w] = l]
      BY <1>4 DEF AcquireRow, RenewRow, FinishRow, PutRow, Return, Leave, Continue, Goes
    <2> QED BY <1>1, <2>1, <2>2, ReadDrains
  <1>5. CASE ReleaseRow(w)
    BY <1>1, <1>5, ReadDrains DEF ReleaseRow, Read, Return, Leave, Continue, Goes, Past
  <1>6. CASE FinishStatus(w) \/ PutStatus(w)
    BY <1>6 DEF FinishStatus, PutStatus
  <1>7. CASE AcquireWrite(w) \/ RenewWrite(w) \/ PutWrite(w)
    BY <1>1, <1>7, WriteDrains DEF AcquireWrite, RenewWrite, PutWrite, Write, Past
  <1>8. CASE FinishWrite(w)
    <2>1. run' # "running"
      BY <1>1, <1>8 DEF FinishWrite, Write, WorkerTyped, FinishPC, Terminal
    <2> QED BY <1>1, <1>8, <2>1, WriteDrains DEF FinishWrite, Write, Past
  <1>9. CASE ReleaseWrite(w)
    <2>1. lease \in Row
      BY <1>1, <1>9 DEF ReleaseWrite, Write, WorkerTyped, Typed, TypeOK
    <2>2. lease'.released = at[w]
      BY <1>9, <2>1 DEF ReleaseWrite, Row
    <2>3. pc[w] \notin Past /\ pc' = [pc EXCEPT ![w] = "idle"] /\ "idle" \notin Past
      BY <1>9 DEF ReleaseWrite, Write, Return, Leave, Past
    <2>4. lease'.released # None
      BY <1>1, <2>2, RunLeaseAssumption
    <2> QED BY <1>1, <1>9, <2>3, <2>4, StepDrains DEF DrainsWhenEnded, ReleaseWrite
  <1> QED BY <1>2, <1>3, <1>4, <1>5, <1>6, <1>7, <1>8, <1>9 DEF Work

LEMMA OperateDrains ==
  ASSUME Typed, run # "running", NEW o \in Operator, Operate(o)
  PROVE  DrainsWhenEnded
  <1>1. o \in Caller
    BY DEF Caller
  <1>2. CASE PreviewCall(o) \/ ReconcileCall(o)
    BY <1>1, <1>2, ReadDrains DEF PreviewCall, ReconcileCall, Begin, Past
  <1>3. CASE PreviewRun(o) \/ ReconcileRun(o)
    BY <1>1, <1>3, ReadDrains DEF PreviewRun, ReconcileRun, Read, Return, Leave, Past
  <1>4. CASE PreviewRow(o) \/ ReconcileExisting(o)
    BY <1>1, <1>4, ReadDrains
       DEF PreviewRow, ReconcileExisting, Read, Return, Leave, Continue, Goes, Past
  <1>5. CASE ReconcileRow(o)
    <2>1. pc[o] \in Past /\ UNCHANGED db
      BY <1>5 DEF ReconcileRow, Read, Past
    <2>2. PICK l : pc' = [pc EXCEPT ![o] = l]
      BY <1>5 DEF ReconcileRow, Return, Leave, Continue, Goes
    <2> QED BY <1>1, <2>1, <2>2, ReadDrains
  <1>6. CASE ReconcileWrite(o)
    BY <1>1, <1>6, WriteDrains DEF ReconcileWrite, Write, Past
  <1> QED BY <1>2, <1>3, <1>4, <1>5, <1>6 DEF Operate

\* What calls of other processes may still do to a run that has ended is bounded.
THEOREM EndedRunsDrain == Spec => EndedDrains
  <1>1. Typed /\ [Next]_vars => [DrainsWhenEnded]_vars
    <2> SUFFICES ASSUME Typed, Next, run # "running" PROVE DrainsWhenEnded
      BY DEF DrainsWhenEnded
    <2>1. CASE Tick
      BY <2>1 DEF Tick, db, DrainsWhenEnded, InFlight
    <2>2. ASSUME NEW i \in Store, Crash(i) PROVE DrainsWhenEnded
      <3>1. InFlight' \subseteq InFlight
        BY <2>2 DEF Crash, InFlight
      <3> QED BY <2>2, <3>1 DEF Crash, db, DrainsWhenEnded
    <2> QED BY <2>1, <2>2, WorkDrains, OperateDrains DEF Next
  <1> QED BY <1>1, AlwaysTyped, PTL DEF Spec, EndedDrains

\* Every variable keeps its type, whatever processes share the database, die and
\* come back.
THEOREM TypeCorrect == Spec => []TypeOK
  <1>1. Typed => TypeOK
    BY DEF Typed
  <1> QED BY <1>1, AlwaysTyped, PTL

-----------------------------------------------------------------------------
(* One store instance                                                        *)

OneInstance == \A c, d \in Caller : StoreOf[c] = StoreOf[d]

\* Calls that have read under the lock and have not returned.
Holding == {"acquire.row", "acquire.write", "renew.row", "renew.write", "release.write",
            "finish.row", "finish.write", "put.row", "put.write", "preview.row",
            "reconcile.run", "reconcile.row", "reconcile.write"}

Held == \A c \in Caller : pc[c] \in Holding => lock[StoreOf[c]] = c

WorkerKnows(w) ==
  /\ pc[w] \in {"acquire.row", "acquire.write", "renew.row", "renew.write",
                "finish.row", "finish.write", "put.row", "put.write"} => run = "running"
  /\ pc[w] \in AcquirePC => asked[w] \in Identity
  /\ pc[w] \in FinishPC => asked[w] \in Terminal
  /\ pc[w] \in PutPC => asked[w] \in Trajectory
  /\ pc[w] = "acquire.write" => row[w] = Acquired(w) /\ row[w] # None /\ row[w].epoch <= MaxEpoch
  /\ pc[w] = "renew.write" => ActiveLease(w, at[w])
  /\ pc[w] = "release.write" =>
       lease # None /\ Names(token[w]) /\ lease.released = None /\ at[w] >= lease.beat
  /\ pc[w] \in {"finish.write", "put.write"} => LeaseIfPresent(w, at[w])

OperatorKnows(o) ==
  /\ pc[o] \in {"preview.row", "reconcile.row", "reconcile.write"} => run = "running"
  /\ pc[o] \in {"reconcile.run", "reconcile.row", "reconcile.write"} => recon = None
  /\ pc[o] = "reconcile.write" => Stale(at[o]) /\ lease = row[o]

\* The failed run, the lease taken over and the record of it are one.
ReconciledForGood ==
  recon # None =>
    /\ run = "failed"
    /\ lease # None /\ lease.epoch = recon
    /\ lease.owner \in Operator /\ lease.released # None

\* Only a reconciliation gives the lease to an operator, and an epoch past MaxEpoch.
LeaseSound ==
  /\ Readable
  /\ ReconciledForGood
  /\ recon = None /\ lease # None => lease.owner \in Identity /\ lease.epoch <= MaxEpoch

Inv ==
  /\ TypeOK
  /\ Held
  /\ \A c \in Caller : at[c] <= clock
  /\ \A w \in Worker : WorkerKnows(w)
  /\ \A o \in Operator : OperatorKnows(o)
  /\ LeaseSound

\* No other call is under the lock.
Alone(c) == \A d \in Caller \ {c} : pc[d] \notin Holding

-----------------------------------------------------------------------------
(* What every step of a call keeps                                           *)

LEMMA InitInv == Init => Inv
  <1> SUFFICES ASSUME Init PROVE Inv
    OBVIOUS
  <1>1. TypeOK
    BY RunLeaseAssumption DEF Init, TypeOK, Status, Preview, PC
  <1>2. Held /\ \A c \in Caller : at[c] <= clock
    BY DEF Init, Held, Holding
  <1>3. \A w \in Worker : WorkerKnows(w)
    BY DEF Init, WorkerKnows, Caller, AcquirePC, FinishPC, PutPC
  <1>4. \A o \in Operator : OperatorKnows(o)
    BY DEF Init, OperatorKnows, Caller
  <1>5. LeaseSound
    BY DEF Init, LeaseSound, Readable, ReconciledForGood
  <1> QED BY <1>1, <1>2, <1>3, <1>4, <1>5 DEF Inv

LEMMA Unshared ==
  ASSUME Inv, OneInstance, NEW c \in Caller, lock[StoreOf[c]] \in {None, c}
  PROVE  Alone(c)
  BY RunLeaseAssumption DEF Inv, Held, OneInstance, Alone

\* Who writes holds the lock.
LEMMA Holder ==
  ASSUME Inv, OneInstance, NEW c \in Caller, pc[c] \in Holding
  PROVE  lock[StoreOf[c]] \in {None, c} /\ Alone(c)
  BY Unshared DEF Inv, Held

LEMMA Stepped ==
  ASSUME Inv, NEW c \in Caller, Alone(c), TypeOK', LeaseSound', clock' = clock,
         \A d \in Caller \ {c} : pc'[d] = pc[d] /\ at'[d] = at[d] /\ asked'[d] = asked[d],
         pc'[c] \in Holding => lock'[StoreOf[c]] = c,
         at'[c] <= clock,
         c \in Worker => WorkerKnows(c)',
         c \in Operator => OperatorKnows(c)'
  PROVE  Inv'
  <1>1. \A d \in Caller \ {c} : pc'[d] \notin Holding
    BY DEF Alone
  <1>2. Held'
    BY <1>1 DEF Held
  <1>3. \A d \in Caller : at'[d] <= clock'
    BY DEF Inv
  <1>4. \A w \in Worker : WorkerKnows(w)'
    <2> SUFFICES ASSUME NEW w \in Worker, w # c PROVE WorkerKnows(w)'
      OBVIOUS
    <2>1. pc'[w] = pc[w] /\ asked'[w] = asked[w] /\ pc'[w] \notin Holding /\ WorkerKnows(w)
      BY <1>1 DEF Caller, Inv
    <2> QED BY <2>1 DEF WorkerKnows, Holding, AcquirePC, FinishPC, PutPC
  <1>5. \A o \in Operator : OperatorKnows(o)'
    <2> SUFFICES ASSUME NEW o \in Operator, o # c PROVE OperatorKnows(o)'
      OBVIOUS
    <2>1. pc'[o] \notin Holding
      BY <1>1 DEF Caller
    <2> QED BY <2>1 DEF OperatorKnows, Holding
  <1> QED BY <1>2, <1>3, <1>4, <1>5 DEF Inv

LEMMA LeaseStays ==
  ASSUME LeaseSound, UNCHANGED <<run, lease, recon>>
  PROVE  LeaseSound'
  BY DEF LeaseSound, Readable, ReconciledForGood

\* A call that returns, whatever it wrote.
LEMMA Returned ==
  ASSUME Inv, NEW c \in Caller, Alone(c), Return(c), clock' = clock,
         run' \in Status, lease' \in Row \cup {None}, recon' \in Reconciliation \cup {None},
         attached' \subseteq Trajectory, token' \in [Worker -> Token \cup {None}], LeaseSound'
  PROVE  Inv'
  <1>1. pc'[c] = "idle" /\ at'[c] = 0
    BY DEF Inv, TypeOK, Return, Leave
  <1>2. TypeOK'
    BY RunLeaseAssumption DEF Inv, TypeOK, Return, Leave, PC, Preview
  <1>3. WorkerKnows(c)' /\ OperatorKnows(c)'
    BY <1>1 DEF WorkerKnows, OperatorKnows, AcquirePC, FinishPC, PutPC
  <1>4. at'[c] <= clock
    BY <1>1 DEF Inv, TypeOK
  <1>5. \A d \in Caller \ {c} : pc'[d] = pc[d] /\ at'[d] = at[d] /\ asked'[d] = asked[d]
    BY DEF Inv, TypeOK, Return, Leave
  <1> QED BY <1>1, <1>2, <1>3, <1>4, <1>5, Stepped DEF Holding

\* A call that reads and returns.
LEMMA ReadReturns ==
  ASSUME Inv, OneInstance, NEW c \in Caller, NEW here, Read(c, here), Return(c)
  PROVE  Inv'
  <1>1. Alone(c)
    BY Unshared DEF Read
  <1>2. LeaseSound'
    BY LeaseStays DEF Inv, Read, db
  <1> QED BY <1>1, <1>2, Returned DEF Inv, TypeOK, Read, db

\* A call that reads and goes on.
LEMMA ReadGoes ==
  ASSUME Inv, OneInstance, NEW c \in Caller, NEW here, NEW l \in Holding,
         Read(c, here), Goes(c, l),
         at' \in [Caller -> Nat], at'[c] <= clock, row' \in [Caller -> Preview],
         asked' \in [Caller -> Identity \cup Terminal \cup Trajectory \cup {None}],
         \A d \in Caller \ {c} : at'[d] = at[d] /\ asked'[d] = asked[d],
         c \in Worker => WorkerKnows(c)',
         c \in Operator => OperatorKnows(c)'
  PROVE  Inv'
  <1>1. Alone(c)
    BY Unshared DEF Read
  <1>2. LeaseSound'
    BY LeaseStays DEF Inv, Read, db
  <1>3. l \in PC
    BY DEF Holding, PC, AcquirePC, RenewPC, ReleasePC, FinishPC, PutPC, ReconcilePC
  <1>4. TypeOK'
    BY <1>3, RunLeaseAssumption DEF Inv, TypeOK, Read, db, Goes
  <1>5. lock'[StoreOf[c]] = c
    BY RunLeaseAssumption DEF Inv, TypeOK, Goes
  <1>6. \A d \in Caller \ {c} : pc'[d] = pc[d]
    BY DEF Inv, TypeOK, Goes
  <1> QED BY <1>1, <1>2, <1>4, <1>5, <1>6, Stepped DEF Read

LEMMA Begins ==
  ASSUME Inv, NEW c \in Caller, NEW l \in {"acquire.status", "renew.status", "release.row",
                                           "preview.run", "reconcile.existing"},
         pc[c] \in {"idle", "previewed"}, Begin(c, l),
         \/ asked' = asked /\ l # "acquire.status"
         \/ \E x \in Identity : asked' = [asked EXCEPT ![c] = x]
  PROVE  Inv'
  <1>1. TypeOK'
    BY DEF Inv, TypeOK, Begin, db, PC, AcquirePC, RenewPC, ReleasePC, ReconcilePC
  <1>2. pc' = [pc EXCEPT ![c] = l] /\ l \notin Holding
    BY DEF Begin, Holding
  <1>3. Held'
    BY <1>2 DEF Inv, Held, Begin, TypeOK
  <1>4. \A d \in Caller : at'[d] <= clock'
    BY DEF Inv, TypeOK, Begin
  <1>5. LeaseSound'
    BY LeaseStays DEF Inv, Begin, db
  <1>6. \A d \in Caller \ {c} :
          pc'[d] = pc[d] /\ at'[d] = at[d] /\ asked'[d] = asked[d] /\ row'[d] = row[d]
    BY DEF Inv, TypeOK, Begin
  <1>7. WorkerKnows(c)' /\ OperatorKnows(c)'
    <2>1. pc'[c] = l
      BY <1>2 DEF Inv, TypeOK
    <2>2. l = "acquire.status" => asked'[c] \in Identity
      BY DEF Inv, TypeOK
    <2> QED BY <2>1, <2>2 DEF WorkerKnows, OperatorKnows, AcquirePC, FinishPC, PutPC
  <1>8. UNCHANGED <<run, lease, recon, token>>
    BY DEF Begin, db
  <1>9. ASSUME NEW w \in Worker, w # c PROVE WorkerKnows(w)'
    <2>1. WorkerKnows(w) /\ pc'[w] = pc[w] /\ at'[w] = at[w] /\ asked'[w] = asked[w] /\ row'[w] = row[w]
      BY <1>6, <1>9 DEF Inv, Caller
    <2> QED BY <2>1, <1>8 DEF WorkerKnows, Acquired, ActiveLease, LeaseIfPresent, Names, Readable
  <1>10. ASSUME NEW o \in Operator, o # c PROVE OperatorKnows(o)'
    <2>1. OperatorKnows(o) /\ pc'[o] = pc[o] /\ at'[o] = at[o] /\ row'[o] = row[o]
      BY <1>6, <1>10 DEF Inv, Caller
    <2> QED BY <2>1, <1>8 DEF OperatorKnows, Stale
  <1> QED BY <1>1, <1>3, <1>4, <1>5, <1>7, <1>9, <1>10 DEF Inv

-----------------------------------------------------------------------------
(* The calls of a worker                                                     *)

LEMMA AcquiredTyped ==
  ASSUME Inv, NEW w \in Worker, pc[w] = "acquire.row", Acquired(w) # None, Acquired(w).epoch <= MaxEpoch
  PROVE  Acquired(w) \in Row /\ Acquired(w).owner \in Identity
  <1>1. at[w] \in Nat /\ asked[w] \in Identity /\ asked[w] \in Owner
    BY DEF Inv, TypeOK, WorkerKnows, AcquirePC, Caller, Owner
  <1>2. lease # None => lease \in Row /\ lease.epoch + 1 \in Nat /\ lease.epoch \in Nat
    BY RunLeaseAssumption DEF Inv, TypeOK, Row
  <1>3. recon = None
    BY DEF Inv, WorkerKnows, LeaseSound, ReconciledForGood
  <1>4. lease # None => lease.owner \in Identity /\ lease.epoch <= MaxEpoch
    BY <1>3 DEF Inv, LeaseSound
  <1> DEFINE fresh(e) == [owner |-> asked[w], epoch |-> e, acquired |-> at[w],
                          beat |-> at[w], expires |-> at[w], released |-> None]
  <1>5. ASSUME NEW e \in 1..MaxEpoch + 1 PROVE fresh(e) \in Row /\ fresh(e).owner \in Identity
    BY <1>1, <1>5 DEF Row
  <1>6. 1 \in 1..MaxEpoch + 1 /\ (lease # None => lease.epoch + 1 \in 1..MaxEpoch + 1)
    BY <1>2, <1>4, RunLeaseAssumption DEF Inv, TypeOK, Row
  <1>7. Acquired(w) \in {fresh(1), fresh(lease.epoch + 1), lease, None}
    BY DEF Acquired
  <1> HIDE DEF fresh
  <1>8. CASE Acquired(w) = fresh(1)
    BY <1>5, <1>6, <1>8
  <1>9. CASE lease # None /\ Acquired(w) = fresh(lease.epoch + 1)
    BY <1>5, <1>6, <1>9
  <1>10. CASE lease # None /\ Acquired(w) = lease
    BY <1>2, <1>4, <1>10
  <1>11. lease = None => Acquired(w) = fresh(1)
    BY DEF Acquired, fresh
  <1> QED BY <1>7, <1>8, <1>9, <1>10, <1>11

LEMMA AcquireRowInv == ASSUME Inv, OneInstance, NEW w \in Worker, AcquireRow(w) PROVE Inv'
  <1>1. w \in Caller /\ w \notin Operator
    BY RunLeaseAssumption DEF Caller
  <1>2. CASE Return(w)
    BY <1>1, <1>2, ReadReturns DEF AcquireRow
  <1>3. CASE /\ Acquired(w) # None /\ Acquired(w).epoch <= MaxEpoch
             /\ Continue(w, "acquire.write") /\ at' = at
             /\ row' = [row EXCEPT ![w] = Acquired(w)]
    <2>1. Acquired(w) \in Row
      BY <1>3, AcquiredTyped DEF AcquireRow, Read
    <2>2. row' \in [Caller -> Preview] /\ row'[w] = Acquired(w)
      BY <1>1, <1>3, <2>1 DEF Inv, TypeOK, Preview
    <2>3. pc'[w] = "acquire.write" /\ UNCHANGED <<run, lease, at, asked>>
      BY <1>1, <1>3 DEF Inv, TypeOK, AcquireRow, Read, db, Continue, Goes
    <2>4. Acquired(w)' = Acquired(w)
      BY <2>3 DEF Acquired
    <2>5. run = "running" /\ asked[w] \in Identity
      BY DEF Inv, AcquireRow, Read, WorkerKnows, AcquirePC
    <2>6. WorkerKnows(w)'
      BY <1>3, <2>2, <2>3, <2>4, <2>5 DEF WorkerKnows, AcquirePC, FinishPC, PutPC
    <2> QED BY <1>1, <1>3, <2>2, <2>3, <2>6, ReadGoes DEF AcquireRow, Continue, Holding, Inv, TypeOK
  <1> QED BY <1>2, <1>3 DEF AcquireRow

LEMMA AcquireWriteInv == ASSUME Inv, OneInstance, NEW w \in Worker, AcquireWrite(w) PROVE Inv'
  <1>1. w \in Caller /\ pc[w] = "acquire.write" /\ Alone(w)
    BY Holder DEF Caller, AcquireWrite, Write, Holding
  <1>2. /\ run = "running" /\ row[w] = Acquired(w) /\ row[w] # None
        /\ row[w].epoch <= MaxEpoch /\ asked[w] \in Identity
    BY <1>1 DEF Inv, WorkerKnows, AcquirePC
  <1>3. at[w] \in Nat /\ row[w] \in Row
    BY <1>1, <1>2 DEF Inv, TypeOK, Preview
  <1>4. recon = None
    BY <1>2 DEF Inv, LeaseSound, ReconciledForGood
  <1>5. PICK ttl \in TTLs : lease' = [row[w] EXCEPT !.beat = at[w], !.expires = at[w] + ttl]
    BY DEF AcquireWrite
  <1>6. ttl \in Nat
    BY RunLeaseAssumption
  <1>7. lease' \in Row /\ lease' # None
    <2>1. at[w] + ttl \in Nat
      BY <1>3, <1>6
    <2>2. lease' \in Row
      BY <1>3, <1>5, <2>1 DEF Row
    <2> QED BY <2>2, RunLeaseAssumption
  <1>8. row[w].owner \in Identity /\ row[w].acquired <= at[w] /\ row[w].released = None
    <2>1. CASE lease = None \/ row[w] # lease
      <3> DEFINE fresh(e) == [owner |-> asked[w], epoch |-> e, acquired |-> at[w],
                              beat |-> at[w], expires |-> at[w], released |-> None]
      <3>1. row[w] \in {fresh(1), fresh(lease.epoch + 1)}
        BY <1>2, <2>1 DEF Acquired
      <3>2. \A e : fresh(e).owner = asked[w] /\ fresh(e).acquired = at[w] /\ fresh(e).released = None
        OBVIOUS
      <3> HIDE DEF fresh
      <3>3. row[w].owner = asked[w] /\ row[w].acquired = at[w] /\ row[w].released = None
        BY <3>1, <3>2
      <3> QED BY <1>2, <1>3, <3>3
    <2>2. CASE lease # None /\ row[w] = lease
      <3>1. lease \in Row /\ lease.owner \in Identity /\ lease.acquired <= lease.beat
        BY <1>4, <2>2 DEF Inv, TypeOK, LeaseSound, Readable
      <3>2. lease.epoch + 1 # lease.epoch
        BY <3>1, RunLeaseAssumption DEF Row
      <3>3. lease.released = None /\ lease.expires > at[w] /\ at[w] >= lease.beat
        BY <1>2, <2>2, <3>2 DEF Acquired
      <3> QED BY <1>3, <2>2, <3>1, <3>3 DEF Row
    <2> QED BY <2>1, <2>2
  <1>9. LeaseSound'
    <2>1. /\ lease'.owner = row[w].owner /\ lease'.epoch = row[w].epoch
          /\ lease'.acquired = row[w].acquired /\ lease'.beat = at[w]
          /\ lease'.expires = at[w] + ttl /\ lease'.released = row[w].released
      BY <1>3, <1>5 DEF Row
    <2>2. recon' = None
      BY <1>4 DEF AcquireWrite
    <2>3. lease'.beat <= lease'.expires
      BY <1>3, <1>6, <2>1
    <2>4. Readable'
      BY <1>8, <2>1, <2>3 DEF Readable
    <2> QED BY <1>2, <1>8, <2>1, <2>2, <2>4 DEF LeaseSound, ReconciledForGood
  <1>10. [owner |-> row[w].owner, epoch |-> row[w].epoch] \in Token
    BY <1>2, <1>3, <1>8, RunLeaseAssumption DEF Token, Row
  <1>11. token' \in [Worker -> Token \cup {None}]
    BY <1>10 DEF AcquireWrite, Inv, TypeOK
  <1> QED BY <1>1, <1>7, <1>9, <1>11, Returned DEF AcquireWrite, Write, Inv, TypeOK

LEMMA AcquireInv ==
  ASSUME Inv, OneInstance, NEW w \in Worker,
         AcquireCall(w) \/ AcquireStatus(w) \/ AcquireRow(w) \/ AcquireWrite(w)
  PROVE  Inv'
  <1>1. w \in Caller /\ w \notin Operator
    BY RunLeaseAssumption DEF Caller
  <1>2. CASE AcquireCall(w)
    <2>1. OwnersOf[w] \subseteq Identity
      BY RunLeaseAssumption
    <2> QED BY <1>1, <1>2, <2>1, Begins DEF AcquireCall
  <1>3. CASE AcquireStatus(w)
    <2>1. CASE Return(w)
      BY <1>1, <1>3, <2>1, ReadReturns DEF AcquireStatus
    <2>2. CASE run = "running" /\ Continue(w, "acquire.row") /\ UNCHANGED <<at, row>>
      <3>1. pc'[w] = "acquire.row" /\ UNCHANGED <<run, asked>> /\ asked[w] \in Identity
        BY <1>1, <1>3, <2>2 DEF Inv, TypeOK, AcquireStatus, Read, db, Continue, Goes, WorkerKnows, AcquirePC
      <3>2. WorkerKnows(w)'
        BY <2>2, <3>1 DEF WorkerKnows, AcquirePC, FinishPC, PutPC
      <3> QED BY <1>1, <1>3, <2>2, <3>2, ReadGoes DEF AcquireStatus, Continue, Holding, Inv, TypeOK
    <2> QED BY <1>3, <2>1, <2>2 DEF AcquireStatus
  <1>4. CASE AcquireRow(w)
    BY <1>4, AcquireRowInv
  <1>5. CASE AcquireWrite(w)
    BY <1>5, AcquireWriteInv
  <1> QED BY <1>2, <1>3, <1>4, <1>5

\* A write of the lease row of a running call that keeps its owner and epoch.
LEMMA RowKept ==
  ASSUME Inv, lease # None, recon = None,
         UNCHANGED recon, lease' \in Row, lease'.owner = lease.owner, lease'.epoch = lease.epoch,
         lease'.acquired = lease.acquired, lease.beat <= lease'.beat, lease'.beat <= lease'.expires,
         lease'.released # None => lease'.beat <= lease'.released
  PROVE  LeaseSound'
  <1>1. lease \in Row
    BY DEF Inv, TypeOK
  <1>2. lease'.acquired <= lease'.beat
    BY <1>1 DEF Inv, LeaseSound, Readable, Row
  <1>3. Readable'
    BY <1>2 DEF Readable
  <1> QED BY <1>3 DEF Inv, LeaseSound, ReconciledForGood

LEMMA RenewInv ==
  ASSUME Inv, OneInstance, NEW w \in Worker,
         RenewCall(w) \/ RenewStatus(w) \/ RenewRow(w) \/ RenewWrite(w)
  PROVE  Inv'
  <1>1. w \in Caller /\ w \notin Operator
    BY RunLeaseAssumption DEF Caller
  <1>2. CASE RenewCall(w)
    BY <1>1, <1>2, Begins DEF RenewCall
  <1>3. CASE RenewStatus(w)
    <2>1. CASE Return(w)
      BY <1>1, <1>3, <2>1, ReadReturns DEF RenewStatus
    <2>2. CASE run = "running" /\ Continue(w, "renew.row") /\ UNCHANGED <<at, row>>
      <3>1. pc'[w] = "renew.row" /\ UNCHANGED run
        BY <1>1, <1>3, <2>2 DEF Inv, TypeOK, RenewStatus, Read, db, Continue, Goes
      <3>2. WorkerKnows(w)'
        BY <2>2, <3>1 DEF WorkerKnows, AcquirePC, FinishPC, PutPC
      <3> QED BY <1>1, <1>3, <2>2, <3>2, ReadGoes DEF RenewStatus, Continue, Holding, Inv, TypeOK
    <2> QED BY <1>3, <2>1, <2>2 DEF RenewStatus
  <1>4. CASE RenewRow(w)
    <2>1. CASE Return(w)
      BY <1>1, <1>4, <2>1, ReadReturns DEF RenewRow
    <2>2. CASE ActiveLease(w, at[w]) /\ Continue(w, "renew.write") /\ UNCHANGED <<at, row>>
      <3>1. pc'[w] = "renew.write" /\ UNCHANGED <<run, lease, token>> /\ run = "running"
        BY <1>1, <1>4, <2>2 DEF Inv, TypeOK, RenewRow, Read, db, Continue, Goes, WorkerKnows
      <3>2. ActiveLease(w, at[w])'
        BY <2>2, <3>1 DEF ActiveLease, Names, Readable
      <3>3. WorkerKnows(w)'
        BY <2>2, <3>1, <3>2 DEF WorkerKnows, AcquirePC, FinishPC, PutPC
      <3> QED BY <1>1, <1>4, <2>2, <3>3, ReadGoes DEF RenewRow, Continue, Holding, Inv, TypeOK
    <2> QED BY <1>4, <2>1, <2>2 DEF RenewRow
  <1>5. CASE RenewWrite(w)
    <2>1. pc[w] = "renew.write" /\ Alone(w)
      BY <1>1, <1>5, Holder DEF RenewWrite, Write, Holding
    <2>2. run = "running" /\ ActiveLease(w, at[w])
      BY <2>1 DEF Inv, WorkerKnows
    <2>3. recon = None /\ lease \in Row /\ lease # None /\ at[w] \in Nat
      BY <1>1, <2>2 DEF Inv, TypeOK, LeaseSound, ReconciledForGood, ActiveLease
    <2>4. PICK ttl \in TTLs : lease' = [lease EXCEPT !.beat = at[w], !.expires = at[w] + ttl]
      BY <1>5 DEF RenewWrite
    <2>5. at[w] + ttl \in Nat /\ at[w] <= at[w] + ttl
      BY <2>3, RunLeaseAssumption
    <2>6. lease' \in Row
      BY <2>3, <2>4, <2>5 DEF Row
    <2>7. /\ lease'.owner = lease.owner /\ lease'.epoch = lease.epoch
          /\ lease'.acquired = lease.acquired /\ lease'.beat = at[w]
          /\ lease'.expires = at[w] + ttl /\ lease'.released = lease.released
      BY <2>3, <2>4 DEF Row
    <2>8. lease.beat <= at[w] /\ lease.released = None
      BY <2>2 DEF ActiveLease
    <2>9. LeaseSound'
      BY <1>5, <2>3, <2>5, <2>6, <2>7, <2>8, RowKept DEF RenewWrite
    <2> QED BY <1>1, <1>5, <2>1, <2>6, <2>9, Returned DEF RenewWrite, Write, Inv, TypeOK
  <1> QED BY <1>2, <1>3, <1>4, <1>5

\* A lease that is released now.
LEMMA ReleaseSound ==
  ASSUME Inv, NEW w \in Caller, lease # None, lease.released = None, lease.beat <= at[w],
         UNCHANGED recon,
         lease' = [lease EXCEPT !.expires = at[w], !.released = at[w]]
  PROVE  LeaseSound' /\ lease' \in Row
  <1>1. recon = None /\ lease \in Row /\ at[w] \in Nat
    BY DEF Inv, TypeOK, LeaseSound, ReconciledForGood
  <1>2. lease' \in Row
    BY <1>1 DEF Row
  <1>3. /\ lease'.owner = lease.owner /\ lease'.epoch = lease.epoch
        /\ lease'.acquired = lease.acquired /\ lease'.beat = lease.beat
        /\ lease'.expires = at[w] /\ lease'.released = at[w]
    BY <1>1 DEF Row
  <1>4. lease.beat <= lease.beat
    BY <1>1 DEF Row
  <1> QED BY <1>1, <1>2, <1>3, <1>4, RowKept

LEMMA ReleaseInv ==
  ASSUME Inv, OneInstance, NEW w \in Worker, ReleaseCall(w) \/ ReleaseRow(w) \/ ReleaseWrite(w)
  PROVE  Inv'
  <1>1. w \in Caller /\ w \notin Operator
    BY RunLeaseAssumption DEF Caller
  <1>2. CASE ReleaseCall(w)
    BY <1>1, <1>2, Begins DEF ReleaseCall
  <1>3. CASE ReleaseRow(w)
    <2>1. CASE Return(w)
      BY <1>1, <1>3, <2>1, ReadReturns DEF ReleaseRow
    <2>2. CASE /\ lease # None /\ Readable /\ Names(token[w]) /\ lease.released = None /\ at[w] >= lease.beat
               /\ Continue(w, "release.write") /\ UNCHANGED <<at, row>>
      <3>1. pc'[w] = "release.write" /\ UNCHANGED <<lease, token>>
        BY <1>1, <1>3, <2>2 DEF Inv, TypeOK, ReleaseRow, Read, db, Continue, Goes
      <3>2. Names(token[w])'
        BY <2>2, <3>1 DEF Names
      <3>3. WorkerKnows(w)'
        BY <2>2, <3>1, <3>2 DEF WorkerKnows, AcquirePC, FinishPC, PutPC
      <3> QED BY <1>1, <1>3, <2>2, <3>3, ReadGoes DEF ReleaseRow, Continue, Holding, Inv, TypeOK
    <2> QED BY <1>3, <2>1, <2>2 DEF ReleaseRow
  <1>4. CASE ReleaseWrite(w)
    <2>1. pc[w] = "release.write" /\ Alone(w)
      BY <1>1, <1>4, Holder DEF ReleaseWrite, Write, Holding
    <2>2. lease # None /\ lease.released = None /\ at[w] >= lease.beat
      BY <2>1 DEF Inv, WorkerKnows
    <2>3. LeaseSound' /\ lease' \in Row
      <3>1. lease.beat \in Nat /\ at[w] \in Nat
        BY <1>1, <2>2 DEF Inv, TypeOK, Row
      <3> QED BY <1>1, <1>4, <2>2, <3>1, ReleaseSound DEF ReleaseWrite
    <2> QED BY <1>1, <1>4, <2>1, <2>3, Returned DEF ReleaseWrite, Write, Inv, TypeOK
  <1> QED BY <1>2, <1>3, <1>4

LEMMA FinishInv ==
  ASSUME Inv, OneInstance, NEW w \in Worker, FinishStatus(w) \/ FinishRow(w) \/ FinishWrite(w)
  PROVE  Inv'
  <1>1. w \in Caller /\ w \notin Operator
    BY RunLeaseAssumption DEF Caller
  <1>2. CASE FinishStatus(w)
    <2>1. PICK x \in Terminal : asked' = [asked EXCEPT ![w] = x]
      BY <1>2 DEF FinishStatus, With
    <2>2. Goes(w, "finish.row") /\ UNCHANGED <<run, row, clock>> /\ at' = [at EXCEPT ![w] = clock]
      BY <1>2 DEF FinishStatus, With, Read, db
    <2>3. pc'[w] = "finish.row" /\ asked'[w] \in Terminal /\ at'[w] = clock /\ clock \in Nat
      BY <1>1, <2>1, <2>2 DEF Goes, Inv, TypeOK
    <2>4. WorkerKnows(w)'
      BY <1>2, <2>2, <2>3 DEF FinishStatus, WorkerKnows, AcquirePC, FinishPC, PutPC
    <2>5. at' \in [Caller -> Nat] /\ at'[w] <= clock
      <3>1. at' \in [Caller -> Nat]
        BY <2>2, <2>3 DEF Inv, TypeOK
      <3>2. at'[w] <= clock
        BY <2>3
      <3> QED BY <3>1, <3>2
    <2>6. asked' \in [Caller -> Identity \cup Terminal \cup Trajectory \cup {None}]
      BY <2>1 DEF Inv, TypeOK
    <2>7. \A d \in Caller \ {w} : at'[d] = at[d] /\ asked'[d] = asked[d]
      BY <2>1, <2>2 DEF Inv, TypeOK
    <2>8. Read(w, "idle") /\ Goes(w, "finish.row") /\ "finish.row" \in Holding
      BY <1>2, <2>2 DEF FinishStatus, Holding
    <2>9. row' \in [Caller -> Preview]
      BY <2>2 DEF Inv, TypeOK
    <2> QED BY <1>1, <2>4, <2>5, <2>6, <2>7, <2>8, <2>9, ReadGoes
  <1>3. CASE FinishRow(w)
    <2>1. CASE Return(w)
      BY <1>1, <1>3, <2>1, ReadReturns DEF FinishRow
    <2>2. CASE LeaseIfPresent(w, at[w]) /\ Continue(w, "finish.write") /\ UNCHANGED <<at, row>>
      <3>1. /\ pc'[w] = "finish.write" /\ UNCHANGED <<run, lease, token, asked>> /\ run = "running"
            /\ asked[w] \in Terminal
        BY <1>1, <1>3, <2>2 DEF Inv, TypeOK, FinishRow, Read, db, Continue, Goes, WorkerKnows, FinishPC
      <3>2. LeaseIfPresent(w, at[w])'
        BY <2>2, <3>1 DEF LeaseIfPresent, ActiveLease, Names, Readable
      <3>3. WorkerKnows(w)'
        BY <2>2, <3>1, <3>2 DEF WorkerKnows, AcquirePC, FinishPC, PutPC
      <3> QED BY <1>1, <1>3, <2>2, <3>3, ReadGoes DEF FinishRow, Continue, Holding, Inv, TypeOK
    <2> QED BY <1>3, <2>1, <2>2 DEF FinishRow
  <1>4. CASE FinishWrite(w)
    <2>1. pc[w] = "finish.write" /\ Alone(w)
      BY <1>1, <1>4, Holder DEF FinishWrite, Write, Holding
    <2>2. run = "running" /\ asked[w] \in Terminal /\ LeaseIfPresent(w, at[w])
      BY <2>1 DEF Inv, WorkerKnows, FinishPC
    <2>3. recon = None /\ recon' = None /\ run' = asked[w]
      BY <1>4, <2>2 DEF Inv, LeaseSound, ReconciledForGood, FinishWrite
    <2>4. LeaseSound' /\ lease' \in Row \cup {None}
      <3>1. CASE lease # None /\ lease.released = None
        <4>1. lease.beat <= at[w]
          BY <2>2, <3>1 DEF LeaseIfPresent, ActiveLease
        <4> QED BY <1>1, <1>4, <2>3, <3>1, <4>1, ReleaseSound DEF FinishWrite
      <3>2. CASE lease' = lease
        <4>1. LeaseSound'
          BY <2>3, <3>2 DEF Inv, LeaseSound, Readable, ReconciledForGood
        <4> QED BY <3>2, <4>1 DEF Inv, TypeOK
      <3> QED BY <1>4, <3>1, <3>2 DEF FinishWrite
    <2> QED BY <1>1, <1>4, <2>1, <2>2, <2>3, <2>4, Returned DEF FinishWrite, Write, Inv, TypeOK, Status
  <1> QED BY <1>2, <1>3, <1>4

LEMMA PutInv ==
  ASSUME Inv, OneInstance, NEW w \in Worker, PutStatus(w) \/ PutRow(w) \/ PutWrite(w)
  PROVE  Inv'
  <1>1. w \in Caller /\ w \notin Operator
    BY RunLeaseAssumption DEF Caller
  <1>2. CASE PutStatus(w)
    <2>1. PICK x \in Trajectory : asked' = [asked EXCEPT ![w] = x]
      BY <1>2 DEF PutStatus, With
    <2>2. Goes(w, "put.row") /\ UNCHANGED <<run, row, clock>> /\ at' = [at EXCEPT ![w] = clock]
      BY <1>2 DEF PutStatus, With, Read, db
    <2>3. pc'[w] = "put.row" /\ asked'[w] \in Trajectory /\ at'[w] = clock /\ clock \in Nat
      BY <1>1, <2>1, <2>2 DEF Goes, Inv, TypeOK
    <2>4. WorkerKnows(w)'
      BY <1>2, <2>2, <2>3 DEF PutStatus, WorkerKnows, AcquirePC, FinishPC, PutPC
    <2>5. at' \in [Caller -> Nat] /\ at'[w] <= clock
      <3>1. at' \in [Caller -> Nat]
        BY <2>2, <2>3 DEF Inv, TypeOK
      <3>2. at'[w] <= clock
        BY <2>3
      <3> QED BY <3>1, <3>2
    <2>6. asked' \in [Caller -> Identity \cup Terminal \cup Trajectory \cup {None}]
      BY <2>1 DEF Inv, TypeOK
    <2>7. \A d \in Caller \ {w} : at'[d] = at[d] /\ asked'[d] = asked[d]
      BY <2>1, <2>2 DEF Inv, TypeOK
    <2>8. Read(w, "idle") /\ Goes(w, "put.row") /\ "put.row" \in Holding
      BY <1>2, <2>2 DEF PutStatus, Holding
    <2>9. row' \in [Caller -> Preview]
      BY <2>2 DEF Inv, TypeOK
    <2> QED BY <1>1, <2>4, <2>5, <2>6, <2>7, <2>8, <2>9, ReadGoes
  <1>3. CASE PutRow(w)
    <2>1. CASE Return(w)
      BY <1>1, <1>3, <2>1, ReadReturns DEF PutRow
    <2>2. CASE LeaseIfPresent(w, at[w]) /\ Continue(w, "put.write") /\ UNCHANGED <<at, row>>
      <3>1. /\ pc'[w] = "put.write" /\ UNCHANGED <<run, lease, token, asked>> /\ run = "running"
            /\ asked[w] \in Trajectory
        BY <1>1, <1>3, <2>2 DEF Inv, TypeOK, PutRow, Read, db, Continue, Goes, WorkerKnows, PutPC
      <3>2. LeaseIfPresent(w, at[w])'
        BY <2>2, <3>1 DEF LeaseIfPresent, ActiveLease, Names, Readable
      <3>3. WorkerKnows(w)'
        BY <2>2, <3>1, <3>2 DEF WorkerKnows, AcquirePC, FinishPC, PutPC
      <3> QED BY <1>1, <1>3, <2>2, <3>3, ReadGoes DEF PutRow, Continue, Holding, Inv, TypeOK
    <2> QED BY <1>3, <2>1, <2>2 DEF PutRow
  <1>4. CASE PutWrite(w)
    <2>1. pc[w] = "put.write" /\ Alone(w)
      BY <1>1, <1>4, Holder DEF PutWrite, Write, Holding
    <2>2. asked[w] \in Trajectory
      BY <2>1 DEF Inv, WorkerKnows, PutPC
    <2>3. LeaseSound'
      BY <1>4, LeaseStays DEF PutWrite, Inv
    <2> QED BY <1>1, <1>4, <2>1, <2>2, <2>3, Returned DEF PutWrite, Write, Inv, TypeOK
  <1> QED BY <1>2, <1>3, <1>4

-----------------------------------------------------------------------------
(* The calls of an operator                                                  *)

\* A read of an operator that goes on with what it knows then.
LEMMA OperatorGoes ==
  ASSUME Inv, OneInstance, NEW o \in Operator, NEW here, NEW l \in Holding,
         Read(o, here), Continue(o, l), UNCHANGED <<at, row>>, OperatorKnows(o)'
  PROVE  Inv'
  <1>1. o \in Caller /\ o \notin Worker
    BY RunLeaseAssumption DEF Caller
  <1> QED BY <1>1, ReadGoes DEF Continue, Inv, TypeOK

LEMMA PreviewInv ==
  ASSUME Inv, OneInstance, NEW o \in Operator, PreviewCall(o) \/ PreviewRun(o) \/ PreviewRow(o)
  PROVE  Inv'
  <1>1. o \in Caller /\ o \notin Worker
    BY RunLeaseAssumption DEF Caller
  <1>2. CASE PreviewCall(o)
    BY <1>1, <1>2, Begins DEF PreviewCall
  <1>3. CASE PreviewRun(o)
    <2>1. CASE Return(o)
      BY <1>1, <1>3, <2>1, ReadReturns DEF PreviewRun
    <2>2. CASE run = "running" /\ Continue(o, "preview.row") /\ UNCHANGED <<at, row>>
      <3>1. pc'[o] = "preview.row" /\ UNCHANGED run
        BY <1>1, <1>3, <2>2 DEF Inv, TypeOK, PreviewRun, Read, db, Continue, Goes
      <3>2. OperatorKnows(o)'
        BY <2>2, <3>1 DEF OperatorKnows
      <3> QED BY <1>3, <2>2, <3>2, OperatorGoes DEF PreviewRun, Holding
    <2> QED BY <1>3, <2>1, <2>2 DEF PreviewRun
  <1>4. CASE PreviewRow(o)
    <2>1. CASE Return(o)
      BY <1>1, <1>4, <2>1, ReadReturns DEF PreviewRow
    <2>2. CASE Leave(o, "previewed") /\ row' = [row EXCEPT ![o] = lease] /\ UNCHANGED asked
      <3>1. Alone(o)
        BY <1>1, <1>4, Unshared DEF PreviewRow, Read
      <3>2. TypeOK'
        BY <1>1, <1>4, <2>2, RunLeaseAssumption
        DEF Inv, TypeOK, PreviewRow, Read, db, Leave, PC, ReconcilePC, Preview
      <3>3. pc'[o] = "previewed" /\ at'[o] = 0
        BY <1>1, <2>2 DEF Inv, TypeOK, Leave
      <3>4. OperatorKnows(o)' /\ LeaseSound' /\ at'[o] <= clock
        BY <1>4, <3>3, LeaseStays DEF OperatorKnows, PreviewRow, Read, db, Inv, TypeOK
      <3>5. \A d \in Caller \ {o} : pc'[d] = pc[d] /\ at'[d] = at[d] /\ asked'[d] = asked[d]
        BY <2>2 DEF Inv, TypeOK, Leave
      <3> QED BY <1>1, <1>4, <3>1, <3>2, <3>3, <3>4, <3>5, Stepped DEF PreviewRow, Read, Holding
    <2> QED BY <1>4, <2>1, <2>2 DEF PreviewRow
  <1> QED BY <1>2, <1>3, <1>4

LEMMA ReconcileReadsInv ==
  ASSUME Inv, OneInstance, NEW o \in Operator,
         ReconcileCall(o) \/ ReconcileExisting(o) \/ ReconcileRun(o) \/ ReconcileRow(o)
  PROVE  Inv'
  <1>1. o \in Caller /\ o \notin Worker
    BY RunLeaseAssumption DEF Caller
  <1>2. CASE ReconcileCall(o)
    BY <1>1, <1>2, Begins DEF ReconcileCall
  <1>3. CASE ReconcileExisting(o)
    <2>1. CASE Return(o)
      BY <1>1, <1>3, <2>1, ReadReturns DEF ReconcileExisting
    <2>2. CASE recon = None /\ Continue(o, "reconcile.run") /\ UNCHANGED <<at, row>>
      <3>1. pc'[o] = "reconcile.run" /\ UNCHANGED recon
        BY <1>1, <1>3, <2>2 DEF Inv, TypeOK, ReconcileExisting, Read, db, Continue, Goes
      <3>2. OperatorKnows(o)'
        BY <2>2, <3>1 DEF OperatorKnows
      <3> QED BY <1>3, <2>2, <3>2, OperatorGoes DEF ReconcileExisting, Holding
    <2> QED BY <1>3, <2>1, <2>2 DEF ReconcileExisting
  <1>4. CASE ReconcileRun(o)
    <2>1. CASE Return(o)
      BY <1>1, <1>4, <2>1, ReadReturns DEF ReconcileRun
    <2>2. CASE run = "running" /\ Continue(o, "reconcile.row") /\ UNCHANGED <<at, row>>
      <3>1. pc'[o] = "reconcile.row" /\ UNCHANGED <<run, recon>> /\ recon = None
        BY <1>1, <1>4, <2>2 DEF Inv, TypeOK, ReconcileRun, Read, db, Continue, Goes, OperatorKnows
      <3>2. OperatorKnows(o)'
        BY <2>2, <3>1 DEF OperatorKnows
      <3> QED BY <1>4, <2>2, <3>2, OperatorGoes DEF ReconcileRun, Holding
    <2> QED BY <1>4, <2>1, <2>2 DEF ReconcileRun
  <1>5. CASE ReconcileRow(o)
    <2>1. CASE Return(o)
      BY <1>1, <1>5, <2>1, ReadReturns DEF ReconcileRow
    <2>2. CASE /\ Readable /\ Stale(at[o]) /\ lease = row[o]
               /\ Continue(o, "reconcile.write") /\ UNCHANGED <<at, row>>
      <3>1. /\ pc'[o] = "reconcile.write" /\ UNCHANGED <<run, recon, lease>>
            /\ recon = None /\ run = "running"
        BY <1>1, <1>5, <2>2 DEF Inv, TypeOK, ReconcileRow, Read, db, Continue, Goes, OperatorKnows
      <3>2. OperatorKnows(o)'
        BY <2>2, <3>1 DEF OperatorKnows, Stale
      <3> QED BY <1>5, <2>2, <3>2, OperatorGoes DEF ReconcileRow, Holding
    <2> QED BY <1>5, <2>1, <2>2 DEF ReconcileRow
  <1> QED BY <1>2, <1>3, <1>4, <1>5

LEMMA ReconcileWriteInv ==
  ASSUME Inv, OneInstance, NEW o \in Operator, ReconcileWrite(o)
  PROVE  Inv'
  <1>1. o \in Caller /\ pc[o] = "reconcile.write" /\ Alone(o)
    BY Holder DEF Caller, ReconcileWrite, Write, Holding
  <1>2. recon = None /\ lease = row[o] /\ at[o] \in Nat /\ o \in Owner
    BY <1>1 DEF Inv, OperatorKnows, TypeOK, Owner
  <1> DEFINE epoch == IF row[o] = None THEN 1 ELSE row[o].epoch + 1
  <1>3. epoch \in 1..MaxEpoch + 1
    BY <1>2, RunLeaseAssumption DEF Inv, TypeOK, Row, LeaseSound
  <1>4. /\ lease' = [owner |-> o, epoch |-> epoch, acquired |-> at[o],
                     beat |-> at[o], expires |-> at[o], released |-> at[o]]
        /\ run' = "failed" /\ recon' = epoch
    BY <1>2 DEF ReconcileWrite
  <1> HIDE DEF epoch
  <1>5. lease' \in Row
    BY <1>2, <1>3, <1>4 DEF Row
  <1>6. lease' # None /\ at[o] # None /\ recon' # None
    BY <1>2, <1>3, <1>4, <1>5, RunLeaseAssumption
  <1>7. LeaseSound'
    BY <1>2, <1>4, <1>6 DEF LeaseSound, Readable, ReconciledForGood
  <1> QED BY <1>1, <1>3, <1>4, <1>5, <1>7, Returned
          DEF ReconcileWrite, Write, Inv, TypeOK, Status, Terminal, Reconciliation

-----------------------------------------------------------------------------
(* Every step                                                                *)

LEMMA TickInv ==
  ASSUME Inv, Tick
  PROVE  Inv'
  <1>1. UNCHANGED <<run, lease, recon, attached, lock, pc, at, token, row, asked>>
    BY DEF Tick, db
  <1>2. clock' \in 0..MaxClock /\ clock <= clock' /\ clock \in Nat
    BY RunLeaseAssumption DEF Inv, TypeOK, Tick
  <1>3. TypeOK'
    BY <1>1, <1>2 DEF Inv, TypeOK
  <1>4. Held'
    BY <1>1 DEF Inv, Held
  <1>5. LeaseSound'
    BY <1>1, LeaseStays DEF Inv
  <1>6. \A c \in Caller : at'[c] <= clock'
    <2> SUFFICES ASSUME NEW c \in Caller PROVE at[c] <= clock'
      BY <1>1
    <2>1. at[c] \in Nat /\ at[c] <= clock /\ clock' \in Nat
      BY <1>2, RunLeaseAssumption DEF Inv, TypeOK
    <2> QED BY <1>2, <2>1
  <1>7. \A w \in Worker : WorkerKnows(w)'
    BY <1>1 DEF Inv, WorkerKnows, Acquired, ActiveLease, LeaseIfPresent, Names, Readable
  <1>8. \A o \in Operator : OperatorKnows(o)'
    BY <1>1 DEF Inv, OperatorKnows, Stale
  <1> QED BY <1>3, <1>4, <1>5, <1>6, <1>7, <1>8 DEF Inv

\* One instance: all its callers die, or none.
LEMMA CrashInv ==
  ASSUME Inv, OneInstance, NEW i \in Store, Crash(i)
  PROVE  Inv'
  <1>1. TypeOK'
    BY RunLeaseAssumption DEF Inv, TypeOK, Crash, db, PC, Preview, Caller
  <1>2. LeaseSound'
    BY LeaseStays DEF Inv, Crash, db
  <1>3. CASE \A c \in Caller : StoreOf[c] = i
    <2>1. \A c \in Caller : pc'[c] = "idle" /\ at'[c] = 0
      BY <1>3 DEF Crash
    <2>2. Held' /\ \A w \in Worker : WorkerKnows(w)'
      BY <2>1 DEF Held, Holding, WorkerKnows, AcquirePC, FinishPC, PutPC, Caller
    <2>3. \A o \in Operator : OperatorKnows(o)'
      BY <2>1 DEF OperatorKnows, Caller
    <2>4. \A c \in Caller : at'[c] <= clock'
      BY <2>1 DEF Inv, TypeOK, Crash
    <2> QED BY <1>1, <1>2, <2>2, <2>3, <2>4 DEF Inv
  <1>4. CASE \A c \in Caller : StoreOf[c] # i
    <2>1. \A c \in Caller : pc'[c] = pc[c] /\ at'[c] = at[c] /\ row'[c] = row[c] /\ asked'[c] = asked[c]
      BY <1>4 DEF Crash
    <2>2. \A w \in Worker : token'[w] = token[w]
      BY <1>4 DEF Crash, Caller
    <2>3. UNCHANGED <<clock, run, lease, recon>>
      BY DEF Crash, db
    <2>4. Held'
      <3> SUFFICES ASSUME NEW c \in Caller, pc'[c] \in Holding PROVE lock'[StoreOf[c]] = c
        BY DEF Held
      <3>1. lock[StoreOf[c]] = c
        BY <2>1 DEF Inv, Held
      <3> QED BY <1>4, <3>1, RunLeaseAssumption DEF Crash, Inv, TypeOK
    <2>5. ASSUME NEW w \in Worker PROVE WorkerKnows(w)'
      <3>1. WorkerKnows(w) /\ w \in Caller
        BY DEF Inv, Caller
      <3> QED BY <2>1, <2>2, <2>3, <3>1 DEF WorkerKnows, Acquired, ActiveLease, LeaseIfPresent, Names, Readable
    <2>6. ASSUME NEW o \in Operator PROVE OperatorKnows(o)'
      BY <2>1, <2>3 DEF Inv, Caller, OperatorKnows, Stale
    <2>7. \A c \in Caller : at'[c] <= clock'
      BY <2>1, <2>3 DEF Inv
    <2> QED BY <1>1, <1>2, <2>4, <2>5, <2>6, <2>7 DEF Inv
  <1> QED BY <1>3, <1>4 DEF OneInstance

LEMMA NextInv ==
  ASSUME OneInstance, Inv, [Next]_vars
  PROVE  Inv'
  <1>1. CASE Tick
    BY <1>1, TickInv
  <1>2. CASE \E i \in Store : Crash(i)
    BY <1>2, CrashInv
  <1>3. ASSUME NEW w \in Worker, Work(w) PROVE Inv'
    BY <1>3, AcquireInv, RenewInv, ReleaseInv, FinishInv, PutInv DEF Work
  <1>4. ASSUME NEW o \in Operator, Operate(o) PROVE Inv'
    BY <1>4, PreviewInv, ReconcileReadsInv, ReconcileWriteInv DEF Operate
  <1>5. CASE UNCHANGED vars
    BY <1>5 DEF vars, db, Inv, TypeOK, Held, LeaseSound, Readable, ReconciledForGood,
       WorkerKnows, OperatorKnows, Acquired, ActiveLease, LeaseIfPresent, Names, Readable, Stale
  <1> QED BY <1>1, <1>2, <1>3, <1>4, <1>5 DEF Next

LEMMA Inductive ==
  ASSUME OneInstance
  PROVE  Spec => []Inv
  <1>1. Inv /\ [Next]_vars => Inv'
    BY NextInv
  <1> QED BY <1>1, InitInv, PTL DEF Spec

-----------------------------------------------------------------------------
(* What a step does to the database                                          *)

LEMMA OnlyWrites ==
  ASSUME [Next]_vars
  PROVE  \/ UNCHANGED db
         \/ \E w \in Worker : \/ AcquireWrite(w) \/ RenewWrite(w) \/ ReleaseWrite(w)
                              \/ FinishWrite(w) \/ PutWrite(w)
         \/ \E o \in Operator : ReconcileWrite(o)
  <1>1. CASE Tick \/ (\E i \in Store : Crash(i)) \/ UNCHANGED vars
    BY <1>1 DEF Tick, Crash, vars, db
  <1>2. ASSUME NEW w \in Worker, Work(w)
        PROVE  \/ UNCHANGED db
               \/ AcquireWrite(w) \/ RenewWrite(w) \/ ReleaseWrite(w) \/ FinishWrite(w) \/ PutWrite(w)
    BY <1>2 DEF Work, AcquireCall, AcquireStatus, AcquireRow, RenewCall, RenewStatus, RenewRow,
       ReleaseCall, ReleaseRow, FinishStatus, FinishRow, PutStatus, PutRow, Begin, Read
  <1>3. ASSUME NEW o \in Operator, Operate(o) PROVE UNCHANGED db \/ ReconcileWrite(o)
    BY <1>3 DEF Operate, PreviewCall, PreviewRun, PreviewRow, ReconcileCall, ReconcileExisting,
       ReconcileRun, ReconcileRow, Begin, Read
  <1> QED BY <1>1, <1>2, <1>3 DEF Next

LEMMA ReconcileWrites ==
  ASSUME Inv, NEW o \in Operator, ReconcileWrite(o)
  PROVE  /\ pc[o] = "reconcile.write" /\ run = "running" /\ row[o] = lease
         /\ Stale(at[o]) /\ at[o] <= clock /\ at[o] \in Nat /\ clock \in Nat
         /\ attached' = attached
         /\ lease # None => lease'.epoch = lease.epoch + 1
         /\ lease' = [owner |-> o, epoch |-> lease'.epoch, acquired |-> at[o],
                      beat |-> at[o], expires |-> at[o], released |-> at[o]]
  <1>1. pc[o] = "reconcile.write" /\ o \in Caller
    BY DEF ReconcileWrite, Write, Caller
  <1>2. run = "running" /\ recon = None /\ row[o] = lease /\ Stale(at[o])
    BY <1>1 DEF Inv, OperatorKnows
  <1>3. at[o] <= clock /\ at[o] \in Nat /\ clock \in Nat
    BY <1>1 DEF Inv, TypeOK
  <1>4. lease' = [owner |-> o, epoch |-> IF lease = None THEN 1 ELSE lease.epoch + 1,
                  acquired |-> at[o], beat |-> at[o], expires |-> at[o], released |-> at[o]]
    BY <1>2 DEF ReconcileWrite
  <1> QED BY <1>1, <1>2, <1>3, <1>4 DEF ReconcileWrite

\* The heartbeat row stays, is refreshed by who holds it, or passes on.
Refreshed ==
  /\ lease' # None
  /\ lease'.owner = lease.owner /\ lease'.epoch = lease.epoch
  /\ lease'.acquired = lease.acquired /\ lease.beat <= lease'.beat
PassedOn ==
  /\ lease' # None /\ lease'.epoch = lease.epoch + 1
  /\ lease.released # None \/ lease.expires <= clock

LEMMA AcquirePasses ==
  ASSUME Inv, NEW w \in Worker, AcquireWrite(w), lease # None
  PROVE  Refreshed \/ PassedOn
  <1>1. w \in Caller /\ pc[w] = "acquire.write"
    BY DEF Caller, AcquireWrite, Write
  <1>2. row[w] = Acquired(w) /\ row[w] # None /\ at[w] <= clock
    BY <1>1 DEF Inv, WorkerKnows
  <1>3. at[w] \in Nat /\ clock \in Nat /\ row[w] \in Row /\ lease \in Row
    BY <1>1, <1>2 DEF Inv, TypeOK, Preview
  <1>4. PICK ttl \in TTLs : lease' = [row[w] EXCEPT !.beat = at[w], !.expires = at[w] + ttl]
    BY DEF AcquireWrite
  <1>5. /\ lease'.owner = row[w].owner /\ lease'.epoch = row[w].epoch
        /\ lease'.acquired = row[w].acquired /\ lease'.beat = at[w]
    BY <1>3, <1>4 DEF Row
  <1>6. lease' # None
    <2>1. at[w] + ttl \in Nat
      BY <1>3, RunLeaseAssumption
    <2>2. lease' \in Row
      BY <1>3, <1>4, <2>1 DEF Row
    <2> QED BY <2>2, RunLeaseAssumption
  <1>7. CASE lease.released = None /\ lease.expires > at[w]
    <2>1. row[w] = lease /\ at[w] >= lease.beat
      BY <1>2, <1>7 DEF Acquired
    <2> QED BY <1>3, <1>5, <1>6, <2>1 DEF Refreshed, Row
  <1>8. CASE ~(lease.released = None /\ lease.expires > at[w])
    <2>1. row[w].epoch = lease.epoch + 1
      BY <1>2, <1>8 DEF Acquired
    <2>2. lease.released # None \/ lease.expires <= clock
      BY <1>2, <1>3, <1>8 DEF Row
    <2> QED BY <1>5, <1>6, <2>1, <2>2 DEF PassedOn
  <1> QED BY <1>7, <1>8

LEMMA HolderRefreshes ==
  ASSUME Inv, NEW w \in Worker, RenewWrite(w) \/ ReleaseWrite(w) \/ FinishWrite(w),
         lease # None, lease' # lease
  PROVE  Refreshed
  <1>1. w \in Caller /\ lease \in Row /\ at[w] \in Nat
    BY DEF Caller, Inv, TypeOK
  <1>2. CASE RenewWrite(w)
    <2>1. lease.beat <= at[w]
      BY <1>2 DEF Inv, WorkerKnows, ActiveLease, RenewWrite, Write
    <2>2. PICK ttl \in TTLs : lease' = [lease EXCEPT !.beat = at[w], !.expires = at[w] + ttl]
      BY <1>2 DEF RenewWrite
    <2>3. at[w] + ttl \in Nat
      BY <1>1, RunLeaseAssumption
    <2>4. lease' \in Row
      BY <1>1, <2>2, <2>3 DEF Row
    <2> QED BY <1>1, <2>1, <2>2, <2>4, RunLeaseAssumption DEF Refreshed, Row
  <1>3. CASE lease' = [lease EXCEPT !.expires = at[w], !.released = at[w]]
    <2>1. lease' \in Row
      BY <1>1, <1>3 DEF Row
    <2>2. lease' # None
      BY <2>1, RunLeaseAssumption
    <2>3. /\ lease'.owner = lease.owner /\ lease'.epoch = lease.epoch
          /\ lease'.acquired = lease.acquired /\ lease'.beat = lease.beat /\ lease.beat \in Nat
      BY <1>1, <1>3 DEF Row
    <2> QED BY <2>2, <2>3 DEF Refreshed
  <1> QED BY <1>2, <1>3 DEF ReleaseWrite, FinishWrite

LEMMA ReconcileTakes ==
  ASSUME Inv, NEW o \in Operator, ReconcileWrite(o), lease # None, lease' # None
  PROVE  PassedOn
  <1>1. /\ Stale(at[o]) /\ at[o] <= clock /\ at[o] \in Nat /\ clock \in Nat /\ lease \in Row
        /\ lease' = [owner |-> o, epoch |-> lease.epoch + 1, acquired |-> at[o],
                     beat |-> at[o], expires |-> at[o], released |-> at[o]]
    BY ReconcileWrites DEF Inv, TypeOK
  <1>2. lease.released # None \/ lease.expires <= clock
    BY <1>1 DEF Stale, Row
  <1> QED BY <1>1, <1>2 DEF PassedOn

LEMMA LeaseMoves ==
  ASSUME OneInstance, Inv, [Next]_vars, lease # None, lease' # lease
  PROVE  Refreshed \/ PassedOn
  <1>1. \/ \E w \in Worker : AcquireWrite(w) \/ RenewWrite(w) \/ ReleaseWrite(w) \/ FinishWrite(w)
        \/ \E o \in Operator : ReconcileWrite(o)
    BY OnlyWrites DEF db, PutWrite
  <1>2. ASSUME NEW o \in Operator, ReconcileWrite(o) PROVE lease' # None
    <2>1. recon' = lease.epoch + 1
      BY <1>2, ReconcileWrites DEF ReconcileWrite, Write, Inv, OperatorKnows
    <2>2. recon' \in Nat
      BY <2>1 DEF Inv, TypeOK, Row
    <2>3. Inv'
      BY <1>2, ReconcileWriteInv
    <2> QED BY <2>2, <2>3, RunLeaseAssumption DEF Inv, LeaseSound, ReconciledForGood
  <1> QED BY <1>1, <1>2, AcquirePasses, HolderRefreshes, ReconcileTakes

-----------------------------------------------------------------------------
(* What the callers of one instance keep                                     *)

\* Every heartbeat row that is stored can be read again.
THEOREM RowsStayReadable == ASSUME OneInstance PROVE Spec => []RowsReadable
  <1>1. Inv => RowsReadable
    BY DEF Inv, LeaseSound, RowsReadable
  <1> QED BY <1>1, Inductive, PTL

\* Within an epoch the heartbeat of a lease never goes back.
THEOREM HeartbeatsAdvance == ASSUME OneInstance PROVE Spec => BeatsForward
  <1>1. Inv /\ [Next]_vars => [BeatForward]_vars
    <2> SUFFICES ASSUME Inv, [Next]_vars, lease # None, lease'.epoch = lease.epoch
                 PROVE  lease'.beat >= lease.beat
      BY DEF BeatForward
    <2>1. lease.beat \in Nat /\ lease.epoch \in Nat
      BY DEF Inv, TypeOK, Row
    <2> QED BY <2>1, LeaseMoves DEF Refreshed, PassedOn
  <1> QED BY <1>1, Inductive, PTL DEF Spec, BeatsForward
=============================================================================
