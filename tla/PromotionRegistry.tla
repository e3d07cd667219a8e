------------------------- MODULE PromotionRegistry --------------------------
(***************************************************************************)
(* ExperimentPromotionRegistry                                             *)
(* (src/agentic_rl_forge/experiments/promotion_registry.py): an append-    *)
(* only stream of lifecycle events for each promotion and one of alias     *)
(* events for each environment, in a ConditionalBlobStore.  An operator    *)
(* previews a decision, confirms the preview, and executes it: the preview *)
(* is computed again and its event is put in the next slot of its stream.  *)
(*                                                                         *)
(* Streams are read one after the other.  What a read returned is kept as  *)
(* a length, as the slots of a stream are written once.  An event is the   *)
(* preview it commits; the evidence of a decision (archive, signatures,    *)
(* authorizers), which does not change between its steps, is left out.     *)
(***************************************************************************)
EXTENDS Integers, FiniteSets, Sequences

CONSTANTS
  Operator,
  Promotion,
  Environment,
  AllowedStages,   \* ExperimentPromotionAliasPolicy.allowed_stages
  Wanted,          \* bound: the commands operators give
  MaxTransitions,  \* bound: lifecycle events of a promotion
  MaxGenerations,  \* bound: alias events of an environment
  None

Stage == {"candidate", "staging", "production", "retired"}

\* What an operator may ask for: a stage of a promotion, or an environment's
\* alias to it.
Transition == [stream : Promotion, target : Stage]
AliasChange == [stream : Environment, promotion : Promotion,
                action : {"assign", "rollback"}]
Command == Transition \cup AliasChange

ASSUME PromotionRegistryAssumption ==
  /\ Promotion \cap Environment = {}
  /\ None \notin Stage \cup Promotion
  /\ AllowedStages \subseteq Stage \ {"retired"}
  /\ MaxTransitions \in 1..4
  /\ MaxGenerations \in Nat
  /\ Wanted \subseteq Command

Stream == Promotion \cup Environment
Bound(s) == IF s \in Promotion THEN MaxTransitions ELSE MaxGenerations

VARIABLES
  history,    \* the events of each stream
  since,      \* for each, what its execution began with of other streams
  pc,         \* where each operator is
  cmd,        \* the decision it asks for
  confirmed,  \* the preview it has, which an execution confirms
  phase,      \* which call of status() is running
  left,       \* streams that call has still to read
  seen,       \* events it has read of each stream
  life,       \* events read of the promotion's own lifecycle
  begun       \* what its execution began with of other streams

record == <<history, since>>
calls == <<phase, left, seen, life>>
vars == <<record, pc, cmd, confirmed, calls, begun>>

LifecycleEvent == [stream : Promotion, number : 1..4, target : Stage,
                   active : SUBSET Environment]
AliasEvent == [stream : Environment, number : 1..MaxGenerations + 1,
               promotion : Promotion, action : {"assign", "rollback"},
               event : 1..4, ancestor : 0..MaxGenerations]

TypeOK ==
  /\ \A p \in Promotion : Len(history[p]) <= 4 /\ \A i \in 1..Len(history[p]) :
       history[p][i] \in LifecycleEvent /\ history[p][i].number = i
  /\ \A e \in Environment : Len(history[e]) <= MaxGenerations /\
       \A i \in 1..Len(history[e]) :
         history[e][i] \in AliasEvent /\ history[e][i].number = i
  /\ pc \in [Operator -> {"idle", "previewed", "status", "reading", "slot",
                          "lifecycle", "aliases", "put"}]
  /\ \A o \in Operator : cmd[o] \in Command \cup {None}
  /\ \A o \in Operator : confirmed[o] # None => confirmed[o].stream \in Stream
  /\ phase \in [Operator -> {"entry", "clean", "active"}]
  /\ left \in [Operator -> SUBSET Stream]
  /\ seen \in [Operator -> [Stream -> 0..4 + MaxGenerations]]
  /\ life \in [Operator -> 0..4]
  /\ begun \in [Operator -> [Stream -> Nat]]
  /\ since \in [Stream -> Seq([Stream -> Nat])]

Nothing == [s \in Stream |-> 0]

Init ==
  /\ history = [s \in Stream |-> <<>>]
  /\ since = [s \in Stream |-> <<>>]
  /\ begun = [o \in Operator |-> Nothing]
  /\ pc = [o \in Operator |-> "idle"]
  /\ cmd = [o \in Operator |-> None]
  /\ confirmed = [o \in Operator |-> None]
  /\ phase = [o \in Operator |-> "entry"]
  /\ left = [o \in Operator |-> {}]
  /\ seen = [o \in Operator |-> Nothing]
  /\ life = [o \in Operator |-> 0]

-----------------------------------------------------------------------------
(* What a reader concludes from the first n[s] events of each stream s. *)

StageAt(p, n) == IF n = 0 THEN None ELSE history[p][n].target
AliasAt(e, n) == IF n = 0 THEN None ELSE history[e][n].promotion

\* An alias stream is sound when its events name lifecycle events that were
\* read and its last one points to a promotion that is not retired.
AliasSound(e, n) ==
  /\ \A i \in 1..n[e] : history[e][i].event <= n[history[e][i].promotion]
  /\ n[e] > 0 => StageAt(AliasAt(e, n[e]), n[AliasAt(e, n[e])]) # "retired"

Valid(n) == \A e \in Environment : AliasSound(e, n)

\* status().aliases leaves out the streams that are not sound.
ActiveFor(p, n) == {e \in Environment : AliasAt(e, n[e]) = p /\ AliasSound(e, n)}

\* The other streams that forbid a decision: a retirement the aliases, an alias the
\* lifecycle of its promotion.
Others(v) ==
  IF v.stream \in Environment THEN {v.promotion}
  ELSE {e \in Environment : v.target = "retired"}
OfOthers(v) == [s \in Stream |-> IF s \in Others(v) THEN Len(history[s]) ELSE 0]

AllowedTargets(stage) ==
  CASE stage = None         -> {"candidate"}
    [] stage = "candidate"  -> {"retired", "staging"}
    [] stage = "staging"    -> {"production", "retired"}
    [] stage = "production" -> {"retired"}
    [] stage = "retired"    -> {}

\* The checks of a preview.
TransitionEligible(v) ==
  /\ v.target \in AllowedTargets(StageAt(v.stream, v.number - 1))
  /\ v.target = "retired" => v.active = {}

AliasEligible(v) ==
  /\ AliasAt(v.stream, v.number - 1) # v.promotion
  /\ StageAt(v.promotion, v.event) \in AllowedStages
  /\ v.action = "rollback" => v.ancestor # 0

Eligible(v) ==
  IF v.stream \in Promotion THEN TransitionEligible(v) ELSE AliasEligible(v)

\* The generation a rollback goes back to: the last one, before the current, that
\* pointed to this promotion.
Ancestors(c, n) == {i \in 1..n - 1 : history[c.stream][i].promotion = c.promotion}
Ancestor(c, n) ==
  IF c.action = "assign" \/ Ancestors(c, n) = {} THEN 0
  ELSE CHOOSE i \in Ancestors(c, n) : \A j \in Ancestors(c, n) : j <= i

LifecyclePreview(o) ==
  [stream |-> cmd[o].stream, number |-> life[o] + 1, target |-> cmd[o].target,
   active |-> ActiveFor(cmd[o].stream, seen[o])]

AliasPreview(o) ==
  LET c == cmd[o]  n == Len(history[c.stream])
  IN  [stream |-> c.stream, number |-> n + 1, promotion |-> c.promotion,
       action |-> c.action, event |-> life[o], ancestor |-> Ancestor(c, n)]

-----------------------------------------------------------------------------
(* Steps of a call *)

Goes(o, l) == pc' = [pc EXCEPT ![o] = l]
Clear(o) ==
  /\ phase' = [phase EXCEPT ![o] = "entry"]
  /\ left' = [left EXCEPT ![o] = {}]
  /\ seen' = [seen EXCEPT ![o] = Nothing]
  /\ life' = [life EXCEPT ![o] = 0]

\* The call ends; a preview the operator has stays with it.
Ends(o) ==
  /\ Goes(o, IF confirmed[o] = None THEN "idle" ELSE "previewed")
  /\ cmd' = IF confirmed[o] = None THEN [cmd EXCEPT ![o] = None] ELSE cmd
  /\ begun' = [begun EXCEPT ![o] = Nothing]
  /\ Clear(o)

Status(o, f) ==
  /\ Goes(o, "status")
  /\ phase' = [phase EXCEPT ![o] = f]
  /\ left' = [left EXCEPT ![o] = {}]
  /\ seen' = [seen EXCEPT ![o] = Nothing]

Preview(o, c) ==
  /\ pc[o] \in {"idle", "previewed"}
  /\ cmd' = [cmd EXCEPT ![o] = c]
  /\ confirmed' = [confirmed EXCEPT ![o] = None]
  /\ Status(o, "clean")
  /\ UNCHANGED <<record, life, begun>>

Execute(o) ==
  /\ pc[o] = "previewed"
  /\ Status(o, "entry")
  /\ begun' = [begun EXCEPT ![o] = OfOthers(confirmed[o])]
  /\ UNCHANGED <<record, cmd, confirmed, life>>

\* status() lists all keys, then reads the promotions and the environments listed.
ListStreams(o) ==
  /\ pc[o] = "status"
  /\ left' = [left EXCEPT ![o] = {s \in Stream : history[s] # <<>>}]
  /\ Goes(o, "reading")
  /\ UNCHANGED <<record, cmd, confirmed, phase, seen, life, begun>>

ReadStream(o, s) ==
  /\ pc[o] = "reading" /\ s \in left[o]
  /\ s \in Environment => left[o] \cap Promotion = {}
  /\ seen' = [seen EXCEPT ![o][s] = Len(history[s])]
  /\ left' = [left EXCEPT ![o] = @ \ {s}]
  /\ UNCHANGED <<record, pc, cmd, confirmed, phase, life, begun>>

\* Mutant: an execution trusts the preview it confirms.
DecideConfirmed(o, v) ==
  IF confirmed[o] = None
  THEN /\ confirmed' = [confirmed EXCEPT ![o] = v]
       /\ Goes(o, "previewed") /\ Clear(o) /\ UNCHANGED <<cmd, begun>>
  ELSE /\ IF Eligible(confirmed[o])
          THEN Goes(o, "put") /\ Clear(o) /\ UNCHANGED <<cmd, begun>>
          ELSE Ends(o)
       /\ UNCHANGED confirmed

\* A preview is returned; an execution goes on when it is still the same and
\* eligible.
Decide(o, v) ==
  IF confirmed[o] = None
  THEN /\ confirmed' = [confirmed EXCEPT ![o] = v]
       /\ Goes(o, "previewed") /\ Clear(o) /\ UNCHANGED <<cmd, begun>>
  ELSE /\ IF v = confirmed[o] /\ Eligible(v)
          THEN Goes(o, "put") /\ Clear(o) /\ UNCHANGED <<cmd, begun>>
          ELSE Ends(o)
       /\ UNCHANGED confirmed

\* _require_clean_registry, and the second status() of preview_lifecycle, whose
\* verdict is not looked at.
StatusEnds(o) ==
  /\ pc[o] = "reading" /\ left[o] = {}
  /\ \/ phase[o] # "active" /\ ~Valid(seen[o]) /\ Ends(o) /\ UNCHANGED confirmed
     \/ /\ phase[o] # "active" /\ Valid(seen[o])
        /\ Goes(o, IF phase[o] = "entry" THEN "slot" ELSE "lifecycle")
        /\ Clear(o) /\ UNCHANGED <<cmd, confirmed, begun>>
     \/ phase[o] = "active" /\ Decide(o, LifecyclePreview(o))
  /\ UNCHANGED record

\* An execution that finds its own event has been done before.
ReadSlot(o) ==
  /\ pc[o] = "slot"
  /\ IF confirmed[o].number <= Len(history[confirmed[o].stream])
     THEN Ends(o)
     ELSE Status(o, "clean") /\ UNCHANGED <<cmd, life, begun>>
  /\ UNCHANGED <<record, confirmed>>

ReadLifecycle(o) ==
  /\ pc[o] = "lifecycle"
  /\ LET c == cmd[o]
         n == Len(history[IF c.stream \in Promotion THEN c.stream ELSE c.promotion])
     IN  \/ /\ c.stream \in Promotion
            /\ life' = [life EXCEPT ![o] = n]
            /\ Status(o, "active") /\ UNCHANGED <<cmd, begun>>
         \/ /\ c.stream \in Environment /\ n > 0
            /\ life' = [life EXCEPT ![o] = n]
            /\ Goes(o, "aliases") /\ UNCHANGED <<cmd, phase, left, seen, begun>>
         \/ c.stream \in Environment /\ n = 0 /\ Ends(o)
  /\ UNCHANGED <<record, confirmed>>

ReadAliases(o) ==
  /\ pc[o] = "aliases"
  /\ Decide(o, AliasPreview(o))
  /\ UNCHANGED record

\* Mutant: the event takes the next slot there is.
PutNext(o) ==
  /\ pc[o] = "put"
  /\ LET v == confirmed[o]  n == Len(history[v.stream]) + 1
     IN  /\ n <= Bound(v.stream)                                      \* bound
         /\ history' = [history EXCEPT ![v.stream] = Append(@, [v EXCEPT !.number = n])]
         /\ since' = [since EXCEPT ![v.stream] = Append(@, begun[o])]
  /\ Ends(o)
  /\ UNCHANGED confirmed

\* put_if_absent in the slot of the preview: another decision may have taken it.
Put(o) ==
  /\ pc[o] = "put"
  /\ LET v == confirmed[o]
     IN  /\ v.number <= Bound(v.stream)                               \* bound
         /\ IF v.number = Len(history[v.stream]) + 1
            THEN /\ history' = [history EXCEPT ![v.stream] = Append(@, v)]
                 /\ since' = [since EXCEPT ![v.stream] = Append(@, begun[o])]
            ELSE UNCHANGED record
  /\ Ends(o)
  /\ UNCHANGED confirmed

\* The command dies; the operator has the preview file, and may run it again.
Crash(o) ==
  /\ pc[o] \notin {"idle", "previewed"}
  /\ Ends(o)
  /\ UNCHANGED <<record, confirmed>>

Next ==
  \E o \in Operator :
    \/ \E c \in Wanted : Preview(o, c)
    \/ Execute(o) \/ ListStreams(o) \/ StatusEnds(o) \/ ReadSlot(o)
    \/ \E s \in Stream : ReadStream(o, s)
    \/ ReadLifecycle(o) \/ ReadAliases(o) \/ Put(o) \/ Crash(o)

Spec == Init /\ [][Next]_vars

-----------------------------------------------------------------------------
(* Properties *)

\* "Concurrent decisions for the same next sequence compete for one conditional-
\* create key" (docs/experiments.md): whoever raced, every lifecycle follows the
\* allowed transitions.
LifecyclesLegal ==
  \A p \in Promotion : \A i \in 1..Len(history[p]) :
    history[p][i].target \in AllowedTargets(StageAt(p, i - 1))

\* A rollback goes back to the last generation, before the one it replaces, that
\* pointed to its promotion.
RollsBack(e, i) ==
  LET a == history[e][i].ancestor
  IN  /\ a \in 1..i - 2 /\ AliasAt(e, a) = AliasAt(e, i)
      /\ \A j \in a + 1..i - 2 : AliasAt(e, j) # AliasAt(e, i)

\* "aliases use compare-and-swap generations, and rollback requires verified ancestry
\* in the same environment" (README.md): whoever competed for a generation, the
\* decision in it moves the environment away from the promotion of the generation
\* before, to one whose stage the policy allowed at some time after its execution
\* began; and the ancestry of a rollback, read before others took generations, is
\* still that of the generation it got.
AliasesMove ==
  \A e \in Environment : \A i \in 1..Len(history[e]) :
    LET v == history[e][i]
    IN  /\ AliasAt(e, i) # AliasAt(e, i - 1)
        /\ since[e][i][v.promotion] <= v.event
        /\ StageAt(v.promotion, v.event) \in AllowedStages
        /\ v.action = "rollback" => RollsBack(e, i)

\* Of a retirement and an alias to the retired promotion the later is refused, long
\* as its preview may have been confirmed and whatever streams it read first: both
\* stand only when neither was there yet as the execution of the other began.
RetiredAliasesOverlap ==
  \A e \in Environment : \A p \in Promotion :
    LET n == Len(history[e])  k == Len(history[p])
    IN  AliasAt(e, n) = p /\ StageAt(p, k) = "retired" =>
          since[p][k][e] < n /\ since[e][n][p] < k

\* A decision, once in its slot, is there for good.
Kept ==
  \A s \in Stream : /\ Len(history'[s]) >= Len(history[s])
                    /\ SubSeq(history'[s], 1, Len(history[s])) = history[s]
DecisionsKept == [][Kept]_history

\* "A promotion cannot be retired while any active environment alias still
\* references it" (docs/experiments.md).
RetirementDetached ==
  \A e \in Environment : LET p == AliasAt(e, Len(history[e]))
    IN  p # None => StageAt(p, Len(history[p])) # "retired"
=============================================================================
