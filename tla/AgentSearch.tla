------------------------------ MODULE AgentSearch ------------------------------
(***************************************************************************)
(* AsyncMCTS (src/agentic_rl_forge/search/mcts.py) over AgentSearchDomain  *)
(* (search/agent_domain.py), with the budget of AgentTreeSearchController, *)
(* in one session of LocalToolEnvironment (environments/local.py).         *)
(*                                                                         *)
(* The state of the session is the sequence of the effects that tools had  *)
(* on it, so that it stands for its digest and for a snapshot of it.  An   *)
(* action makes one call.  A tool that works in a thread of its own may go *)
(* on after its timeout and have its effect late.  Rewards and values are  *)
(* counted in twentieths, with the default discount of 1; priors and the   *)
(* exploration term may prefer any child.                                  *)
(***************************************************************************)
EXTENDS Integers, Sequences, FiniteSets, Functions

CONSTANTS
  Kind,                            \* the kind of each action
  BranchFactor, MaxDepth,          \* of the search
  DomainDepth,                     \* depth at which the domain ends an episode
  Score, PruneBelow,               \* process scores and the least that is kept
  MinSimulations, MaxSimulations   \* limits of the budget

Action == DOMAIN Kind

SearchAssumption ==
  /\ Kind \in [Action -> {"write", "read", "final", "invalid"}]
  /\ BranchFactor \in Nat \ {0} /\ MaxDepth \in Nat \ {0} /\ DomainDepth \in Nat \ {0}
  /\ Score \subseteq -1..1 /\ -1 \in Score /\ PruneBelow \in -1..1
  /\ MinSimulations \in Nat \ {0} /\ MaxSimulations \in Nat /\ MinSimulations <= MaxSimulations
  /\ "unknown" \notin Seq(Action)

VARIABLES
  tree,        \* the nodes, named by the actions that lead to them
  session,     \* the session's state, and the tools that may still change it
  at,          \* what the search does
  here,        \* the node it has come to
  candidates,  \* the proposed actions that it has to try
  made,        \* the transitions it has tried, by action
  budget, done \* simulations

vars == <<tree, session, at, here, candidates, made, budget, done>>

Node(state, reward, terminal, score) ==
  [state |-> state, reward |-> reward, terminal |-> terminal, score |-> score,
   visits |-> 0, value |-> 0, expanded |-> FALSE]

Children(path) == {a \in Action : Append(path, a) \in DOMAIN tree}
Parent(path)   == SubSeq(path, 1, Len(path) - 1)

Transition == [state : Seq(Action), reward : -7..0, terminal : BOOLEAN, score : -1..1,
               visits : Nat, value : Int, expanded : BOOLEAN]
Session    == [state : Seq(Action), late : SUBSET Action]

TypeOK ==
  /\ \A path \in DOMAIN tree :
       /\ path \in Seq(Action) /\ Len(path) <= MaxDepth
       /\ path # <<>> => Parent(path) \in DOMAIN tree
       /\ tree[path] \in Transition
  /\ session \in Session
  /\ at \in {"select", "expand", "execute", "snapshot", "score", "found", "raised"}
  /\ here \in DOMAIN tree /\ candidates \subseteq Action
  /\ DOMAIN made \subseteq Action
  /\ \A a \in DOMAIN made : made[a].state = "unknown" \/ made[a] \in Transition
  /\ done <= budget /\ budget \in MinSimulations..MaxSimulations

-----------------------------------------------------------------------------
(* choose: the budget, and a root that is a state between two actions.       *)

\* round of lower + tenths * (upper - lower) / 10, to the even one at a half.
Interpolate(lower, upper, tenths) ==
  LET scaled == 10 * lower + tenths * (upper - lower)
      up     == scaled % 10 > 5 \/ (scaled % 10 = 5 /\ (scaled \div 10) % 2 = 1)
  IN  scaled \div 10 + (IF up THEN 1 ELSE 0)

Init ==
  /\ \E score \in Score : tree = [path \in {<<>>} |-> Node(<<>>, 0, FALSE, score)]
  /\ session = [state |-> <<>>, late |-> {}]
  /\ at = "select" /\ here = <<>> /\ candidates = {} /\ made = <<>>
  /\ \E tenths \in 0..10 : budget = Interpolate(MinSimulations, MaxSimulations, tenths)
  /\ done = 0

-----------------------------------------------------------------------------
(* The session.                                                              *)

\* Mutant: the state is put back into the dictionary that tools hold.
RestoreInPlace(state) == session' = [session EXCEPT !.state = state]

\* The session gets a copy of the snapshot; a tool that is still at work keeps
\* the dictionary it was given.
Restore(state) == session' = [state |-> state, late |-> {}]

\* The effect of one call, and whether its result is ok: a failed call may have
\* changed the state before it failed, and one that timed out may yet do so.
Execute(a, ok) ==
  \/ Kind[a] = "write" /\ session' = [session EXCEPT !.state = Append(@, a)]
  \/ Kind[a] = "write" /\ ~ ok /\ session' = [session EXCEPT !.late = @ \cup {a}]
  \/ (Kind[a] = "write" => ~ ok) /\ UNCHANGED session

LateEffect(a) ==
  /\ a \in session.late
  /\ session' = [state |-> Append(session.state, a), late |-> session.late \ {a}]
  /\ UNCHANGED <<tree, at, here, candidates, made, budget, done>>

-----------------------------------------------------------------------------
(* search.                                                                   *)

LeafValue(nodes, path) == IF nodes[path].terminal THEN 0 ELSE 20 * nodes[path].score

\* Mutant: the reward of a node's own action is added after the node is updated.
ValueAbove(nodes, path, depth) ==
  FoldFunctionOnSet(+, LeafValue(nodes, path),
    [i \in 1..Len(path) |-> nodes[SubSeq(path, 1, i)].reward], (depth + 1)..Len(path))

\* What the node of a path at that depth is given: the value of its end and the
\* rewards from that node on.
ValueAt(nodes, path, depth) ==
  FoldFunctionOnSet(+, LeafValue(nodes, path),
    [i \in 1..Len(path) |-> nodes[SubSeq(path, 1, i)].reward],
    (IF depth = 0 THEN 1 ELSE depth)..Len(path))

Backup(nodes, path) ==
  /\ tree' = [p \in DOMAIN nodes |->
       IF p \in {SubSeq(path, 1, i) : i \in 0..Len(path)}
         THEN [nodes[p] EXCEPT !.visits = @ + 1, !.value = @ + ValueAt(nodes, path, Len(p))]
         ELSE nodes[p]]
  /\ done' = done + 1 /\ here' = <<>> /\ at' = "select"
  /\ candidates' = {} /\ made' = <<>>
  /\ UNCHANGED <<session, budget>>

\* Mutant: a node without proposals is expanded again.
CanExpandAgain(path) == ~ tree[path].terminal /\ Len(path) < MaxDepth

CanExpand(path) == ~ tree[path].terminal /\ Len(path) < MaxDepth /\ ~ tree[path].expanded

SelectChild ==
  /\ at = "select" /\ done < budget /\ ~ tree[here].terminal
  /\ \E a \in Children(here) : here' = Append(here, a)
  /\ UNCHANGED <<tree, session, at, candidates, made, budget, done>>

\* A leaf that is terminal, at the depth limit or without any action.
RevisitLeaf ==
  /\ at = "select" /\ done < budget /\ (Children(here) = {} \/ tree[here].terminal)
  /\ ~ CanExpand(here)
  /\ Backup(tree, here)

\* The policy's proposals, those that are the same left out.
Proposals ==
  {proposed \in SUBSET Action : IsFiniteSet(proposed) /\ Cardinality(proposed) <= BranchFactor}

Propose ==
  /\ at = "select" /\ done < budget /\ CanExpand(here)
  /\ \E proposed \in Proposals :
       \/ /\ proposed = {}
          /\ Backup([tree EXCEPT ![here].expanded = TRUE], here)
       \/ /\ proposed # {}
          /\ candidates' = proposed /\ at' = "expand"
          /\ UNCHANGED <<tree, session, here, made, budget, done>>

\* transition: every candidate starts from the snapshot of the node.
BeginTransition ==
  /\ at = "expand" /\ candidates # {}
  /\ Restore(tree[here].state)
  /\ at' = "execute"
  /\ UNCHANGED <<tree, here, candidates, made, budget, done>>

Try(a, ok) ==
  /\ at = "execute" /\ a \in candidates
  /\ \/ Kind[a] \in {"write", "read"} /\ Execute(a, ok)
     \/ Kind[a] \notin {"write", "read"} /\ ok /\ UNCHANGED session
  /\ candidates' = candidates \ {a} /\ at' = "snapshot"
  /\ made' = [b \in DOMAIN made \cup {a} |->
       IF b = a THEN Node("unknown", (IF ok THEN 0 ELSE -2) - (IF Kind[a] = "invalid" THEN 5 ELSE 0),
                          Kind[a] \in {"final", "invalid"} \/ Len(here) + 1 >= DomainDepth, 0)
                ELSE made[b]]
  /\ UNCHANGED <<tree, here, budget, done>>

EndTransition ==
  /\ at = "snapshot"
  /\ made' = [a \in DOMAIN made |->
       IF made[a].state = "unknown" THEN [made[a] EXCEPT !.state = session.state] ELSE made[a]]
  /\ at' = IF candidates = {} THEN "score" ELSE "expand"
  /\ UNCHANGED <<tree, session, here, candidates, budget, done>>

\* Transitions with a low score are pruned, but for one of the best.
Viable(scores) ==
  LET good == {a \in DOMAIN made : scores[a] >= PruneBelow}
      best == {a \in DOMAIN made : \A b \in DOMAIN made : scores[a] >= scores[b]}
  IN  IF good # {} THEN {good} ELSE {{a} : a \in best}

Expand ==
  /\ at = "score"
  /\ \E scores \in [DOMAIN made -> Score] :
       /\ \A a \in DOMAIN made : Kind[a] = "invalid" => scores[a] = -1
       /\ \E viable \in Viable(scores) : \E a \in viable :
            LET nodes == [p \in DOMAIN tree \cup {Append(here, b) : b \in viable} |->
                   IF p = here THEN [tree[p] EXCEPT !.expanded = TRUE]
                   ELSE IF p \in DOMAIN tree THEN tree[p]
                   ELSE LET b == p[Len(p)] IN [made[b] EXCEPT !.score = scores[b]]]
            IN  Backup(nodes, Append(here, a))

Finish ==
  /\ at = "select" /\ done = budget
  /\ at' = IF Children(<<>>) = {} THEN "raised" ELSE "found"
  /\ UNCHANGED <<tree, session, here, candidates, made, budget, done>>

\* The policy, the environment or the process reward model fails.
Fail ==
  /\ at \in {"select", "expand", "execute", "snapshot", "score"} /\ done < budget
  /\ at' = "raised"
  /\ UNCHANGED <<tree, session, here, candidates, made, budget, done>>

Next ==
  \/ SelectChild \/ RevisitLeaf \/ Propose \/ BeginTransition \/ EndTransition
  \/ Expand \/ Finish \/ Fail
  \/ \E a \in Action : LateEffect(a) \/ \E ok \in BOOLEAN : Try(a, ok)

Spec == Init /\ [][Next]_vars

-----------------------------------------------------------------------------
(* Properties.                                                               *)

\* README.md: each branch restores the parent environment snapshot.  The state of
\* a node is that of its parent with at most the effect of its own action,
\* whatever the other branches did to the session they share, and however late.
BranchesIsolated ==
  \A path \in DOMAIN tree \ {<<>>} :
    tree[path].state \in {tree[Parent(path)].state, Append(tree[Parent(path)].state, path[Len(path)])}

Between == at \in {"select", "found"} /\ here = <<>>

\* The visits of a node that were none of its children's.
OwnVisits(path) ==
  tree[path].visits
    - FoldFunctionOnSet(+, 0, [a \in Children(path) |-> tree[Append(path, a)].visits], Children(path))

\* Between simulations the visits of a node with children are theirs, but for one
\* at most: that of the simulation which made it, if that one ended in it.  The
\* root has none of its own, so that the visits of its actions are the
\* simulations (tests/test_search_and_data.py:69).
VisitsAddUp ==
  Between =>
    /\ tree[<<>>].visits = done
    /\ \A path \in DOMAIN tree :
         Children(path) # {} => OwnVisits(path) \in (IF path = <<>> THEN {0} ELSE {0, 1})

\* The value of such a node is that of its children, its own score for the visit
\* of its own, and the reward of its action for each of its visits: rewards are
\* backed up to every action that leads to them.
ValuesAddUp ==
  Between =>
    \A path \in DOMAIN tree :
      Children(path) # {} =>
        tree[path].value =
          FoldFunctionOnSet(+, 0, [a \in Children(path) |-> tree[Append(path, a)].value], Children(path))
            + tree[path].visits * tree[path].reward + OwnVisits(path) * 20 * tree[path].score
=============================================================================
