---------------------------- MODULE RoleTraversal ---------------------------
(***************************************************************************)
(* RoleGraph::effectiveRoles step by step: the breadth-first walk over     *)
(* inherits, under one shared lock from its first read of the graph to its *)
(* last, beside administrators who write under the unique lock.  Here the  *)
(* order and the repeats of the vectors matter; PolicyGraph says what the  *)
(* walk is to find.                                                        *)
(***************************************************************************)
EXTENDS PolicyGraph, Integers, SequencesExt

CONSTANTS
  Walkers,       \* threads that resolve a principal's roles
  Lists,         \* the lists of inherited roles administrators write
  MaxAssigned    \* a bound on how often a principal is assigned a role

ASSUME ListsAssumption == Lists \subseteq Seq(RoleNames)
ASSUME MaxAssignedAssumption == MaxAssigned \in Nat
ASSUME UndefinedAssumption ==
  NoRole \notin Lists /\ \A s \in SUBSET RoleNames : NoRole # [inherits |-> s]

VARIABLES
  inherits,   \* roles_, each role reduced to its list of inherited roles
  assigned,   \* assignments_
  walk        \* walk[w]: the locals of the traversal w is in

vars == <<inherits, assigned, walk>>

NoWalk == [phase |-> "idle"]

Init ==
  /\ inherits = [r \in RoleNames |-> NoRole]
  /\ assigned = [p \in Principals |-> <<>>]
  /\ walk = [w \in Walkers |-> NoWalk]

-----------------------------------------------------------------------------
(***************************************************************************)
(* Writes wait for every shared lock to be released.                       *)
(***************************************************************************)
Unlocked == \A w \in Walkers : walk[w] = NoWalk

\* MUTANT: written while somebody walks.
AddRoleUnlocked(name, list) ==
  /\ inherits' = [inherits EXCEPT ![name] = list]
  /\ UNCHANGED <<assigned, walk>>

AddRole(name, list) ==
  /\ Unlocked
  /\ inherits' = [inherits EXCEPT ![name] = list]
  /\ UNCHANGED <<assigned, walk>>

\* Nothing stops the same assignment from being made twice.
Assign(principal, name) ==
  /\ Unlocked
  /\ Len(assigned[principal]) < MaxAssigned
  /\ assigned' = [assigned EXCEPT ![principal] = Append(@, name)]
  /\ UNCHANGED <<inherits, walk>>

(***************************************************************************)
(* The walk.  at is the position in the layer, child the position in the   *)
(* inherits of the role there, 0 while that role is still to be reported.  *)
(***************************************************************************)
Begin(w, principal) ==
  /\ walk[w] = NoWalk
  /\ walk' = [walk EXCEPT ![w] =
       [phase |-> "walking", principal |-> principal, ans |-> <<>>, layer |-> assigned[principal],
        nextLayer |-> <<>>, visited |-> ToSet(assigned[principal]), at |-> 1, child |-> 0]]
  /\ UNCHANGED <<inherits, assigned>>

InLayer(w) == walk[w].phase = "walking" /\ walk[w].at <= Len(walk[w].layer)

Current(w) == walk[w].layer[walk[w].at]

Children(w) == inherits[Current(w)]

\* A name nobody defined is reported, and leads nowhere.
ReportUndefined(w) ==
  /\ InLayer(w) /\ walk[w].child = 0
  /\ Children(w) = NoRole
  /\ walk' = [walk EXCEPT ![w] = [@ EXCEPT !.ans = Append(walk[w].ans, Current(w)), !.at = walk[w].at + 1]]
  /\ UNCHANGED <<inherits, assigned>>

\* MUTANT: find in place of findUnlocked, which waits for the lock the walk
\* itself holds.
ReportLocking(w) ==
  /\ Unlocked
  /\ InLayer(w) /\ walk[w].child = 0
  /\ Children(w) # NoRole
  /\ walk' = [walk EXCEPT ![w] = [@ EXCEPT !.ans = Append(walk[w].ans, Current(w)), !.child = 1]]
  /\ UNCHANGED <<inherits, assigned>>

Report(w) ==
  /\ InLayer(w) /\ walk[w].child = 0
  /\ Children(w) # NoRole
  /\ walk' = [walk EXCEPT ![w] = [@ EXCEPT !.ans = Append(walk[w].ans, Current(w)), !.child = 1]]
  /\ UNCHANGED <<inherits, assigned>>

InRole(w) == InLayer(w) /\ walk[w].child > 0

AtChild(w) == InRole(w) /\ walk[w].child <= Len(Children(w))

\* MUTANT: a role marked when it is processed, not when it is enqueued.
EnqueueUnmarked(w) ==
  LET child == Children(w)[walk[w].child] IN
  /\ AtChild(w)
  /\ child \notin ToSet(walk[w].ans)
  /\ walk' = [walk EXCEPT ![w] = [@ EXCEPT !.nextLayer = Append(walk[w].nextLayer, child),
                                     !.child = walk[w].child + 1]]
  /\ UNCHANGED <<inherits, assigned>>

Enqueue(w) ==
  LET child == Children(w)[walk[w].child] IN
  /\ AtChild(w)
  /\ child \notin walk[w].visited
  /\ walk' = [walk EXCEPT ![w] = [@ EXCEPT !.nextLayer = Append(walk[w].nextLayer, child),
                                     !.visited = walk[w].visited \cup {child},
                                     !.child = walk[w].child + 1]]
  /\ UNCHANGED <<inherits, assigned>>

SkipVisited(w) ==
  /\ AtChild(w)
  /\ Children(w)[walk[w].child] \in walk[w].visited
  /\ walk' = [walk EXCEPT ![w] = [@ EXCEPT !.child = walk[w].child + 1]]
  /\ UNCHANGED <<inherits, assigned>>

LeaveRole(w) ==
  /\ InRole(w)
  /\ ~AtChild(w)
  /\ walk' = [walk EXCEPT ![w] = [@ EXCEPT !.at = walk[w].at + 1, !.child = 0]]
  /\ UNCHANGED <<inherits, assigned>>

LayerDone(w) == walk[w].phase = "walking" /\ walk[w].at > Len(walk[w].layer)

\* MUTANT: the position kept from the layer before.
NextLayerMidway(w) ==
  /\ LayerDone(w) /\ walk[w].layer # <<>>
  /\ walk' = [walk EXCEPT ![w] = [@ EXCEPT !.layer = walk[w].nextLayer, !.nextLayer = <<>>]]
  /\ UNCHANGED <<inherits, assigned>>

NextLayer(w) ==
  /\ LayerDone(w) /\ walk[w].layer # <<>>
  /\ walk' = [walk EXCEPT ![w] = [@ EXCEPT !.layer = walk[w].nextLayer, !.nextLayer = <<>>,
                                     !.at = 1]]
  /\ UNCHANGED <<inherits, assigned>>

\* The walk is over; its answer is ans, and the lock is still held.
Finished(w) == walk[w].phase = "walking" /\ walk[w].layer = <<>>

Return(w) ==
  /\ Finished(w)
  /\ walk' = [walk EXCEPT ![w] = NoWalk]
  /\ UNCHANGED <<inherits, assigned>>

-----------------------------------------------------------------------------
Write ==
  \/ \E name \in RoleNames, list \in Lists : AddRole(name, list)
  \/ \E principal \in Principals, name \in RoleNames : Assign(principal, name)

Step(w) ==
  \/ ReportUndefined(w) \/ Report(w)
  \/ Enqueue(w) \/ SkipVisited(w) \/ LeaveRole(w)
  \/ NextLayer(w) \/ Return(w)

Next == Write \/ \E w \in Walkers : Step(w) \/ \E principal \in Principals : Begin(w, principal)

Spec == Init /\ [][Next]_vars

-----------------------------------------------------------------------------
\* The graph as PolicyGraph sees it, without order and repeats.
Graph == [r \in RoleNames |->
            IF inherits[r] = NoRole THEN NoRole ELSE [inherits |-> ToSet(inherits[r])]]

Direct == [p \in Principals |-> ToSet(assigned[p])]

Occurrences(r, s) == Cardinality({k \in DOMAIN s : s[k] = r})

Walks ==
  [phase : {"walking"}, principal : Principals, ans : Seq(RoleNames), layer : Seq(RoleNames),
   nextLayer : Seq(RoleNames), visited : SUBSET RoleNames, at : Nat \ {0}, child : Nat]

TypeOK ==
  /\ inherits \in [RoleNames -> Lists \cup {NoRole}]
  /\ assigned \in [Principals -> Seq(RoleNames)]
  /\ walk \in [Walkers -> Walks \cup {NoWalk}]
  /\ \A w \in Walkers : walk[w] # NoWalk => walk[w].at <= Len(walk[w].layer) + 1

(***************************************************************************)
(* The walk finds exactly what is reachable, cycles, diamonds and          *)
(* undefined names included, and finds it of one graph: the one there when *)
(* it returns, not a mixture of the graphs there were on the way.          *)
(***************************************************************************)
AnswerIsClosure ==
  \A w \in Walkers : Finished(w) =>
    ToSet(walk[w].ans) = effectiveRoles(Graph, Direct, walk[w].principal)

(***************************************************************************)
(* No role is reported twice on account of inheritance: as often as it was *)
(* assigned, or once (the claim on diamond inheritance in roles.hpp).      *)
(***************************************************************************)
ReportedOnce ==
  \A w \in Walkers : walk[w] # NoWalk =>
    \A r \in RoleNames :
      LET direct == Occurrences(r, assigned[walk[w].principal]) IN
      Occurrences(r, walk[w].ans) <= IF direct = 0 THEN 1 ELSE direct

(***************************************************************************)
(* Every walk ends, on every graph, and the lock is released.              *)
(***************************************************************************)
EveryWalkReturns == \A w \in Walkers : walk[w] # NoWalk ~> walk[w] = NoWalk

=============================================================================
