------------------------ MODULE RoleTraversalProofs ------------------------
(***************************************************************************)
(* The walk of RoleTraversal finds exactly what is reachable, for any      *)
(* number of roles, principals and walkers, and any graph.                 *)
(***************************************************************************)
EXTENDS RoleTraversal, FiniteSetTheorems, TLAPS

-----------------------------------------------------------------------------
\* Appending adds one element.
LEMMA AppendToSet ==
  ASSUME NEW T, NEW s \in Seq(T), NEW e \in T
  PROVE  /\ Append(s, e) \in Seq(T)
         /\ ToSet(Append(s, e)) = ToSet(s) \cup {e}
<1>1. Append(s, e) \in Seq(T)
  OBVIOUS
<1>2. DOMAIN s = 1 .. Len(s) /\ DOMAIN Append(s, e) = 1 .. Len(s) + 1 /\ Len(s) \in Nat
  OBVIOUS
<1>3. \A n \in 1 .. Len(s) : Append(s, e)[n] = s[n]
  OBVIOUS
<1>4. Append(s, e)[Len(s) + 1] = e
  OBVIOUS
<1>5. ToSet(Append(s, e)) \subseteq ToSet(s) \cup {e}
  BY <1>2, <1>3, <1>4 DEF ToSet
<1>6. ToSet(s) \cup {e} \subseteq ToSet(Append(s, e))
  BY <1>2, <1>3, <1>4 DEF ToSet
<1> QED
  BY <1>1, <1>5, <1>6

\* The elements of a sequence over a set are in the set.
LEMMA ToSetType ==
  ASSUME NEW T, NEW s \in Seq(T)
  PROVE  ToSet(s) \subseteq T
  BY DEF ToSet

(***************************************************************************)
(* Types, with where the walk is: while it goes through the children of a  *)
(* role, that role is in its layer and has a list of children.             *)
(***************************************************************************)
Located(w) ==
  walk[w] # NoWalk /\ walk[w].child > 0 => InLayer(w) /\ Children(w) \in Lists

LocatedInv == \A w \in Walkers : Located(w)

\* What the type invariant says where a walk reads its layer or its children.
LEMMA ReadTypes ==
  ASSUME TypeOK, LocatedInv, NEW w \in Walkers, walk[w] # NoWalk
  PROVE  /\ walk[w] \in Walks
         /\ InLayer(w) => Current(w) \in RoleNames /\ Children(w) \in Lists \cup {NoRole}
         /\ AtChild(w) => Children(w)[walk[w].child] \in RoleNames
<1>1. walk[w] \in Walks
  BY DEF TypeOK
<1>2. ASSUME InLayer(w) PROVE Current(w) \in RoleNames /\ Children(w) \in Lists \cup {NoRole}
  BY <1>1, <1>2 DEF InLayer, Current, Children, Walks, TypeOK
<1>3. ASSUME AtChild(w) PROVE Children(w)[walk[w].child] \in RoleNames
  <2>1. Children(w) \in Seq(RoleNames)
    BY <1>3, ListsAssumption DEF AtChild, InRole, LocatedInv, Located
  <2> QED
    BY <1>1, <1>3, <2>1 DEF AtChild, InRole, InLayer, Walks
<1> QED
  BY <1>1, <1>2, <1>3

(***************************************************************************)
(* What a step makes of the walk it belongs to, field by field.            *)
(***************************************************************************)
Moved(w, ans, layer, nextLayer, visited, at, child) ==
  /\ walk'[w] \in Walks
  /\ walk'[w].principal = walk[w].principal
  /\ walk'[w].ans = ans
  /\ walk'[w].layer = layer
  /\ walk'[w].nextLayer = nextLayer
  /\ walk'[w].visited = visited
  /\ walk'[w].at = at
  /\ walk'[w].child = child
  /\ walk' \in [Walkers -> Walks \cup {NoWalk}]
  /\ \A u \in Walkers \ {w} : walk'[u] = walk[u]
  /\ inherits' = inherits
  /\ assigned' = assigned

\* What membership in Walks says of each field.
LEMMA WalkFields ==
  ASSUME NEW x \in Walks
  PROVE  /\ x # NoWalk
         /\ x.phase = "walking" /\ x.principal \in Principals
         /\ x.ans \in Seq(RoleNames) /\ x.layer \in Seq(RoleNames)
         /\ x.nextLayer \in Seq(RoleNames) /\ x.visited \in SUBSET RoleNames
         /\ x.at \in Nat \ {0} /\ x.child \in Nat
  BY DEF Walks, NoWalk

\* Whoever is in a step of the walk is walking.
LEMMA WalkingStep ==
  ASSUME TypeOK, NEW w \in Walkers, walk[w].phase = "walking"
  PROVE  walk[w] \in Walks
  BY DEF TypeOK, NoWalk

\* Reporting a role nobody defined moves on to the next role.
LEMMA ReportUndefinedMoves ==
  ASSUME TypeOK, LocatedInv, NEW w \in Walkers, ReportUndefined(w)
  PROVE  /\ walk[w] \in Walks
         /\ Moved(w, Append(walk[w].ans, Current(w)), walk[w].layer, walk[w].nextLayer,
                  walk[w].visited, walk[w].at + 1, walk[w].child)
<1>1. walk[w] \in Walks
  BY WalkingStep DEF ReportUndefined, InLayer
<1>2. Append(walk[w].ans, Current(w)) \in Seq(RoleNames)
  BY <1>1, WalkFields, ReadTypes, AppendToSet DEF ReportUndefined
<1>3. walk[w].at + 1 \in Nat \ {0}
  BY <1>1, WalkFields
<1>4. /\ walk \in [Walkers -> Walks \cup {NoWalk}]
      /\ walk' = [walk EXCEPT ![w] = [@ EXCEPT !.ans = Append(walk[w].ans, Current(w)),
                                               !.at = walk[w].at + 1]]
      /\ UNCHANGED <<inherits, assigned>>
  BY DEF ReportUndefined, TypeOK
<1>5. walk'[w] = [walk[w] EXCEPT !.ans = Append(walk[w].ans, Current(w)), !.at = walk[w].at + 1]
  BY <1>4
<1>6. [walk[w] EXCEPT !.ans = Append(walk[w].ans, Current(w)), !.at = walk[w].at + 1] \in Walks
  BY <1>1, <1>2, <1>3 DEF Walks
<1> QED
  BY <1>1, <1>4, <1>5, <1>6 DEF Moved, Walks

\* Reporting a role with a list turns to its children.
LEMMA ReportMoves ==
  ASSUME TypeOK, LocatedInv, NEW w \in Walkers, Report(w)
  PROVE  /\ walk[w] \in Walks
         /\ Moved(w, Append(walk[w].ans, Current(w)), walk[w].layer, walk[w].nextLayer,
                  walk[w].visited, walk[w].at, 1)
<1>1. walk[w] \in Walks
  BY WalkingStep DEF Report, InLayer
<1>2. Append(walk[w].ans, Current(w)) \in Seq(RoleNames)
  BY <1>1, WalkFields, ReadTypes, AppendToSet DEF Report
<1>3. /\ walk \in [Walkers -> Walks \cup {NoWalk}]
      /\ walk' = [walk EXCEPT ![w] = [@ EXCEPT !.ans = Append(walk[w].ans, Current(w)), !.child = 1]]
      /\ UNCHANGED <<inherits, assigned>>
  BY DEF Report, TypeOK
<1>4. walk'[w] = [walk[w] EXCEPT !.ans = Append(walk[w].ans, Current(w)), !.child = 1]
  BY <1>3
<1>5. [walk[w] EXCEPT !.ans = Append(walk[w].ans, Current(w)), !.child = 1] \in Walks
  BY <1>1, <1>2 DEF Walks
<1> QED
  BY <1>1, <1>3, <1>4, <1>5 DEF Moved, Walks

\* Enqueuing a child marks it.
LEMMA EnqueueMoves ==
  ASSUME TypeOK, LocatedInv, NEW w \in Walkers, Enqueue(w)
  PROVE  /\ walk[w] \in Walks
         /\ Moved(w, walk[w].ans, walk[w].layer, Append(walk[w].nextLayer, Children(w)[walk[w].child]),
                  walk[w].visited \cup {Children(w)[walk[w].child]}, walk[w].at, walk[w].child + 1)
<1>1. walk[w] \in Walks
  BY WalkingStep DEF Enqueue, AtChild, InRole, InLayer
<1>2. Children(w)[walk[w].child] \in RoleNames
  BY <1>1, WalkFields, ReadTypes DEF Enqueue
<1>3. Append(walk[w].nextLayer, Children(w)[walk[w].child]) \in Seq(RoleNames)
  BY <1>1, <1>2, WalkFields, AppendToSet
<1>4. walk[w].visited \cup {Children(w)[walk[w].child]} \in SUBSET RoleNames
  BY <1>1, <1>2, WalkFields
<1>5. walk[w].child + 1 \in Nat
  BY <1>1, WalkFields
<1>6. /\ walk \in [Walkers -> Walks \cup {NoWalk}]
      /\ walk' = [walk EXCEPT ![w] = [@ EXCEPT !.nextLayer = Append(walk[w].nextLayer, Children(w)[walk[w].child]),
               !.visited = walk[w].visited \cup {Children(w)[walk[w].child]},
               !.child = walk[w].child + 1]]
      /\ UNCHANGED <<inherits, assigned>>
  BY DEF Enqueue, TypeOK
<1>7. walk'[w] = [walk[w] EXCEPT !.nextLayer = Append(walk[w].nextLayer, Children(w)[walk[w].child]),
               !.visited = walk[w].visited \cup {Children(w)[walk[w].child]},
               !.child = walk[w].child + 1]
  BY <1>6
<1>8. [walk[w] EXCEPT !.nextLayer = Append(walk[w].nextLayer, Children(w)[walk[w].child]),
               !.visited = walk[w].visited \cup {Children(w)[walk[w].child]},
               !.child = walk[w].child + 1] \in Walks
  BY <1>1, <1>2, <1>3, <1>4, <1>5 DEF Walks
<1> QED
  BY <1>1, <1>6, <1>7, <1>8 DEF Moved, Walks

\* A child seen before is passed over.
LEMMA SkipVisitedMoves ==
  ASSUME TypeOK, LocatedInv, NEW w \in Walkers, SkipVisited(w)
  PROVE  /\ walk[w] \in Walks
         /\ Moved(w, walk[w].ans, walk[w].layer, walk[w].nextLayer, walk[w].visited,
                  walk[w].at, walk[w].child + 1)
<1>1. walk[w] \in Walks
  BY WalkingStep DEF SkipVisited, AtChild, InRole, InLayer
<1>2. walk[w].child + 1 \in Nat
  BY <1>1, WalkFields
<1>3. /\ walk \in [Walkers -> Walks \cup {NoWalk}]
      /\ walk' = [walk EXCEPT ![w] = [@ EXCEPT !.child = walk[w].child + 1]]
      /\ UNCHANGED <<inherits, assigned>>
  BY DEF SkipVisited, TypeOK
<1>4. walk'[w] = [walk[w] EXCEPT !.child = walk[w].child + 1]
  BY <1>3
<1>5. [walk[w] EXCEPT !.child = walk[w].child + 1] \in Walks
  BY <1>1, <1>2 DEF Walks
<1> QED
  BY <1>1, <1>3, <1>4, <1>5 DEF Moved, Walks

\* After its last child a role is left for the next.
LEMMA LeaveRoleMoves ==
  ASSUME TypeOK, LocatedInv, NEW w \in Walkers, LeaveRole(w)
  PROVE  /\ walk[w] \in Walks
         /\ Moved(w, walk[w].ans, walk[w].layer, walk[w].nextLayer, walk[w].visited,
                  walk[w].at + 1, 0)
<1>1. walk[w] \in Walks
  BY WalkingStep DEF LeaveRole, InRole, InLayer
<1>2. walk[w].at + 1 \in Nat \ {0}
  BY <1>1, WalkFields
<1>3. /\ walk \in [Walkers -> Walks \cup {NoWalk}]
      /\ walk' = [walk EXCEPT ![w] = [@ EXCEPT !.at = walk[w].at + 1, !.child = 0]]
      /\ UNCHANGED <<inherits, assigned>>
  BY DEF LeaveRole, TypeOK
<1>4. walk'[w] = [walk[w] EXCEPT !.at = walk[w].at + 1, !.child = 0]
  BY <1>3
<1>5. [walk[w] EXCEPT !.at = walk[w].at + 1, !.child = 0] \in Walks
  BY <1>1, <1>2 DEF Walks
<1> QED
  BY <1>1, <1>3, <1>4, <1>5 DEF Moved, Walks

\* After its last role a layer is left for the next.
LEMMA NextLayerMoves ==
  ASSUME TypeOK, LocatedInv, NEW w \in Walkers, NextLayer(w)
  PROVE  /\ walk[w] \in Walks
         /\ Moved(w, walk[w].ans, walk[w].nextLayer, <<>>, walk[w].visited, 1, walk[w].child)
<1>1. walk[w] \in Walks
  BY WalkingStep DEF NextLayer, LayerDone
<1>2. <<>> \in Seq(RoleNames) /\ walk[w].nextLayer \in Seq(RoleNames)
  BY <1>1, WalkFields
<1>3. /\ walk \in [Walkers -> Walks \cup {NoWalk}]
      /\ walk' = [walk EXCEPT ![w] = [@ EXCEPT !.layer = walk[w].nextLayer, !.nextLayer = <<>>, !.at = 1]]
      /\ UNCHANGED <<inherits, assigned>>
  BY DEF NextLayer, TypeOK
<1>4. walk'[w] = [walk[w] EXCEPT !.layer = walk[w].nextLayer, !.nextLayer = <<>>, !.at = 1]
  BY <1>3
<1>5. [walk[w] EXCEPT !.layer = walk[w].nextLayer, !.nextLayer = <<>>, !.at = 1] \in Walks
  <2>1. ASSUME NEW layer \in Seq(RoleNames), NEW next \in Seq(RoleNames), NEW at \in Nat \ {0}
        PROVE  [walk[w] EXCEPT !.layer = layer, !.nextLayer = next, !.at = at] \in Walks
    BY <1>1 DEF Walks
  <2>2. 1 \in Nat \ {0}
    OBVIOUS
  <2> QED
    BY <1>2, <2>1, <2>2, Zenon
<1> QED
  BY <1>1, <1>3, <1>4, <1>5 DEF Moved, Walks

\* A walk that has moved is well typed and located if its new fields are.
LEMMA MovedTypes ==
  ASSUME TypeOK, LocatedInv, NEW w \in Walkers,
         NEW ans, NEW layer, NEW nextLayer, NEW visited, NEW at, NEW child,
         Moved(w, ans, layer, nextLayer, visited, at, child),
         at <= Len(layer) + 1,
         child > 0 => at <= Len(layer) /\ inherits[layer[at]] \in Lists
  PROVE  TypeOK' /\ LocatedInv'
<1>1. TypeOK'
  <2>1. ASSUME NEW u \in Walkers, walk'[u] # NoWalk PROVE walk'[u].at <= Len(walk'[u].layer) + 1
    BY <2>1 DEF TypeOK, Moved
  <2> QED
    BY <2>1 DEF TypeOK, Moved
<1>2. ASSUME NEW u \in Walkers PROVE Located(u)'
  <2>1. CASE u = w
    <3>1. walk'[w].phase = "walking"
      BY WalkFields DEF Moved
    <3> QED
      BY <2>1, <3>1 DEF Moved, Located, InLayer, Children, Current
  <2>2. CASE u # w
    <3>1. walk'[u] = walk[u] /\ inherits' = inherits
      BY <2>2 DEF Moved
    <3> QED
      BY <3>1 DEF LocatedInv, Located, InLayer, Children, Current
  <2> QED
    BY <2>1, <2>2
<1> QED
  BY <1>1, <1>2 DEF LocatedInv

\* Every step keeps the types.
LEMMA TypeStep == TypeOK /\ LocatedInv /\ [Next]_vars => TypeOK' /\ LocatedInv'
<1> SUFFICES ASSUME TypeOK, LocatedInv, [Next]_vars PROVE TypeOK' /\ LocatedInv'
  OBVIOUS
<1>1. ASSUME NEW name \in RoleNames, NEW list \in Lists, AddRole(name, list)
      PROVE  TypeOK' /\ LocatedInv'
  BY <1>1 DEF AddRole, Unlocked, TypeOK, LocatedInv, Located
<1>2. ASSUME NEW p \in Principals, NEW name \in RoleNames, Assign(p, name)
      PROVE  TypeOK' /\ LocatedInv'
  <2>1. Append(assigned[p], name) \in Seq(RoleNames)
    BY AppendToSet DEF TypeOK
  <2> QED
    BY <1>2, <2>1 DEF Assign, Unlocked, TypeOK, LocatedInv, Located
<1>3. ASSUME NEW w \in Walkers, NEW p \in Principals, Begin(w, p) PROVE TypeOK' /\ LocatedInv'
  <2>1. assigned[p] \in Seq(RoleNames) /\ ToSet(assigned[p]) \subseteq RoleNames
    BY ToSetType DEF TypeOK
  <2>2. walk'[w] \in Walks /\ walk'[w].at = 1 /\ walk'[w].child = 0 /\ walk'[w].layer = assigned[p]
    BY <1>3, <2>1 DEF Begin, TypeOK, Walks
  <2>3. /\ \A u \in Walkers \ {w} : walk'[u] = walk[u]
        /\ walk' \in [Walkers -> Walks \cup {NoWalk}]
        /\ inherits' = inherits /\ assigned' = assigned
    BY <1>3, <2>2 DEF Begin, TypeOK
  <2>4. ASSUME NEW u \in Walkers, walk'[u] # NoWalk PROVE walk'[u].at <= Len(walk'[u].layer) + 1
    BY <2>1, <2>2, <2>3, <2>4 DEF TypeOK
  <2>5. ASSUME NEW u \in Walkers PROVE Located(u)'
    BY <2>2, <2>3 DEF LocatedInv, Located, InLayer, Children, Current
  <2> QED
    BY <2>3, <2>4, <2>5 DEF TypeOK, LocatedInv
<1>4. ASSUME NEW w \in Walkers, Step(w) PROVE TypeOK' /\ LocatedInv'
  <2>1. CASE ReportUndefined(w)
    <3>1. /\ walk[w] \in Walks
          /\ Moved(w, Append(walk[w].ans, Current(w)), walk[w].layer, walk[w].nextLayer,
                   walk[w].visited, walk[w].at + 1, walk[w].child)
      BY <2>1, ReportUndefinedMoves
    <3>2. walk[w].child = 0 /\ walk[w].at <= Len(walk[w].layer)
      BY <2>1 DEF ReportUndefined, InLayer
    <3>3. walk[w].at + 1 <= Len(walk[w].layer) + 1
      BY <3>1, <3>2, WalkFields
    <3> QED
      BY <3>1, <3>2, <3>3, MovedTypes
  <2>2. CASE Report(w)
    <3>1. /\ walk[w] \in Walks
          /\ Moved(w, Append(walk[w].ans, Current(w)), walk[w].layer, walk[w].nextLayer,
                   walk[w].visited, walk[w].at, 1)
      BY <2>2, ReportMoves
    <3>2. InLayer(w) /\ Children(w) # NoRole
      BY <2>2 DEF Report
    <3>3. walk[w].at <= Len(walk[w].layer) /\ inherits[walk[w].layer[walk[w].at]] \in Lists
      BY <3>1, <3>2, ReadTypes, WalkFields DEF InLayer, Children, Current
    <3>4. walk[w].at <= Len(walk[w].layer) + 1
      BY <3>1, <3>3, WalkFields
    <3> QED
      BY <3>1, <3>3, <3>4, MovedTypes
  <2>3. CASE Enqueue(w)
    <3>1. /\ walk[w] \in Walks
          /\ Moved(w, walk[w].ans, walk[w].layer,
                   Append(walk[w].nextLayer, Children(w)[walk[w].child]),
                   walk[w].visited \cup {Children(w)[walk[w].child]}, walk[w].at,
                   walk[w].child + 1)
      BY <2>3, EnqueueMoves
    <3>2. InRole(w)
      BY <2>3 DEF Enqueue, AtChild
    <3>3. walk[w].at <= Len(walk[w].layer) /\ inherits[walk[w].layer[walk[w].at]] \in Lists
      BY <3>1, <3>2, WalkFields DEF InRole, InLayer, LocatedInv, Located, Children, Current
    <3>4. walk[w].at <= Len(walk[w].layer) + 1
      BY <3>1, <3>3, WalkFields
    <3> QED
      BY <3>1, <3>3, <3>4, MovedTypes
  <2>4. CASE SkipVisited(w)
    <3>1. /\ walk[w] \in Walks
          /\ Moved(w, walk[w].ans, walk[w].layer, walk[w].nextLayer, walk[w].visited,
                   walk[w].at, walk[w].child + 1)
      BY <2>4, SkipVisitedMoves
    <3>2. InRole(w)
      BY <2>4 DEF SkipVisited, AtChild
    <3>3. walk[w].at <= Len(walk[w].layer) /\ inherits[walk[w].layer[walk[w].at]] \in Lists
      BY <3>1, <3>2, WalkFields DEF InRole, InLayer, LocatedInv, Located, Children, Current
    <3>4. walk[w].at <= Len(walk[w].layer) + 1
      BY <3>1, <3>3, WalkFields
    <3> QED
      BY <3>1, <3>3, <3>4, MovedTypes
  <2>5. CASE LeaveRole(w)
    <3>1. /\ walk[w] \in Walks
          /\ Moved(w, walk[w].ans, walk[w].layer, walk[w].nextLayer, walk[w].visited,
                   walk[w].at + 1, 0)
      BY <2>5, LeaveRoleMoves
    <3>2. walk[w].at + 1 <= Len(walk[w].layer) + 1
      BY <2>5, <3>1, WalkFields DEF LeaveRole, InRole, InLayer
    <3> QED
      BY <3>1, <3>2, MovedTypes
  <2>6. CASE NextLayer(w)
    <3>1. /\ walk[w] \in Walks
          /\ Moved(w, walk[w].ans, walk[w].nextLayer, <<>>, walk[w].visited, 1, walk[w].child)
      BY <2>6, NextLayerMoves
    <3>2. walk[w].child = 0
      BY <2>6, <3>1, WalkFields DEF NextLayer, LayerDone, LocatedInv, Located, InLayer
    <3>3. 1 <= Len(walk[w].nextLayer) + 1
      BY <3>1, WalkFields
    <3> QED
      BY <3>1, <3>2, <3>3, MovedTypes
  <2>7. CASE Return(w)
    BY <2>7 DEF Return, TypeOK, LocatedInv, Located, InLayer, Children, Current
  <2> QED
    BY <1>4, <2>1, <2>2, <2>3, <2>4, <2>5, <2>6, <2>7 DEF Step
<1>5. CASE UNCHANGED vars
  BY <1>5 DEF vars, TypeOK, LocatedInv, Located, InLayer, Children, Current
<1> QED
  BY <1>1, <1>2, <1>3, <1>4, <1>5 DEF Next, Write

\* So they hold in every state.
LEMMA Types == Spec => [](TypeOK /\ LocatedInv)
<1>1. Init => TypeOK /\ LocatedInv
  BY DEF Init, TypeOK, LocatedInv, Located
<1> QED
  BY <1>1, TypeStep, PTL DEF Spec

(***************************************************************************)
(* Every state is well typed: in particular a walk never looks past the    *)
(* end of its layer.                                                       *)
(***************************************************************************)
THEOREM TypeCorrect == Spec => []TypeOK
  BY Types, PTL

-----------------------------------------------------------------------------
(***************************************************************************)
(* The loop invariant.  Everything visited is reachable, and is reported,  *)
(* still ahead in this layer, or in the next; every role reported has all  *)
(* its children visited, except the one whose children are being gone      *)
(* through, of which those before position child are.                      *)
(***************************************************************************)
Rest(layer, at) == {layer[n] : n \in at .. Len(layer)}

Sound(p, visited) ==
  \A S \in SUBSET RoleNames :
    ToSet(assigned[p]) \subseteq S /\ Closed(Graph, S) => visited \subseteq S

Opened(ans, layer, visited, at, child) ==
  child > 0 =>
    /\ layer[at] \in ToSet(ans)
    /\ \A k \in DOMAIN inherits[layer[at]] : k < child => inherits[layer[at]][k] \in visited

Expanded(ans, layer, visited, at, child) ==
  \A r \in ToSet(ans) :
    inherits[r] # NoRole /\ (child > 0 => r # layer[at]) => ToSet(inherits[r]) \subseteq visited

Loop(p, ans, layer, nextLayer, visited, at, child) ==
  /\ ToSet(assigned[p]) \subseteq visited
  /\ Sound(p, visited)
  /\ visited = ToSet(ans) \cup Rest(layer, at) \cup ToSet(nextLayer)
  /\ Opened(ans, layer, visited, at, child)
  /\ Expanded(ans, layer, visited, at, child)
  /\ layer = <<>> => nextLayer = <<>>

LoopOf(w) ==
  Loop(walk[w].principal, walk[w].ans, walk[w].layer, walk[w].nextLayer,
       walk[w].visited, walk[w].at, walk[w].child)

LoopInv == \A w \in Walkers : walk[w] # NoWalk => LoopOf(w)

\* What is left of a layer: all of it, the current role and what follows, or nothing.
LEMMA RestIs ==
  ASSUME NEW T, NEW s \in Seq(T), NEW n \in Nat \ {0}
  PROVE  /\ Rest(s, 1) = ToSet(s)
         /\ n <= Len(s) => Rest(s, n) = {s[n]} \cup Rest(s, n + 1)
         /\ n > Len(s) => Rest(s, n) = {}
<1>1. DOMAIN s = 1 .. Len(s) /\ Len(s) \in Nat
  OBVIOUS
<1>2. Rest(s, 1) = ToSet(s)
  BY <1>1 DEF Rest, ToSet
<1>3. ASSUME n <= Len(s) PROVE Rest(s, n) = {s[n]} \cup Rest(s, n + 1)
  <2>1. n .. Len(s) = {n} \cup (n + 1) .. Len(s)
    BY <1>1, <1>3
  <2> QED
    BY <2>1 DEF Rest
<1>4. ASSUME n > Len(s) PROVE Rest(s, n) = {}
  <2>1. n .. Len(s) = {}
    BY <1>1, <1>4
  <2> QED
    BY <2>1 DEF Rest
<1> QED
  BY <1>2, <1>3, <1>4

\* The empty sequence has no elements.
LEMMA EmptyToSet == ToSet(<<>>) = {}
  BY DEF ToSet

\* Closure in the graph without order and repeats, said of the lists.
LEMMA ClosedIs ==
  ASSUME TypeOK, NEW S \in SUBSET RoleNames
  PROVE  Closed(Graph, S)
           <=> \A r \in S : inherits[r] # NoRole => ToSet(inherits[r]) \subseteq S
<1>1. ASSUME NEW r \in RoleNames, inherits[r] = NoRole PROVE Graph[r] = NoRole
  BY <1>1 DEF Graph
<1>2. ASSUME NEW r \in RoleNames, inherits[r] # NoRole
      PROVE  Graph[r] # NoRole /\ Graph[r].inherits = ToSet(inherits[r])
  <2>1. inherits[r] \in Seq(RoleNames)
    BY <1>2, ListsAssumption DEF TypeOK
  <2>2. ToSet(inherits[r]) \in SUBSET RoleNames
    BY <2>1, ToSetType
  <2>3. Graph[r] = [inherits |-> ToSet(inherits[r])]
    BY <1>2 DEF Graph
  <2> QED
    BY <2>2, <2>3, UndefinedAssumption
<1> QED
  BY <1>1, <1>2 DEF Closed

\* A walk that has moved keeps the invariant if its new fields do.
LEMMA MovedLoop ==
  ASSUME LoopInv, NEW w \in Walkers, walk[w] \in Walks,
         NEW ans, NEW layer, NEW nextLayer, NEW visited, NEW at, NEW child,
         Moved(w, ans, layer, nextLayer, visited, at, child),
         Loop(walk[w].principal, ans, layer, nextLayer, visited, at, child)
  PROVE  LoopInv'
<1>1. LoopOf(w)'
  BY DEF Moved, LoopOf, Loop, Sound, Opened, Expanded, Graph
<1>2. ASSUME NEW u \in Walkers, u # w, walk'[u] # NoWalk PROVE LoopOf(u)'
  <2>1. walk'[u] = walk[u] /\ inherits' = inherits /\ assigned' = assigned
    BY <1>2 DEF Moved
  <2>2. LoopOf(u)
    BY <1>2, <2>1 DEF LoopInv
  <2> QED
    BY <2>1, <2>2 DEF LoopOf, Loop, Sound, Opened, Expanded, Graph
<1> QED
  BY <1>1, <1>2 DEF LoopInv

-----------------------------------------------------------------------------
(***************************************************************************)
(* Every step of the loop, on its variables alone.                         *)
(***************************************************************************)
\* A walk that begins has visited what is assigned, and all of it is ahead.
LEMMA BeginLoop ==
  ASSUME TypeOK, NEW p \in Principals
  PROVE  Loop(p, <<>>, assigned[p], <<>>, ToSet(assigned[p]), 1, 0)
<1>1. Rest(assigned[p], 1) = ToSet(assigned[p])
  BY RestIs DEF TypeOK
<1> QED
  BY <1>1, EmptyToSet DEF Loop, Sound, Opened, Expanded

\* An undefined role has no children to visit.
LEMMA ReportUndefinedLoop ==
  ASSUME TypeOK, NEW p \in Principals, NEW ans \in Seq(RoleNames),
         NEW layer \in Seq(RoleNames), NEW nextLayer \in Seq(RoleNames),
         NEW visited \in SUBSET RoleNames, NEW at \in Nat \ {0}, NEW child \in Nat,
         Loop(p, ans, layer, nextLayer, visited, at, child),
         child = 0, at <= Len(layer), inherits[layer[at]] = NoRole
  PROVE  Loop(p, Append(ans, layer[at]), layer, nextLayer, visited, at + 1, child)
<1>1. layer[at] \in RoleNames
  OBVIOUS
<1>2. ToSet(Append(ans, layer[at])) = ToSet(ans) \cup {layer[at]}
  BY <1>1, AppendToSet
<1>3. Rest(layer, at) = {layer[at]} \cup Rest(layer, at + 1)
  BY RestIs
<1>4. visited = ToSet(Append(ans, layer[at])) \cup Rest(layer, at + 1) \cup ToSet(nextLayer)
  BY <1>2, <1>3 DEF Loop
<1>5. Expanded(Append(ans, layer[at]), layer, visited, at + 1, child)
  BY <1>2 DEF Loop, Expanded
<1> QED
  BY <1>4, <1>5 DEF Loop, Opened

\* A role just reported is the one whose children are being gone through.
LEMMA ReportLoop ==
  ASSUME TypeOK, NEW p \in Principals, NEW ans \in Seq(RoleNames),
         NEW layer \in Seq(RoleNames), NEW nextLayer \in Seq(RoleNames),
         NEW visited \in SUBSET RoleNames, NEW at \in Nat \ {0}, NEW child \in Nat,
         Loop(p, ans, layer, nextLayer, visited, at, child),
         child = 0, at <= Len(layer), inherits[layer[at]] \in Lists
  PROVE  Loop(p, Append(ans, layer[at]), layer, nextLayer, visited, at, 1)
<1>1. layer[at] \in RoleNames
  OBVIOUS
<1>2. ToSet(Append(ans, layer[at])) = ToSet(ans) \cup {layer[at]}
  BY <1>1, AppendToSet
<1>3. layer[at] \in Rest(layer, at)
  BY RestIs
<1>4. visited = ToSet(Append(ans, layer[at])) \cup Rest(layer, at) \cup ToSet(nextLayer)
  BY <1>2, <1>3 DEF Loop
<1>5. Expanded(Append(ans, layer[at]), layer, visited, at, 1)
  BY <1>2 DEF Loop, Expanded
<1>6. Opened(Append(ans, layer[at]), layer, visited, at, 1)
  <2>1. DOMAIN inherits[layer[at]] \subseteq Nat \ {0}
    BY ListsAssumption
  <2> QED
    BY <1>2, <2>1 DEF Opened
<1> QED
  BY <1>4, <1>5, <1>6 DEF Loop

\* A child is reachable, for its role is; once enqueued it is visited.
LEMMA EnqueueLoop ==
  ASSUME TypeOK, NEW p \in Principals, NEW ans \in Seq(RoleNames),
         NEW layer \in Seq(RoleNames), NEW nextLayer \in Seq(RoleNames),
         NEW visited \in SUBSET RoleNames, NEW at \in Nat \ {0}, NEW child \in Nat,
         Loop(p, ans, layer, nextLayer, visited, at, child),
         child > 0, at <= Len(layer), inherits[layer[at]] \in Lists,
         child <= Len(inherits[layer[at]])
  PROVE  Loop(p, ans, layer, Append(nextLayer, inherits[layer[at]][child]),
              visited \cup {inherits[layer[at]][child]}, at, child + 1)
<1> DEFINE role == layer[at]
           name == inherits[role][child]
<1>1. /\ inherits[role] \in Seq(RoleNames) /\ inherits[role] # NoRole
      /\ child \in DOMAIN inherits[role] /\ name \in RoleNames
  BY ListsAssumption, UndefinedAssumption
<1>2. ToSet(Append(nextLayer, name)) = ToSet(nextLayer) \cup {name}
  BY <1>1, AppendToSet
<1>3. name \in ToSet(inherits[role])
  BY <1>1 DEF ToSet
<1>4. role \in visited
  BY DEF Loop, Opened
<1>5. Sound(p, visited \cup {name})
  <2>1. ASSUME NEW S \in SUBSET RoleNames, ToSet(assigned[p]) \subseteq S, Closed(Graph, S)
        PROVE  visited \cup {name} \subseteq S
    <3>1. visited \subseteq S
      BY <2>1 DEF Loop, Sound
    <3>2. ToSet(inherits[role]) \subseteq S
      BY <1>1, <1>4, <2>1, <3>1, ClosedIs
    <3> QED
      BY <1>3, <3>1, <3>2
  <2> QED
    BY <2>1 DEF Sound
<1>6. Opened(ans, layer, visited \cup {name}, at, child + 1)
  <2>1. ASSUME NEW k \in DOMAIN inherits[role], k < child + 1
        PROVE  inherits[role][k] \in visited \cup {name}
    <3>1. k < child \/ k = child
      BY <1>1, <2>1
    <3> QED
      BY <2>1, <3>1 DEF Loop, Opened
  <2> QED
    BY <2>1 DEF Loop, Opened
<1>7. Expanded(ans, layer, visited \cup {name}, at, child + 1)
  BY DEF Loop, Expanded
<1>8. layer # <<>>
  OBVIOUS
<1>9. visited \cup {name}
        = ToSet(ans) \cup Rest(layer, at) \cup ToSet(Append(nextLayer, name))
  BY <1>2 DEF Loop
<1>10. ToSet(assigned[p]) \subseteq visited \cup {name}
  BY DEF Loop
<1> QED
  BY <1>5, <1>6, <1>7, <1>8, <1>9, <1>10 DEF Loop

\* A child visited before needs nothing more.
LEMMA SkipVisitedLoop ==
  ASSUME TypeOK, NEW p \in Principals, NEW ans \in Seq(RoleNames),
         NEW layer \in Seq(RoleNames), NEW nextLayer \in Seq(RoleNames),
         NEW visited \in SUBSET RoleNames, NEW at \in Nat \ {0}, NEW child \in Nat,
         Loop(p, ans, layer, nextLayer, visited, at, child),
         child > 0, inherits[layer[at]] \in Lists, inherits[layer[at]][child] \in visited
  PROVE  Loop(p, ans, layer, nextLayer, visited, at, child + 1)
<1>1. Opened(ans, layer, visited, at, child + 1)
  <2>1. ASSUME NEW k \in DOMAIN inherits[layer[at]], k < child + 1
        PROVE  inherits[layer[at]][k] \in visited
    <3>1. k \in Nat
      BY ListsAssumption
    <3>2. k < child \/ k = child
      BY <2>1, <3>1
    <3> QED
      BY <2>1, <3>2 DEF Loop, Opened
  <2> QED
    BY <2>1 DEF Loop, Opened
<1>2. Expanded(ans, layer, visited, at, child + 1)
  BY DEF Loop, Expanded
<1> QED
  BY <1>1, <1>2 DEF Loop

\* Past its last child a role has all of its children visited.
LEMMA LeaveRoleLoop ==
  ASSUME TypeOK, NEW p \in Principals, NEW ans \in Seq(RoleNames),
         NEW layer \in Seq(RoleNames), NEW nextLayer \in Seq(RoleNames),
         NEW visited \in SUBSET RoleNames, NEW at \in Nat \ {0}, NEW child \in Nat,
         Loop(p, ans, layer, nextLayer, visited, at, child),
         child > 0, at <= Len(layer), inherits[layer[at]] \in Lists,
         child > Len(inherits[layer[at]])
  PROVE  Loop(p, ans, layer, nextLayer, visited, at + 1, 0)
<1>1. ToSet(inherits[layer[at]]) \subseteq visited
  <2>1. \A k \in DOMAIN inherits[layer[at]] : k < child
    BY ListsAssumption
  <2> QED
    BY <2>1 DEF Loop, Opened, ToSet
<1>2. Rest(layer, at) = {layer[at]} \cup Rest(layer, at + 1)
  BY RestIs
<1>3. visited = ToSet(ans) \cup Rest(layer, at + 1) \cup ToSet(nextLayer)
  BY <1>2 DEF Loop, Opened
<1>4. Expanded(ans, layer, visited, at + 1, 0)
  BY <1>1 DEF Loop, Expanded
<1> QED
  BY <1>3, <1>4 DEF Loop, Opened

\* The next layer becomes what is ahead.
LEMMA NextLayerLoop ==
  ASSUME TypeOK, NEW p \in Principals, NEW ans \in Seq(RoleNames),
         NEW layer \in Seq(RoleNames), NEW nextLayer \in Seq(RoleNames),
         NEW visited \in SUBSET RoleNames, NEW at \in Nat \ {0}, NEW child \in Nat,
         Loop(p, ans, layer, nextLayer, visited, at, child),
         child = 0, at > Len(layer)
  PROVE  Loop(p, ans, nextLayer, <<>>, visited, 1, child)
<1>1. Rest(layer, at) = {}
  BY RestIs
<1>2. Rest(nextLayer, 1) = ToSet(nextLayer)
  BY RestIs
<1>3. visited = ToSet(ans) \cup Rest(nextLayer, 1) \cup ToSet(<<>>)
  BY <1>1, <1>2, EmptyToSet DEF Loop
<1>4. Expanded(ans, nextLayer, visited, 1, child)
  BY DEF Loop, Expanded
<1> QED
  BY <1>3, <1>4 DEF Loop, Opened

\* Every step keeps the loop invariant; a write meets nobody walking.
LEMMA LoopStep == TypeOK /\ LocatedInv /\ LoopInv /\ [Next]_vars => LoopInv'
<1> SUFFICES ASSUME TypeOK, LocatedInv, LoopInv, [Next]_vars PROVE LoopInv'
  OBVIOUS
<1>1. CASE Write
  <2>1. walk' = walk /\ \A w \in Walkers : walk[w] = NoWalk
    BY <1>1 DEF Write, AddRole, Assign, Unlocked
  <2> QED
    BY <2>1 DEF LoopInv
<1>2. ASSUME NEW w \in Walkers, NEW p \in Principals, Begin(w, p) PROVE LoopInv'
  <2>1. /\ walk'[w].principal = p /\ walk'[w].ans = <<>> /\ walk'[w].layer = assigned[p]
        /\ walk'[w].nextLayer = <<>> /\ walk'[w].visited = ToSet(assigned[p])
        /\ walk'[w].at = 1 /\ walk'[w].child = 0
        /\ \A u \in Walkers \ {w} : walk'[u] = walk[u]
        /\ inherits' = inherits /\ assigned' = assigned
    BY <1>2 DEF Begin, TypeOK
  <2>2. LoopOf(w)'
    <3>1. Loop(p, <<>>, assigned[p], <<>>, ToSet(assigned[p]), 1, 0)
      BY BeginLoop
    <3> QED
      BY <2>1, <3>1 DEF LoopOf, Loop, Sound, Opened, Expanded, Graph
  <2>3. ASSUME NEW u \in Walkers, u # w, walk'[u] # NoWalk PROVE LoopOf(u)'
    <3>1. walk'[u] = walk[u] /\ LoopOf(u)
      BY <2>1, <2>3 DEF LoopInv
    <3> QED
      BY <2>1, <3>1 DEF LoopOf, Loop, Sound, Opened, Expanded, Graph
  <2> QED
    BY <2>2, <2>3 DEF LoopInv
<1>3. ASSUME NEW w \in Walkers, Step(w) PROVE LoopInv'
  <2>1. CASE ReportUndefined(w)
    <3>1. /\ walk[w] \in Walks
          /\ Moved(w, Append(walk[w].ans, walk[w].layer[walk[w].at]), walk[w].layer,
                   walk[w].nextLayer, walk[w].visited, walk[w].at + 1, walk[w].child)
      BY <2>1, ReportUndefinedMoves DEF Current, Children
    <3>2. LoopOf(w)
      BY <3>1, WalkFields DEF LoopInv
    <3>3. /\ walk[w].child = 0
          /\ walk[w].at <= Len(walk[w].layer)
          /\ inherits[walk[w].layer[walk[w].at]] = NoRole
      BY <2>1, <3>1, WalkFields, ReadTypes
         DEF ReportUndefined, InLayer, Children, Current
    <3>4. Loop(walk[w].principal, Append(walk[w].ans, walk[w].layer[walk[w].at]), walk[w].layer,
                   walk[w].nextLayer, walk[w].visited, walk[w].at + 1, walk[w].child)
      BY <3>1, <3>2, <3>3, WalkFields, ReportUndefinedLoop DEF LoopOf
    <3> QED
      BY <3>1, <3>4, MovedLoop
  <2>2. CASE Report(w)
    <3>1. /\ walk[w] \in Walks
          /\ Moved(w, Append(walk[w].ans, walk[w].layer[walk[w].at]), walk[w].layer,
                   walk[w].nextLayer, walk[w].visited, walk[w].at, 1)
      BY <2>2, ReportMoves DEF Current, Children
    <3>2. LoopOf(w)
      BY <3>1, WalkFields DEF LoopInv
    <3>3. /\ walk[w].child = 0
          /\ walk[w].at <= Len(walk[w].layer)
          /\ inherits[walk[w].layer[walk[w].at]] \in Lists
      BY <2>2, <3>1, WalkFields, ReadTypes
         DEF Report, InLayer, Children, Current
    <3>4. Loop(walk[w].principal, Append(walk[w].ans, walk[w].layer[walk[w].at]), walk[w].layer,
                   walk[w].nextLayer, walk[w].visited, walk[w].at, 1)
      BY <3>1, <3>2, <3>3, WalkFields, ReportLoop DEF LoopOf
    <3> QED
      BY <3>1, <3>4, MovedLoop
  <2>3. CASE Enqueue(w)
    <3>1. /\ walk[w] \in Walks
          /\ Moved(w, walk[w].ans, walk[w].layer,
                   Append(walk[w].nextLayer, inherits[walk[w].layer[walk[w].at]][walk[w].child]),
                   walk[w].visited \cup {inherits[walk[w].layer[walk[w].at]][walk[w].child]},
                   walk[w].at, walk[w].child + 1)
      BY <2>3, EnqueueMoves DEF Current, Children
    <3>2. LoopOf(w)
      BY <3>1, WalkFields DEF LoopInv
    <3>3. /\ walk[w].child > 0
          /\ walk[w].at <= Len(walk[w].layer)
          /\ inherits[walk[w].layer[walk[w].at]] \in Lists
          /\ walk[w].child <= Len(inherits[walk[w].layer[walk[w].at]])
      BY <2>3, <3>1, WalkFields, ReadTypes
         DEF Enqueue, AtChild, InRole, InLayer, LocatedInv, Located, Children, Current
    <3>4. Loop(walk[w].principal, walk[w].ans, walk[w].layer,
                   Append(walk[w].nextLayer, inherits[walk[w].layer[walk[w].at]][walk[w].child]),
                   walk[w].visited \cup {inherits[walk[w].layer[walk[w].at]][walk[w].child]},
                   walk[w].at, walk[w].child + 1)
      BY <3>1, <3>2, <3>3, WalkFields, EnqueueLoop DEF LoopOf
    <3> QED
      BY <3>1, <3>4, MovedLoop
  <2>4. CASE SkipVisited(w)
    <3>1. /\ walk[w] \in Walks
          /\ Moved(w, walk[w].ans, walk[w].layer, walk[w].nextLayer, walk[w].visited,
                   walk[w].at, walk[w].child + 1)
      BY <2>4, SkipVisitedMoves DEF Current, Children
    <3>2. LoopOf(w)
      BY <3>1, WalkFields DEF LoopInv
    <3>3. /\ walk[w].child > 0
          /\ inherits[walk[w].layer[walk[w].at]] \in Lists
          /\ inherits[walk[w].layer[walk[w].at]][walk[w].child] \in walk[w].visited
      BY <2>4, <3>1, WalkFields, ReadTypes
         DEF SkipVisited, AtChild, InRole, InLayer, LocatedInv, Located, Children, Current
    <3>4. Loop(walk[w].principal, walk[w].ans, walk[w].layer, walk[w].nextLayer, walk[w].visited,
                   walk[w].at, walk[w].child + 1)
      BY <3>1, <3>2, <3>3, WalkFields, SkipVisitedLoop DEF LoopOf
    <3> QED
      BY <3>1, <3>4, MovedLoop
  <2>5. CASE LeaveRole(w)
    <3>1. /\ walk[w] \in Walks
          /\ Moved(w, walk[w].ans, walk[w].layer, walk[w].nextLayer, walk[w].visited,
                   walk[w].at + 1, 0)
      BY <2>5, LeaveRoleMoves DEF Current, Children
    <3>2. LoopOf(w)
      BY <3>1, WalkFields DEF LoopInv
    <3>3. /\ walk[w].child > 0
          /\ walk[w].at <= Len(walk[w].layer)
          /\ inherits[walk[w].layer[walk[w].at]] \in Lists
          /\ walk[w].child > Len(inherits[walk[w].layer[walk[w].at]])
      BY <2>5, <3>1, WalkFields, ReadTypes
         DEF LeaveRole, AtChild, InRole, InLayer, LocatedInv, Located, Children, Current
    <3>4. Loop(walk[w].principal, walk[w].ans, walk[w].layer, walk[w].nextLayer, walk[w].visited,
                   walk[w].at + 1, 0)
      BY <3>1, <3>2, <3>3, WalkFields, LeaveRoleLoop DEF LoopOf
    <3> QED
      BY <3>1, <3>4, MovedLoop
  <2>6. CASE NextLayer(w)
    <3>1. /\ walk[w] \in Walks
          /\ Moved(w, walk[w].ans, walk[w].nextLayer, <<>>, walk[w].visited, 1,
                   walk[w].child)
      BY <2>6, NextLayerMoves DEF Current, Children
    <3>2. LoopOf(w)
      BY <3>1, WalkFields DEF LoopInv
    <3>3. /\ walk[w].child = 0
          /\ walk[w].at > Len(walk[w].layer)
      BY <2>6, <3>1, WalkFields, ReadTypes
         DEF NextLayer, LayerDone, LocatedInv, Located, InLayer
    <3>4. Loop(walk[w].principal, walk[w].ans, walk[w].nextLayer, <<>>, walk[w].visited, 1,
                   walk[w].child)
      BY <3>1, <3>2, <3>3, WalkFields, NextLayerLoop DEF LoopOf
    <3> QED
      BY <3>1, <3>4, MovedLoop
  <2>7. CASE Return(w)
    <3>1. /\ walk'[w] = NoWalk
          /\ \A u \in Walkers \ {w} : walk'[u] = walk[u]
          /\ inherits' = inherits /\ assigned' = assigned
      BY <2>7 DEF Return, TypeOK
    <3>2. ASSUME NEW u \in Walkers, walk'[u] # NoWalk PROVE LoopOf(u)'
      <4>1. walk'[u] = walk[u] /\ LoopOf(u)
        BY <3>1, <3>2 DEF LoopInv
      <4> QED
        BY <3>1, <4>1 DEF LoopOf, Loop, Sound, Opened, Expanded, Graph
    <3> QED
      BY <3>2 DEF LoopInv
  <2> QED
    BY <1>3, <2>1, <2>2, <2>3, <2>4, <2>5, <2>6, <2>7 DEF Step
<1>4. CASE UNCHANGED vars
  BY <1>4 DEF vars, LoopInv, LoopOf, Loop, Sound, Opened, Expanded, Graph
<1> QED
  BY <1>1, <1>2, <1>3, <1>4 DEF Next

\* It holds in every state.
LEMMA LoopHolds == Spec => [](TypeOK /\ LocatedInv /\ LoopInv)
<1>1. Init => LoopInv
  BY DEF Init, LoopInv
<1> QED
  BY <1>1, Types, LoopStep, PTL DEF Spec

(***************************************************************************)
(* What a finished walk returns is what is reachable, in the graph of that *)
(* moment: the set visited is closed, and is within every closed set that  *)
(* holds the assignments.                                                  *)
(***************************************************************************)
THEOREM AnswerIsClosureHolds == Spec => []AnswerIsClosure
<1>1. TypeOK /\ LocatedInv /\ LoopInv => AnswerIsClosure
  <2> SUFFICES ASSUME TypeOK, LocatedInv, LoopInv, NEW w \in Walkers, Finished(w)
               PROVE  ToSet(walk[w].ans) = effectiveRoles(Graph, Direct, walk[w].principal)
    BY DEF AnswerIsClosure
  <2> DEFINE p == walk[w].principal
             ans == ToSet(walk[w].ans)
  <2>1. walk[w] \in Walks /\ walk[w].layer = <<>>
    BY WalkingStep DEF Finished
  <2>2. /\ p \in Principals /\ walk[w].ans \in Seq(RoleNames)
        /\ walk[w].at \in Nat \ {0} /\ walk[w].child \in Nat
    BY <2>1, WalkFields
  <2>3. LoopOf(w)
    BY <2>1, WalkFields DEF LoopInv
  <2>4. walk[w].child = 0
    BY <2>1, <2>2, WalkFields DEF LocatedInv, Located, InLayer
  <2>5. walk[w].visited = ans
    <3>1. Rest(<<>>, walk[w].at) = {}
      BY <2>2 DEF Rest
    <3> QED
      BY <2>1, <2>3, <3>1, EmptyToSet DEF LoopOf, Loop
  <2>6. ans \in SUBSET RoleNames /\ Direct[p] = ToSet(assigned[p])
    BY <2>2, ToSetType DEF Direct
  <2>7. Direct[p] \subseteq ans /\ Closed(Graph, ans)
    <3>1. \A r \in ans : inherits[r] # NoRole => ToSet(inherits[r]) \subseteq ans
      BY <2>3, <2>4, <2>5 DEF LoopOf, Loop, Expanded
    <3> QED
      BY <2>3, <2>5, <2>6, <3>1, ClosedIs DEF LoopOf, Loop
  <2>8. \A S \in SUBSET RoleNames : Direct[p] \subseteq S /\ Closed(Graph, S) => ans \subseteq S
    BY <2>3, <2>5, <2>6 DEF LoopOf, Loop, Sound
  <2>9. ans \subseteq effectiveRoles(Graph, Direct, p)
    BY <2>6, <2>8 DEF effectiveRoles
  <2>10. effectiveRoles(Graph, Direct, p) \subseteq ans
    BY <2>6, <2>7 DEF effectiveRoles
  <2> QED
    BY <2>9, <2>10
<1> QED
  BY <1>1, LoopHolds, PTL

-----------------------------------------------------------------------------
(***************************************************************************)
(* How often a role is reported.  What is reported, what is ahead in this  *)
(* layer and what is in the next are counted together: a role enters them  *)
(* when it is assigned, or when it is visited for the first time.          *)
(***************************************************************************)
At(r, s, n) == {k \in n .. Len(s) : s[k] = r}

Ahead(r, s, n) == Cardinality(At(r, s, n))

\* How often a role may be reported.
Limit(r, p) == IF Occurrences(r, assigned[p]) = 0 THEN 1 ELSE Occurrences(r, assigned[p])

\* The first position whose role is still to be reported.
Unreported(at, child) == IF child = 0 THEN at ELSE at + 1

Counted(p, ans, layer, nextLayer, at, child) ==
  \A r \in RoleNames :
    Occurrences(r, ans) + Ahead(r, layer, Unreported(at, child)) + Occurrences(r, nextLayer)
      <= Limit(r, p)

CountOf(w) ==
  Counted(walk[w].principal, walk[w].ans, walk[w].layer, walk[w].nextLayer, walk[w].at, walk[w].child)

CountInv == \A w \in Walkers : walk[w] # NoWalk => CountOf(w)

\* The occurrences ahead are counted down as the position moves.
LEMMA AheadIs ==
  ASSUME NEW T, NEW s \in Seq(T), NEW r, NEW n \in Nat \ {0}
  PROVE  /\ Ahead(r, s, n) \in Nat
         /\ Ahead(r, s, 1) = Occurrences(r, s)
         /\ n <= Len(s) => Ahead(r, s, n) = Ahead(r, s, n + 1) + (IF s[n] = r THEN 1 ELSE 0)
         /\ n > Len(s) => Ahead(r, s, n) = 0
         /\ r \notin Rest(s, n) => Ahead(r, s, n) = 0
<1>1. Len(s) \in Nat /\ DOMAIN s = 1 .. Len(s)
  OBVIOUS
<1>2. ASSUME NEW m \in Nat \ {0} PROVE IsFiniteSet(At(r, s, m)) /\ Ahead(r, s, m) \in Nat
  <2>1. IsFiniteSet(m .. Len(s))
    BY <1>1, FS_Interval
  <2>2. At(r, s, m) \in SUBSET (m .. Len(s))
    BY DEF At
  <2> QED
    BY <2>1, <2>2, FS_Subset, FS_CardinalityType DEF Ahead
<1>3. Ahead(r, s, 1) = Occurrences(r, s)
  BY <1>1 DEF Ahead, At, Occurrences
<1>4. ASSUME n <= Len(s)
      PROVE  Ahead(r, s, n) = Ahead(r, s, n + 1) + (IF s[n] = r THEN 1 ELSE 0)
  <2>1. n .. Len(s) = {n} \cup ((n + 1) .. Len(s)) /\ n \notin (n + 1) .. Len(s)
    BY <1>1, <1>4
  <2>2. CASE s[n] = r
    <3>1. At(r, s, n) = At(r, s, n + 1) \cup {n} /\ n \notin At(r, s, n + 1)
      BY <2>1, <2>2 DEF At
    <3>2. IsFiniteSet(At(r, s, n + 1))
      BY <1>2
    <3>3. Cardinality(At(r, s, n + 1) \cup {n}) = Cardinality(At(r, s, n + 1)) + 1
      BY <3>1, <3>2, FS_AddElement
    <3> QED
      BY <2>2, <3>1, <3>3 DEF Ahead
  <2>3. CASE s[n] # r
    <3>1. At(r, s, n) = At(r, s, n + 1)
      BY <2>1, <2>3 DEF At
    <3> QED
      BY <1>2, <2>3, <3>1 DEF Ahead
  <2> QED
    BY <2>2, <2>3
<1>5. ASSUME n > Len(s) \/ r \notin Rest(s, n) PROVE Ahead(r, s, n) = 0
  <2>1. At(r, s, n) = {}
    BY <1>1, <1>5 DEF At, Rest
  <2> QED
    BY <2>1, FS_EmptySet DEF Ahead
<1> QED
  BY <1>2, <1>3, <1>4, <1>5

\* Appending a role adds one occurrence of it.
LEMMA OccurrencesIs ==
  ASSUME NEW T, NEW s \in Seq(T), NEW e \in T, NEW r
  PROVE  /\ Occurrences(r, s) \in Nat
         /\ Occurrences(r, Append(s, e)) = Occurrences(r, s) + (IF e = r THEN 1 ELSE 0)
         /\ r \notin ToSet(s) => Occurrences(r, s) = 0
<1> DEFINE where == {k \in DOMAIN s : s[k] = r}
           longer == {k \in DOMAIN Append(s, e) : Append(s, e)[k] = r}
<1>1. /\ Len(s) \in Nat /\ DOMAIN s = 1 .. Len(s) /\ DOMAIN Append(s, e) = 1 .. Len(s) + 1
      /\ \A k \in 1 .. Len(s) : Append(s, e)[k] = s[k]
      /\ Append(s, e)[Len(s) + 1] = e
  OBVIOUS
<1>2. IsFiniteSet(where) /\ Occurrences(r, s) \in Nat
  <2>1. IsFiniteSet(1 .. Len(s))
    BY <1>1, FS_Interval
  <2>2. where \in SUBSET (1 .. Len(s))
    BY <1>1
  <2>3. IsFiniteSet(where)
    BY <2>1, <2>2, FS_Subset
  <2>4. Cardinality(where) \in Nat
    BY <2>3, FS_CardinalityType
  <2> QED
    BY <2>3, <2>4 DEF Occurrences
<1>3. DOMAIN Append(s, e) = DOMAIN s \cup {Len(s) + 1} /\ Len(s) + 1 \notin DOMAIN s
  BY <1>1
<1>4. Occurrences(r, Append(s, e)) = Occurrences(r, s) + (IF e = r THEN 1 ELSE 0)
  <2>1. CASE e = r
    <3>1. longer = where \cup {Len(s) + 1} /\ Len(s) + 1 \notin where
      BY <1>1, <1>3, <2>1
    <3>2. Cardinality(where \cup {Len(s) + 1}) = Cardinality(where) + 1
      BY <1>2, <3>1, FS_AddElement
    <3> QED
      BY <2>1, <3>1, <3>2 DEF Occurrences
  <2>2. CASE e # r
    <3>1. longer = where
      BY <1>1, <1>3, <2>2
    <3>2. Occurrences(r, Append(s, e)) = Occurrences(r, s)
      BY <3>1 DEF Occurrences
    <3> QED
      BY <1>2, <2>2, <3>2
  <2> QED
    BY <2>1, <2>2
<1>5. ASSUME r \notin ToSet(s) PROVE Occurrences(r, s) = 0
  <2>1. where = {}
    BY <1>5 DEF ToSet
  <2> QED
    BY <2>1, FS_EmptySet DEF Occurrences
<1> QED
  BY <1>2, <1>4, <1>5

\* Nothing occurs in the empty sequence.
LEMMA NoOccurrences == \A r : Occurrences(r, <<>>) = 0
  BY FS_EmptySet DEF Occurrences

\* Reporting a role moves it from what is ahead to what is reported.
LEMMA ReportCounts ==
  ASSUME NEW p, NEW ans \in Seq(RoleNames), NEW layer \in Seq(RoleNames),
         NEW nextLayer, NEW at \in Nat \ {0}, at <= Len(layer),
         Counted(p, ans, layer, nextLayer, at, 0)
  PROVE  /\ Counted(p, Append(ans, layer[at]), layer, nextLayer, at + 1, 0)
         /\ Counted(p, Append(ans, layer[at]), layer, nextLayer, at, 1)
<1>1. layer[at] \in RoleNames
  OBVIOUS
<1>2. ASSUME NEW r \in RoleNames
      PROVE  Occurrences(r, Append(ans, layer[at])) + Ahead(r, layer, at + 1)
               = Occurrences(r, ans) + Ahead(r, layer, at)
  <2>1. /\ Occurrences(r, ans) \in Nat /\ Ahead(r, layer, at + 1) \in Nat
        /\ Occurrences(r, Append(ans, layer[at])) = Occurrences(r, ans) + (IF layer[at] = r THEN 1 ELSE 0)
    BY <1>1, OccurrencesIs, AheadIs
  <2>2. Ahead(r, layer, at) = Ahead(r, layer, at + 1) + (IF layer[at] = r THEN 1 ELSE 0)
    BY AheadIs
  <2> QED
    BY <2>1, <2>2
<1> QED
  BY <1>2 DEF Counted, Unreported

\* A role visited for the first time is nowhere yet, and was not assigned.
LEMMA EnqueueCounts ==
  ASSUME NEW p \in Principals, NEW ans \in Seq(RoleNames), NEW layer \in Seq(RoleNames),
         NEW nextLayer \in Seq(RoleNames), NEW visited, NEW at \in Nat \ {0}, NEW child \in Nat \ {0},
         at <= Len(layer), Loop(p, ans, layer, nextLayer, visited, at, child),
         NEW name \in RoleNames, name \notin visited, TypeOK,
         Counted(p, ans, layer, nextLayer, at, child)
  PROVE  Counted(p, ans, layer, Append(nextLayer, name), at, child + 1)
<1>1. /\ name \notin ToSet(ans) /\ name \notin Rest(layer, at + 1) /\ name \notin ToSet(nextLayer)
      /\ name \notin ToSet(assigned[p])
  BY RestIs DEF Loop
<1>2. Limit(name, p) = 1
  BY <1>1, OccurrencesIs DEF Limit, TypeOK
<1>3. Occurrences(name, ans) = 0 /\ Ahead(name, layer, at + 1) = 0 /\ Occurrences(name, nextLayer) = 0
  BY <1>1, OccurrencesIs, AheadIs
<1>4. ASSUME NEW r \in RoleNames
      PROVE  Occurrences(r, ans) + Ahead(r, layer, at + 1) + Occurrences(r, Append(nextLayer, name))
               <= Limit(r, p)
  <2>1. Occurrences(r, Append(nextLayer, name)) = Occurrences(r, nextLayer) + (IF name = r THEN 1 ELSE 0)
    BY OccurrencesIs
  <2>2. CASE r = name
    BY <1>2, <1>3, <2>1, <2>2
  <2>3. CASE r # name
    <3>1. Occurrences(r, nextLayer) \in Nat
      BY OccurrencesIs
    <3>2. Occurrences(r, Append(nextLayer, name)) = Occurrences(r, nextLayer)
      BY <2>1, <2>3, <3>1
    <3> QED
      BY <3>2 DEF Counted, Unreported
  <2> QED
    BY <2>2, <2>3
<1>5. Unreported(at, child + 1) = at + 1
  BY DEF Unreported
<1> QED
  BY <1>4, <1>5 DEF Counted

\* What was in the next layer is ahead when the next layer begins.
LEMMA NextLayerCounts ==
  ASSUME NEW p, NEW ans \in Seq(RoleNames), NEW layer \in Seq(RoleNames),
         NEW nextLayer \in Seq(RoleNames), NEW at \in Nat \ {0}, at > Len(layer),
         Counted(p, ans, layer, nextLayer, at, 0)
  PROVE  Counted(p, ans, nextLayer, <<>>, 1, 0)
<1>1. ASSUME NEW r \in RoleNames
      PROVE  Occurrences(r, ans) + Ahead(r, nextLayer, 1) + Occurrences(r, <<>>)
               = Occurrences(r, ans) + Ahead(r, layer, at) + Occurrences(r, nextLayer)
  <2>1. Ahead(r, layer, at) = 0 /\ Ahead(r, nextLayer, 1) = Occurrences(r, nextLayer)
    BY AheadIs
  <2>2. Occurrences(r, ans) \in Nat /\ Occurrences(r, nextLayer) \in Nat /\ Occurrences(r, <<>>) = 0
    BY OccurrencesIs, NoOccurrences
  <2> QED
    BY <2>1, <2>2
<1> QED
  BY <1>1 DEF Counted, Unreported

\* A walk begins with what is assigned ahead of it, and nothing else.
LEMMA BeginCounts ==
  ASSUME TypeOK, NEW p \in Principals
  PROVE  Counted(p, <<>>, assigned[p], <<>>, 1, 0)
<1>1. ASSUME NEW r \in RoleNames
      PROVE  /\ Ahead(r, assigned[p], 1) = Occurrences(r, assigned[p])
             /\ Occurrences(r, assigned[p]) \in Nat
  BY AheadIs, OccurrencesIs DEF TypeOK
<1>2. ASSUME NEW r \in RoleNames
      PROVE  Occurrences(r, <<>>) + Ahead(r, assigned[p], 1) + Occurrences(r, <<>>) <= Limit(r, p)
  BY <1>1, NoOccurrences DEF Limit
<1> QED
  BY <1>2 DEF Counted, Unreported

\* A walk that has moved keeps the count if its new fields do.
LEMMA MovedCount ==
  ASSUME CountInv, NEW w \in Walkers, walk[w] \in Walks,
         NEW ans, NEW layer, NEW nextLayer, NEW visited, NEW at, NEW child,
         Moved(w, ans, layer, nextLayer, visited, at, child),
         Counted(walk[w].principal, ans, layer, nextLayer, at, child)
  PROVE  CountInv'
<1>1. CountOf(w)'
  BY DEF Moved, CountOf, Counted, Limit
<1>2. ASSUME NEW u \in Walkers, u # w, walk'[u] # NoWalk PROVE CountOf(u)'
  <2>1. walk'[u] = walk[u] /\ assigned' = assigned
    BY <1>2 DEF Moved
  <2>2. CountOf(u)
    BY <1>2, <2>1 DEF CountInv
  <2> QED
    BY <2>1, <2>2 DEF CountOf, Counted, Limit
<1> QED
  BY <1>1, <1>2 DEF CountInv

\* Every step keeps the count.
LEMMA CountStep == TypeOK /\ LocatedInv /\ LoopInv /\ CountInv /\ [Next]_vars => CountInv'
<1> SUFFICES ASSUME TypeOK, LocatedInv, LoopInv, CountInv, [Next]_vars PROVE CountInv'
  OBVIOUS
<1>1. CASE Write
  <2>1. walk' = walk /\ \A w \in Walkers : walk[w] = NoWalk
    BY <1>1 DEF Write, AddRole, Assign, Unlocked
  <2> QED
    BY <2>1 DEF CountInv
<1>2. ASSUME NEW w \in Walkers, NEW p \in Principals, Begin(w, p) PROVE CountInv'
  <2>1. /\ walk'[w].principal = p /\ walk'[w].ans = <<>> /\ walk'[w].layer = assigned[p]
        /\ walk'[w].nextLayer = <<>> /\ walk'[w].at = 1 /\ walk'[w].child = 0
        /\ \A u \in Walkers \ {w} : walk'[u] = walk[u]
        /\ assigned' = assigned
    BY <1>2 DEF Begin, TypeOK
  <2>2. CountOf(w)'
    <3>1. Counted(p, <<>>, assigned[p], <<>>, 1, 0)
      BY BeginCounts
    <3> QED
      BY <2>1, <3>1 DEF CountOf, Counted, Limit
  <2>3. ASSUME NEW u \in Walkers, u # w, walk'[u] # NoWalk PROVE CountOf(u)'
    <3>1. walk'[u] = walk[u] /\ CountOf(u)
      BY <2>1, <2>3 DEF CountInv
    <3> QED
      BY <2>1, <3>1 DEF CountOf, Counted, Limit
  <2> QED
    BY <2>2, <2>3 DEF CountInv
<1>3. ASSUME NEW w \in Walkers, Step(w) PROVE CountInv'
  <2>0. ASSUME walk[w] \in Walks
        PROVE  LoopOf(w) /\ Counted(walk[w].principal, walk[w].ans, walk[w].layer, walk[w].nextLayer,
                                    walk[w].at, walk[w].child)
    BY <2>0, WalkFields DEF LoopInv, CountInv, CountOf
  <2>1. CASE ReportUndefined(w)
    <3>1. /\ walk[w] \in Walks /\ walk[w].child = 0 /\ walk[w].at <= Len(walk[w].layer)
          /\ Moved(w, Append(walk[w].ans, walk[w].layer[walk[w].at]), walk[w].layer,
                   walk[w].nextLayer, walk[w].visited, walk[w].at + 1, walk[w].child)
      BY <2>1, ReportUndefinedMoves DEF ReportUndefined, InLayer, Current
    <3>2. Counted(walk[w].principal, Append(walk[w].ans, walk[w].layer[walk[w].at]), walk[w].layer,
                  walk[w].nextLayer, walk[w].at + 1, walk[w].child)
      BY <2>0, <3>1, WalkFields, ReportCounts
    <3> QED
      BY <3>1, <3>2, MovedCount
  <2>2. CASE Report(w)
    <3>1. /\ walk[w] \in Walks /\ walk[w].child = 0 /\ walk[w].at <= Len(walk[w].layer)
          /\ Moved(w, Append(walk[w].ans, walk[w].layer[walk[w].at]), walk[w].layer,
                   walk[w].nextLayer, walk[w].visited, walk[w].at, 1)
      BY <2>2, ReportMoves DEF Report, InLayer, Current
    <3>2. Counted(walk[w].principal, Append(walk[w].ans, walk[w].layer[walk[w].at]), walk[w].layer,
                  walk[w].nextLayer, walk[w].at, 1)
      BY <2>0, <3>1, WalkFields, ReportCounts
    <3> QED
      BY <3>1, <3>2, MovedCount
  <2>3. CASE Enqueue(w)
    <3> DEFINE name == inherits[walk[w].layer[walk[w].at]][walk[w].child]
    <3>1. /\ walk[w] \in Walks
          /\ Moved(w, walk[w].ans, walk[w].layer, Append(walk[w].nextLayer, name),
                   walk[w].visited \cup {name}, walk[w].at, walk[w].child + 1)
      BY <2>3, EnqueueMoves DEF Current, Children
    <3>2. /\ walk[w].child > 0 /\ walk[w].at <= Len(walk[w].layer)
          /\ name \in RoleNames /\ name \notin walk[w].visited
      BY <2>3, <3>1, WalkFields, ReadTypes DEF Enqueue, AtChild, InRole, InLayer, Children, Current
    <3>3. Loop(walk[w].principal, walk[w].ans, walk[w].layer, walk[w].nextLayer, walk[w].visited,
               walk[w].at, walk[w].child)
      BY <2>0, <3>1 DEF LoopOf
    <3>4. walk[w].child \in Nat \ {0}
      <4>1. walk[w].child \in Nat
        BY <3>1, WalkFields
      <4> QED
        BY <3>2, <4>1
    <3> HIDE DEF name
    <3>5. Counted(walk[w].principal, walk[w].ans, walk[w].layer, Append(walk[w].nextLayer, name),
                  walk[w].at, walk[w].child + 1)
      BY <2>0, <3>1, <3>2, <3>3, <3>4, WalkFields, EnqueueCounts
    <3> QED
      BY <3>1, <3>5, MovedCount
  <2>4. CASE SkipVisited(w)
    <3>1. /\ walk[w] \in Walks /\ walk[w].child > 0
          /\ Moved(w, walk[w].ans, walk[w].layer, walk[w].nextLayer, walk[w].visited,
                   walk[w].at, walk[w].child + 1)
      BY <2>4, SkipVisitedMoves DEF SkipVisited, AtChild, InRole
    <3>2. Unreported(walk[w].at, walk[w].child + 1) = Unreported(walk[w].at, walk[w].child)
      BY <3>1, WalkFields DEF Unreported
    <3>3. Counted(walk[w].principal, walk[w].ans, walk[w].layer, walk[w].nextLayer,
                  walk[w].at, walk[w].child + 1)
      BY <2>0, <3>1, <3>2 DEF Counted
    <3> QED
      BY <3>1, <3>3, MovedCount
  <2>5. CASE LeaveRole(w)
    <3>1. /\ walk[w] \in Walks /\ walk[w].child > 0
          /\ Moved(w, walk[w].ans, walk[w].layer, walk[w].nextLayer, walk[w].visited,
                   walk[w].at + 1, 0)
      BY <2>5, LeaveRoleMoves DEF LeaveRole, InRole
    <3>2. Unreported(walk[w].at + 1, 0) = Unreported(walk[w].at, walk[w].child)
      BY <3>1, WalkFields DEF Unreported
    <3>3. Counted(walk[w].principal, walk[w].ans, walk[w].layer, walk[w].nextLayer, walk[w].at + 1, 0)
      BY <2>0, <3>1, <3>2 DEF Counted
    <3> QED
      BY <3>1, <3>3, MovedCount
  <2>6. CASE NextLayer(w)
    <3>1. /\ walk[w] \in Walks
          /\ Moved(w, walk[w].ans, walk[w].nextLayer, <<>>, walk[w].visited, 1, walk[w].child)
      BY <2>6, NextLayerMoves
    <3>2. walk[w].child = 0 /\ walk[w].at > Len(walk[w].layer)
      BY <2>6, <3>1, WalkFields, ReadTypes DEF NextLayer, LayerDone, LocatedInv, Located, InLayer
    <3>3. Counted(walk[w].principal, walk[w].ans, walk[w].nextLayer, <<>>, 1, walk[w].child)
      BY <2>0, <3>1, <3>2, WalkFields, NextLayerCounts
    <3> QED
      BY <3>1, <3>3, MovedCount
  <2>7. CASE Return(w)
    <3>1. /\ walk'[w] = NoWalk
          /\ \A u \in Walkers \ {w} : walk'[u] = walk[u]
          /\ assigned' = assigned
      BY <2>7 DEF Return, TypeOK
    <3>2. ASSUME NEW u \in Walkers, walk'[u] # NoWalk PROVE CountOf(u)'
      <4>1. walk'[u] = walk[u] /\ CountOf(u)
        BY <3>1, <3>2 DEF CountInv
      <4> QED
        BY <3>1, <4>1 DEF CountOf, Counted, Limit
    <3> QED
      BY <3>2 DEF CountInv
  <2> QED
    BY <1>3, <2>1, <2>2, <2>3, <2>4, <2>5, <2>6, <2>7 DEF Step
<1>4. CASE UNCHANGED vars
  BY <1>4 DEF vars, CountInv, CountOf, Counted, Limit
<1> QED
  BY <1>1, <1>2, <1>3, <1>4 DEF Next

(***************************************************************************)
(* In every state of a walk, no role has been reported more often than it  *)
(* was assigned, or more than once if it was only inherited.               *)
(***************************************************************************)
THEOREM ReportedOnceHolds == Spec => []ReportedOnce
<1>1. TypeOK /\ CountInv => ReportedOnce
  <2> SUFFICES ASSUME TypeOK, CountInv, NEW w \in Walkers, walk[w] # NoWalk, NEW r \in RoleNames
               PROVE  Occurrences(r, walk[w].ans) <= Limit(r, walk[w].principal)
    BY DEF ReportedOnce, Limit
  <2>1. walk[w] \in Walks
    BY DEF TypeOK
  <2>2. /\ walk[w].ans \in Seq(RoleNames) /\ walk[w].layer \in Seq(RoleNames)
        /\ walk[w].nextLayer \in Seq(RoleNames) /\ walk[w].principal \in Principals
        /\ Unreported(walk[w].at, walk[w].child) \in Nat \ {0}
    BY <2>1, WalkFields DEF Unreported
  <2>3. /\ Occurrences(r, walk[w].ans) \in Nat /\ Occurrences(r, walk[w].nextLayer) \in Nat
        /\ Ahead(r, walk[w].layer, Unreported(walk[w].at, walk[w].child)) \in Nat
    BY <2>2, OccurrencesIs, AheadIs
  <2>4. Limit(r, walk[w].principal) \in Nat
    BY <2>2, OccurrencesIs DEF Limit, TypeOK
  <2> QED
    BY <2>3, <2>4 DEF CountInv, CountOf, Counted
<1>2. Init => CountInv
  BY DEF Init, CountInv
<1> QED
  BY <1>1, <1>2, CountStep, LoopHolds, PTL DEF Spec

=============================================================================
