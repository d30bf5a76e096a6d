--------------------- MODULE AuthorizationServiceProofs ---------------------
(***************************************************************************)
(* What the service answers and what its caches hold, for any number of    *)
(* threads, roles, principals and targets, any bucket and any retention.   *)
(***************************************************************************)
EXTENDS AuthorizationService, DecisionCacheProofs, SnapshotsProofs

-----------------------------------------------------------------------------
(***************************************************************************)
(* Where a check is, and what its locals hold there.                       *)
(***************************************************************************)
\* The role a check has taken out and not yet an answer for.
Outstanding(c) == IF c.phase \in {"asking", "inCache"} THEN {c.role} ELSE {}

Located(t) ==
  /\ pc[t] = "idle" <=> check[t].phase # "inCache"
  /\ pc[t] \notin {"clearingMisses", "clearingCoalesced"}
  /\ outcome[t] # Nothing
  /\ Outstanding(check[t]) \subseteq RoleNames
  /\ check[t].phase = "inCache" =>
       flight[t].key = [subject |-> check[t].role, target |-> check[t].target]
  /\ check[t].phase \in {"resolving", "gathering", "inCache"} =>
       check[t].revision = Unread /\ check[t].now = Unread
  /\ check[t].phase \in {"selecting", "resolving"} => check[t].answers = {}
  /\ check[t].phase \in Phases \ {"selecting"} => check[t].snapshot \in Time
  /\ check[t].phase = "answered" => check[t].verdict \in {"Allow", "Deny"}
  /\ check[t].phase \in Phases => Graph \in check[t].graphs

ServiceTypeInv == ServiceTypeOK /\ CacheInv /\ \A t \in Threads : Located(t)

-----------------------------------------------------------------------------
(* The steps of the subproblem cache, seen from the service. *)

(***************************************************************************)
(* A call inside getOrCompute moves on: nothing but its own program        *)
(* counter, the table at its own key, and answers, which are an entry of   *)
(* the key asked about or what another call has for the same key.          *)
(***************************************************************************)
Hop(t) ==
  /\ flight' = flight
  /\ pc[t] \notin OutsideCall /\ pc'[t] \notin OutsideCall
  /\ \A u \in Threads \ {t} : pc'[u] = pc[u]
  /\ \A u \in Threads :
       \/ outcome'[u] = outcome[u]
       \/ outcome'[u] \in {Pending, Failed}
       \/ entries[flight[u]] # Nothing /\ flight[u] \in FlightKey /\ outcome'[u] = entries[flight[u]]
       \/ \E v \in Threads : flight[v] = flight[u] /\ outcome'[u] = outcome[v]
  /\ clock' \in Readings(clock)
  /\ \/ entries' = entries
     \/ /\ flight[t] \in FlightKey /\ outcome[t] \in Decision
        /\ entries' = put(entries, flight[t], outcome[t], clock')

\* What Settle hands out is the outcome of somebody with the same flight.
LEMMA SettleHops ==
  ASSUME CacheInv, NEW t \in Threads, Fulfil(t) \/ Reject(t)
  PROVE  \A u \in Threads :
           \/ outcome'[u] = outcome[u]
           \/ \E v \in Threads : flight[v] = flight[u] /\ outcome'[u] = outcome[v]
<1> SUFFICES ASSUME NEW u \in Threads, outcome'[u] # outcome[u]
             PROVE  flight[t] = flight[u] /\ outcome'[u] = outcome[t]
  OBVIOUS
<1>1. waitOn[u] = t /\ outcome[u] = Pending /\ outcome'[u] = outcome[t]
  BY DEF Fulfil, Reject, Settle
<1>2. pc[u] \in {"joining", "waiting"}
  BY <1>1, NoneAssumption DEF CacheInv, CallInv
<1> QED
  BY <1>1, <1>2 DEF CacheInv, NoOrphanedWait

\* A reading of the clock may be the last one again.
LEMMA SameReading == TypeOK => clock \in Readings(clock) /\ \A n \in Readings(clock) : n \in Time
  BY TimeFacts DEF TypeOK, Readings

\* Every step of InSubproblemCache and EvaluateRole is a hop.
LEMMA CallHops ==
  ASSUME CacheInv, NEW t \in Threads,
         \/ FindStored(t) \/ JoinFlight(t) \/ OwnFlight(t) \/ Join(t) \/ Await(t)
         \/ Throw(t) \/ Store(t) \/ Fulfil(t) \/ Retire(t) \/ Drop(t) \/ Reject(t)
  PROVE  Hop(t)
<1> USE SameReading DEF Goto, Answer, OutsideCall, CacheInv
<1>1. CASE FindStored(t)
  <2>1. flight[t] \in FlightKey
    BY <1>1 DEF FindStored, TypeOK
  <2> QED
    BY <1>1, <2>1 DEF FindStored, Hop, TypeOK, getUnlocked
<1>2. CASE JoinFlight(t)
  <2> DEFINE o == inFlight[flight[t]]
  <2>1. flight[t] \in FlightKey /\ o \in Threads /\ flight[o] = flight[t] /\ pc[o] \in Flying
    BY <1>2 DEF JoinFlight, TypeOK, FlightInv
  <2>2. promise[o] = Pending \/ promise[o] = outcome[o]
    BY <2>1 DEF OutcomeInv, Flying
  <2>3. outcome' = [outcome EXCEPT ![t] = promise[o]]
    BY <1>2 DEF JoinFlight
  <2>4. outcome'[t] = Pending \/ outcome'[t] = outcome[o]
    BY <2>2, <2>3 DEF TypeOK
  <2>5. \A u \in Threads \ {t} : outcome'[u] = outcome[u]
    BY <2>3 DEF TypeOK
  <2> QED
    BY <1>2, <2>1, <2>4, <2>5 DEF JoinFlight, Hop, TypeOK
<1>3. CASE OwnFlight(t) \/ Join(t) \/ Await(t) \/ Retire(t) \/ Drop(t)
  BY <1>3 DEF OwnFlight, Join, Await, Retire, Drop, Hop, TypeOK
<1>4. CASE Throw(t)
  BY <1>4 DEF Throw, Hop, TypeOK
<1>5. CASE Store(t)
  <2>1. flight[t] \in FlightKey /\ outcome[t] \in Decision
    BY <1>5 DEF Store, TypeOK, OutcomeInv, Flying
  <2> QED
    BY <1>5, <2>1 DEF Store, Hop, TypeOK
<1>6. CASE Fulfil(t) \/ Reject(t)
  BY <1>6, SettleHops DEF Fulfil, Reject, Hop, TypeOK
<1> QED
  BY <1>1, <1>2, <1>3, <1>4, <1>5, <1>6

-----------------------------------------------------------------------------
(* Type correctness. *)

\* Whoever is in a phase of a check serves one.
LEMMA InCheck ==
  ASSUME ServiceTypeOK, NEW t \in Threads
  PROVE  /\ check[t].phase \in Phases => check[t] \in Checks /\ check[t] # NoCheck
         /\ check[t] # NoCheck => check[t] \in Checks /\ check[t].phase \in Phases
         /\ check[t] = NoCheck => check[t].phase = "idle"
  BY DEF ServiceTypeOK, Checks, NoCheck, Phases

\* What membership in Checks says of each field.
LEMMA CheckFields ==
  ASSUME NEW c \in Checks
  PROVE  /\ c.phase \in Phases /\ c.principal \in Principals /\ c.target \in Targets
         /\ c.level \in Consistency /\ c.token \in Time
         /\ c.revision \in Time \cup {Unread} /\ c.now \in Time \cup {Unread}
         /\ c.snapshot \in Time \cup {Unread} /\ c.remaining \subseteq RoleNames
         /\ c.role \in RoleNames \cup {NoRole} /\ c.answers \subseteq Decision
         /\ c.graphs \subseteq [roles : Roles, assignments : Assignments]
  BY DEF Checks

\* A role's own policies give a verdict.
LEMMA EvaluationType ==
  ASSUME NEW rs \in Roles, NEW r \in RoleNames, NEW g \in Targets
  PROVE  evaluateForRole(rs, r, g) \in Decision
<1>1. rs[r] \in Role \cup {NoRole}
  BY DEF Roles
<1> QED
  BY <1>1 DEF evaluateForRole, Role, Verdicts, Decision

\* What a check looks up is a key of the cache it looks it up in.
LEMMA KeyTypes ==
  ASSUME NEW c \in Checks, c.revision # Unread, c.now # Unread
  PROVE  /\ Selected(c) \in Time /\ Selected(c) >= c.revision
         /\ c.token <= c.revision => Selected(c) <= LaterOf(c.now, c.revision)
         /\ CheckFlight(c) \in FlightKey
         /\ c.role \in RoleNames => RoleFlight(c) \in FlightKey
<1>1. /\ c.level \in Consistency /\ c.token \in Time /\ c.revision \in Time /\ c.now \in Time
      /\ c.principal \in Principals /\ c.target \in Targets
  BY CheckFields
<1>2. Selected(c) \in Time
  BY <1>1, SelectedType, BucketAssumption DEF Selected
<1>3. /\ Selected(c) >= c.revision
      /\ c.token <= c.revision => Selected(c) <= LaterOf(c.now, c.revision)
  BY <1>1, FloorHolds, TimeFacts, BucketAssumption DEF Selected
<1> QED
  BY <1>1, <1>2, <1>3, KeysAssumption DEF CheckFlight, RoleFlight, FlightKey

(***************************************************************************)
(* A step of t that leaves the graph alone keeps the types, if it keeps    *)
(* those of the cache, of the verdicts and of t's own check.               *)
(***************************************************************************)
LEMMA StepTypes ==
  ASSUME ServiceTypeInv, NEW t \in Threads, NEW c \in Checks \cup {NoCheck},
         check' = [check EXCEPT ![t] = c],
         CacheInv', UNCHANGED graphVars,
         checkEntries' \in [FlightKey -> {"Allow", "Deny", Nothing}],
         {checkHits', checkMisses'} \subseteq 0 .. CounterModulus - 1,
         \A u \in Threads \ {t} : pc'[u] = pc[u] /\ flight'[u] = flight[u] /\ outcome'[u] # Nothing,
         Located(t)'
  PROVE  ServiceTypeInv'
<1>1. ServiceTypeOK'
  BY DEF ServiceTypeInv, ServiceTypeOK, CacheInv, graphVars
<1>2. ASSUME NEW u \in Threads \ {t} PROVE Located(u)'
  <2>1. check'[u] = check[u] /\ pc'[u] = pc[u] /\ flight'[u] = flight[u] /\ outcome'[u] # Nothing
    BY DEF ServiceTypeInv, ServiceTypeOK
  <2>2. Graph' = Graph
    BY DEF Graph, graphVars
  <2> QED
    BY <2>1, <2>2 DEF ServiceTypeInv, Located, Outstanding
<1> QED
  BY <1>1, <1>2 DEF ServiceTypeInv

\* The cache alone: its variables as they were, the clock perhaps read again.
CacheAside == clock' \in Readings(clock) /\ UNCHANGED <<entries, inFlight, callVars, counters>>

\* That keeps the cache's invariants.
LEMMA AsideKeeps == CacheInv /\ CacheAside => CacheInv'
  BY SameReading DEF CacheInv, CacheAside, TypeOK, OutcomeInv, FlightInv, CallInv, NoOrphanedWait, callVars, counters

\* Steps that touch nothing but t's own check.
CheckAlone(t, c) ==
  /\ check' = [check EXCEPT ![t] = c]
  /\ CacheAside
  /\ UNCHANGED <<graphVars, checkEntries>>
  /\ {checkHits', checkMisses'} \subseteq 0 .. CounterModulus - 1

\* They keep the types if t's new check is located.
LEMMA AloneTypes ==
  ASSUME ServiceTypeInv, NEW t \in Threads, NEW c \in Checks \cup {NoCheck}, CheckAlone(t, c),
         Located(t)'
  PROVE  ServiceTypeInv'
<1>1. CacheInv'
  BY AsideKeeps DEF ServiceTypeInv, CheckAlone
<1>2. \A u \in Threads : pc'[u] = pc[u] /\ flight'[u] = flight[u] /\ outcome'[u] # Nothing
  BY DEF CheckAlone, CacheAside, callVars, ServiceTypeInv, Located
<1> QED
  BY <1>1, <1>2, StepTypes DEF CheckAlone, ServiceTypeInv, ServiceTypeOK

(***************************************************************************)
(* The steps that touch nothing but the check, each with the record it     *)
(* leaves behind.                                                          *)
(***************************************************************************)
Fresh(principal, target, level, token) ==
  [phase |-> "selecting", principal |-> principal, target |-> target, level |-> level,
   token |-> token, revision |-> Unread, now |-> Unread, snapshot |-> Unread,
   remaining |-> {}, role |-> NoRole, answers |-> {}, verdict |-> Pending, graphs |-> {Graph}]

\* A check begins in the graph there is.
LEMMA BeginAlone ==
  ASSUME ServiceTypeInv, NEW t \in Threads, NEW p \in Principals, NEW g \in Targets,
         NEW l \in Consistency, NEW k \in 0 .. revision, BeginCheck(t, p, g, l, k)
  PROVE  /\ Fresh(p, g, l, k) \in Checks
         /\ CheckAlone(t, Fresh(p, g, l, k))
         /\ ServiceTypeInv'
<1>1. Fresh(p, g, l, k) \in Checks
  <2>1. k \in Time /\ Graph \in [roles : Roles, assignments : Assignments]
    BY TimeFacts DEF ServiceTypeInv, ServiceTypeOK, Graph
  <2> QED
    BY <2>1 DEF Fresh, Checks, Phases
<1>2. CheckAlone(t, Fresh(p, g, l, k))
  BY SameReading DEF BeginCheck, Fresh, CheckAlone, CacheAside, ServiceTypeInv, CacheInv, ServiceTypeOK,
     vars, checkCacheVars
<1>3. /\ check[t] = NoCheck /\ check'[t] = Fresh(p, g, l, k) /\ Graph' = Graph
      /\ pc' = pc /\ outcome' = outcome
  BY <1>2 DEF BeginCheck, CheckAlone, CacheAside, callVars, graphVars, Graph, ServiceTypeInv, ServiceTypeOK
<1>4. Located(t)'
  <2>1. pc[t] = "idle" /\ outcome[t] # Nothing
    <3>1. check[t].phase = "idle"
      BY <1>3, InCheck DEF ServiceTypeInv
    <3>2. Located(t)
      BY DEF ServiceTypeInv
    <3> QED
      BY <3>1, <3>2 DEF Located
  <2>2. check'[t].phase = "selecting" /\ check'[t].answers = {} /\ check'[t].graphs = {Graph}
    BY <1>3 DEF Fresh
  <2> QED
    BY <1>3, <2>1, <2>2 DEF Located, Outstanding, Phases
<1> QED
  BY <1>1, <1>2, <1>4, AloneTypes

\* The revision is read.
LEMMA ReadRevisionAlone ==
  ASSUME ServiceTypeInv, NEW t \in Threads, ReadRevision(t)
  PROVE  /\ check[t] \in Checks
         /\ [check[t] EXCEPT !.revision = revision] \in Checks
         /\ CheckAlone(t, [check[t] EXCEPT !.revision = revision])
         /\ ServiceTypeInv'
<1> DEFINE c == [check[t] EXCEPT !.revision = revision]
<1>1. check[t] \in Checks /\ c \in Checks
  BY InCheck DEF ReadRevision, Phases, ServiceTypeInv, ServiceTypeOK, Checks
<1>2. CheckAlone(t, c)
  BY SameReading DEF ReadRevision, CheckAlone, CacheAside, ServiceTypeInv, CacheInv, ServiceTypeOK,
     vars, checkCacheVars
<1>3. check'[t] = c /\ Graph' = Graph /\ pc' = pc /\ outcome' = outcome
  BY <1>2 DEF CheckAlone, CacheAside, callVars, graphVars, Graph, ServiceTypeInv, ServiceTypeOK
<1>4. Located(t)'
  BY <1>1, <1>3 DEF ReadRevision, ServiceTypeInv, Located, Outstanding, Phases, Checks
<1> QED
  BY <1>1, <1>2, <1>4, AloneTypes

\* The clock is read.
LEMMA ReadNowAlone ==
  ASSUME ServiceTypeInv, NEW t \in Threads, ReadNow(t)
  PROVE  /\ check[t] \in Checks
         /\ [check[t] EXCEPT !.now = clock'] \in Checks
         /\ CheckAlone(t, [check[t] EXCEPT !.now = clock'])
         /\ ServiceTypeInv'
<1> DEFINE c == [check[t] EXCEPT !.now = clock']
<1>1. check[t] \in Checks /\ c \in Checks
  BY InCheck, SameReading DEF ReadNow, Phases, ServiceTypeInv, ServiceTypeOK, CacheInv, Checks
<1>2. CheckAlone(t, c)
  BY DEF ReadNow, CheckAlone, CacheAside, ServiceTypeInv, ServiceTypeOK, checkCacheVars
<1>3. check'[t] = c /\ Graph' = Graph /\ pc' = pc /\ outcome' = outcome
  BY <1>2 DEF CheckAlone, CacheAside, callVars, graphVars, Graph, ServiceTypeInv, ServiceTypeOK
<1>4. Located(t)'
  BY <1>1, <1>3 DEF ReadNow, ServiceTypeInv, Located, Outstanding, Phases, Checks
<1> QED
  BY <1>1, <1>2, <1>4, AloneTypes

\* A hit answers with what the whole-check cache holds.
LEMMA LookUpHitAlone ==
  ASSUME ServiceTypeInv, NEW t \in Threads, LookUpHit(t)
  PROVE  /\ check[t] \in Checks
         /\ [check[t] EXCEPT !.phase = "answered", !.snapshot = Selected(check[t]),
                                !.verdict = checkEntries[CheckFlight(check[t])]] \in Checks
         /\ CheckAlone(t, [check[t] EXCEPT !.phase = "answered", !.snapshot = Selected(check[t]),
                                !.verdict = checkEntries[CheckFlight(check[t])]])
         /\ ServiceTypeInv'
<1> DEFINE c == [check[t] EXCEPT !.phase = "answered", !.snapshot = Selected(check[t]),
                                !.verdict = checkEntries[CheckFlight(check[t])]]
<1>1. check[t] \in Checks /\ c \in Checks
  <2>1. check[t] \in Checks /\ Selected(check[t]) \in Time /\ CheckFlight(check[t]) \in FlightKey
    BY InCheck, KeyTypes DEF LookUpHit, HasRead, Phases, ServiceTypeInv
  <2>2. checkEntries[CheckFlight(check[t])] \in {"Allow", "Deny"}
    BY <2>1 DEF LookUpHit, getUnlocked, ServiceTypeInv, ServiceTypeOK
  <2> QED
    BY <2>1, <2>2 DEF Checks, Phases
<1>2. CheckAlone(t, c)
  <2>1. Bump(checkHits) \in 0 .. CounterModulus - 1 /\ checkMisses \in 0 .. CounterModulus - 1
    BY BumpType DEF ServiceTypeInv, ServiceTypeOK
  <2>2. checkHits' = Bump(checkHits) /\ checkMisses' = checkMisses /\ checkEntries' = checkEntries
        /\ check' = [check EXCEPT ![t] = c] /\ UNCHANGED vars /\ UNCHANGED graphVars
    BY DEF LookUpHit, getUnlocked
  <2> QED
    BY <2>1, <2>2, SameReading DEF CheckAlone, CacheAside, ServiceTypeInv, CacheInv, vars
<1>3. check'[t] = c /\ Graph' = Graph /\ pc' = pc /\ outcome' = outcome
  BY <1>2 DEF CheckAlone, CacheAside, callVars, graphVars, Graph, ServiceTypeInv, ServiceTypeOK
<1>4. Located(t)'
  <2>1. c.phase = "answered" /\ c.snapshot \in Time /\ c.verdict \in {"Allow", "Deny"}
        /\ c.graphs = check[t].graphs
    <3>1. Selected(check[t]) \in Time /\ CheckFlight(check[t]) \in FlightKey
      BY <1>1, KeyTypes DEF LookUpHit, HasRead
    <3>2. checkEntries[CheckFlight(check[t])] \in {"Allow", "Deny"}
      BY <3>1 DEF LookUpHit, getUnlocked, ServiceTypeInv, ServiceTypeOK
    <3> QED
      BY <1>1, <3>1, <3>2 DEF Checks
  <2> QED
    BY <1>3, <2>1 DEF LookUpHit, ServiceTypeInv, Located, Outstanding, Phases
<1> QED
  BY <1>1, <1>2, <1>4, AloneTypes

\* A miss goes on to evaluate, at the snapshot it looked up.
LEMMA LookUpMissAlone ==
  ASSUME ServiceTypeInv, NEW t \in Threads, LookUpMiss(t)
  PROVE  /\ check[t] \in Checks
         /\ [check[t] EXCEPT !.phase = "resolving", !.snapshot = Selected(check[t]),
                                !.revision = Unread, !.now = Unread] \in Checks
         /\ CheckAlone(t, [check[t] EXCEPT !.phase = "resolving", !.snapshot = Selected(check[t]),
                                !.revision = Unread, !.now = Unread])
         /\ ServiceTypeInv'
<1> DEFINE c == [check[t] EXCEPT !.phase = "resolving", !.snapshot = Selected(check[t]),
                                !.revision = Unread, !.now = Unread]
<1>1. check[t] \in Checks /\ c \in Checks
  <2>1. check[t] \in Checks /\ Selected(check[t]) \in Time
    BY InCheck, KeyTypes DEF LookUpMiss, HasRead, Phases, ServiceTypeInv
  <2> QED
    BY <2>1 DEF Checks, Phases
<1>2. CheckAlone(t, c)
  <2>1. Bump(checkMisses) \in 0 .. CounterModulus - 1 /\ checkHits \in 0 .. CounterModulus - 1
    BY BumpType DEF ServiceTypeInv, ServiceTypeOK
  <2>2. checkMisses' = Bump(checkMisses) /\ checkHits' = checkHits /\ checkEntries' = checkEntries
        /\ check' = [check EXCEPT ![t] = c] /\ UNCHANGED vars /\ UNCHANGED graphVars
    BY DEF LookUpMiss
  <2> QED
    BY <2>1, <2>2, SameReading DEF CheckAlone, CacheAside, ServiceTypeInv, CacheInv, vars
<1>3. check'[t] = c /\ Graph' = Graph /\ pc' = pc /\ outcome' = outcome
  BY <1>2 DEF CheckAlone, CacheAside, callVars, graphVars, Graph, ServiceTypeInv, ServiceTypeOK
<1>4. Located(t)'
  <2>1. c.phase = "resolving" /\ c.snapshot \in Time /\ c.graphs = check[t].graphs
        /\ c.answers = check[t].answers /\ c.revision = Unread /\ c.now = Unread
    BY <1>1, KeyTypes DEF LookUpMiss, HasRead, Checks
  <2> QED
    BY <1>3, <2>1 DEF LookUpMiss, ServiceTypeInv, Located, Outstanding, Phases
<1> QED
  BY <1>1, <1>2, <1>4, AloneTypes

\* The roles to ask are those of the graph there is.
LEMMA ResolveRolesAlone ==
  ASSUME ServiceTypeInv, NEW t \in Threads, ResolveRoles(t)
  PROVE  /\ check[t] \in Checks
         /\ [check[t] EXCEPT !.phase = "gathering",
                                !.remaining = effectiveRoles(roles, assignments, check[t].principal)] \in Checks
         /\ CheckAlone(t, [check[t] EXCEPT !.phase = "gathering",
                                !.remaining = effectiveRoles(roles, assignments, check[t].principal)])
         /\ ServiceTypeInv'
<1> DEFINE c == [check[t] EXCEPT !.phase = "gathering",
                                !.remaining = effectiveRoles(roles, assignments, check[t].principal)]
<1>1. check[t] \in Checks /\ c \in Checks
  <2>1. check[t] \in Checks
    BY InCheck DEF ResolveRoles, ServiceTypeInv
  <2>2. effectiveRoles(roles, assignments, check[t].principal) \subseteq RoleNames
    BY DEF effectiveRoles
  <2> QED
    BY <2>1, <2>2 DEF Checks, Phases
<1>2. CheckAlone(t, c)
  BY SameReading DEF ResolveRoles, CheckAlone, CacheAside, ServiceTypeInv, CacheInv, ServiceTypeOK,
     vars, checkCacheVars
<1>3. check'[t] = c /\ Graph' = Graph /\ pc' = pc /\ outcome' = outcome
  BY <1>2 DEF CheckAlone, CacheAside, callVars, graphVars, Graph, ServiceTypeInv, ServiceTypeOK
<1>4. Located(t)'
  <2>1. c.phase = "gathering" /\ c.snapshot = check[t].snapshot /\ c.graphs = check[t].graphs
        /\ c.revision = check[t].revision /\ c.now = check[t].now
    BY <1>1 DEF Checks
  <2> QED
    BY <1>3, <2>1 DEF ResolveRoles, ServiceTypeInv, Located, Outstanding, Phases
<1> QED
  BY <1>1, <1>2, <1>4, AloneTypes

\* A role is taken out to be asked.
LEMMA AskRoleAlone ==
  ASSUME ServiceTypeInv, NEW t \in Threads, NEW role \in RoleNames, AskRole(t, role)
  PROVE  /\ check[t] \in Checks
         /\ [check[t] EXCEPT !.phase = "asking", !.role = role,
                                !.remaining = check[t].remaining \ {role}] \in Checks
         /\ CheckAlone(t, [check[t] EXCEPT !.phase = "asking", !.role = role,
                                !.remaining = check[t].remaining \ {role}])
         /\ ServiceTypeInv'
<1> DEFINE c == [check[t] EXCEPT !.phase = "asking", !.role = role,
                                !.remaining = check[t].remaining \ {role}]
<1>1. check[t] \in Checks /\ c \in Checks
  <2>1. check[t] \in Checks
    BY InCheck DEF AskRole, Phases, ServiceTypeInv
  <2>2. check[t].remaining \ {role} \in SUBSET RoleNames
    BY <2>1, CheckFields
  <2> QED
    BY <2>1, <2>2 DEF Checks, Phases
<1>2. CheckAlone(t, c)
  BY SameReading DEF AskRole, CheckAlone, CacheAside, ServiceTypeInv, CacheInv, ServiceTypeOK,
     vars, checkCacheVars
<1>3. check'[t] = c /\ Graph' = Graph /\ pc' = pc /\ outcome' = outcome
  BY <1>2 DEF CheckAlone, CacheAside, callVars, graphVars, Graph, ServiceTypeInv, ServiceTypeOK
<1>4. Located(t)'
  <2>1. c.phase = "asking" /\ c.role = role /\ c.snapshot = check[t].snapshot
        /\ c.graphs = check[t].graphs
    BY <1>1 DEF Checks
  <2>2. Located(t) /\ check[t].phase = "gathering"
    BY DEF AskRole, ServiceTypeInv
  <2>3. pc[t] = "idle" /\ outcome[t] # Nothing /\ check[t].snapshot \in Time /\ Graph \in check[t].graphs
    BY <2>2 DEF Located, Phases
  <2>4. Outstanding(check[t])' = {role}
    BY <1>3, <2>1 DEF Outstanding
  <2> QED
    BY <1>3, <2>1, <2>3, <2>4 DEF Located, Phases
<1> QED
  BY <1>1, <1>2, <1>4, AloneTypes

\* A check ends: abandoned, or its verdict delivered.
LEMMA EndAlone ==
  ASSUME ServiceTypeInv, NEW t \in Threads, Abandon(t) \/ Reply(t)
  PROVE  CheckAlone(t, NoCheck) /\ ServiceTypeInv'
<1>1. CheckAlone(t, NoCheck)
  BY SameReading DEF Abandon, Reply, CheckAlone, CacheAside, ServiceTypeInv, CacheInv, ServiceTypeOK,
     vars, checkCacheVars
<1>2. check'[t] = NoCheck /\ pc' = pc /\ outcome' = outcome
  BY <1>1 DEF CheckAlone, CacheAside, callVars, ServiceTypeInv, ServiceTypeOK
<1>3. Located(t)'
  <2>1. pc[t] = "idle" /\ outcome[t] # Nothing
    BY DEF Abandon, Reply, ServiceTypeInv, Located
  <2>2. NoCheck.phase = "idle"
    BY DEF NoCheck
  <2> QED
    BY <1>2, <2>1, <2>2 DEF Located, Outstanding, Phases
<1> QED
  BY <1>1, <1>3, AloneTypes

\* Steps inside the subproblem cache leave every check where it is.
LEMMA HopTypes ==
  ASSUME ServiceTypeInv, NEW t \in Threads, Hop(t), CacheInv',
         UNCHANGED <<graphVars, checkCacheVars, check>>
  PROVE  ServiceTypeInv'
<1>1. ServiceTypeOK'
  BY DEF ServiceTypeInv, ServiceTypeOK, CacheInv, graphVars, checkCacheVars
<1>2. ASSUME NEW u \in Threads PROVE Located(u)'
  <2>1. flight' = flight /\ check' = check /\ Graph' = Graph
    BY DEF Hop, Graph, graphVars
  <2>2. outcome'[u] # Nothing
    <3>1. \A v \in Threads : outcome[v] # Nothing
      BY DEF ServiceTypeInv, Located
    <3>2. Nothing \notin {Pending, Failed}
      BY DEF Pending, Failed, Nothing
    <3> QED
      BY <3>1, <3>2 DEF Hop
  <2>3. pc'[u] = "idle" <=> pc[u] = "idle"
    BY DEF Hop, OutsideCall
  <2>4. pc'[u] \notin {"clearingMisses", "clearingCoalesced"}
    BY DEF Hop, OutsideCall, ServiceTypeInv, Located
  <2> QED
    BY <2>1, <2>2, <2>3, <2>4 DEF ServiceTypeInv, Located, Outstanding
<1> QED
  BY <1>1, <1>2 DEF ServiceTypeInv

\* The steps of getOrCompute but the evaluation.
LEMMA InCacheTypes ==
  ASSUME ServiceTypeInv, NEW t \in Threads, InSubproblemCache(t)
  PROVE  Hop(t) /\ ServiceTypeInv'
<1>1. Hop(t)
  BY CallHops DEF InSubproblemCache, ServiceTypeInv
<1>2. CacheInv'
  <2>1. Next
    BY DEF InSubproblemCache, Next, Proceed, Advance
  <2> QED
    BY <2>1, CacheStep DEF ServiceTypeInv
<1> QED
  BY <1>1, <1>2, HopTypes DEF InSubproblemCache

\* Whoever is inside the subproblem cache asks it about its own role.
LEMMA AskedAbout ==
  ASSUME ServiceTypeInv, NEW t \in Threads, pc[t] \notin OutsideCall
  PROVE  /\ check[t] \in Checks /\ check[t] # NoCheck /\ check[t].phase = "inCache"
         /\ check[t].role \in RoleNames /\ check[t].target \in Targets
         /\ flight[t] \in FlightKey
         /\ flight[t].key.subject = check[t].role /\ flight[t].key.target = check[t].target
<1>1. pc[t] # "idle" /\ Located(t)
  BY DEF OutsideCall, ServiceTypeInv
<1>2. check[t].phase = "inCache" /\ check[t].role \in RoleNames
      /\ flight[t].key = [subject |-> check[t].role, target |-> check[t].target]
  BY <1>1 DEF Located, Outstanding
<1>3. check[t] \in Checks /\ check[t] # NoCheck
  BY <1>2, InCheck DEF Phases, ServiceTypeInv
<1>4. flight[t] \in FlightKey
  BY DEF ServiceTypeInv, CacheInv, CallInv, TypeOK
<1>5. flight[t].key.subject = check[t].role /\ flight[t].key.target = check[t].target
  BY <1>2
<1> QED
  BY <1>2, <1>3, <1>4, <1>5, CheckFields

\* The evaluation answers what the graph says of the role.
LEMMA EvaluateTypes ==
  ASSUME ServiceTypeInv, NEW t \in Threads, EvaluateRole(t)
  PROVE  /\ pc[t] = "computing" /\ pc'[t] = "storing"
         /\ \A u \in Threads \ {t} : pc'[u] = pc[u] /\ outcome'[u] = outcome[u]
         /\ flight' = flight /\ entries' = entries /\ clock' = clock
         /\ outcome'[t] = evaluateForRole(roles, check[t].role, check[t].target)
         /\ ServiceTypeInv'
<1> DEFINE d == evaluateForRole(roles, check[t].role, check[t].target)
<1>1. pc[t] = "computing" /\ pc' = [pc EXCEPT ![t] = "storing"] /\ outcome' = [outcome EXCEPT ![t] = d]
      /\ flight' = flight /\ entries' = entries /\ clock' = clock
  BY DEF EvaluateRole, Compute, Goto, Answer
<1>2. d \in Decision
  <2>1. check[t].role \in RoleNames /\ check[t].target \in Targets
    BY <1>1, AskedAbout DEF OutsideCall
  <2> QED
    BY <2>1, EvaluationType DEF ServiceTypeInv, ServiceTypeOK
<1>3. CacheInv'
  <2>1. Next
    BY <1>2 DEF EvaluateRole, Next, Proceed
  <2> QED
    BY <2>1, CacheStep DEF ServiceTypeInv
<1>4. pc'[t] = "storing" /\ outcome'[t] = d
      /\ \A u \in Threads \ {t} : pc'[u] = pc[u] /\ outcome'[u] = outcome[u]
  BY <1>1 DEF ServiceTypeInv, CacheInv, TypeOK
<1>5. ServiceTypeOK'
  BY <1>3 DEF EvaluateRole, ServiceTypeInv, ServiceTypeOK, CacheInv, graphVars, checkCacheVars
<1>6. ASSUME NEW u \in Threads PROVE Located(u)'
  <2>1. check' = check /\ Graph' = Graph
    BY DEF EvaluateRole, Graph, graphVars
  <2>2. pc'[u] = "idle" <=> pc[u] = "idle"
    BY <1>1, <1>4
  <2>3. pc'[u] \notin {"clearingMisses", "clearingCoalesced"} /\ outcome'[u] # Nothing
    BY <1>2, <1>4 DEF ServiceTypeInv, Located, Decision, Nothing
  <2> QED
    BY <1>1, <2>1, <2>2, <2>3 DEF ServiceTypeInv, Located, Outstanding
<1> QED
  BY <1>1, <1>3, <1>4, <1>5, <1>6 DEF ServiceTypeInv

\* A role is looked up in the subproblem cache.
LEMMA CallTypes ==
  ASSUME ServiceTypeInv, NEW t \in Threads, CallSubproblemCache(t)
  PROVE  LET f == RoleFlight(check[t])
             c == [check[t] EXCEPT !.phase = "inCache", !.revision = Unread, !.now = Unread]
         IN  /\ check[t] \in Checks /\ c \in Checks /\ f \in FlightKey
             /\ check[t].phase = "asking" /\ HasRead(t)
             /\ check' = [check EXCEPT ![t] = c]
             /\ flight' = [flight EXCEPT ![t] = f]
             /\ pc[t] = "idle" /\ pc'[t] \notin OutsideCall
             /\ \A u \in Threads \ {t} : pc'[u] = pc[u] /\ outcome'[u] = outcome[u]
             /\ \/ outcome'[t] = outcome[t] /\ outcome[t] = Pending
                \/ entries[f] # Nothing /\ outcome'[t] = entries[f]
             /\ entries' = entries /\ clock' = clock
             /\ UNCHANGED <<graphVars, checkCacheVars>>
             /\ ServiceTypeInv'
<1> DEFINE f == RoleFlight(check[t])
           c == [check[t] EXCEPT !.phase = "inCache", !.revision = Unread, !.now = Unread]
<1>1. check[t].phase = "asking" /\ HasRead(t) /\ check' = [check EXCEPT ![t] = c]
      /\ UNCHANGED <<graphVars, checkCacheVars>>
  BY DEF CallSubproblemCache
<1>2. Located(t) /\ check[t] \in Checks
  BY <1>1, InCheck DEF ServiceTypeInv, Phases
<1>3. check[t].role \in RoleNames /\ pc[t] = "idle"
  BY <1>1, <1>2 DEF Located, Outstanding
<1>4. f \in FlightKey /\ f.key = [subject |-> check[t].role, target |-> check[t].target]
  BY <1>1, <1>2, <1>3, KeyTypes DEF HasRead, RoleFlight
<1>5. c \in Checks
  BY <1>2 DEF Checks, Phases
<1>6. CacheInv'
  <2>1. Next
    BY <1>4 DEF CallSubproblemCache, Next, Call
  <2> QED
    BY <2>1, CacheStep DEF ServiceTypeInv
<1>7. /\ flight' = [flight EXCEPT ![t] = f]
      /\ entries' = entries /\ clock' = clock
      /\ \/ outcome' = outcome /\ pc' = [pc EXCEPT ![t] = "registering"]
         \/ /\ entries[f] # Nothing
            /\ outcome' = [outcome EXCEPT ![t] = entries[f]] /\ pc' = [pc EXCEPT ![t] = "returned"]
  BY DEF CallSubproblemCache, FastPathHit, FastPathMiss, Lookup, Goto, Answer, getUnlocked
<1>8. outcome[t] = Pending
  BY <1>3 DEF ServiceTypeInv, CacheInv, CallInv, OutsideCall
<1>9. /\ pc'[t] \in {"registering", "returned"}
      /\ \A u \in Threads \ {t} : pc'[u] = pc[u] /\ outcome'[u] = outcome[u] /\ flight'[u] = flight[u]
      /\ \/ outcome'[t] = outcome[t]
         \/ entries[f] # Nothing /\ outcome'[t] = entries[f]
      /\ flight'[t] = f
      /\ check'[t] = c
  BY <1>1, <1>7 DEF ServiceTypeInv, ServiceTypeOK, CacheInv, TypeOK
<1>10. Located(t)'
  <2>1. c.phase = "inCache" /\ c.role = check[t].role /\ c.target = check[t].target
        /\ c.revision = Unread /\ c.now = Unread
        /\ c.snapshot = check[t].snapshot /\ c.graphs = check[t].graphs
    BY <1>2 DEF Checks
  <2>2. check[t].snapshot \in Time /\ Graph \in check[t].graphs
    BY <1>1, <1>2 DEF Located, Phases
  <2>3. Outstanding(check[t])' = {check[t].role} /\ Graph' = Graph
    BY <1>1, <1>9, <2>1 DEF Outstanding, Graph, graphVars
  <2>4. outcome'[t] # Nothing
    BY <1>8, <1>9 DEF Pending, Nothing
  <2> QED
    BY <1>3, <1>4, <1>9, <2>1, <2>2, <2>3, <2>4 DEF Located, Phases
<1>11. \A u \in Threads \ {t} : outcome'[u] # Nothing
  BY <1>9 DEF ServiceTypeInv, Located
<1>12. ServiceTypeInv'
  <2>1. checkEntries' = checkEntries /\ checkHits' = checkHits /\ checkMisses' = checkMisses
    BY <1>1 DEF checkCacheVars
  <2> QED
    BY <1>1, <1>5, <1>6, <1>9, <1>10, <1>11, <2>1, StepTypes DEF ServiceTypeInv, ServiceTypeOK
<1> QED
  BY <1>1, <1>2, <1>3, <1>4, <1>5, <1>7, <1>8, <1>9, <1>12 DEF OutsideCall

\* A call that returns leaves the cache's tables as they are.
LEMMA ReturnTypes ==
  ASSUME ServiceTypeInv, NEW t \in Threads, check[t].phase = "inCache", Return(t)
  PROVE  /\ check[t] \in Checks /\ pc[t] = "returned" /\ outcome[t] \in Decision \cup {Failed}
         /\ CacheInv'
         /\ pc'[t] = "idle" /\ outcome'[t] = Pending /\ flight'[t] = NoFlight
         /\ \A u \in Threads \ {t} :
              pc'[u] = pc[u] /\ outcome'[u] = outcome[u] /\ flight'[u] = flight[u]
         /\ outcome[t] \in Decision => flight[t] \in FlightKey
         /\ entries' = entries /\ clock' = clock
<1>1. CacheInv'
  <2>1. Next
    BY DEF Next, Proceed, Advance
  <2> QED
    BY <2>1, CacheStep DEF ServiceTypeInv
<1>2. pc[t] = "returned" /\ outcome[t] \in Outcomes /\ outcome[t] # Nothing /\ outcome[t] # Pending
      /\ flight[t] \in FlightKey
  BY DEF Return, ServiceTypeInv, Located, CacheInv, CallInv, TypeOK, OutsideCall
<1>3. outcome[t] \in Decision \cup {Failed}
  BY <1>2 DEF Outcomes
<1>4. /\ pc'[t] = "idle" /\ outcome'[t] = Pending /\ flight'[t] = NoFlight
      /\ \A u \in Threads \ {t} :
           pc'[u] = pc[u] /\ outcome'[u] = outcome[u] /\ flight'[u] = flight[u]
      /\ entries' = entries /\ clock' = clock
  BY DEF Return, Goto, ServiceTypeInv, CacheInv, TypeOK
<1>5. check[t] \in Checks
  BY InCheck DEF ServiceTypeInv, Phases
<1> QED
  BY <1>1, <1>2, <1>3, <1>4, <1>5

\* An answer joins the others.
LEMMA GatherTypes ==
  ASSUME ServiceTypeInv, NEW t \in Threads, GatherAnswer(t)
  PROVE  LET c == [check[t] EXCEPT !.phase = "gathering", !.role = NoRole,
                                   !.answers = check[t].answers \cup {outcome[t]}]
         IN  /\ c \in Checks /\ outcome[t] \in Decision
             /\ check' = [check EXCEPT ![t] = c]
             /\ UNCHANGED <<graphVars, checkCacheVars>>
             /\ ServiceTypeInv'
<1> DEFINE c == [check[t] EXCEPT !.phase = "gathering", !.role = NoRole,
                                 !.answers = check[t].answers \cup {outcome[t]}]
<1>1. check[t].phase = "inCache" /\ Return(t) /\ outcome[t] # Failed
      /\ check' = [check EXCEPT ![t] = c] /\ UNCHANGED <<graphVars, checkCacheVars>>
  BY DEF GatherAnswer
<1>2. outcome[t] \in Decision /\ check[t] \in Checks
  BY <1>1, ReturnTypes
<1>3. c \in Checks
  <2>1. check[t].answers \cup {outcome[t]} \in SUBSET Decision
    BY <1>2, CheckFields
  <2> QED
    BY <1>2, <2>1 DEF Checks, Phases
<1>4. Located(t)'
  <2>1. c.phase = "gathering" /\ c.revision = check[t].revision /\ c.now = check[t].now
        /\ c.snapshot = check[t].snapshot /\ c.graphs = check[t].graphs
    BY <1>2 DEF Checks
  <2>2. Located(t)
    BY DEF ServiceTypeInv
  <2>3. check[t].revision = Unread /\ check[t].now = Unread
        /\ check[t].snapshot \in Time /\ Graph \in check[t].graphs
    BY <1>1, <2>2 DEF Located, Phases
  <2>4. check'[t] = c /\ Graph' = Graph
    BY <1>1 DEF Graph, graphVars, ServiceTypeInv, ServiceTypeOK
  <2>5. pc'[t] = "idle" /\ outcome'[t] # Nothing
    BY <1>1, ReturnTypes DEF Pending, Nothing
  <2> QED
    BY <2>1, <2>3, <2>4, <2>5 DEF Located, Outstanding, Phases
<1>5. ServiceTypeInv'
  <2>1. checkEntries' = checkEntries /\ checkHits' = checkHits /\ checkMisses' = checkMisses
    BY <1>1 DEF checkCacheVars
  <2>2. \A u \in Threads \ {t} : pc'[u] = pc[u] /\ flight'[u] = flight[u] /\ outcome'[u] # Nothing
    <3>1. \A u \in Threads : outcome[u] # Nothing
      BY DEF ServiceTypeInv, Located
    <3> QED
      BY <1>1, <3>1, ReturnTypes
  <2>3. CacheInv'
    BY <1>1, ReturnTypes
  <2> QED
    BY <1>1, <1>3, <1>4, <2>1, <2>2, <2>3, StepTypes DEF ServiceTypeInv, ServiceTypeOK
<1> QED
  BY <1>1, <1>2, <1>3, <1>5

\* A failed role ends the check.
LEMMA PropagateTypes ==
  ASSUME ServiceTypeInv, NEW t \in Threads, Propagate(t)
  PROVE  /\ check' = [check EXCEPT ![t] = NoCheck]
         /\ UNCHANGED <<graphVars, checkCacheVars>>
         /\ ServiceTypeInv'
<1>1. check[t].phase = "inCache" /\ Return(t)
      /\ check' = [check EXCEPT ![t] = NoCheck] /\ UNCHANGED <<graphVars, checkCacheVars>>
  BY DEF Propagate
<1>2. Located(t)'
  <2>1. check'[t] = NoCheck
    BY <1>1 DEF ServiceTypeInv, ServiceTypeOK
  <2>2. pc'[t] = "idle" /\ outcome'[t] # Nothing
    BY <1>1, ReturnTypes DEF Pending, Nothing
  <2>3. NoCheck.phase = "idle"
    BY DEF NoCheck
  <2> QED
    BY <2>1, <2>2, <2>3 DEF Located, Outstanding, Phases
<1>3. ServiceTypeInv'
  <2>1. checkEntries' = checkEntries /\ checkHits' = checkHits /\ checkMisses' = checkMisses
    BY <1>1 DEF checkCacheVars
  <2>2. \A u \in Threads \ {t} : pc'[u] = pc[u] /\ flight'[u] = flight[u] /\ outcome'[u] # Nothing
    <3>1. \A u \in Threads : outcome[u] # Nothing
      BY DEF ServiceTypeInv, Located
    <3> QED
      BY <1>1, <3>1, ReturnTypes
  <2>3. CacheInv'
    BY <1>1, ReturnTypes
  <2> QED
    BY <1>1, <1>2, <2>1, <2>2, <2>3, StepTypes DEF ServiceTypeInv, ServiceTypeOK
<1> QED
  BY <1>1, <1>3

\* The verdict is stored where it was looked up.
LEMMA StoreVerdictTypes ==
  ASSUME ServiceTypeInv, NEW t \in Threads, StoreVerdict(t)
  PROVE  LET verdict == combine(check[t].answers)
             c == [check[t] EXCEPT !.phase = "answered", !.verdict = verdict]
         IN  /\ check[t] \in Checks /\ c \in Checks
             /\ check[t].phase = "gathering" /\ check[t].remaining = {}
             /\ verdict \in {"Allow", "Deny"}
             /\ StoredAs(check[t]) \in FlightKey /\ StoredAs(c) = StoredAs(check[t])
             /\ check' = [check EXCEPT ![t] = c]
             /\ clock' \in Readings(clock)
             /\ checkEntries' = put(checkEntries, StoredAs(check[t]), verdict, clock')
             /\ UNCHANGED <<entries, inFlight, callVars, counters, graphVars>>
             /\ ServiceTypeInv'
<1> DEFINE verdict == combine(check[t].answers)
           c == [check[t] EXCEPT !.phase = "answered", !.verdict = verdict]
           f == StoredAs(check[t])
<1>1. /\ check[t].phase = "gathering" /\ check[t].remaining = {}
      /\ check' = [check EXCEPT ![t] = c]
      /\ clock' \in Readings(clock)
      /\ checkEntries' = put(checkEntries, f, verdict, clock')
      /\ UNCHANGED <<entries, inFlight, callVars, counters, graphVars, checkHits, checkMisses>>
  BY DEF StoreVerdict, StoredAs
<1>2. verdict \in {"Allow", "Deny"}
  BY DEF combine
<1>3. Located(t) /\ check[t] \in Checks
  BY <1>1, InCheck DEF ServiceTypeInv, Phases
<1>4. c \in Checks /\ c.phase = "answered" /\ c.verdict = verdict
      /\ c.snapshot = check[t].snapshot /\ c.graphs = check[t].graphs
      /\ c.principal = check[t].principal /\ c.target = check[t].target
  BY <1>2, <1>3 DEF Checks, Phases
<1>5. check[t].snapshot \in Time /\ Graph \in check[t].graphs /\ pc[t] = "idle" /\ outcome[t] # Nothing
  BY <1>1, <1>3 DEF Located, Phases
<1>6. f \in FlightKey /\ StoredAs(c) = f
  BY <1>3, <1>4, <1>5, CheckFields, KeysAssumption DEF StoredAs, FlightKey
<1>7. Located(t)'
  <2>1. check'[t] = c /\ Graph' = Graph /\ pc'[t] = pc[t] /\ outcome'[t] = outcome[t]
    BY <1>1 DEF Graph, graphVars, callVars, ServiceTypeInv, ServiceTypeOK
  <2> QED
    BY <1>2, <1>4, <1>5, <2>1 DEF Located, Outstanding, Phases
<1>8. ServiceTypeInv'
  <2>1. CacheInv'
    BY <1>1, AsideKeeps DEF CacheAside, ServiceTypeInv
  <2>2. checkEntries' \in [FlightKey -> {"Allow", "Deny", Nothing}]
    BY <1>1, <1>2, <1>6 DEF put, evict, ServiceTypeInv, ServiceTypeOK
  <2>3. \A u \in Threads \ {t} : pc'[u] = pc[u] /\ flight'[u] = flight[u] /\ outcome'[u] # Nothing
    BY <1>1 DEF callVars, ServiceTypeInv, Located
  <2>4. {checkHits', checkMisses'} \subseteq 0 .. CounterModulus - 1
    BY <1>1 DEF ServiceTypeInv, ServiceTypeOK
  <2>5. c \in Checks \cup {NoCheck}
    BY <1>4
  <2> HIDE DEF c, f, verdict
  <2> QED
    BY <1>1, <1>7, <2>1, <2>2, <2>3, <2>4, <2>5, StepTypes
<1> QED
  BY <1>1, <1>2, <1>3, <1>4, <1>6, <1>8

\* A write leaves a graph, and stamps it later than the one before.
LEMMA WriteTypes ==
  ASSUME ServiceTypeInv, Write
  PROVE  /\ Stamp
         /\ roles' \in Roles /\ assignments' \in Assignments
         /\ revision' \in Time /\ revision' > revision /\ clock' \in Readings(clock)
         /\ \A t \in Threads :
              /\ check[t] = NoCheck => check'[t] = NoCheck
              /\ check[t] # NoCheck =>
                   /\ check'[t] \in Checks
                   /\ check'[t] = [check[t] EXCEPT !.graphs = check[t].graphs \cup {Graph'}]
         /\ ServiceTypeInv'
<1>1. Stamp
  BY DEF Write, AddRole, Assign
<1>2. roles' \in Roles /\ assignments' \in Assignments
  <2>1. ASSUME NEW name \in RoleNames, NEW role \in Addable[name], AddRole(name, role)
        PROVE  roles' \in Roles /\ assignments' \in Assignments
    BY <2>1, AddableAssumption DEF AddRole, Roles, ServiceTypeInv, ServiceTypeOK
  <2>2. ASSUME NEW pair \in Assignable, Assign(pair[1], pair[2])
        PROVE  roles' \in Roles /\ assignments' \in Assignments
    <3>1. pair[1] \in Principals /\ pair[2] \in RoleNames
      BY AssignableAssumption
    <3> QED
      BY <2>2, <3>1 DEF Assign, Assignments, ServiceTypeInv, ServiceTypeOK
  <2> QED
    BY <2>1, <2>2 DEF Write
<1>3. revision' \in Time /\ revision' > revision /\ clock' \in Readings(clock)
  <2>1. revision \in Nat /\ clock' \in Nat /\ clock' \in Readings(clock)
    BY <1>1, TimeFacts DEF Stamp, WriteReadings, Readings, ServiceTypeInv, ServiceTypeOK
  <2> QED
    BY <1>1, <2>1 DEF Stamp, stampWrite, LaterOf
<1>4. Graph' \in [roles : Roles, assignments : Assignments]
  BY <1>2 DEF Graph
<1>5. ASSUME NEW t \in Threads
      PROVE  /\ check[t] = NoCheck => check'[t] = NoCheck
             /\ check[t] # NoCheck =>
                  /\ check'[t] \in Checks
                  /\ check'[t] = [check[t] EXCEPT !.graphs = check[t].graphs \cup {Graph'}]
  <2>1. check[t] = NoCheck => check'[t] = NoCheck
    BY <1>1 DEF Stamp
  <2>2. ASSUME check[t] # NoCheck
        PROVE  check'[t] = [check[t] EXCEPT !.graphs = check[t].graphs \cup {Graph'}]
    BY <1>1, <2>2 DEF Stamp
  <2>3. ASSUME check[t] # NoCheck PROVE check'[t] \in Checks
    <3>1. check[t] \in Checks
      BY <2>3, InCheck DEF ServiceTypeInv
    <3>2. check[t].graphs \cup {Graph'} \in SUBSET [roles : Roles, assignments : Assignments]
      BY <1>4, <3>1, CheckFields
    <3> QED
      BY <2>2, <2>3, <3>1, <3>2 DEF Checks
  <2> QED
    BY <2>1, <2>2, <2>3
<1>6. CacheInv'
  BY <1>1, <1>3, AsideKeeps DEF Stamp, CacheAside, ServiceTypeInv
<1>7. ServiceTypeOK'
  <2>1. check' \in [Threads -> Checks \cup {NoCheck}]
    BY <1>1, <1>5 DEF Stamp
  <2> QED
    BY <1>1, <1>2, <1>3, <1>6, <2>1 DEF Stamp, checkCacheVars, ServiceTypeInv, ServiceTypeOK, CacheInv
<1>8. ASSUME NEW t \in Threads PROVE Located(t)'
  <2>1. Located(t) /\ pc' = pc /\ outcome' = outcome /\ flight' = flight
    BY <1>1 DEF Stamp, callVars, ServiceTypeInv
  <2>2. CASE check[t] = NoCheck
    BY <1>5, <2>1, <2>2 DEF Located, Outstanding, Phases, NoCheck
  <2>3. CASE check[t] # NoCheck
    <3>1. check[t] \in Checks
      BY <2>3, InCheck DEF ServiceTypeInv
    <3> DEFINE gs == check[t].graphs \cup {Graph'}
               c == [check[t] EXCEPT !.graphs = gs]
    <3>2. check'[t] = c
      BY <1>5, <2>3
    <3>3. Graph' \in gs
      OBVIOUS
    <3> HIDE DEF gs
    <3>4. /\ c.phase = check[t].phase /\ c.role = check[t].role /\ c.target = check[t].target
          /\ c.revision = check[t].revision /\ c.now = check[t].now /\ c.answers = check[t].answers
          /\ c.snapshot = check[t].snapshot /\ c.verdict = check[t].verdict
          /\ c.graphs = gs
      BY <3>1 DEF Checks
    <3> HIDE DEF c
    <3> QED
      BY <2>1, <3>2, <3>3, <3>4 DEF Located, Outstanding
  <2> QED
    BY <2>2, <2>3
<1> QED
  BY <1>1, <1>2, <1>3, <1>5, <1>6, <1>7, <1>8 DEF ServiceTypeInv

\* Every step of the service keeps the types.
LEMMA ServiceTypeStep == ServiceTypeInv /\ [ServiceNext]_serviceVars => ServiceTypeInv'
<1> SUFFICES ASSUME ServiceTypeInv, [ServiceNext]_serviceVars PROVE ServiceTypeInv'
  OBVIOUS
<1>1. CASE Write
  BY <1>1, WriteTypes
<1>2. ASSUME NEW t \in Threads, Begin(t) PROVE ServiceTypeInv'
  BY <1>2, BeginAlone, LevelsAssumption DEF Begin
<1>3. ASSUME NEW t \in Threads, Serve(t) PROVE ServiceTypeInv'
  BY <1>3, ReadRevisionAlone, ReadNowAlone, LookUpHitAlone, LookUpMissAlone, ResolveRolesAlone,
     AskRoleAlone, CallTypes, EvaluateTypes, InCacheTypes, GatherTypes, PropagateTypes, EndAlone,
     StoreVerdictTypes DEF Serve
<1>4. CASE UNCHANGED serviceVars
  <2>1. CacheInv'
    <3>1. UNCHANGED vars
      BY <1>4 DEF serviceVars
    <3> QED
      BY <3>1, CacheStep DEF ServiceTypeInv
  <2>2. ServiceTypeOK'
    BY <1>4, <2>1 DEF serviceVars, graphVars, checkCacheVars, ServiceTypeInv, ServiceTypeOK, CacheInv
  <2>3. ASSUME NEW t \in Threads PROVE Located(t)'
    BY <1>4 DEF serviceVars, vars, callVars, graphVars, Graph, ServiceTypeInv, Located, Outstanding
  <2> QED
    BY <2>1, <2>2, <2>3 DEF ServiceTypeInv
<1> QED
  BY <1>1, <1>2, <1>3, <1>4 DEF ServiceNext

\* The service starts well typed.
LEMMA ServiceInitTypes == ServiceInit => ServiceTypeInv
<1> SUFFICES ASSUME ServiceInit PROVE ServiceTypeInv
  OBVIOUS
<1>1. 0 \in 0 .. CounterModulus - 1
  BY ModulusAssumption
<1>2. TypeOK
  BY <1>1, SetupAssumption, StepsList
     DEF ServiceInit, TypeOK, Entries, NoEntries, Nothing, Outcomes, Pending, Failed, Flying
<1>3. CacheInv
  BY <1>2, NoneAssumption DEF ServiceInit, CacheInv, OutcomeInv, FlightInv, CallInv, NoOrphanedWait,
     OutsideCall, Flying, Pending, Nothing
<1>4. ServiceTypeOK
  BY <1>1, <1>2, SetupAssumption DEF ServiceInit, ServiceTypeOK, NoEntries
<1>5. ASSUME NEW t \in Threads PROVE Located(t)
  BY DEF ServiceInit, Located, Outstanding, Phases, NoCheck, Pending, Nothing
<1> QED
  BY <1>3, <1>4, <1>5 DEF ServiceTypeInv

(***************************************************************************)
(* The service is well typed, its subproblem cache keeps all it promises   *)
(* to callers while checks use it, and a check is where its thread is.     *)
(***************************************************************************)
THEOREM ServiceTypeInvariant == ServiceSpec => []ServiceTypeInv
<1> QED
  BY ServiceInitTypes, ServiceTypeStep, PTL DEF ServiceSpec

\* Every state of the service is well typed.
THEOREM ServiceTypeCorrect == ServiceSpec => []ServiceTypeOK
<1>1. ServiceTypeInv => ServiceTypeOK
  BY DEF ServiceTypeInv
<1> QED
  BY <1>1, ServiceTypeInvariant, PTL

-----------------------------------------------------------------------------
(***************************************************************************)
(* Nothing is keyed later than both the clock and the revision, on a clock *)
(* that is not set back: a write that advances past both outdates all.     *)
(***************************************************************************)
Reached(s) == s <= LaterOf(clock, revision)

CheckReached(c) ==
  c # NoCheck => c.token <= revision /\ c.revision <= revision /\ c.now <= clock /\ Reached(c.snapshot)

ReachedInv ==
  /\ \A f \in FlightKey : entries[f] # Nothing \/ checkEntries[f] # Nothing => Reached(f.snapshot)
  /\ \A t \in Threads : flight[t] # NoFlight => Reached(flight[t].snapshot)
  /\ \A t \in Threads : CheckReached(check[t])

\* A request selects nothing later than the instants it was given.
LEMMA SelectedReached ==
  ASSUME ServiceTypeInv, NEW c \in Checks, c.revision # Unread, c.now # Unread, CheckReached(c)
  PROVE  Reached(Selected(c))
<1>1. /\ c.level \in Consistency /\ c.token \in Nat /\ c.revision \in Nat /\ c.now \in Nat
      /\ clock \in Nat /\ revision \in Nat
  BY CheckFields, TimeFacts DEF ServiceTypeInv, ServiceTypeOK, TypeOK
<1>2. c # NoCheck
  BY DEF Checks, NoCheck, Phases
<1>3. c.token <= revision /\ c.revision <= revision /\ c.now <= clock
  BY <1>2 DEF CheckReached
<1>4. quantize(c.now, BucketSize) \in Nat /\ quantize(c.now, BucketSize) <= c.now
  BY <1>1, QuantizeBounds, BucketAssumption
<1> QED
  BY <1>1, <1>3, <1>4 DEF Reached, Selected, selectSnapshot, Candidate, Consistency, LaterOf

\* A step that takes neither the clock nor the revision back keeps what was
\* in reach, so only what it adds has to be looked at.
LEMMA ReachedFrame ==
  ASSUME ServiceTypeInv, ServiceTypeInv', ReachedInv, clock' >= clock, revision' >= revision,
         \A f \in FlightKey : entries'[f] # Nothing => entries[f] # Nothing \/ Reached(f.snapshot),
         \A f \in FlightKey : checkEntries'[f] # Nothing => checkEntries[f] # Nothing \/ Reached(f.snapshot),
         \A t \in Threads :
           flight'[t] # NoFlight => flight'[t] = flight[t] \/ Reached(flight'[t].snapshot),
         \A t \in Threads : check'[t] = check[t] \/ CheckReached(check[t])'
  PROVE  ReachedInv'
<1>1. clock \in Nat /\ revision \in Nat /\ clock' \in Nat /\ revision' \in Nat
  BY TimeFacts DEF ServiceTypeInv, ServiceTypeOK, TypeOK
<1>2. ASSUME NEW s \in Int, Reached(s) PROVE Reached(s)'
  BY <1>1, <1>2 DEF Reached, LaterOf
<1>3. ASSUME NEW f \in FlightKey PROVE f.snapshot \in Int
  <2>1. f.snapshot \in Time
    BY DEF FlightKey
  <2>2. Time \subseteq Int
    BY TimeFacts
  <2> QED
    BY <2>1, <2>2
<1>4. ASSUME NEW f \in FlightKey, entries'[f] # Nothing \/ checkEntries'[f] # Nothing
      PROVE  Reached(f.snapshot)'
  BY <1>2, <1>3, <1>4 DEF ReachedInv
<1>5. ASSUME NEW t \in Threads, flight'[t] # NoFlight PROVE Reached(flight[t].snapshot)'
  <2>1. flight'[t] \in FlightKey
    BY <1>5 DEF ServiceTypeInv, ServiceTypeOK, TypeOK
  <2>2. Reached(flight'[t].snapshot)
    BY <1>5 DEF ReachedInv
  <2>3. Reached(flight'[t].snapshot) => flight'[t].snapshot <= LaterOf(clock, revision)
    BY DEF Reached
  <2> QED
    BY <1>1, <1>3, <2>1, <2>2, <2>3 DEF Reached, LaterOf
<1>6. ASSUME NEW t \in Threads PROVE CheckReached(check[t])'
  <2>1. CASE check'[t] = check[t] /\ check[t] # NoCheck
    <3>1. check[t] \in Checks
      BY <2>1, InCheck DEF ServiceTypeInv
    <3>2. /\ check[t].token \in Int /\ check[t].revision \in Int /\ check[t].now \in Int
          /\ check[t].snapshot \in Int
      <4>1. -1 \in Int /\ Time \subseteq Int
        BY TimeFacts
      <4> QED
        BY <3>1, <4>1, CheckFields DEF Unread
    <3>3. /\ check[t].token <= revision /\ check[t].revision <= revision /\ check[t].now <= clock
          /\ Reached(check[t].snapshot)
      BY <2>1 DEF ReachedInv, CheckReached
    <3> QED
      BY <1>1, <2>1, <3>2, <3>3 DEF CheckReached, Reached, LaterOf
  <2>2. CASE check'[t] = NoCheck
    BY <2>2 DEF CheckReached
  <2> QED
    BY <2>1, <2>2
<1> QED
  BY <1>4, <1>5, <1>6 DEF ReachedInv

\* The clock, read by anyone, is not before its last reading.
LEMMA ClockAdvances ==
  ASSUME ClockModel # "adjustable", ServiceTypeInv, clock' \in Readings(clock) \/ clock' = clock
  PROVE  clock' >= clock
<1>1. clock \in Nat
  BY TimeFacts DEF ServiceTypeInv, ServiceTypeOK, TypeOK
<1> QED
  BY <1>1 DEF Readings

\* The steps that touch nothing but a check.
LEMMA AloneReached ==
  ASSUME ClockModel # "adjustable", ServiceTypeInv, ServiceTypeInv', ReachedInv,
         NEW t \in Threads, NEW c \in Checks \cup {NoCheck}, CheckAlone(t, c), CheckReached(check[t])'
  PROVE  ReachedInv'
<1>1. clock' >= clock
  BY ClockAdvances DEF CheckAlone, CacheAside
<1>2. revision' >= revision
  <2>1. revision \in Nat
    BY TimeFacts DEF ServiceTypeInv, ServiceTypeOK
  <2> QED
    BY <2>1 DEF CheckAlone, graphVars
<1>3. \A u \in Threads : check'[u] = check[u] \/ CheckReached(check[u])'
  BY DEF CheckAlone, ServiceTypeInv, ServiceTypeOK
<1>4. entries' = entries /\ checkEntries' = checkEntries /\ flight' = flight
  BY DEF CheckAlone, CacheAside, callVars
<1> QED
  BY <1>1, <1>2, <1>3, <1>4, ReachedFrame

\* The steps inside the subproblem cache and the evaluation.
LEMMA HopReached ==
  ASSUME ClockModel # "adjustable", ServiceTypeInv, ServiceTypeInv', ReachedInv, NEW t \in Threads,
         Hop(t), UNCHANGED <<graphVars, checkCacheVars, check>>
  PROVE  ReachedInv'
<1>1. clock' >= clock
  BY ClockAdvances DEF Hop
<1>2. revision' >= revision
  <2>1. revision \in Nat
    BY TimeFacts DEF ServiceTypeInv, ServiceTypeOK
  <2> QED
    BY <2>1 DEF graphVars
<1>3. ASSUME NEW f \in FlightKey, entries'[f] # Nothing PROVE entries[f] # Nothing \/ Reached(f.snapshot)
  <2>1. CASE entries' = entries
    BY <1>3, <2>1
  <2>2. CASE /\ flight[t] \in FlightKey /\ outcome[t] \in Decision
             /\ entries' = put(entries, flight[t], outcome[t], clock')
    <3>1. Reached(flight[t].snapshot)
      BY <2>2, NoneAssumption DEF ReachedInv
    <3>2. f # flight[t] => entries'[f] \in {entries[f], Nothing}
      <4>1. entries \in Entries
        BY DEF ServiceTypeInv, ServiceTypeOK, TypeOK
      <4> QED
        BY <2>2, <4>1, PutChangesOneAnswer
    <3> QED
      BY <1>3, <3>1, <3>2
  <2> QED
    BY <2>1, <2>2 DEF Hop
<1>4. checkEntries' = checkEntries /\ flight' = flight /\ check' = check
  BY DEF Hop, checkCacheVars
<1> QED
  BY <1>1, <1>2, <1>3, <1>4, ReachedFrame

\* Every step keeps that nothing is keyed too late.
LEMMA ReachedStep ==
  ASSUME ClockModel # "adjustable", ServiceTypeInv, ReachedInv, [ServiceNext]_serviceVars
  PROVE  ReachedInv'
<1> USE ServiceTypeStep
<1>0. ServiceTypeInv' /\ clock \in Nat /\ revision \in Nat
  BY TimeFacts DEF ServiceTypeInv, ServiceTypeOK, TypeOK
<1>1. CASE Write
  <2>1. clock' >= clock /\ revision' >= revision
    <3>1. revision' \in Nat
      BY <1>1, WriteTypes, TimeFacts
    <3> QED
      BY <1>0, <1>1, <3>1, WriteTypes, ClockAdvances
  <2>2. entries' = entries /\ checkEntries' = checkEntries /\ flight' = flight
    BY <1>1, WriteTypes DEF Stamp, checkCacheVars, callVars
  <2>3. ASSUME NEW t \in Threads PROVE check'[t] = check[t] \/ CheckReached(check[t])'
    <3>1. CASE check[t] = NoCheck
      BY <1>1, <3>1, WriteTypes
    <3>2. CASE check[t] # NoCheck
      <4>1. check[t] \in Checks
        BY <3>2, InCheck DEF ServiceTypeInv
      <4>2. LET c == check'[t] IN
              c.token = check[t].token /\ c.revision = check[t].revision /\ c.now = check[t].now
                /\ c.snapshot = check[t].snapshot
        BY <1>1, <3>2, <4>1, WriteTypes DEF Checks
      <4>3. /\ check[t].token \in Int /\ check[t].revision \in Int /\ check[t].now \in Int
            /\ check[t].snapshot \in Int
        <5>1. -1 \in Int /\ Time \subseteq Int
          BY TimeFacts
        <5> QED
          BY <4>1, <5>1, CheckFields DEF Unread
      <4>4. /\ check[t].token <= revision /\ check[t].revision <= revision /\ check[t].now <= clock
            /\ Reached(check[t].snapshot)
        BY <3>2 DEF ReachedInv, CheckReached
      <4>5. revision' \in Nat /\ clock' \in Nat
        BY <1>0, TimeFacts DEF ServiceTypeInv, ServiceTypeOK, TypeOK
      <4> QED
        BY <1>0, <2>1, <4>2, <4>3, <4>4, <4>5 DEF CheckReached, Reached, LaterOf
    <3> QED
      BY <3>1, <3>2
  <2> QED
    BY <1>0, <2>1, <2>2, <2>3, ReachedFrame
<1>2. ASSUME NEW t \in Threads, NEW p \in Principals, NEW g \in Targets, NEW l \in Consistency,
             NEW k \in 0 .. revision, BeginCheck(t, p, g, l, k)
      PROVE  ReachedInv'
  <2>1. Fresh(p, g, l, k) \in Checks /\ CheckAlone(t, Fresh(p, g, l, k))
    BY <1>2, BeginAlone
  <2>2. check'[t] = Fresh(p, g, l, k) /\ revision' = revision /\ clock' = clock
    BY <1>2, <2>1 DEF BeginCheck, CheckAlone, vars, graphVars, ServiceTypeInv, ServiceTypeOK
  <2>3. CheckReached(check[t])'
    BY <1>0, <2>2 DEF Fresh, CheckReached, Reached, LaterOf, Unread
  <2> QED
    BY <1>0, <2>1, <2>3, AloneReached
<1>3. ASSUME NEW t \in Threads, ReadRevision(t) PROVE ReachedInv'
  <2> DEFINE c == [check[t] EXCEPT !.revision = revision]
  <2>1. check[t] \in Checks /\ c \in Checks /\ CheckAlone(t, c)
    BY <1>3, ReadRevisionAlone
  <2>2. check'[t] = c /\ revision' = revision /\ clock' = clock
    BY <1>3, <2>1 DEF ReadRevision, CheckAlone, vars, graphVars, ServiceTypeInv, ServiceTypeOK
  <2>3. c.token = check[t].token /\ c.revision = revision /\ c.now = check[t].now
        /\ c.snapshot = check[t].snapshot /\ check[t] # NoCheck
    BY <2>1 DEF Checks, NoCheck
  <2>4. CheckReached(check[t])
    BY DEF ReachedInv
  <2>5. CheckReached(check[t])'
    BY <1>0, <2>2, <2>3, <2>4 DEF CheckReached, Reached
  <2> QED
    BY <1>0, <2>1, <2>5, AloneReached
<1>4. ASSUME NEW t \in Threads, ReadNow(t) PROVE ReachedInv'
  <2> DEFINE c == [check[t] EXCEPT !.now = clock']
  <2>1. check[t] \in Checks /\ c \in Checks /\ CheckAlone(t, c)
    BY <1>4, ReadNowAlone
  <2>2. check'[t] = c /\ revision' = revision
    BY <1>4, <2>1 DEF ReadNow, CheckAlone, graphVars, ServiceTypeInv, ServiceTypeOK
  <2>3. c.token = check[t].token /\ c.revision = check[t].revision /\ c.now = clock'
        /\ c.snapshot = check[t].snapshot /\ check[t] # NoCheck
    BY <2>1 DEF Checks, NoCheck
  <2>4. CheckReached(check[t])
    BY DEF ReachedInv
  <2>5. clock' \in Nat /\ clock' >= clock /\ check[t].snapshot \in Int
    <3>1. -1 \in Int /\ Time \subseteq Int
      BY TimeFacts
    <3>2. clock' \in Nat
      BY <1>0, TimeFacts DEF ServiceTypeInv, ServiceTypeOK, TypeOK
    <3>3. clock' >= clock
      BY <2>1, ClockAdvances DEF CheckAlone, CacheAside
    <3> QED
      BY <2>1, <3>1, <3>2, <3>3, CheckFields DEF Unread
  <2>6. CheckReached(check[t])'
    BY <1>0, <2>2, <2>3, <2>4, <2>5 DEF CheckReached, Reached, LaterOf
  <2> QED
    BY <1>0, <2>1, <2>6, AloneReached
<1>5. ASSUME NEW t \in Threads, LookUpHit(t) PROVE ReachedInv'
  <2> DEFINE c == [check[t] EXCEPT !.phase = "answered", !.snapshot = Selected(check[t]),
                                   !.verdict = checkEntries[CheckFlight(check[t])]]
  <2>1. check[t] \in Checks /\ c \in Checks /\ CheckAlone(t, c)
    BY <1>5, LookUpHitAlone
  <2>2. check'[t] = c /\ revision' = revision /\ clock' = clock
    BY <1>5, <2>1 DEF LookUpHit, CheckAlone, vars, graphVars, ServiceTypeInv, ServiceTypeOK
  <2>3. c.token = check[t].token /\ c.revision = check[t].revision /\ c.now = check[t].now
        /\ c.snapshot = Selected(check[t]) /\ check[t] # NoCheck
    BY <2>1 DEF Checks, NoCheck
  <2>4. CheckReached(check[t])
    BY DEF ReachedInv
  <2>5. Reached(Selected(check[t]))
    BY <1>5, <2>1, <2>4, SelectedReached DEF LookUpHit, HasRead
  <2>6. CheckReached(check[t])'
    BY <2>2, <2>3, <2>4, <2>5 DEF CheckReached, Reached
  <2> QED
    BY <1>0, <2>1, <2>6, AloneReached
<1>6. ASSUME NEW t \in Threads, LookUpMiss(t) PROVE ReachedInv'
  <2> DEFINE c == [check[t] EXCEPT !.phase = "resolving", !.snapshot = Selected(check[t]),
                                   !.revision = Unread, !.now = Unread]
  <2>1. check[t] \in Checks /\ c \in Checks /\ CheckAlone(t, c)
    BY <1>6, LookUpMissAlone
  <2>2. check'[t] = c /\ revision' = revision /\ clock' = clock
    BY <1>6, <2>1 DEF LookUpMiss, CheckAlone, vars, graphVars, ServiceTypeInv, ServiceTypeOK
  <2>3. c.token = check[t].token /\ c.revision = Unread /\ c.now = Unread
        /\ c.snapshot = Selected(check[t]) /\ check[t] # NoCheck
    BY <2>1 DEF Checks, NoCheck
  <2>4. CheckReached(check[t])
    BY DEF ReachedInv
  <2>5. Reached(Selected(check[t]))
    BY <1>6, <2>1, <2>4, SelectedReached DEF LookUpMiss, HasRead
  <2>6. CheckReached(check[t])'
    BY <1>0, <2>2, <2>3, <2>4, <2>5 DEF CheckReached, Reached, Unread
  <2> QED
    BY <1>0, <2>1, <2>6, AloneReached
<1>7. ASSUME NEW t \in Threads, ResolveRoles(t) PROVE ReachedInv'
  <2> DEFINE c == [check[t] EXCEPT !.phase = "gathering",
                                   !.remaining = effectiveRoles(roles, assignments, check[t].principal)]
  <2>1. check[t] \in Checks /\ c \in Checks /\ CheckAlone(t, c)
    BY <1>7, ResolveRolesAlone
  <2>2. check'[t] = c /\ revision' = revision /\ clock' = clock
    BY <1>7, <2>1 DEF ResolveRoles, CheckAlone, vars, graphVars, ServiceTypeInv, ServiceTypeOK
  <2>3. c.token = check[t].token /\ c.revision = check[t].revision /\ c.now = check[t].now
        /\ c.snapshot = check[t].snapshot /\ check[t] # NoCheck
    BY <2>1 DEF Checks, NoCheck
  <2>4. CheckReached(check[t])
    BY DEF ReachedInv
  <2>5. CheckReached(check[t])'
    BY <2>2, <2>3, <2>4 DEF CheckReached, Reached
  <2> QED
    BY <1>0, <2>1, <2>5, AloneReached
<1>8. ASSUME NEW t \in Threads, NEW role \in RoleNames, AskRole(t, role) PROVE ReachedInv'
  <2> DEFINE c == [check[t] EXCEPT !.phase = "asking", !.role = role,
                                   !.remaining = check[t].remaining \ {role}]
  <2>1. check[t] \in Checks /\ c \in Checks /\ CheckAlone(t, c)
    BY <1>8, AskRoleAlone
  <2>2. check'[t] = c /\ revision' = revision /\ clock' = clock
    BY <1>8, <2>1 DEF AskRole, CheckAlone, vars, graphVars, ServiceTypeInv, ServiceTypeOK
  <2>3. c.token = check[t].token /\ c.revision = check[t].revision /\ c.now = check[t].now
        /\ c.snapshot = check[t].snapshot /\ check[t] # NoCheck
    BY <2>1 DEF Checks, NoCheck
  <2>4. CheckReached(check[t])
    BY DEF ReachedInv
  <2>5. CheckReached(check[t])'
    BY <2>2, <2>3, <2>4 DEF CheckReached, Reached
  <2> QED
    BY <1>0, <2>1, <2>5, AloneReached
<1>9. ASSUME NEW t \in Threads, Abandon(t) \/ Reply(t) PROVE ReachedInv'
  <2>1. CheckAlone(t, NoCheck)
    BY <1>9, EndAlone
  <2>2. check'[t] = NoCheck
    BY <2>1 DEF CheckAlone, ServiceTypeInv, ServiceTypeOK
  <2>3. CheckReached(check[t])'
    BY <2>2 DEF CheckReached
  <2> QED
    BY <1>0, <2>1, <2>3, AloneReached
<1>10. ASSUME NEW t \in Threads, CallSubproblemCache(t) PROVE ReachedInv'
  <2> DEFINE f == RoleFlight(check[t])
             c == [check[t] EXCEPT !.phase = "inCache", !.revision = Unread, !.now = Unread]
  <2>1. /\ check[t] \in Checks /\ HasRead(t) /\ f \in FlightKey
        /\ check' = [check EXCEPT ![t] = c] /\ flight' = [flight EXCEPT ![t] = f]
        /\ entries' = entries /\ clock' = clock /\ UNCHANGED <<graphVars, checkCacheVars>>
    BY <1>10, CallTypes
  <2>2. check[t] # NoCheck /\ CheckReached(check[t])
    BY <2>1 DEF Checks, NoCheck, ReachedInv
  <2>3. Reached(f.snapshot)
    BY <2>1, <2>2, SelectedReached DEF HasRead, RoleFlight
  <2>4. revision' = revision /\ checkEntries' = checkEntries
    BY <2>1 DEF graphVars, checkCacheVars
  <2>5. check'[t] = c /\ \A u \in Threads \ {t} : check'[u] = check[u]
    BY <2>1 DEF ServiceTypeInv, ServiceTypeOK
  <2>6. c.token = check[t].token /\ c.revision = Unread /\ c.now = Unread /\ c.snapshot = check[t].snapshot
    BY <2>1 DEF Checks
  <2>7. CheckReached(check[t])'
    BY <1>0, <2>1, <2>2, <2>4, <2>5, <2>6 DEF CheckReached, Reached, Unread
  <2>8. \A u \in Threads : check'[u] = check[u] \/ CheckReached(check[u])'
    BY <2>5, <2>7
  <2>9. ASSUME NEW u \in Threads
        PROVE  flight'[u] # NoFlight => flight'[u] = flight[u] \/ Reached(flight'[u].snapshot)
    BY <2>1, <2>3 DEF ServiceTypeInv, CacheInv, TypeOK
  <2> QED
    BY <1>0, <2>1, <2>4, <2>8, <2>9, ReachedFrame
<1>11. ASSUME NEW t \in Threads, EvaluateRole(t) PROVE ReachedInv'
  <2>1. entries' = entries /\ clock' = clock /\ flight' = flight /\ check' = check
        /\ revision' = revision /\ checkEntries' = checkEntries
    BY <1>11, EvaluateTypes DEF EvaluateRole, graphVars, checkCacheVars
  <2> QED
    BY <1>0, <2>1, ReachedFrame
<1>12. ASSUME NEW t \in Threads, InSubproblemCache(t) PROVE ReachedInv'
  BY <1>0, <1>12, InCacheTypes, HopReached DEF InSubproblemCache
<1>13. ASSUME NEW t \in Threads, GatherAnswer(t) \/ Propagate(t) PROVE ReachedInv'
  <2>1. check[t].phase = "inCache" /\ Return(t)
    BY <1>13 DEF GatherAnswer, Propagate
  <2>2. /\ check[t] \in Checks /\ entries' = entries /\ clock' = clock /\ flight'[t] = NoFlight
        /\ \A u \in Threads \ {t} : flight'[u] = flight[u]
    BY <2>1, ReturnTypes
  <2>3. UNCHANGED <<graphVars, checkCacheVars>>
        /\ \A u \in Threads \ {t} : check'[u] = check[u]
    BY <1>13 DEF GatherAnswer, Propagate, ServiceTypeInv, ServiceTypeOK
  <2>4. CheckReached(check[t])'
    <3>1. CASE Propagate(t)
      BY <3>1 DEF Propagate, CheckReached, ServiceTypeInv, ServiceTypeOK
    <3>2. CASE GatherAnswer(t)
      <4> DEFINE c == [check[t] EXCEPT !.phase = "gathering", !.role = NoRole,
                                       !.answers = check[t].answers \cup {outcome[t]}]
      <4>1. check' = [check EXCEPT ![t] = c]
        BY <3>2, GatherTypes
      <4>2. check'[t] = c
        BY <4>1 DEF ServiceTypeInv, ServiceTypeOK
      <4>3. c.token = check[t].token /\ c.revision = check[t].revision /\ c.now = check[t].now
            /\ c.snapshot = check[t].snapshot /\ check[t] # NoCheck
        BY <2>2 DEF Checks, NoCheck
      <4>4. CheckReached(check[t])
        BY DEF ReachedInv
      <4> QED
        BY <2>2, <2>3, <4>2, <4>3, <4>4 DEF CheckReached, Reached, graphVars
    <3> QED
      BY <1>13, <3>1, <3>2
  <2>5. \A u \in Threads : check'[u] = check[u] \/ CheckReached(check[u])'
    BY <2>3, <2>4
  <2>6. \A u \in Threads : flight'[u] # NoFlight => flight'[u] = flight[u]
    BY <2>2
  <2>7. revision' = revision /\ checkEntries' = checkEntries
    BY <2>3 DEF graphVars, checkCacheVars
  <2> QED
    BY <1>0, <2>2, <2>5, <2>6, <2>7, ReachedFrame
<1>14. ASSUME NEW t \in Threads, StoreVerdict(t) PROVE ReachedInv'
  <2> DEFINE d == combine(check[t].answers)
             c == [check[t] EXCEPT !.phase = "answered", !.verdict = d]
             f == StoredAs(check[t])
  <2>1. /\ check[t] \in Checks /\ d \in {"Allow", "Deny"} /\ f \in FlightKey
        /\ check' = [check EXCEPT ![t] = c] /\ clock' \in Readings(clock)
        /\ checkEntries' = put(checkEntries, f, d, clock')
        /\ entries' = entries /\ flight' = flight /\ revision' = revision
    BY <1>14, StoreVerdictTypes DEF callVars, graphVars
  <2>2. check[t] # NoCheck /\ CheckReached(check[t])
    BY <2>1 DEF Checks, NoCheck, ReachedInv
  <2>3. Reached(f.snapshot) /\ check[t].snapshot \in Int
    <3>1. f.snapshot = check[t].snapshot
      BY DEF StoredAs
    <3>2. -1 \in Int /\ Time \subseteq Int
      BY TimeFacts
    <3> QED
      BY <2>1, <2>2, <3>1, <3>2, CheckFields DEF CheckReached, Unread
  <2>4. ASSUME NEW g \in FlightKey, checkEntries'[g] # Nothing
        PROVE  checkEntries[g] # Nothing \/ Reached(g.snapshot)
    <3>1. checkEntries \in Entries
      BY DEF ServiceTypeInv, ServiceTypeOK, Entries, Decision
    <3>2. g # f => checkEntries'[g] \in {checkEntries[g], Nothing}
      BY <2>1, <3>1, PutChangesOneAnswer
    <3> QED
      BY <2>3, <2>4, <3>2
  <2>5. clock' >= clock /\ clock' \in Nat
    BY <1>0, <2>1, ClockAdvances, TimeFacts DEF ServiceTypeInv, ServiceTypeOK, TypeOK
  <2>6. check'[t] = c /\ \A u \in Threads \ {t} : check'[u] = check[u]
    BY <2>1 DEF ServiceTypeInv, ServiceTypeOK
  <2>7. c.token = check[t].token /\ c.revision = check[t].revision /\ c.now = check[t].now
        /\ c.snapshot = check[t].snapshot
    BY <2>1 DEF Checks
  <2>8. check[t].now \in Int
    <3>1. -1 \in Int /\ Time \subseteq Int
      BY TimeFacts
    <3> QED
      BY <2>1, <3>1, CheckFields DEF Unread
  <2>9. CheckReached(check[t])'
    BY <1>0, <2>1, <2>2, <2>3, <2>5, <2>6, <2>7, <2>8 DEF CheckReached, Reached, LaterOf
  <2>10. \A u \in Threads : check'[u] = check[u] \/ CheckReached(check[u])'
    BY <2>6, <2>9
  <2> QED
    BY <1>0, <2>1, <2>4, <2>5, <2>10, ReachedFrame
<1>15. CASE UNCHANGED serviceVars
  BY <1>15 DEF serviceVars, vars, callVars, graphVars, checkCacheVars, ReachedInv, CheckReached, Reached
<1> QED
  BY <1>1, <1>2, <1>3, <1>4, <1>5, <1>6, <1>7, <1>8, <1>9, <1>10, <1>11, <1>12, <1>13, <1>14, <1>15,
     LevelsAssumption DEF ServiceNext, Begin, Serve

-----------------------------------------------------------------------------
(***************************************************************************)
(* A floor rho separates old entries from those made of the graphs in G:   *)
(* whatever the caches hold, and threads carry, at rho or later was read   *)
(* from one of these graphs, or combined of what was.                      *)
(***************************************************************************)
EntriesSound(rho, G) ==
  \A f \in FlightKey : f.snapshot >= rho /\ entries[f] # Nothing =>
    f.key.subject \in RoleNames /\ entries[f] \in SaidBy(G, f.key.subject, f.key.target)

OutcomesSound(rho, G) ==
  \A t \in Threads : outcome[t] \in Decision /\ flight[t].snapshot >= rho =>
    outcome[t] \in SaidBy(G, flight[t].key.subject, flight[t].key.target)

VerdictsSound(rho, G) ==
  \A f \in FlightKey : f.snapshot >= rho /\ checkEntries[f] # Nothing =>
    /\ f.key.subject \in Principals
    /\ checkEntries[f] \in MixedAnswers(G, f.key.subject, f.key.target)

\* The answers a check has are those of the roles it has asked.
Gathered(c, G) ==
  \E g \in G :
    LET asked == effectiveRoles(g.roles, g.assignments, c.principal)
        left == c.remaining \cup Outstanding(c)
    IN  /\ left \subseteq asked
        /\ Outstanding(c) \cap c.remaining = {}
        /\ \E said \in Sayings(g, G, c.principal, c.target) :
             c.answers = {said[r] : r \in asked \ left}

CheckSound(t, rho, G) ==
  /\ check[t].phase = "asking" /\ check[t].revision # Unread => check[t].revision >= rho
  /\ check[t].phase = "inCache" => flight[t].snapshot >= rho
  /\ check[t].phase \in {"gathering", "asking", "inCache"} => Gathered(check[t], G)
  /\ check[t].phase = "answered" =>
       check[t].verdict \in MixedAnswers(G, check[t].principal, check[t].target)

ChecksSound(rho, G) ==
  \A t \in Threads :
    check[t].phase \in Phases \ {"selecting"} /\ check[t].snapshot >= rho => CheckSound(t, rho, G)

Sound(rho, G) ==
  EntriesSound(rho, G) /\ OutcomesSound(rho, G) /\ VerdictsSound(rho, G) /\ ChecksSound(rho, G)

\* rho is the revision there was when the check began.
Follows(t, rho) ==
  /\ Sound(rho, check[t].graphs)
  /\ check[t].phase = "selecting" /\ check[t].revision # Unread => check[t].revision >= rho
  /\ check[t].phase \in Phases \ {"selecting"} => check[t].snapshot >= rho

SoundInv ==
  /\ Sound(revision, {Graph})
  /\ \A t \in Threads : check[t] # NoCheck => \E rho \in 0 .. revision : Follows(t, rho)

-----------------------------------------------------------------------------
(* A step that is not a write keeps Sound(rho, G), for a G that has the     *)
(* graph there is; one lemma for each kind of step.                        *)

\* More graphs allow more.
LEMMA MoreGraphs ==
  ASSUME NEW G, NEW H, G \subseteq H
  PROVE  /\ \A r, g : SaidBy(G, r, g) \subseteq SaidBy(H, r, g)
         /\ \A g, p, q : Sayings(g, G, p, q) \subseteq Sayings(g, H, p, q)
         /\ \A p, q : MixedAnswers(G, p, q) \subseteq MixedAnswers(H, p, q)
         /\ \A c : Gathered(c, G) => Gathered(c, H)
<1>1. ASSUME NEW r, NEW g PROVE SaidBy(G, r, g) \subseteq SaidBy(H, r, g)
  BY DEF SaidBy
<1>2. ASSUME NEW g, NEW p, NEW q PROVE Sayings(g, G, p, q) \subseteq Sayings(g, H, p, q)
  BY <1>1 DEF Sayings
<1>3. ASSUME NEW p, NEW q PROVE MixedAnswers(G, p, q) \subseteq MixedAnswers(H, p, q)
  BY <1>2 DEF MixedAnswers
<1>4. ASSUME NEW c, Gathered(c, G) PROVE Gathered(c, H)
  BY <1>2, <1>4 DEF Gathered
<1> QED
  BY <1>1, <1>2, <1>3, <1>4

\* With a single graph there is nothing to mix.
LEMMA OneGraph ==
  ASSUME NEW g
  PROVE  /\ \A r, q : SaidBy({g}, r, q) = {evaluateForRole(g.roles, r, q)}
         /\ \A p, q : MixedAnswers({g}, p, q) \subseteq {evaluateRbac(g.roles, g.assignments, p, q)}
<1>1. ASSUME NEW r, NEW q PROVE SaidBy({g}, r, q) = {evaluateForRole(g.roles, r, q)}
  BY DEF SaidBy
<1>2. ASSUME NEW p, NEW q, NEW answer \in MixedAnswers({g}, p, q)
      PROVE  answer = evaluateRbac(g.roles, g.assignments, p, q)
  <2> DEFINE asked == effectiveRoles(g.roles, g.assignments, p)
  <2>1. PICK said \in Sayings(g, {g}, p, q) : answer = combine({said[r] : r \in DOMAIN said})
    BY DEF MixedAnswers
  <2>2. DOMAIN said = asked /\ \A r \in asked : said[r] = evaluateForRole(g.roles, r, q)
    BY <1>1, <2>1 DEF Sayings
  <2>3. {said[r] : r \in DOMAIN said} = {evaluateForRole(g.roles, r, q) : r \in asked}
    BY <2>2
  <2> QED
    BY <2>1, <2>3 DEF evaluateRbac
<1> QED
  BY <1>1, <1>2

\* A check that asks about the roles the graph has now starts with no answer.
LEMMA GatheredAtFirst ==
  ASSUME NEW G, NEW g \in G, NEW c, g.roles \in Roles, c.target \in Targets,
         c.remaining = effectiveRoles(g.roles, g.assignments, c.principal),
         c.phase = "gathering", c.answers = {}
  PROVE  Gathered(c, G)
<1> DEFINE asked == effectiveRoles(g.roles, g.assignments, c.principal)
           said == [r \in asked |-> evaluateForRole(g.roles, r, c.target)]
<1>1. Outstanding(c) = {}
  BY DEF Outstanding
<1>2. said \in Sayings(g, G, c.principal, c.target)
  <2>1. ASSUME NEW r \in asked PROVE said[r] \in Decision /\ said[r] \in SaidBy(G, r, c.target)
    <3>1. r \in RoleNames
      BY DEF effectiveRoles
    <3> QED
      BY <3>1, EvaluationType DEF SaidBy
  <2> QED
    BY <2>1 DEF Sayings
<1>3. asked \ (c.remaining \cup Outstanding(c)) = {}
  BY <1>1
<1>4. c.answers = {said[r] : r \in asked \ (c.remaining \cup Outstanding(c))}
  BY <1>3
<1> QED
  BY <1>1, <1>2, <1>4 DEF Gathered

\* Taking a role out to ask it leaves it without an answer.
LEMMA GatheredAsk ==
  ASSUME NEW G, NEW c, NEW d, NEW role, Gathered(c, G), c.phase = "gathering", role \in c.remaining,
         d.phase = "asking", d.role = role, d.remaining = c.remaining \ {role},
         d.answers = c.answers, d.principal = c.principal, d.target = c.target
  PROVE  Gathered(d, G)
<1>1. Outstanding(c) = {} /\ Outstanding(d) = {role}
  BY DEF Outstanding
<1>2. d.remaining \cup Outstanding(d) = c.remaining \cup Outstanding(c)
  BY <1>1
<1>3. Outstanding(d) \cap d.remaining = {}
  BY <1>1
<1> QED
  BY <1>2, <1>3 DEF Gathered

\* Its answer, if a graph gives it, joins the others.
LEMMA GatheredAnswer ==
  ASSUME NEW G, NEW c, NEW d, NEW answer, Gathered(c, G), c.phase = "inCache",
         answer \in Decision, answer \in SaidBy(G, c.role, c.target),
         d.phase = "gathering", d.remaining = c.remaining, d.answers = c.answers \cup {answer},
         d.principal = c.principal, d.target = c.target
  PROVE  Gathered(d, G)
<1>1. Outstanding(c) = {c.role} /\ Outstanding(d) = {}
  BY DEF Outstanding
<1>2. PICK g \in G :
        LET asked == effectiveRoles(g.roles, g.assignments, c.principal)
            left == c.remaining \cup Outstanding(c)
        IN  /\ left \subseteq asked
            /\ Outstanding(c) \cap c.remaining = {}
            /\ \E said \in Sayings(g, G, c.principal, c.target) :
                 c.answers = {said[r] : r \in asked \ left}
  BY DEF Gathered
<1> DEFINE asked == effectiveRoles(g.roles, g.assignments, c.principal)
           left == c.remaining \cup Outstanding(c)
<1>3. left \subseteq asked /\ c.role \in asked /\ c.role \notin c.remaining
  BY <1>1, <1>2
<1>4. PICK said \in Sayings(g, G, c.principal, c.target) : c.answers = {said[r] : r \in asked \ left}
  BY <1>2
<1> DEFINE more == [said EXCEPT ![c.role] = answer]
<1>5. said \in [asked -> Decision] /\ \A r \in asked : said[r] \in SaidBy(G, r, c.target)
  BY <1>4 DEF Sayings
<1>6. more \in [asked -> Decision] /\ more[c.role] = answer
      /\ \A r \in asked \ {c.role} : more[r] = said[r]
  BY <1>3, <1>5
<1>7. more \in Sayings(g, G, d.principal, d.target)
  <2>1. \A r \in asked : more[r] \in SaidBy(G, r, c.target)
    BY <1>5, <1>6
  <2> QED
    BY <1>6, <2>1 DEF Sayings
<1>8. asked \ (d.remaining \cup Outstanding(d)) = (asked \ left) \cup {c.role}
  BY <1>1, <1>3
<1>9. d.answers = {more[r] : r \in asked \ (d.remaining \cup Outstanding(d))}
  <2>1. {more[r] : r \in (asked \ left) \cup {c.role}} = {more[r] : r \in asked \ left} \cup {answer}
    BY <1>6
  <2>2. {more[r] : r \in asked \ left} = {said[r] : r \in asked \ left}
    BY <1>1, <1>6
  <2> QED
    BY <1>4, <1>8, <2>1, <2>2
<1>10. /\ d.remaining \cup Outstanding(d) \subseteq effectiveRoles(g.roles, g.assignments, d.principal)
       /\ Outstanding(d) \cap d.remaining = {}
  BY <1>1, <1>3
<1> QED
  BY <1>7, <1>9, <1>10 DEF Gathered

\* Once every role has answered, the verdict is one some mix of the graphs gives.
LEMMA GatheredVerdict ==
  ASSUME NEW G, NEW c, Gathered(c, G), c.phase = "gathering", c.remaining = {}
  PROVE  combine(c.answers) \in MixedAnswers(G, c.principal, c.target)
<1>1. Outstanding(c) = {}
  BY DEF Outstanding
<1>2. PICK g \in G :
        \E said \in Sayings(g, G, c.principal, c.target) :
          c.answers = {said[r] : r \in effectiveRoles(g.roles, g.assignments, c.principal) \ {}}
  BY <1>1 DEF Gathered
<1>3. PICK said \in Sayings(g, G, c.principal, c.target) :
        c.answers = {said[r] : r \in effectiveRoles(g.roles, g.assignments, c.principal) \ {}}
  BY <1>2
<1>4. DOMAIN said = effectiveRoles(g.roles, g.assignments, c.principal)
  BY <1>3 DEF Sayings
<1>5. c.answers = {said[r] : r \in DOMAIN said}
  BY <1>3, <1>4
<1> DEFINE answers(h) == {combine({s[r] : r \in DOMAIN s}) : s \in Sayings(h, G, c.principal, c.target)}
<1>6. combine(c.answers) \in answers(g)
  BY <1>5
<1>7. MixedAnswers(G, c.principal, c.target) = UNION {answers(h) : h \in G}
  BY DEF MixedAnswers
<1> HIDE DEF answers
<1> QED
  BY <1>6, <1>7

\* A step of t is sound if what it makes of t's own check is.
LEMMA ChecksFrame ==
  ASSUME NEW rho, NEW G, NEW t \in Threads, ChecksSound(rho, G),
         \A u \in Threads \ {t} : check'[u] = check[u] /\ flight'[u] = flight[u],
         check'[t].phase \in Phases \ {"selecting"} /\ check'[t].snapshot >= rho => CheckSound(t, rho, G)'
  PROVE  ChecksSound(rho, G)'
<1>1. ASSUME NEW u \in Threads \ {t},
             check'[u].phase \in Phases \ {"selecting"} /\ check'[u].snapshot >= rho
      PROVE  CheckSound(u, rho, G)'
  <2>1. check'[u] = check[u] /\ flight'[u] = flight[u]
    OBVIOUS
  <2>2. CheckSound(u, rho, G)
    BY <1>1, <2>1 DEF ChecksSound
  <2> QED
    BY <2>1, <2>2 DEF CheckSound
<1> QED
  BY <1>1 DEF ChecksSound

\* The steps that touch nothing but a check.
LEMMA AloneSound ==
  ASSUME ServiceTypeInv, NEW t \in Threads, NEW c \in Checks \cup {NoCheck}, CheckAlone(t, c),
         NEW rho, NEW G, Sound(rho, G),
         c.phase \in Phases \ {"selecting"} /\ c.snapshot >= rho => CheckSound(t, rho, G)'
  PROVE  Sound(rho, G)'
<1>1. /\ entries' = entries /\ outcome' = outcome /\ flight' = flight /\ checkEntries' = checkEntries
      /\ check'[t] = c /\ \A u \in Threads \ {t} : check'[u] = check[u]
  BY DEF CheckAlone, CacheAside, callVars, ServiceTypeInv, ServiceTypeOK
<1>2. ChecksSound(rho, G)'
  BY <1>1, ChecksFrame DEF Sound
<1> QED
  BY <1>1, <1>2 DEF Sound, EntriesSound, OutcomesSound, VerdictsSound

\* A check that begins has nothing yet.
LEMMA BeginSound ==
  ASSUME ServiceTypeInv, NEW t \in Threads, NEW p \in Principals, NEW g \in Targets,
         NEW l \in Consistency, NEW k \in 0 .. revision, BeginCheck(t, p, g, l, k),
         NEW rho, NEW G, Sound(rho, G)
  PROVE  Sound(rho, G)'
<1>1. Fresh(p, g, l, k) \in Checks /\ CheckAlone(t, Fresh(p, g, l, k))
  BY BeginAlone
<1>2. Fresh(p, g, l, k).phase = "selecting"
  BY DEF Fresh
<1> QED
  BY <1>1, <1>2, AloneSound

\* The revision read for a role is one at or after the floor.
LEMMA ReadRevisionSound ==
  ASSUME ServiceTypeInv, NEW t \in Threads, ReadRevision(t),
         NEW rho, NEW G, rho <= revision, Sound(rho, G)
  PROVE  Sound(rho, G)'
<1> DEFINE c == [check[t] EXCEPT !.revision = revision]
<1>1. check[t] \in Checks /\ c \in Checks /\ CheckAlone(t, c)
  BY ReadRevisionAlone
<1>2. /\ c.phase = check[t].phase /\ c.revision = revision /\ c.snapshot = check[t].snapshot
      /\ c.principal = check[t].principal /\ c.target = check[t].target /\ c.role = check[t].role
      /\ c.remaining = check[t].remaining /\ c.answers = check[t].answers /\ c.verdict = check[t].verdict
  BY <1>1 DEF Checks
<1>3. check'[t] = c /\ check[t].phase \in {"selecting", "asking"}
  BY <1>1 DEF ReadRevision, CheckAlone, ServiceTypeInv, ServiceTypeOK
<1>4. revision \in Int /\ (rho <= revision => revision >= rho)
  BY TimeFacts DEF ServiceTypeInv, ServiceTypeOK
<1>5. ASSUME c.phase \in Phases \ {"selecting"}, c.snapshot >= rho PROVE CheckSound(t, rho, G)'
  <2>1. CheckSound(t, rho, G) /\ check[t].phase = "asking"
    BY <1>2, <1>3, <1>5 DEF Sound, ChecksSound
  <2>2. Gathered(check[t], G)
    BY <2>1 DEF CheckSound
  <2>3. Gathered(c, G)
    BY <1>2, <2>2 DEF Gathered, Outstanding
  <2> HIDE DEF c
  <2> QED
    BY <1>2, <1>3, <1>4, <2>1, <2>3 DEF CheckSound
<1> QED
  BY <1>1, <1>5, AloneSound

\* Reading the clock says nothing of the graph.
LEMMA ReadNowSound ==
  ASSUME ServiceTypeInv, NEW t \in Threads, ReadNow(t), NEW rho, NEW G, Sound(rho, G)
  PROVE  Sound(rho, G)'
<1> DEFINE c == [check[t] EXCEPT !.now = clock']
<1>1. check[t] \in Checks /\ c \in Checks /\ CheckAlone(t, c)
  BY ReadNowAlone
<1>2. /\ c.phase = check[t].phase /\ c.revision = check[t].revision /\ c.snapshot = check[t].snapshot
      /\ c.principal = check[t].principal /\ c.target = check[t].target /\ c.role = check[t].role
      /\ c.remaining = check[t].remaining /\ c.answers = check[t].answers /\ c.verdict = check[t].verdict
  BY <1>1 DEF Checks
<1>3. check'[t] = c /\ check[t].phase \in {"selecting", "asking"}
  BY <1>1 DEF ReadNow, CheckAlone, ServiceTypeInv, ServiceTypeOK
<1>4. ASSUME c.phase \in Phases \ {"selecting"}, c.snapshot >= rho PROVE CheckSound(t, rho, G)'
  <2>1. CheckSound(t, rho, G) /\ check[t].phase = "asking"
    BY <1>2, <1>3, <1>4 DEF Sound, ChecksSound
  <2>2. Gathered(check[t], G)
    BY <2>1 DEF CheckSound
  <2>3. Gathered(c, G)
    BY <1>2, <2>2 DEF Gathered, Outstanding
  <2> HIDE DEF c
  <2> QED
    BY <1>2, <1>3, <2>1, <2>3 DEF CheckSound
<1> QED
  BY <1>1, <1>4, AloneSound

\* A hit is an answer the whole-check cache was right to keep.
LEMMA LookUpHitSound ==
  ASSUME ServiceTypeInv, NEW t \in Threads, LookUpHit(t), NEW rho, NEW G, Sound(rho, G)
  PROVE  Sound(rho, G)'
<1> DEFINE f == CheckFlight(check[t])
           c == [check[t] EXCEPT !.phase = "answered", !.snapshot = Selected(check[t]),
                                 !.verdict = checkEntries[f]]
<1>1. check[t] \in Checks /\ c \in Checks /\ CheckAlone(t, c)
  BY LookUpHitAlone
<1>2. /\ c.phase = "answered" /\ c.snapshot = Selected(check[t]) /\ c.verdict = checkEntries[f]
      /\ c.principal = check[t].principal /\ c.target = check[t].target
  BY <1>1 DEF Checks
<1>3. check'[t] = c /\ checkEntries[f] # Nothing
  BY <1>1 DEF LookUpHit, getUnlocked, CheckAlone, ServiceTypeInv, ServiceTypeOK
<1>4. f \in FlightKey /\ f.key.subject = check[t].principal /\ f.key.target = check[t].target
      /\ f.snapshot = Selected(check[t])
  BY <1>1, KeyTypes DEF LookUpHit, HasRead, CheckFlight
<1>5. ASSUME c.snapshot >= rho PROVE CheckSound(t, rho, G)'
  <2>1. checkEntries[f] \in MixedAnswers(G, check[t].principal, check[t].target)
    BY <1>2, <1>3, <1>4, <1>5 DEF Sound, VerdictsSound
  <2> HIDE DEF c, f
  <2> QED
    BY <1>2, <1>3, <2>1 DEF CheckSound
<1> QED
  BY <1>1, <1>5, AloneSound

\* A miss has nothing yet.
LEMMA LookUpMissSound ==
  ASSUME ServiceTypeInv, NEW t \in Threads, LookUpMiss(t), NEW rho, NEW G, Sound(rho, G)
  PROVE  Sound(rho, G)'
<1> DEFINE c == [check[t] EXCEPT !.phase = "resolving", !.snapshot = Selected(check[t]),
                                 !.revision = Unread, !.now = Unread]
<1>1. check[t] \in Checks /\ c \in Checks /\ CheckAlone(t, c)
  BY LookUpMissAlone
<1>2. c.phase = "resolving"
  BY <1>1 DEF Checks
<1>3. check'[t] = c
  BY <1>1 DEF CheckAlone, ServiceTypeInv, ServiceTypeOK
<1> HIDE DEF c
<1>4. CheckSound(t, rho, G)'
  BY <1>2, <1>3 DEF CheckSound
<1> QED
  BY <1>1, <1>4, AloneSound

\* The roles are those of the graph there is, and no answer is in.
LEMMA ResolveRolesSound ==
  ASSUME ServiceTypeInv, NEW t \in Threads, ResolveRoles(t),
         NEW rho, NEW G, Graph \in G, Sound(rho, G)
  PROVE  Sound(rho, G)'
<1> DEFINE c == [check[t] EXCEPT !.phase = "gathering",
                                 !.remaining = effectiveRoles(roles, assignments, check[t].principal)]
<1>1. check[t] \in Checks /\ c \in Checks /\ CheckAlone(t, c)
  BY ResolveRolesAlone
<1>2. /\ c.phase = "gathering" /\ c.answers = check[t].answers
      /\ c.principal = check[t].principal /\ c.target \in Targets
      /\ c.remaining = effectiveRoles(Graph.roles, Graph.assignments, c.principal)
  BY <1>1 DEF Checks, Graph
<1>3. check'[t] = c
  BY <1>1 DEF CheckAlone, ServiceTypeInv, ServiceTypeOK
<1>4. check[t].answers = {}
  BY DEF ResolveRoles, ServiceTypeInv, Located
<1>5. Gathered(c, G)
  <2>1. Graph.roles \in Roles
    BY DEF Graph, ServiceTypeInv, ServiceTypeOK
  <2> HIDE DEF c
  <2> QED
    BY <1>2, <1>4, <2>1, GatheredAtFirst
<1> HIDE DEF c
<1>6. CheckSound(t, rho, G)'
  BY <1>2, <1>3, <1>5 DEF CheckSound
<1> QED
  BY <1>1, <1>6, AloneSound

\* A role taken out has no answer yet.
LEMMA AskRoleSound ==
  ASSUME ServiceTypeInv, NEW t \in Threads, NEW role \in RoleNames, AskRole(t, role),
         NEW rho, NEW G, Sound(rho, G)
  PROVE  Sound(rho, G)'
<1> DEFINE c == [check[t] EXCEPT !.phase = "asking", !.role = role,
                                 !.remaining = check[t].remaining \ {role}]
<1>1. check[t] \in Checks /\ c \in Checks /\ CheckAlone(t, c)
  BY AskRoleAlone
<1>2. /\ c.phase = "asking" /\ c.role = role /\ c.remaining = check[t].remaining \ {role}
      /\ c.snapshot = check[t].snapshot /\ c.answers = check[t].answers
      /\ c.principal = check[t].principal /\ c.target = check[t].target
      /\ c.revision = check[t].revision
  BY <1>1 DEF Checks
<1>3. check'[t] = c /\ check[t].phase = "gathering" /\ role \in check[t].remaining
  BY <1>1 DEF AskRole, CheckAlone, ServiceTypeInv, ServiceTypeOK
<1>4. check[t].revision = Unread
  BY <1>3 DEF ServiceTypeInv, Located
<1> HIDE DEF c
<1>5. ASSUME c.snapshot >= rho PROVE CheckSound(t, rho, G)'
  <2>1. Gathered(check[t], G)
    BY <1>2, <1>3, <1>5 DEF Sound, ChecksSound, CheckSound, Phases
  <2>2. Gathered(c, G)
    BY <1>2, <1>3, <2>1, GatheredAsk
  <2> QED
    BY <1>2, <1>3, <1>4, <2>2 DEF CheckSound
<1> QED
  BY <1>1, <1>5, AloneSound

\* A check that ends has nothing any more.
LEMMA EndSound ==
  ASSUME ServiceTypeInv, NEW t \in Threads, Abandon(t) \/ Reply(t), NEW rho, NEW G, Sound(rho, G)
  PROVE  Sound(rho, G)'
<1>1. CheckAlone(t, NoCheck)
  BY EndAlone
<1>2. NoCheck.phase \notin Phases
  BY DEF NoCheck, Phases
<1> QED
  BY <1>1, <1>2, AloneSound

\* What a call hands on is an entry for what was asked, or what another call
\* for the same has; what it stores is its own outcome.
LEMMA HopSound ==
  ASSUME ServiceTypeInv, NEW t \in Threads, Hop(t), UNCHANGED <<graphVars, checkCacheVars, check>>,
         NEW rho, NEW G, Sound(rho, G)
  PROVE  Sound(rho, G)'
<1>1. flight' = flight /\ check' = check /\ checkEntries' = checkEntries
  BY DEF Hop, checkCacheVars
<1>2. flight[t] \in FlightKey /\ flight[t].key.subject = check[t].role
      /\ flight[t].key.target = check[t].target /\ check[t].role \in RoleNames
  BY AskedAbout DEF Hop
<1>3. ASSUME NEW f \in FlightKey, f.snapshot >= rho, entries'[f] # Nothing
      PROVE  f.key.subject \in RoleNames /\ entries'[f] \in SaidBy(G, f.key.subject, f.key.target)
  <2>1. CASE entries'[f] = entries[f]
    BY <1>3, <2>1 DEF Sound, EntriesSound
  <2>2. CASE entries'[f] # entries[f]
    <3>1. outcome[t] \in Decision /\ entries' = put(entries, flight[t], outcome[t], clock')
      BY <2>2 DEF Hop
    <3>2. f = flight[t] /\ entries'[f] = outcome[t]
      <4>1. entries \in Entries
        BY DEF ServiceTypeInv, ServiceTypeOK, TypeOK
      <4> QED
        BY <1>2, <1>3, <2>2, <3>1, <4>1, PutChangesOneAnswer
    <3>3. outcome[t] \in SaidBy(G, flight[t].key.subject, flight[t].key.target)
      BY <1>3, <3>1, <3>2 DEF Sound, OutcomesSound
    <3> QED
      BY <1>2, <3>2, <3>3
  <2> QED
    BY <2>1, <2>2
<1>4. ASSUME NEW u \in Threads, outcome'[u] \in Decision, flight[u].snapshot >= rho
      PROVE  outcome'[u] \in SaidBy(G, flight[u].key.subject, flight[u].key.target)
  <2>1. CASE outcome'[u] = outcome[u]
    BY <1>4, <2>1 DEF Sound, OutcomesSound
  <2>2. CASE entries[flight[u]] # Nothing /\ flight[u] \in FlightKey /\ outcome'[u] = entries[flight[u]]
    BY <1>4, <2>2 DEF Sound, EntriesSound
  <2>3. CASE \E v \in Threads : flight[v] = flight[u] /\ outcome'[u] = outcome[v]
    BY <1>4, <2>3 DEF Sound, OutcomesSound
  <2>4. outcome'[u] \notin {Pending, Failed}
    BY <1>4 DEF Decision, Pending, Failed
  <2> QED
    BY <2>1, <2>2, <2>3, <2>4 DEF Hop
<1>5. EntriesSound(rho, G)'
  BY <1>3 DEF EntriesSound
<1>6. OutcomesSound(rho, G)'
  BY <1>1, <1>4 DEF OutcomesSound
<1>7. VerdictsSound(rho, G)'
  BY <1>1 DEF Sound, VerdictsSound
<1>8. ChecksSound(rho, G)'
  BY <1>1, ChecksFrame DEF Sound, ChecksSound, CheckSound
<1> QED
  BY <1>5, <1>6, <1>7, <1>8 DEF Sound

\* The evaluation says what the graph there is says.
LEMMA EvaluateSound ==
  ASSUME ServiceTypeInv, NEW t \in Threads, EvaluateRole(t),
         NEW rho, NEW G, Graph \in G, Sound(rho, G)
  PROVE  Sound(rho, G)'
<1>1. /\ flight' = flight /\ entries' = entries /\ check' = check /\ checkEntries' = checkEntries
      /\ \A u \in Threads \ {t} : outcome'[u] = outcome[u]
      /\ outcome'[t] = evaluateForRole(roles, check[t].role, check[t].target)
      /\ pc[t] = "computing"
  BY EvaluateTypes DEF EvaluateRole, checkCacheVars
<1>2. flight[t].key.subject = check[t].role /\ flight[t].key.target = check[t].target
  BY <1>1, AskedAbout DEF OutsideCall
<1>3. outcome'[t] \in SaidBy(G, flight[t].key.subject, flight[t].key.target)
  <2>1. Graph.roles = roles
    BY DEF Graph
  <2> QED
    BY <1>1, <1>2, <2>1 DEF SaidBy
<1>4. OutcomesSound(rho, G)'
  BY <1>1, <1>3 DEF Sound, OutcomesSound
<1> QED
  BY <1>1, <1>4 DEF Sound, EntriesSound, VerdictsSound, ChecksSound, CheckSound

\* A role is asked at the floor or later, and a hit is what a graph says of it.
LEMMA CallSound ==
  ASSUME ServiceTypeInv, NEW t \in Threads, CallSubproblemCache(t),
         NEW rho \in Nat, NEW G, Sound(rho, G)
  PROVE  Sound(rho, G)'
<1> DEFINE f == RoleFlight(check[t])
           c == [check[t] EXCEPT !.phase = "inCache", !.revision = Unread, !.now = Unread]
<1>1. /\ check[t] \in Checks /\ c \in Checks /\ f \in FlightKey
      /\ check[t].phase = "asking" /\ HasRead(t)
      /\ check' = [check EXCEPT ![t] = c] /\ flight' = [flight EXCEPT ![t] = f]
      /\ \A u \in Threads \ {t} : outcome'[u] = outcome[u]
      /\ \/ outcome'[t] = outcome[t] /\ outcome[t] = Pending
         \/ entries[f] # Nothing /\ outcome'[t] = entries[f]
      /\ entries' = entries /\ UNCHANGED checkCacheVars
  BY CallTypes
<1>2. /\ c.phase = "inCache" /\ c.role = check[t].role /\ c.remaining = check[t].remaining
      /\ c.snapshot = check[t].snapshot /\ c.answers = check[t].answers
      /\ c.principal = check[t].principal /\ c.target = check[t].target
  BY <1>1 DEF Checks
<1>3. /\ check'[t] = c /\ flight'[t] = f
      /\ \A u \in Threads \ {t} : check'[u] = check[u] /\ flight'[u] = flight[u]
  BY <1>1 DEF ServiceTypeInv, ServiceTypeOK, TypeOK
<1>4. check[t].revision \in Nat /\ f.snapshot \in Nat /\ f.snapshot >= check[t].revision
  <2>1. Time \subseteq Nat
    BY TimeFacts
  <2>2. Selected(check[t]) \in Time /\ Selected(check[t]) >= check[t].revision
        /\ check[t].revision \in Time /\ f.snapshot = Selected(check[t])
    BY <1>1, KeyTypes, CheckFields DEF HasRead, RoleFlight
  <2> QED
    BY <2>1, <2>2
<1>5. ASSUME c.snapshot >= rho PROVE CheckSound(t, rho, G)'
  <2>1. CheckSound(t, rho, G)
    BY <1>1, <1>2, <1>5 DEF Sound, ChecksSound, Phases
  <2>2. check[t].revision >= rho /\ Gathered(check[t], G)
    BY <1>1, <2>1 DEF CheckSound, HasRead
  <2>3. f.snapshot >= rho
    BY <1>4, <2>2
  <2>4. Gathered(c, G)
    BY <1>1, <1>2, <2>2 DEF Gathered, Outstanding
  <2> HIDE DEF c, f
  <2> QED
    BY <1>2, <1>3, <2>3, <2>4 DEF CheckSound
<1>6. ChecksSound(rho, G)'
  BY <1>2, <1>3, <1>5, ChecksFrame DEF Sound
<1>7. ASSUME outcome'[t] \in Decision, f.snapshot >= rho
      PROVE  outcome'[t] \in SaidBy(G, f.key.subject, f.key.target)
  <2>1. entries[f] # Nothing /\ outcome'[t] = entries[f]
    BY <1>1, <1>7 DEF Decision, Pending
  <2> QED
    BY <1>1, <1>7, <2>1 DEF Sound, EntriesSound
<1>8. OutcomesSound(rho, G)'
  BY <1>1, <1>3, <1>7 DEF Sound, OutcomesSound
<1>9. EntriesSound(rho, G)' /\ VerdictsSound(rho, G)'
  BY <1>1 DEF Sound, EntriesSound, VerdictsSound, checkCacheVars
<1> QED
  BY <1>6, <1>8, <1>9 DEF Sound

\* The answer gathered is one a graph gives the role.
LEMMA GatherSound ==
  ASSUME ServiceTypeInv, NEW t \in Threads, GatherAnswer(t), NEW rho, NEW G, Sound(rho, G)
  PROVE  Sound(rho, G)'
<1> DEFINE c == [check[t] EXCEPT !.phase = "gathering", !.role = NoRole,
                                 !.answers = check[t].answers \cup {outcome[t]}]
<1>1. /\ check[t].phase = "inCache" /\ Return(t) /\ outcome[t] \in Decision /\ c \in Checks
      /\ check' = [check EXCEPT ![t] = c] /\ UNCHANGED checkCacheVars
  BY GatherTypes DEF GatherAnswer
<1>2. /\ check[t] \in Checks /\ pc[t] = "returned"
      /\ outcome'[t] = Pending /\ entries' = entries
      /\ \A u \in Threads \ {t} : outcome'[u] = outcome[u] /\ flight'[u] = flight[u]
  BY <1>1, ReturnTypes
<1>3. /\ c.phase = "gathering" /\ c.remaining = check[t].remaining
      /\ c.answers = check[t].answers \cup {outcome[t]} /\ c.snapshot = check[t].snapshot
      /\ c.principal = check[t].principal /\ c.target = check[t].target
  BY <1>2 DEF Checks
<1>4. check'[t] = c /\ \A u \in Threads \ {t} : check'[u] = check[u]
  BY <1>1 DEF ServiceTypeInv, ServiceTypeOK
<1>5. flight[t].key.subject = check[t].role /\ flight[t].key.target = check[t].target
  BY <1>2, AskedAbout DEF OutsideCall
<1> HIDE DEF c
<1>6. ASSUME c.snapshot >= rho PROVE CheckSound(t, rho, G)'
  <2>1. flight[t].snapshot >= rho /\ Gathered(check[t], G)
    BY <1>1, <1>3, <1>6 DEF Sound, ChecksSound, CheckSound, Phases
  <2>2. outcome[t] \in SaidBy(G, check[t].role, check[t].target)
    BY <1>1, <1>5, <2>1 DEF Sound, OutcomesSound
  <2>3. Gathered(c, G)
    BY <1>1, <1>3, <2>1, <2>2, GatheredAnswer
  <2> QED
    BY <1>3, <1>4, <2>3 DEF CheckSound
<1>7. ChecksSound(rho, G)'
  BY <1>2, <1>3, <1>4, <1>6, ChecksFrame DEF Sound
<1>8. OutcomesSound(rho, G)'
  BY <1>2 DEF Sound, OutcomesSound, Decision, Pending
<1>9. EntriesSound(rho, G)' /\ VerdictsSound(rho, G)'
  BY <1>1, <1>2 DEF Sound, EntriesSound, VerdictsSound, checkCacheVars
<1> QED
  BY <1>7, <1>8, <1>9 DEF Sound

\* A check that fails has nothing any more.
LEMMA PropagateSound ==
  ASSUME ServiceTypeInv, NEW t \in Threads, Propagate(t), NEW rho, NEW G, Sound(rho, G)
  PROVE  Sound(rho, G)'
<1>1. check[t].phase = "inCache" /\ Return(t) /\ UNCHANGED checkCacheVars
      /\ check'[t] = NoCheck /\ \A u \in Threads \ {t} : check'[u] = check[u]
  BY DEF Propagate, ServiceTypeInv, ServiceTypeOK
<1>2. /\ outcome'[t] = Pending /\ entries' = entries
      /\ \A u \in Threads \ {t} : outcome'[u] = outcome[u] /\ flight'[u] = flight[u]
  BY <1>1, ReturnTypes
<1>3. NoCheck.phase \notin Phases
  BY DEF NoCheck, Phases
<1>4. ChecksSound(rho, G)'
  BY <1>1, <1>2, <1>3, ChecksFrame DEF Sound
<1>5. OutcomesSound(rho, G)'
  BY <1>2 DEF Sound, OutcomesSound, Decision, Pending
<1>6. EntriesSound(rho, G)' /\ VerdictsSound(rho, G)'
  BY <1>1, <1>2 DEF Sound, EntriesSound, VerdictsSound, checkCacheVars
<1> QED
  BY <1>4, <1>5, <1>6 DEF Sound

\* The verdict stored is one some mix of the graphs gives.
LEMMA StoreVerdictSound ==
  ASSUME ServiceTypeInv, NEW t \in Threads, StoreVerdict(t), NEW rho, NEW G, Sound(rho, G)
  PROVE  Sound(rho, G)'
<1> DEFINE d == combine(check[t].answers)
           c == [check[t] EXCEPT !.phase = "answered", !.verdict = d]
           f == StoredAs(check[t])
<1>1. /\ check[t] \in Checks /\ c \in Checks /\ d \in {"Allow", "Deny"} /\ f \in FlightKey
      /\ check[t].phase = "gathering" /\ check[t].remaining = {}
      /\ check' = [check EXCEPT ![t] = c]
      /\ checkEntries' = put(checkEntries, f, d, clock')
      /\ UNCHANGED <<entries, callVars>>
  BY StoreVerdictTypes
<1>2. /\ c.phase = "answered" /\ c.verdict = d /\ c.snapshot = check[t].snapshot
      /\ c.principal = check[t].principal /\ c.target = check[t].target
      /\ check[t].principal \in Principals
  BY <1>1 DEF Checks
<1>3. check'[t] = c /\ \A u \in Threads \ {t} : check'[u] = check[u]
  BY <1>1 DEF ServiceTypeInv, ServiceTypeOK
<1>4. entries' = entries /\ outcome' = outcome /\ flight' = flight
  BY <1>1 DEF callVars
<1>5. f.key.subject = check[t].principal /\ f.key.target = check[t].target
      /\ f.snapshot = check[t].snapshot
  BY DEF StoredAs
<1>6. ASSUME check[t].snapshot >= rho
      PROVE  d \in MixedAnswers(G, check[t].principal, check[t].target)
  <2>1. Gathered(check[t], G)
    BY <1>1, <1>6 DEF Sound, ChecksSound, CheckSound, Phases
  <2> QED
    BY <1>1, <2>1, GatheredVerdict
<1>7. ASSUME NEW g \in FlightKey, g.snapshot >= rho, checkEntries'[g] # Nothing
      PROVE  /\ g.key.subject \in Principals
             /\ checkEntries'[g] \in MixedAnswers(G, g.key.subject, g.key.target)
  <2>1. checkEntries \in Entries
    BY DEF ServiceTypeInv, ServiceTypeOK, Entries, Decision
  <2>2. CASE checkEntries'[g] = checkEntries[g]
    BY <1>7, <2>2 DEF Sound, VerdictsSound
  <2>3. CASE checkEntries'[g] # checkEntries[g]
    <3>1. g = f /\ checkEntries'[g] = d
      BY <1>1, <1>7, <2>1, <2>3, PutChangesOneAnswer
    <3> HIDE DEF d, f
    <3> QED
      BY <1>2, <1>5, <1>6, <1>7, <3>1
  <2> QED
    BY <2>2, <2>3
<1> HIDE DEF c, d, f
<1>8. ASSUME c.snapshot >= rho PROVE CheckSound(t, rho, G)'
  BY <1>2, <1>3, <1>6, <1>8 DEF CheckSound
<1>9. ChecksSound(rho, G)'
  BY <1>3, <1>4, <1>8, ChecksFrame DEF Sound
<1>10. EntriesSound(rho, G)' /\ OutcomesSound(rho, G)'
  BY <1>4 DEF Sound, EntriesSound, OutcomesSound
<1>11. VerdictsSound(rho, G)'
  BY <1>7 DEF VerdictsSound
<1> QED
  BY <1>9, <1>10, <1>11 DEF Sound

\* No step but a write disturbs what is sound for the graph there is.
LEMMA SoundStep ==
  ASSUME ServiceTypeInv, NEW t \in Threads, Begin(t) \/ Serve(t),
         NEW rho \in Nat, NEW G, rho <= revision, Graph \in G, Sound(rho, G)
  PROVE  Sound(rho, G)'
<1>1. CASE Begin(t)
  BY <1>1, BeginSound, LevelsAssumption DEF Begin
<1>2. CASE InSubproblemCache(t)
  BY <1>2, InCacheTypes, HopSound DEF InSubproblemCache
<1>3. CASE Serve(t) /\ ~InSubproblemCache(t)
  BY <1>3, ReadRevisionSound, ReadNowSound, LookUpHitSound, LookUpMissSound, ResolveRolesSound,
     AskRoleSound, EndSound, EvaluateSound, CallSound, GatherSound, PropagateSound, StoreVerdictSound
     DEF Serve
<1> QED
  BY <1>1, <1>2, <1>3

-----------------------------------------------------------------------------
(* A write: what a check may use grows, and nothing left is in reach.       *)

\* The stamp of a write is later than everything keyed so far.
LEMMA WriteOutdates ==
  ASSUME ClockModel = "ticking", ServiceTypeInv, Write, NEW s \in Int, Reached(s)
  PROVE  s < revision'
<1>1. clock \in Nat /\ revision \in Nat /\ clock' \in Nat
  <2>1. clock' \in Time
    BY WriteTypes DEF Readings
  <2> QED
    BY <2>1, TimeFacts DEF ServiceTypeInv, ServiceTypeOK, TypeOK
<1>2. clock' \in WriteReadings(clock, revision) /\ revision' = stampWrite(revision, clock')
  BY WriteTypes DEF Stamp
<1>3. clock' >= clock /\ (clock' > clock \/ revision >= clock)
  BY <1>2 DEF WriteReadings, Readings
<1> QED
  BY <1>1, <1>2, <1>3 DEF Reached, stampWrite, LaterOf

\* So whatever is keyed at the new revision or later is sound: there is nothing.
LEMMA WriteStartsSound ==
  ASSUME ClockModel = "ticking", ServiceTypeInv, ReachedInv, Write
  PROVE  Sound(revision, {Graph})'
<1>1. /\ entries' = entries /\ checkEntries' = checkEntries /\ flight' = flight /\ outcome' = outcome
      /\ revision' \in Nat
  BY WriteTypes, TimeFacts DEF Stamp, checkCacheVars, callVars
<1>2. Time \subseteq Int /\ -1 \in Int
  BY TimeFacts
<1>3. ASSUME NEW f \in FlightKey, entries'[f] # Nothing \/ checkEntries'[f] # Nothing
      PROVE  ~(f.snapshot >= revision')
  <2>1. f.snapshot \in Int
    BY <1>2 DEF FlightKey
  <2>2. Reached(f.snapshot)
    BY <1>1, <1>3 DEF ReachedInv
  <2> QED
    BY <1>1, <2>1, <2>2, WriteOutdates
<1>4. ASSUME NEW t \in Threads, outcome'[t] \in Decision PROVE ~(flight'[t].snapshot >= revision')
  <2>1. pc[t] \notin OutsideCall
    BY <1>1, <1>4 DEF ServiceTypeInv, CacheInv, CallInv, Decision, Pending
  <2>2. flight[t] # NoFlight /\ flight[t] \in FlightKey
    BY <2>1 DEF ServiceTypeInv, CacheInv, CallInv, TypeOK
  <2>3. Reached(flight[t].snapshot)
    BY <2>2 DEF ReachedInv
  <2>4. flight[t].snapshot \in Int
    BY <1>2, <2>2 DEF FlightKey
  <2> QED
    BY <1>1, <2>3, <2>4, WriteOutdates
<1>5. ASSUME NEW t \in Threads, check'[t].phase \in Phases
      PROVE  ~(check'[t].snapshot >= revision')
  <2>1. check[t] # NoCheck
    BY <1>5, WriteTypes DEF NoCheck, Phases
  <2>2. check[t] \in Checks
    BY <2>1, InCheck DEF ServiceTypeInv
  <2>3. check'[t].snapshot = check[t].snapshot
    BY <2>1, <2>2, WriteTypes DEF Checks
  <2>4. Reached(check[t].snapshot)
    BY <2>1 DEF ReachedInv, CheckReached
  <2>5. check[t].snapshot \in Int
    BY <1>2, <2>2, CheckFields DEF Unread
  <2> QED
    BY <1>1, <2>3, <2>4, <2>5, WriteOutdates
<1>6. EntriesSound(revision, {Graph})' /\ VerdictsSound(revision, {Graph})'
  BY <1>3 DEF EntriesSound, VerdictsSound
<1>7. OutcomesSound(revision, {Graph})'
  BY <1>4 DEF OutcomesSound
<1>8. ChecksSound(revision, {Graph})'
  BY <1>5 DEF ChecksSound
<1> QED
  BY <1>6, <1>7, <1>8 DEF Sound

\* What is sound for some graphs stays so for these and the one written.
LEMMA WriteKeepsSound ==
  ASSUME ServiceTypeInv, Write, NEW rho, NEW G, NEW H, G \subseteq H, Sound(rho, G)
  PROVE  Sound(rho, H)'
<1>1. entries' = entries /\ checkEntries' = checkEntries /\ flight' = flight /\ outcome' = outcome
  BY WriteTypes DEF Stamp, checkCacheVars, callVars
<1>2. ASSUME NEW t \in Threads, check'[t].phase \in Phases \ {"selecting"}, check'[t].snapshot >= rho
      PROVE  CheckSound(t, rho, H)'
  <2>1. check[t] # NoCheck
    BY <1>2, WriteTypes DEF NoCheck, Phases
  <2>2. check[t] \in Checks
    BY <2>1, InCheck DEF ServiceTypeInv
  <2> DEFINE c == check'[t]
  <2>3. /\ c.phase = check[t].phase /\ c.role = check[t].role /\ c.revision = check[t].revision
        /\ c.principal = check[t].principal /\ c.target = check[t].target
        /\ c.remaining = check[t].remaining /\ c.answers = check[t].answers
        /\ c.snapshot = check[t].snapshot /\ c.verdict = check[t].verdict
    <3> DEFINE gs == check[t].graphs \cup {Graph'}
    <3>1. c = [check[t] EXCEPT !.graphs = gs]
      BY <2>1, WriteTypes
    <3> HIDE DEF c, gs
    <3> QED
      BY <2>2, <3>1 DEF Checks
  <2>4. CheckSound(t, rho, G)
    BY <1>2, <2>3 DEF Sound, ChecksSound
  <2>5. Gathered(check[t], G) => Gathered(c, H)
    <3>1. Gathered(check[t], G) => Gathered(check[t], H)
      BY MoreGraphs
    <3>2. Gathered(check[t], H) => Gathered(c, H)
      BY <2>3 DEF Gathered, Outstanding
    <3> QED
      BY <3>1, <3>2
  <2>6. \A p, q : MixedAnswers(G, p, q) \subseteq MixedAnswers(H, p, q)
    BY MoreGraphs
  <2> QED
    BY <1>1, <2>3, <2>4, <2>5, <2>6 DEF CheckSound
<1>3. ChecksSound(rho, H)'
  BY <1>2 DEF ChecksSound
<1>4. /\ \A r, g : SaidBy(G, r, g) \subseteq SaidBy(H, r, g)
      /\ \A p, q : MixedAnswers(G, p, q) \subseteq MixedAnswers(H, p, q)
  BY MoreGraphs
<1>5. EntriesSound(rho, H)'
  BY <1>1, <1>4 DEF Sound, EntriesSound
<1>6. OutcomesSound(rho, H)'
  BY <1>1, <1>4 DEF Sound, OutcomesSound
<1>7. VerdictsSound(rho, H)'
  BY <1>1, <1>4 DEF Sound, VerdictsSound
<1> QED
  BY <1>3, <1>5, <1>6, <1>7 DEF Sound

-----------------------------------------------------------------------------
(* The invariant, and what it says of entries and answers. *)

\* Where a check may be after a step of the service that is not a write.
LEMMA CheckMoves ==
  ASSUME ServiceTypeInv, NEW t \in Threads, Begin(t) \/ Serve(t),
         NEW u \in Threads, check[u] # NoCheck, check'[u] # NoCheck
  PROVE  /\ check'[u].graphs = check[u].graphs
         /\ check'[u].phase = "selecting" =>
              /\ check[u].phase = "selecting"
              /\ check'[u].revision \in {check[u].revision, revision}
         /\ check'[u].phase \in Phases \ {"selecting"} =>
              \/ check[u].phase \in Phases \ {"selecting"} /\ check'[u].snapshot = check[u].snapshot
              \/ /\ check[u].phase = "selecting" /\ HasRead(u)
                 /\ check'[u].snapshot = Selected(check[u])
<1>0. check[u] \in Checks /\ check[u].phase \in Phases
  BY InCheck DEF ServiceTypeInv
<1>1. CASE check'[u] = check[u]
  BY <1>0, <1>1
<1>2. CASE Begin(t)
  BY <1>1, <1>2 DEF Begin, BeginCheck, ServiceTypeInv, ServiceTypeOK
<1>3. CASE InSubproblemCache(t) \/ EvaluateRole(t)
  BY <1>1, <1>3 DEF InSubproblemCache, EvaluateRole
<1>4. CASE u # t
  BY <1>1, <1>2, <1>3, <1>4
     DEF Serve, ReadRevision, ReadNow, LookUpHit, LookUpMiss, ResolveRoles, AskRole, CallSubproblemCache,
         GatherAnswer, Propagate, Abandon, StoreVerdict, Reply, ServiceTypeInv, ServiceTypeOK
<1>5. CASE u = t /\ (Propagate(t) \/ Abandon(t) \/ Reply(t))
  BY <1>5 DEF Propagate, Abandon, Reply, ServiceTypeInv, ServiceTypeOK
<1>6. CASE u = t /\ (ReadRevision(t) \/ ReadNow(t))
  <2>1. check'[u].graphs = check[u].graphs /\ check'[u].phase = check[u].phase
        /\ check'[u].snapshot = check[u].snapshot
        /\ check'[u].revision \in {check[u].revision, revision}
    BY <1>0, <1>6 DEF ReadRevision, ReadNow, ServiceTypeInv, ServiceTypeOK, Checks
  <2> QED
    BY <1>0, <2>1
<1>7. CASE u = t /\ (LookUpHit(t) \/ LookUpMiss(t))
  <2>1. check'[u].graphs = check[u].graphs /\ check'[u].phase \in {"answered", "resolving"}
        /\ check'[u].snapshot = Selected(check[u])
    BY <1>0, <1>7 DEF LookUpHit, LookUpMiss, ServiceTypeInv, ServiceTypeOK, Checks
  <2>2. check[u].phase = "selecting" /\ HasRead(u)
    BY <1>7 DEF LookUpHit, LookUpMiss
  <2> QED
    BY <2>1, <2>2
<1>8. CASE u = t /\ (ResolveRoles(t) \/ CallSubproblemCache(t) \/ GatherAnswer(t) \/ StoreVerdict(t)
                       \/ \E role \in RoleNames : AskRole(t, role))
  <2>1. check'[u].graphs = check[u].graphs /\ check'[u].phase \in Phases \ {"selecting"}
        /\ check'[u].snapshot = check[u].snapshot
    <3>1. CASE ResolveRoles(t)
      BY <1>0, <1>8, <3>1 DEF ResolveRoles, ServiceTypeInv, ServiceTypeOK, Checks, Phases
    <3>2. CASE CallSubproblemCache(t)
      BY <1>0, <1>8, <3>2 DEF CallSubproblemCache, ServiceTypeInv, ServiceTypeOK, Checks, Phases
    <3>3. CASE GatherAnswer(t)
      BY <1>0, <1>8, <3>3 DEF GatherAnswer, ServiceTypeInv, ServiceTypeOK, Checks, Phases
    <3>4. CASE StoreVerdict(t)
      BY <1>0, <1>8, <3>4 DEF StoreVerdict, ServiceTypeInv, ServiceTypeOK, Checks, Phases
    <3>5. ASSUME NEW role \in RoleNames, AskRole(t, role)
          PROVE  /\ check'[u].graphs = check[u].graphs /\ check'[u].phase \in Phases \ {"selecting"}
                 /\ check'[u].snapshot = check[u].snapshot
      BY <1>0, <1>8, <3>5 DEF AskRole, ServiceTypeInv, ServiceTypeOK, Checks, Phases
    <3> QED
      BY <1>8, <3>1, <3>2, <3>3, <3>4, <3>5
  <2>2. check[u].phase \in Phases \ {"selecting"}
    BY <1>8 DEF ResolveRoles, CallSubproblemCache, GatherAnswer, StoreVerdict, AskRole, Phases
  <2> QED
    BY <2>1, <2>2
<1> QED
  BY <1>2, <1>3, <1>4, <1>5, <1>6, <1>7, <1>8 DEF Serve

\* Only Begin begins a check.
LEMMA NoneBegins ==
  ASSUME ServiceTypeInv, NEW t \in Threads, Serve(t), NEW u \in Threads, check[u] = NoCheck
  PROVE  check'[u] = NoCheck
<1>1. CASE InSubproblemCache(t) \/ EvaluateRole(t)
  BY <1>1 DEF InSubproblemCache, EvaluateRole
<1>2. CASE u # t
  BY <1>1, <1>2
     DEF Serve, ReadRevision, ReadNow, LookUpHit, LookUpMiss, ResolveRoles, AskRole, CallSubproblemCache,
         GatherAnswer, Propagate, Abandon, StoreVerdict, Reply, ServiceTypeInv, ServiceTypeOK
<1>3. CASE u = t /\ ~InSubproblemCache(t) /\ ~EvaluateRole(t)
  <2>1. check[t].phase = "idle"
    BY <1>3 DEF NoCheck
  <2> QED
    BY <1>3, <2>1
       DEF Serve, ReadRevision, ReadNow, LookUpHit, LookUpMiss, ResolveRoles, AskRole,
           CallSubproblemCache, GatherAnswer, Propagate, Abandon, StoreVerdict, Reply
<1> QED
  BY <1>1, <1>2, <1>3

\* Every step keeps every check's floor, and finds one for a check that begins.
LEMMA SoundInvStep ==
  ASSUME ClockModel = "ticking", ServiceTypeInv, ReachedInv, SoundInv, [ServiceNext]_serviceVars
  PROVE  SoundInv'
<1>0. revision \in Nat /\ revision' \in Nat
  <2>1. ServiceTypeInv'
    BY ServiceTypeStep
  <2> QED
    BY <2>1, TimeFacts DEF ServiceTypeInv, ServiceTypeOK
<1>1. CASE Write
  <2>1. Sound(revision, {Graph})'
    BY <1>1, WriteStartsSound
  <2>2. ASSUME NEW t \in Threads, check'[t] # NoCheck
        PROVE  \E rho \in 0 .. revision' : Follows(t, rho)'
    <3>1. check[t] # NoCheck
      BY <1>1, <2>2, WriteTypes
    <3>2. check[t] \in Checks
      BY <3>1, InCheck DEF ServiceTypeInv
    <3>3. PICK rho \in 0 .. revision : Follows(t, rho)
      BY <3>1 DEF SoundInv
    <3>4. PICK old : old = check[t].graphs
      OBVIOUS
    <3>5. PICK gs : gs = old \cup {Graph'}
      OBVIOUS
    <3> DEFINE c == check'[t]
    <3>6. c = [check[t] EXCEPT !.graphs = gs]
      BY <1>1, <3>1, <3>4, <3>5, WriteTypes
    <3>7. Sound(rho, gs)'
      <4>1. old \subseteq gs /\ Sound(rho, old)
        BY <3>3, <3>4, <3>5 DEF Follows
      <4> QED
        BY <1>1, <4>1, WriteKeepsSound
    <3>8. /\ c.phase = check[t].phase /\ c.revision = check[t].revision
          /\ c.snapshot = check[t].snapshot /\ c.graphs = gs
      <4> HIDE DEF c
      <4> QED
        BY <3>2, <3>6 DEF Checks
    <3>9. Follows(t, rho)'
      BY <3>3, <3>7, <3>8 DEF Follows
    <3>10. rho \in 0 .. revision'
      BY <1>0, <1>1, WriteTypes
    <3> QED
      BY <3>9, <3>10
  <2> QED
    BY <2>1, <2>2 DEF SoundInv
<1>2. ASSUME NEW t \in Threads, Begin(t) \/ Serve(t) PROVE SoundInv'
  <2>1. UNCHANGED graphVars
    BY <1>2 DEF Begin, BeginCheck, Serve, ReadRevision, ReadNow, LookUpHit, LookUpMiss, ResolveRoles,
       AskRole, CallSubproblemCache, EvaluateRole, InSubproblemCache, GatherAnswer, Propagate, Abandon,
       StoreVerdict, Reply
  <2>2. revision' = revision /\ Graph' = Graph
    BY <2>1 DEF graphVars, Graph
  <2>3. PICK now \in Nat : now = revision
    BY <1>0
  <2>4. PICK g : g = Graph
    OBVIOUS
  <2>5. Sound(now, {g})'
    BY <1>2, <2>3, <2>4, SoundStep DEF SoundInv
  <2>6. Sound(revision, {Graph})'
    BY <2>2, <2>3, <2>4, <2>5
  <2>7. ASSUME NEW u \in Threads, check'[u] # NoCheck
        PROVE  \E rho \in 0 .. revision' : Follows(u, rho)'
    <3>1. CASE check[u] # NoCheck
      <4>1. PICK rho \in 0 .. revision : Follows(u, rho)
        BY <3>1 DEF SoundInv
      <4>2. check[u] \in Checks /\ Graph \in check[u].graphs
        BY <3>1, InCheck DEF ServiceTypeInv, Located
      <4>3. PICK gs : gs = check[u].graphs
        OBVIOUS
      <4>4. Sound(rho, gs)'
        BY <1>0, <1>2, <4>1, <4>2, <4>3, SoundStep DEF Follows
      <4>5. /\ check'[u].graphs = gs
            /\ check'[u].phase = "selecting" =>
                 /\ check[u].phase = "selecting"
                 /\ check'[u].revision \in {check[u].revision, revision}
            /\ check'[u].phase \in Phases \ {"selecting"} =>
                 \/ /\ check[u].phase \in Phases \ {"selecting"}
                    /\ check'[u].snapshot = check[u].snapshot
                 \/ /\ check[u].phase = "selecting" /\ HasRead(u)
                    /\ check'[u].snapshot = Selected(check[u])
        BY <1>2, <2>7, <3>1, <4>3, CheckMoves
      <4>6. HasRead(u) => /\ Selected(check[u]) \in Nat /\ check[u].revision \in Nat
                          /\ Selected(check[u]) >= check[u].revision
        <5>1. Time \subseteq Nat
          BY TimeFacts
        <5>2. ASSUME HasRead(u)
              PROVE  Selected(check[u]) \in Time /\ check[u].revision \in Time
                       /\ Selected(check[u]) >= check[u].revision
          BY <4>2, <5>2, KeyTypes, CheckFields DEF HasRead
        <5> QED
          BY <5>1, <5>2
      <4>7. check'[u].phase = "selecting" /\ check'[u].revision # Unread => check'[u].revision >= rho
        BY <1>0, <4>1, <4>5 DEF Follows
      <4>8. check'[u].phase \in Phases \ {"selecting"} => check'[u].snapshot >= rho
        BY <4>1, <4>5, <4>6 DEF Follows, HasRead
      <4>9. Follows(u, rho)'
        BY <4>4, <4>5, <4>7, <4>8 DEF Follows
      <4> QED
        BY <2>2, <4>1, <4>9
    <3>2. CASE check[u] = NoCheck
      <4>1. check'[u].phase = "selecting" /\ check'[u].revision = Unread /\ check'[u].graphs = {Graph}
        <5>1. Begin(t) /\ u = t
          BY <1>2, <2>7, <3>2, NoneBegins DEF Begin, BeginCheck, ServiceTypeInv, ServiceTypeOK
        <5> QED
          BY <5>1 DEF Begin, BeginCheck, ServiceTypeInv, ServiceTypeOK
      <4>2. Follows(u, now)'
        BY <2>4, <2>5, <4>1 DEF Follows
      <4> QED
        BY <1>0, <2>2, <2>3, <4>2
    <3> QED
      BY <3>1, <3>2
  <2> QED
    BY <2>6, <2>7 DEF SoundInv
<1>3. CASE UNCHANGED serviceVars
  <2>1. /\ entries' = entries /\ flight' = flight /\ outcome' = outcome
        /\ checkEntries' = checkEntries /\ check' = check /\ revision' = revision /\ Graph' = Graph
    BY <1>3 DEF serviceVars, vars, callVars, graphVars, checkCacheVars, Graph
  <2>2. ASSUME NEW rho, NEW G, Sound(rho, G) PROVE Sound(rho, G)'
    BY <2>1, <2>2 DEF Sound, EntriesSound, OutcomesSound, VerdictsSound, ChecksSound, CheckSound
  <2>3. Sound(revision, {Graph})'
    BY <2>1, <2>2 DEF SoundInv
  <2>4. ASSUME NEW t \in Threads, NEW rho, Follows(t, rho) PROVE Follows(t, rho)'
    BY <2>1, <2>2, <2>4 DEF Follows
  <2> QED
    BY <2>1, <2>3, <2>4 DEF SoundInv
<1> QED
  BY <1>1, <1>2, <1>3 DEF ServiceNext

\* At first the caches are empty and nobody is checking.
LEMMA SoundInit == ServiceInit => ReachedInv /\ SoundInv
<1> SUFFICES ASSUME ServiceInit PROVE ReachedInv /\ SoundInv
  OBVIOUS
<1>1. ReachedInv
  BY DEF ServiceInit, ReachedInv, CheckReached, NoEntries
<1>2. SoundInv
  BY DEF ServiceInit, SoundInv, Sound, EntriesSound, OutcomesSound, VerdictsSound, ChecksSound, NoEntries,
     Decision, Pending, Phases, NoCheck
<1> QED
  BY <1>1, <1>2

(***************************************************************************)
(* On a clock whose readings a write outruns, every check has a floor, the *)
(* revision there was when it began: whatever it can reach at that floor   *)
(* or later was read from a graph there has been since.                    *)
(***************************************************************************)
THEOREM SoundInvariant ==
  ASSUME ClockModel = "ticking"
  PROVE  ServiceSpec => [](ServiceTypeInv /\ ReachedInv /\ SoundInv)
<1>1. ServiceInit => ServiceTypeInv /\ ReachedInv /\ SoundInv
  BY ServiceInitTypes, SoundInit
<1>2. ServiceTypeInv /\ ReachedInv /\ SoundInv /\ [ServiceNext]_serviceVars
        => ServiceTypeInv' /\ ReachedInv' /\ SoundInv'
  BY ServiceTypeStep, ReachedStep, SoundInvStep
<1> QED
  BY <1>1, <1>2, PTL DEF ServiceSpec

(***************************************************************************)
(* No entry a new request can reach is stale, in either cache: each is     *)
(* what the graph as it is now says, whoever computed it, and when.        *)
(***************************************************************************)
THEOREM ReachableEntriesAreCurrentHolds ==
  ASSUME ClockModel = "ticking"
  PROVE  ServiceSpec => []ReachableEntriesAreCurrent
<1>1. ASSUME ServiceTypeInv, SoundInv PROVE ReachableEntriesAreCurrent
  <2> SUFFICES ASSUME NEW f \in FlightKey, f.snapshot >= revision
               PROVE  /\ entries[f] # Nothing =>
                           f.key.subject \in RoleNames
                           /\ entries[f] = evaluateForRole(roles, f.key.subject, f.key.target)
                      /\ checkEntries[f] # Nothing =>
                           f.key.subject \in Principals
                           /\ checkEntries[f] = evaluateRbac(roles, assignments, f.key.subject, f.key.target)
    BY DEF ReachableEntriesAreCurrent
  <2>1. Graph.roles = roles /\ Graph.assignments = assignments
    BY DEF Graph
  <2>2. EntriesSound(revision, {Graph}) /\ VerdictsSound(revision, {Graph})
    BY <1>1 DEF SoundInv, Sound
  <2>3. ASSUME entries[f] # Nothing
        PROVE  /\ f.key.subject \in RoleNames
               /\ entries[f] = evaluateForRole(roles, f.key.subject, f.key.target)
    <3>1. entries[f] \in SaidBy({Graph}, f.key.subject, f.key.target) /\ f.key.subject \in RoleNames
      BY <2>2, <2>3 DEF EntriesSound
    <3> QED
      BY <2>1, <3>1 DEF SaidBy
  <2>4. ASSUME checkEntries[f] # Nothing
        PROVE  /\ f.key.subject \in Principals
               /\ checkEntries[f] = evaluateRbac(roles, assignments, f.key.subject, f.key.target)
    <3>1. checkEntries[f] \in MixedAnswers({Graph}, f.key.subject, f.key.target)
          /\ f.key.subject \in Principals
      BY <2>2, <2>4 DEF VerdictsSound
    <3> QED
      BY <2>1, <3>1, OneGraph
  <2> QED
    BY <2>3, <2>4
<1> QED
  BY <1>1, SoundInvariant, PTL

(***************************************************************************)
(* A check that writes overlap mixes only graphs there were while it ran.  *)
(***************************************************************************)
THEOREM AnswersAreRecentHolds ==
  ASSUME ClockModel = "ticking"
  PROVE  ServiceSpec => []AnswersAreRecent
<1>1. ASSUME ServiceTypeInv, SoundInv PROVE AnswersAreRecent
  <2> SUFFICES ASSUME NEW t \in Threads, check[t].phase = "answered"
               PROVE  check[t].verdict
                        \in MixedAnswers(check[t].graphs, check[t].principal, check[t].target)
    BY DEF AnswersAreRecent
  <2>1. check[t] # NoCheck
    BY DEF NoCheck
  <2>2. PICK rho \in 0 .. revision : Follows(t, rho)
    BY <1>1, <2>1 DEF SoundInv
  <2>3. CheckSound(t, rho, check[t].graphs)
    BY <2>2 DEF Follows, Sound, ChecksSound, Phases
  <2> QED
    BY <2>3 DEF CheckSound
<1> QED
  BY <1>1, SoundInvariant, PTL

(***************************************************************************)
(* A check no write overlaps answers what evaluateRbac would, uncached.    *)
(***************************************************************************)
THEOREM AnswersAreUncachedAnswersHolds ==
  ASSUME ClockModel = "ticking"
  PROVE  ServiceSpec => []AnswersAreUncachedAnswers
<1>1. ASSUME AnswersAreRecent PROVE AnswersAreUncachedAnswers
  <2> SUFFICES ASSUME NEW t \in Threads, check[t].phase = "answered", check[t].graphs = {Graph}
               PROVE  check[t].verdict
                        = evaluateRbac(roles, assignments, check[t].principal, check[t].target)
    BY DEF AnswersAreUncachedAnswers
  <2>1. check[t].verdict \in MixedAnswers({Graph}, check[t].principal, check[t].target)
    BY <1>1 DEF AnswersAreRecent
  <2>2. Graph.roles = roles /\ Graph.assignments = assignments
    BY DEF Graph
  <2> QED
    BY <2>1, <2>2, OneGraph
<1> QED
  BY <1>1, AnswersAreRecentHolds, PTL

-----------------------------------------------------------------------------
(***************************************************************************)
(* Retention: while it covers a bucket but for its last tick, a check that *)
(* has its verdict leaves it where the next will find it.                  *)
(***************************************************************************)
KeptInv ==
  RetentionCoversBucket =>
    \A t \in Threads :
      check[t].phase = "answered" /\ check[t].snapshot >= LaterOf(revision, quantize(clock, BucketSize))
        => checkEntries[StoredAs(check[t])] = check[t].verdict

\* put spares whatever a request at its reading of the clock could select.
LEMMA PutKeeps ==
  ASSUME RetentionCoversBucket, NEW e \in Entries, NEW g \in FlightKey, NEW d, NEW now \in Nat,
         NEW f \in FlightKey, f.snapshot >= quantize(now, BucketSize)
  PROVE  put(e, g, d, now)[f] = IF f = g THEN d ELSE e[f]
<1> DEFINE kept == Ttl * TicksPerMilli
           width == BucketSize * TicksPerMilli
           start == quantize(now, BucketSize)
<1>1. kept \in Nat /\ width \in Nat
  BY TtlAssumption, TicksAssumption, BucketAssumption
<1>2. start \in Nat /\ (BucketSize # 0 => now < start + width)
  BY QuantizeBounds, BucketAssumption
<1>3. BucketSize = 0 => start = now
  BY DEF quantize
<1>4. kept >= width - 1
  BY DEF RetentionCoversBucket
<1>5. f.snapshot \in Nat
  <2>1. f.snapshot \in Time
    BY DEF FlightKey
  <2>2. Time \subseteq Nat
    BY TimeFacts
  <2> QED
    BY <2>1, <2>2
<1>6. f.snapshot >= start
  OBVIOUS
<1>7. ~(f.snapshot < now - kept)
  <2> HIDE DEF kept, width, start
  <2> QED
    BY <1>1, <1>2, <1>3, <1>4, <1>5, <1>6
<1> QED
  BY <1>7 DEF put, evict, Entries

\* No step takes the clock or the revision back.
LEMMA StepAdvances ==
  ASSUME ClockModel # "adjustable", ServiceTypeInv, [ServiceNext]_serviceVars
  PROVE  clock' >= clock /\ revision' >= revision
<1>0. clock \in Nat /\ revision \in Nat
  BY TimeFacts DEF ServiceTypeInv, ServiceTypeOK, TypeOK
<1>1. CASE Write
  <2>1. revision' \in Nat
    BY <1>1, WriteTypes, TimeFacts
  <2> QED
    BY <1>0, <1>1, <2>1, WriteTypes, ClockAdvances
<1>2. ASSUME NEW t \in Threads, Begin(t) \/ Serve(t) PROVE clock' >= clock /\ revision' >= revision
  <2>1. revision' = revision
    BY <1>2 DEF Begin, BeginCheck, Serve, ReadRevision, ReadNow, LookUpHit, LookUpMiss, ResolveRoles,
       AskRole, CallSubproblemCache, EvaluateRole, InSubproblemCache, GatherAnswer, Propagate, Abandon,
       StoreVerdict, Reply, graphVars
  <2>2. clock' \in Readings(clock) \/ clock' = clock
    <3>1. CASE InSubproblemCache(t)
      BY <3>1, InCacheTypes DEF Hop
    <3>2. CASE CallSubproblemCache(t) \/ EvaluateRole(t)
      BY <3>2, CallTypes, EvaluateTypes
    <3>3. CASE GatherAnswer(t) \/ Propagate(t)
      BY <3>3 DEF GatherAnswer, Propagate, Return
    <3>4. CASE ReadNow(t) \/ StoreVerdict(t)
      BY <3>4 DEF ReadNow, StoreVerdict
    <3>5. CASE \/ Begin(t) \/ ReadRevision(t) \/ LookUpHit(t) \/ LookUpMiss(t) \/ ResolveRoles(t)
               \/ Abandon(t) \/ Reply(t) \/ \E role \in RoleNames : AskRole(t, role)
      BY <3>5 DEF Begin, BeginCheck, ReadRevision, LookUpHit, LookUpMiss, ResolveRoles, Abandon, Reply,
         AskRole, vars
    <3> QED
      BY <1>2, <3>1, <3>2, <3>3, <3>4, <3>5 DEF Serve
  <2> QED
    BY <1>0, <2>1, <2>2, ClockAdvances
<1>3. CASE UNCHANGED serviceVars
  BY <1>0, <1>3 DEF serviceVars, vars, graphVars
<1> QED
  BY <1>1, <1>2, <1>3 DEF ServiceNext

\* What can be reached after a step could be reached before it.
LEMMA ReachableBefore ==
  ASSUME ClockModel = "ticking", ServiceTypeInv, [ServiceNext]_serviceVars,
         NEW s \in Nat, s >= LaterOf(revision', quantize(clock', BucketSize))
  PROVE  /\ s >= revision /\ s >= LaterOf(revision, quantize(clock, BucketSize))
         /\ s >= quantize(clock', BucketSize) /\ clock' \in Nat
<1>1. ServiceTypeInv'
  BY ServiceTypeStep
<1>2. clock \in Nat /\ clock' \in Nat /\ revision \in Nat /\ revision' \in Nat
  BY <1>1, TimeFacts DEF ServiceTypeInv, ServiceTypeOK, TypeOK
<1>3. clock' >= clock /\ revision' >= revision
  BY <1>2, StepAdvances
<1>4. /\ quantize(clock, BucketSize) \in Nat /\ quantize(clock', BucketSize) \in Nat
      /\ quantize(clock, BucketSize) <= quantize(clock', BucketSize)
  BY <1>2, <1>3, QuantizeBounds, QuantizeMonotone, BucketAssumption
<1> QED
  BY <1>2, <1>3, <1>4 DEF LaterOf

\* Each cache keeps what the next request can reach, and as it is.
LEMMA EntriesKept ==
  ASSUME ClockModel = "ticking", RetentionCoversBucket, ServiceTypeInv, SoundInv,
         [ServiceNext]_serviceVars, NEW f \in FlightKey,
         f.snapshot >= LaterOf(revision', quantize(clock', BucketSize))
  PROVE  /\ entries[f] # Nothing => entries'[f] = entries[f]
         /\ checkEntries[f] # Nothing => checkEntries'[f] = checkEntries[f]
<1>1. f.snapshot \in Nat
  <2>1. f.snapshot \in Time
    BY DEF FlightKey
  <2>2. Time \subseteq Nat
    BY TimeFacts
  <2> QED
    BY <2>1, <2>2
<1>2. f.snapshot >= revision /\ f.snapshot >= quantize(clock', BucketSize) /\ clock' \in Nat
  BY <1>1, ReachableBefore
<1>3. entries \in Entries /\ checkEntries \in Entries
  BY DEF ServiceTypeInv, ServiceTypeOK, TypeOK, Entries, Decision
<1>4. ASSUME NEW t \in Threads, InSubproblemCache(t), entries[f] # Nothing
      PROVE  entries'[f] = entries[f]
  <2>1. Hop(t)
    BY <1>4, InCacheTypes
  <2>2. CASE entries' = entries
    BY <2>2
  <2>3. CASE /\ flight[t] \in FlightKey /\ outcome[t] \in Decision
             /\ entries' = put(entries, flight[t], outcome[t], clock')
    <3>1. entries'[f] = IF f = flight[t] THEN outcome[t] ELSE entries[f]
      BY <1>2, <1>3, <2>3, PutKeeps
    <3>2. ASSUME f = flight[t] PROVE outcome[t] = entries[f]
      <4>1. EntriesSound(revision, {Graph}) /\ OutcomesSound(revision, {Graph})
        BY DEF SoundInv, Sound
      <4>2. entries[f] \in SaidBy({Graph}, f.key.subject, f.key.target)
        BY <1>2, <1>4, <4>1 DEF EntriesSound
      <4>3. outcome[t] \in SaidBy({Graph}, f.key.subject, f.key.target)
        BY <1>2, <2>3, <3>2, <4>1 DEF OutcomesSound
      <4> QED
        BY <4>2, <4>3 DEF SaidBy
    <3> QED
      BY <3>1, <3>2
  <2> QED
    BY <2>1, <2>2, <2>3 DEF Hop
<1>5. ASSUME NEW t \in Threads, StoreVerdict(t), checkEntries[f] # Nothing
      PROVE  checkEntries'[f] = checkEntries[f]
  <2> DEFINE d == combine(check[t].answers)
             g == StoredAs(check[t])
  <2>1. /\ g \in FlightKey /\ check[t].phase = "gathering" /\ check[t].remaining = {}
        /\ checkEntries' = put(checkEntries, g, d, clock')
    BY <1>5, StoreVerdictTypes
  <2>2. checkEntries'[f] = IF f = g THEN d ELSE checkEntries[f]
    BY <1>2, <1>3, <2>1, PutKeeps
  <2>3. ASSUME f = g PROVE d = checkEntries[f]
    <3>1. VerdictsSound(revision, {Graph}) /\ ChecksSound(revision, {Graph})
      BY DEF SoundInv, Sound
    <3>2. f.key.subject = check[t].principal /\ f.key.target = check[t].target
          /\ f.snapshot = check[t].snapshot
      BY <2>3 DEF StoredAs
    <3>3. checkEntries[f] \in MixedAnswers({Graph}, f.key.subject, f.key.target)
      BY <1>2, <1>5, <3>1 DEF VerdictsSound
    <3>4. Gathered(check[t], {Graph})
      BY <1>2, <2>1, <3>1, <3>2 DEF ChecksSound, CheckSound, Phases
    <3>5. d \in MixedAnswers({Graph}, f.key.subject, f.key.target)
      BY <2>1, <3>2, <3>4, GatheredVerdict
    <3>6. \A p, q : MixedAnswers({Graph}, p, q)
                      \subseteq {evaluateRbac(Graph.roles, Graph.assignments, p, q)}
      BY OneGraph
    <3> HIDE DEF d, g
    <3> QED
      BY <3>3, <3>5, <3>6
  <2> QED
    BY <2>2, <2>3
<1>6. CASE Write
  BY <1>6, WriteTypes DEF Stamp, checkCacheVars
<1>7. ASSUME NEW t \in Threads, Begin(t) \/ Serve(t), ~InSubproblemCache(t) PROVE entries' = entries
  BY <1>7, CallTypes, EvaluateTypes
     DEF Begin, BeginCheck, Serve, ReadRevision, ReadNow, LookUpHit, LookUpMiss, ResolveRoles, AskRole,
         GatherAnswer, Propagate, Return, Abandon, StoreVerdict, Reply, vars
<1>8. ASSUME NEW t \in Threads, Begin(t) \/ Serve(t), ~StoreVerdict(t)
      PROVE  checkEntries' = checkEntries
  BY <1>8
     DEF Begin, BeginCheck, Serve, ReadRevision, ReadNow, LookUpHit, LookUpMiss, ResolveRoles, AskRole,
         CallSubproblemCache, EvaluateRole, InSubproblemCache, GatherAnswer, Propagate, Abandon, Reply,
         checkCacheVars
<1>9. CASE UNCHANGED serviceVars
  BY <1>9 DEF serviceVars, vars, checkCacheVars
<1> QED
  BY <1>4, <1>5, <1>6, <1>7, <1>8, <1>9 DEF ServiceNext

\* Every step keeps what a check that has its verdict left behind.
LEMMA KeptStep ==
  ASSUME ClockModel = "ticking", ServiceTypeInv, SoundInv, KeptInv, [ServiceNext]_serviceVars
  PROVE  KeptInv'
<1> SUFFICES ASSUME RetentionCoversBucket, NEW t \in Threads, check'[t].phase = "answered",
                    check'[t].snapshot >= LaterOf(revision', quantize(clock', BucketSize))
             PROVE  checkEntries'[StoredAs(check'[t])] = check'[t].verdict
  BY DEF KeptInv, RetentionCoversBucket
<1> DEFINE c == check'[t]
<1>1. c \in Checks /\ c.snapshot \in Time /\ c.verdict \in {"Allow", "Deny"}
  <2>1. ServiceTypeInv'
    BY ServiceTypeStep
  <2>2. c # NoCheck /\ c \in Checks \cup {NoCheck}
    BY <2>1 DEF NoCheck, ServiceTypeInv, ServiceTypeOK
  <2>3. c.snapshot \in Time /\ c.verdict \in {"Allow", "Deny"}
    BY <2>1 DEF ServiceTypeInv, Located, Phases
  <2> QED
    BY <2>2, <2>3
<1>2. StoredAs(c) \in FlightKey /\ StoredAs(c).snapshot = c.snapshot
  BY <1>1, CheckFields, KeysAssumption DEF StoredAs, FlightKey
<1>3. /\ c.snapshot >= LaterOf(revision, quantize(clock, BucketSize))
      /\ c.snapshot >= quantize(clock', BucketSize) /\ clock' \in Nat
  <2>1. c.snapshot \in Nat
    BY <1>1, TimeFacts
  <2> QED
    BY <2>1, ReachableBefore
<1>4. c.verdict # Nothing
  BY <1>1 DEF Nothing
<1>5. CASE checkEntries[StoredAs(c)] = c.verdict
  BY <1>2, <1>4, <1>5, EntriesKept
<1>6. CASE check[t].phase = "answered" /\ StoredAs(check[t]) = StoredAs(c)
           /\ check[t].verdict = c.verdict /\ check[t].snapshot = c.snapshot
  BY <1>3, <1>5, <1>6 DEF KeptInv
<1>7. CASE StoreVerdict(t)
  <2> DEFINE d == combine(check[t].answers)
             e == [check[t] EXCEPT !.phase = "answered", !.verdict = d]
  <2>1. /\ check[t] \in Checks /\ check' = [check EXCEPT ![t] = e]
        /\ checkEntries' = put(checkEntries, StoredAs(check[t]), d, clock')
        /\ StoredAs(check[t]) \in FlightKey /\ StoredAs(e) = StoredAs(check[t])
    BY <1>7, StoreVerdictTypes
  <2>2. c = e
    BY <2>1 DEF ServiceTypeInv, ServiceTypeOK
  <2>3. e.verdict = d
    BY <2>1 DEF Checks
  <2>4. checkEntries \in Entries
    BY DEF ServiceTypeInv, ServiceTypeOK, Entries, Decision
  <2> HIDE DEF c, d, e
  <2> QED
    BY <1>2, <1>3, <2>1, <2>2, <2>3, <2>4, PutKeeps DEF c
<1>8. CASE LookUpHit(t)
  <2> DEFINE f == CheckFlight(check[t])
             e == [check[t] EXCEPT !.phase = "answered", !.snapshot = Selected(check[t]),
                                   !.verdict = checkEntries[f]]
  <2>1. check[t] \in Checks /\ CheckAlone(t, e)
    BY <1>8, LookUpHitAlone
  <2>2. c = e
    BY <2>1 DEF CheckAlone, ServiceTypeInv, ServiceTypeOK
  <2>3. e.verdict = checkEntries[f] /\ e.snapshot = Selected(check[t])
        /\ e.principal = check[t].principal /\ e.target = check[t].target
    BY <2>1 DEF Checks
  <2>4. StoredAs(e) = f
    BY <2>3 DEF StoredAs, CheckFlight
  <2> QED
    BY <1>5, <2>2, <2>3, <2>4
<1>9. CASE Write
  <2>1. check[t] # NoCheck
    BY <1>9, WriteTypes DEF NoCheck
  <2>2. check[t] \in Checks
    BY <2>1, InCheck DEF ServiceTypeInv
  <2> DEFINE gs == check[t].graphs \cup {Graph'}
  <2>3. c = [check[t] EXCEPT !.graphs = gs]
    BY <1>9, <2>1, WriteTypes
  <2>4. /\ c.phase = check[t].phase /\ c.snapshot = check[t].snapshot /\ c.verdict = check[t].verdict
        /\ c.principal = check[t].principal /\ c.target = check[t].target
    <3> HIDE DEF c, gs
    <3> QED
      BY <2>2, <2>3 DEF Checks
  <2>5. StoredAs(check[t]) = StoredAs(c)
    BY <2>4 DEF StoredAs
  <2> QED
    BY <1>6, <2>4, <2>5
<1>10. CASE check'[t] = check[t]
  BY <1>6, <1>10
<1>11. ASSUME NEW u \in Threads, Begin(u) \/ Serve(u)
       PROVE  check'[t] = check[t] \/ (u = t /\ (LookUpHit(t) \/ StoreVerdict(t)))
  <2>1. CASE u # t \/ InSubproblemCache(u) \/ EvaluateRole(u)
    BY <1>11, <2>1
       DEF Begin, BeginCheck, Serve, ReadRevision, ReadNow, LookUpHit, LookUpMiss, ResolveRoles, AskRole,
           CallSubproblemCache, EvaluateRole, InSubproblemCache, GatherAnswer, Propagate, Abandon,
           StoreVerdict, Reply, ServiceTypeInv, ServiceTypeOK
  <2>2. CASE u = t /\ Begin(u)
    BY <2>2 DEF Begin, BeginCheck, ServiceTypeInv, ServiceTypeOK
  <2>3. CASE u = t /\ (Propagate(u) \/ Abandon(u) \/ Reply(u))
    BY <2>3 DEF Propagate, Abandon, Reply, NoCheck, ServiceTypeInv, ServiceTypeOK
  <2>4. ASSUME u = t, check[t] \in Checks,
               \/ ReadRevision(u) \/ ReadNow(u) \/ LookUpMiss(u) \/ ResolveRoles(u)
               \/ CallSubproblemCache(u) \/ GatherAnswer(u) \/ \E role \in RoleNames : AskRole(u, role)
        PROVE  check'[t].phase # "answered"
    <3>1. ASSUME ReadRevision(t) \/ ReadNow(t) PROVE check'[t].phase # "answered"
      BY <2>4, <3>1 DEF ReadRevision, ReadNow, ServiceTypeInv, ServiceTypeOK, Checks
    <3>2. ASSUME LookUpMiss(t) \/ ResolveRoles(t) PROVE check'[t].phase # "answered"
      BY <2>4, <3>2 DEF LookUpMiss, ResolveRoles, ServiceTypeInv, ServiceTypeOK, Checks
    <3>3. ASSUME CallSubproblemCache(t) PROVE check'[t].phase # "answered"
      BY <2>4, <3>3 DEF CallSubproblemCache, ServiceTypeInv, ServiceTypeOK, Checks
    <3>4. ASSUME GatherAnswer(t) PROVE check'[t].phase # "answered"
      BY <2>4, <3>4 DEF GatherAnswer, ServiceTypeInv, ServiceTypeOK, Checks
    <3>5. ASSUME NEW role \in RoleNames, AskRole(t, role) PROVE check'[t].phase # "answered"
      BY <2>4, <3>5 DEF AskRole, ServiceTypeInv, ServiceTypeOK, Checks
    <3> QED
      BY <2>4, <3>1, <3>2, <3>3, <3>4, <3>5
  <2>5. check[t] \in Checks \/ check[t] = NoCheck
    BY DEF ServiceTypeInv, ServiceTypeOK
  <2>6. check[t] = NoCheck /\ Serve(u) => check'[t] = NoCheck
    BY NoneBegins
  <2> QED
    BY <1>11, <2>1, <2>2, <2>3, <2>4, <2>5, <2>6 DEF Serve
<1>12. CASE UNCHANGED serviceVars
  BY <1>10, <1>12 DEF serviceVars
<1> QED
  BY <1>7, <1>8, <1>9, <1>10, <1>11, <1>12 DEF ServiceNext

(***************************************************************************)
(* Eviction never costs a hit while the retention covers a bucket but for  *)
(* its last tick, in either cache, nor does a put by anybody else.         *)
(***************************************************************************)
THEOREM ReachableEntriesAreKeptHolds ==
  ASSUME ClockModel = "ticking"
  PROVE  ServiceSpec => ReachableEntriesAreKept
<1>1. ServiceInit => KeptInv
  BY DEF ServiceInit, KeptInv, NoCheck
<1>2. ServiceTypeInv /\ SoundInv /\ KeptInv /\ [ServiceNext]_serviceVars => KeptInv'
  BY KeptStep
<1>3. ASSUME ServiceTypeInv, SoundInv, KeptInv', [ServiceNext]_serviceVars
      PROVE  RetentionCoversBucket =>
       \A f \in FlightKey : f.snapshot >= LaterOf(revision', quantize(clock', BucketSize)) =>
         /\ entries[f] # Nothing => entries'[f] = entries[f]
         /\ checkEntries[f] # Nothing => checkEntries'[f] = checkEntries[f]
         /\ \A t \in Threads : check'[t].phase = "answered" /\ StoredAs(check'[t]) = f =>
              checkEntries'[f] = check'[t].verdict
  <2> SUFFICES ASSUME RetentionCoversBucket, NEW f \in FlightKey,
                      f.snapshot >= LaterOf(revision', quantize(clock', BucketSize))
               PROVE  /\ entries[f] # Nothing => entries'[f] = entries[f]
                      /\ checkEntries[f] # Nothing => checkEntries'[f] = checkEntries[f]
                      /\ \A t \in Threads : check'[t].phase = "answered" /\ StoredAs(check'[t]) = f =>
                           checkEntries'[f] = check'[t].verdict
    OBVIOUS
  <2>1. /\ entries[f] # Nothing => entries'[f] = entries[f]
        /\ checkEntries[f] # Nothing => checkEntries'[f] = checkEntries[f]
    BY <1>3, EntriesKept
  <2>2. ASSUME NEW t \in Threads, check'[t].phase = "answered", StoredAs(check'[t]) = f
        PROVE  checkEntries'[f] = check'[t].verdict
    <3>1. f.snapshot = check'[t].snapshot
      BY <2>2 DEF StoredAs
    <3> QED
      BY <1>3, <2>2, <3>1 DEF KeptInv, RetentionCoversBucket
  <2> QED
    BY <2>1, <2>2
<1> QED
  BY <1>1, <1>2, <1>3, SoundInvariant, PTL DEF ServiceSpec, ReachableEntriesAreKept

=============================================================================
