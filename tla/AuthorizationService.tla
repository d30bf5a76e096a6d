------------------------ MODULE AuthorizationService -----------------------
(***************************************************************************)
(* The whole service: threads that check, through the whole-check cache    *)
(* and the subproblem cache, while administrators write the role graph.    *)
(* The subproblem cache is DecisionCache, step by step; the whole-check    *)
(* cache is only used through get and put, one critical section each.      *)
(*                                                                         *)
(* A check, by phase:                                                      *)
(*   selecting   reading the revision and the clock for its snapshot       *)
(*   resolving   missed in the whole-check cache                           *)
(*   gathering   between two roles                                         *)
(*   asking      reading the revision and the clock again, for one role    *)
(*   inCache     inside getOrCompute of the subproblem cache               *)
(*   answered    has its verdict                                           *)
(***************************************************************************)
EXTENDS DecisionCache, PolicyGraph

CONSTANTS
  BucketSize,
  Levels,          \* the consistency levels callers use
  Addable,         \* Addable[r]: the definitions administrators give role r
  Assignable,      \* the (principal, role) pairs administrators assign
  SetupRoles,      \* the graph at the start of a behaviour, whose last write
  SetupAssigned,   \*   was stamped, and the clock last read, at SetupTime
  SetupTime

ASSUME BucketAssumption == BucketSize \in Nat
ASSUME LevelsAssumption == Levels \subseteq Consistency
ASSUME KeysAssumption == Keys = [subject : Principals \cup RoleNames, target : Targets]
ASSUME AddableAssumption == Addable \in [RoleNames -> SUBSET Role]
ASSUME AssignableAssumption == Assignable \subseteq Principals \X RoleNames
ASSUME SetupAssumption ==
  SetupRoles \in Roles /\ SetupAssigned \in Assignments /\ SetupTime \in Time

VARIABLES
  roles,          \* RoleGraph::roles_
  assignments,    \* RoleGraph::assignments_
  revision,       \* RoleGraph::revision_
  checkEntries,   \* checkCache_.entries_
  checkHits, checkMisses,
  check           \* check[t]: the check t is serving; graphs is a history of
                  \*   the graphs there have been since it began

graphVars == <<roles, assignments, revision>>
checkCacheVars == <<checkEntries, checkHits, checkMisses>>
serviceVars == <<vars, graphVars, checkCacheVars, check>>

Unread == -1

NoCheck == [phase |-> "idle"]

Graph == [roles |-> roles, assignments |-> assignments]

Phases == {"selecting", "resolving", "gathering", "asking", "inCache", "answered"}

Checks ==
  [phase : Phases, principal : Principals, target : Targets, level : Consistency, token : Time,
   revision : Time \cup {Unread}, now : Time \cup {Unread}, snapshot : Time \cup {Unread},
   remaining : SUBSET RoleNames, role : RoleNames \cup {NoRole}, answers : SUBSET Decision,
   verdict : {"Allow", "Deny", Pending}, graphs : SUBSET [roles : Roles, assignments : Assignments]]

ServiceInit ==
  /\ clock = SetupTime
  /\ entries = NoEntries
  /\ inFlight = [f \in FlightKey |-> NoThread]
  /\ pc = [t \in Threads |-> "idle"]
  /\ flight = [t \in Threads |-> NoFlight]
  /\ outcome = [t \in Threads |-> Pending]
  /\ promise = [t \in Threads |-> Pending]
  /\ waitOn = [t \in Threads |-> NoThread]
  /\ hits = 0 /\ misses = 0 /\ coalesced = 0
  /\ roles = SetupRoles
  /\ assignments = SetupAssigned
  /\ revision = SetupTime
  /\ checkEntries = NoEntries
  /\ checkHits = 0 /\ checkMisses = 0
  /\ check = [t \in Threads |-> NoCheck]

-----------------------------------------------------------------------------
(***************************************************************************)
(* Administration.  A write and its stamp are one critical section; every  *)
(* check under way has overlapped it, and remembers the graph it made.     *)
(***************************************************************************)
Stamp ==
  /\ \E now \in WriteReadings(clock, revision) :
       /\ stampWrite(revision, now) \in Time
       /\ revision' = stampWrite(revision, now)
       /\ clock' = now
  /\ check' = [t \in Threads |-> IF check[t] = NoCheck THEN NoCheck
                                 ELSE [check[t] EXCEPT !.graphs = @ \cup {Graph'}]]
  /\ UNCHANGED <<entries, inFlight, callVars, counters, checkCacheVars>>

AddRole(name, role) ==
  /\ roles' = [roles EXCEPT ![name] = role]
  /\ UNCHANGED assignments
  /\ Stamp

Assign(principal, name) ==
  /\ assignments' = [assignments EXCEPT ![principal] = @ \cup {name}]
  /\ UNCHANGED roles
  /\ Stamp

-----------------------------------------------------------------------------
(***************************************************************************)
(* A check.  A token is at most the revision when the check begins, as     *)
(* every token the service hands out is; only AtLeastAsFresh looks at it.  *)
(***************************************************************************)
BeginCheck(t, principal, target, level, token) ==
  /\ check[t] = NoCheck
  /\ check' = [check EXCEPT ![t] =
       [phase |-> "selecting", principal |-> principal, target |-> target, level |-> level,
        token |-> token, revision |-> Unread, now |-> Unread, snapshot |-> Unread,
        remaining |-> {}, role |-> NoRole, answers |-> {}, verdict |-> Pending,
        graphs |-> {Graph}]]
  /\ UNCHANGED <<vars, graphVars, checkCacheVars>>

\* The two readings for selectSnapshot, the arguments of one call: C++ leaves
\* their order open.  Made once per check and once more for every role.
ReadRevision(t) ==
  /\ check[t].phase \in {"selecting", "asking"}
  /\ check[t].revision = Unread
  /\ check' = [check EXCEPT ![t].revision = revision]
  /\ UNCHANGED <<vars, graphVars, checkCacheVars>>

ReadNow(t) ==
  /\ check[t].phase \in {"selecting", "asking"}
  /\ check[t].now = Unread
  /\ \E now \in Readings(clock) :
       /\ clock' = now
       /\ check' = [check EXCEPT ![t].now = now]
  /\ UNCHANGED <<entries, inFlight, callVars, counters, graphVars, checkCacheVars>>

HasRead(t) == check[t].revision # Unread /\ check[t].now # Unread

\* MUTANT: selectSnapshot without its floor.
SelectedUnfloored(c) == Candidate(c.level, c.token, c.now, BucketSize)

Selected(c) == selectSnapshot(c.level, c.token, c.revision, c.now, BucketSize)

\* Layer 1 is keyed by the principal, layer 2 by the role.
CheckFlight(c) ==
  [key |-> [subject |-> c.principal, target |-> c.target], snapshot |-> Selected(c)]

\* MUTANT: the principal baked into the role's key.
PrincipalFlight(c) ==
  [key |-> [subject |-> c.principal, target |-> c.target], snapshot |-> Selected(c)]

RoleFlight(c) ==
  [key |-> [subject |-> c.role, target |-> c.target], snapshot |-> Selected(c)]

LookUpHit(t) ==
  LET found == getUnlocked(checkEntries, CheckFlight(check[t])) IN
  /\ check[t].phase = "selecting" /\ HasRead(t)
  /\ found # Nothing
  /\ checkHits' = Bump(checkHits)
  /\ check' = [check EXCEPT ![t].phase = "answered", ![t].snapshot = Selected(check[t]),
                            ![t].verdict = found]
  /\ UNCHANGED <<vars, graphVars, checkEntries, checkMisses>>

LookUpMiss(t) ==
  /\ check[t].phase = "selecting" /\ HasRead(t)
  /\ getUnlocked(checkEntries, CheckFlight(check[t])) = Nothing
  /\ checkMisses' = Bump(checkMisses)
  /\ check' = [check EXCEPT ![t].phase = "resolving", ![t].snapshot = Selected(check[t]),
                            ![t].revision = Unread, ![t].now = Unread]
  /\ UNCHANGED <<vars, graphVars, checkEntries, checkHits>>

\* One shared lock over the whole traversal.
ResolveRoles(t) ==
  /\ check[t].phase = "resolving"
  /\ check' = [check EXCEPT ![t].phase = "gathering",
                 ![t].remaining = effectiveRoles(roles, assignments, check[t].principal)]
  /\ UNCHANGED <<vars, graphVars, checkCacheVars>>

\* The roles are asked in the traversal's order, which is left open here.
AskRole(t, role) ==
  /\ check[t].phase = "gathering"
  /\ role \in check[t].remaining
  /\ check' = [check EXCEPT ![t].phase = "asking", ![t].role = role,
                            ![t].remaining = @ \ {role}]
  /\ UNCHANGED <<vars, graphVars, checkCacheVars>>

CallSubproblemCache(t) ==
  /\ check[t].phase = "asking" /\ HasRead(t)
  /\ FastPathHit(t, RoleFlight(check[t])) \/ FastPathMiss(t, RoleFlight(check[t]))
  /\ check' = [check EXCEPT ![t].phase = "inCache", ![t].revision = Unread, ![t].now = Unread]
  /\ UNCHANGED <<graphVars, checkCacheVars>>

\* find() hands out an immutable Role, so the evaluation sees one version of it.
EvaluateRole(t) ==
  /\ Compute(t, evaluateForRole(roles, check[t].role, check[t].target))
  /\ UNCHANGED <<graphVars, checkCacheVars, check>>

InSubproblemCache(t) ==
  /\ \/ FindStored(t) \/ JoinFlight(t) \/ OwnFlight(t) \/ Join(t) \/ Await(t)
     \/ Throw(t) \/ Store(t) \/ Fulfil(t) \/ Retire(t) \/ Drop(t) \/ Reject(t)
  /\ UNCHANGED <<graphVars, checkCacheVars, check>>

\* MUTANT: a role that failed counted as if it had answered.
GatherAnything(t) ==
  /\ check[t].phase = "inCache"
  /\ Return(t)
  /\ check' = [check EXCEPT ![t].phase = "gathering", ![t].role = NoRole,
                            ![t].answers = @ \cup {outcome[t]}]
  /\ UNCHANGED <<graphVars, checkCacheVars>>

GatherAnswer(t) ==
  /\ check[t].phase = "inCache"
  /\ outcome[t] # Failed
  /\ Return(t)
  /\ check' = [check EXCEPT ![t].phase = "gathering", ![t].role = NoRole,
                            ![t].answers = @ \cup {outcome[t]}]
  /\ UNCHANGED <<graphVars, checkCacheVars>>

\* An exception leaves check() at once; layer 1 stores nothing.
Propagate(t) ==
  /\ check[t].phase = "inCache"
  /\ outcome[t] = Failed
  /\ Return(t)
  /\ check' = [check EXCEPT ![t] = NoCheck]
  /\ UNCHANGED <<graphVars, checkCacheVars>>

\* An exception of the check's own: an allocation while it builds a key or
\* resolves roles, or the whole-check cache's put before it changes anything.
Abandon(t) ==
  /\ MayThrow
  /\ check[t].phase \in {"selecting", "resolving", "gathering", "asking"}
  /\ check' = [check EXCEPT ![t] = NoCheck]
  /\ UNCHANGED <<vars, graphVars, checkCacheVars>>

\* MUTANT: stored at the snapshot the store would select.
StoreVerdictAtRevision(t) ==
  LET verdict == combine(check[t].answers) IN
  /\ check[t].phase = "gathering"
  /\ check[t].remaining = {}
  /\ \E now \in Readings(clock) :
       /\ clock' = now
       /\ checkEntries' = put(checkEntries,
            [key |-> [subject |-> check[t].principal, target |-> check[t].target],
             snapshot |-> LaterOf(check[t].snapshot, revision)], verdict, now)
  /\ check' = [check EXCEPT ![t].phase = "answered", ![t].verdict = verdict]
  /\ UNCHANGED <<entries, inFlight, callVars, counters, graphVars, checkHits, checkMisses>>

\* The verdict goes under the snapshot of the lookup, however late it comes.
StoreVerdict(t) ==
  LET verdict == combine(check[t].answers) IN
  /\ check[t].phase = "gathering"
  /\ check[t].remaining = {}
  /\ \E now \in Readings(clock) :
       /\ clock' = now
       /\ checkEntries' = put(checkEntries,
            [key |-> [subject |-> check[t].principal, target |-> check[t].target],
             snapshot |-> check[t].snapshot], verdict, now)
  /\ check' = [check EXCEPT ![t].phase = "answered", ![t].verdict = verdict]
  /\ UNCHANGED <<entries, inFlight, callVars, counters, graphVars, checkHits, checkMisses>>

Reply(t) ==
  /\ check[t].phase = "answered"
  /\ check' = [check EXCEPT ![t] = NoCheck]
  /\ UNCHANGED <<vars, graphVars, checkCacheVars>>

-----------------------------------------------------------------------------
Write ==
  \/ \E name \in RoleNames : \E role \in Addable[name] : AddRole(name, role)
  \/ \E pair \in Assignable : Assign(pair[1], pair[2])

Begin(t) ==
  \E principal \in Principals, target \in Targets, level \in Levels, token \in 0 .. revision :
    /\ level # "AtLeastAsFresh" => token = 0
    /\ BeginCheck(t, principal, target, level, token)

Serve(t) ==
  \/ ReadRevision(t) \/ ReadNow(t) \/ LookUpHit(t) \/ LookUpMiss(t)
  \/ ResolveRoles(t) \/ \E role \in RoleNames : AskRole(t, role)
  \/ CallSubproblemCache(t) \/ EvaluateRole(t) \/ InSubproblemCache(t)
  \/ GatherAnswer(t) \/ Propagate(t) \/ Abandon(t)
  \/ StoreVerdict(t) \/ Reply(t)

ServiceNext == Write \/ \E t \in Threads : Begin(t) \/ Serve(t)

ServiceSpec == ServiceInit /\ [][ServiceNext]_serviceVars

\* A thread inside check() goes on running.
FairServiceSpec == ServiceSpec /\ \A t \in Threads : WF_serviceVars(Serve(t))

-----------------------------------------------------------------------------
ServiceTypeOK ==
  /\ TypeOK
  /\ roles \in Roles
  /\ assignments \in Assignments
  /\ revision \in Time
  /\ checkEntries \in [FlightKey -> {"Allow", "Deny", Nothing}]
  /\ {checkHits, checkMisses} \subseteq 0 .. CounterModulus - 1
  /\ check \in [Threads -> Checks \cup {NoCheck}]

(***************************************************************************)
(* No entry that a new request can reach is stale: whatever either cache   *)
(* holds at the current revision or later is what the graph as it is now   *)
(* says, though it was computed over many steps, shared between threads,   *)
(* or published long after it was computed.                                *)
(***************************************************************************)
ReachableEntriesAreCurrent ==
  \A f \in FlightKey : f.snapshot >= revision =>
    /\ entries[f] # Nothing =>
         f.key.subject \in RoleNames
         /\ entries[f] = evaluateForRole(roles, f.key.subject, f.key.target)
    /\ checkEntries[f] # Nothing =>
         f.key.subject \in Principals
         /\ checkEntries[f] = evaluateRbac(roles, assignments, f.key.subject, f.key.target)

(***************************************************************************)
(* The new enemy problem is solved: a check that begins after the last     *)
(* write and that no write overlaps answers exactly what evaluateRbac      *)
(* would, uncached, at every consistency level.                            *)
(***************************************************************************)
AnswersAreUncachedAnswers ==
  \A t \in Threads : check[t].phase = "answered" /\ check[t].graphs = {Graph} =>
    check[t].verdict = evaluateRbac(roles, assignments, check[t].principal, check[t].target)

\* What some graph makes of a role.
SaidBy(graphs, role, target) == {evaluateForRole(g.roles, role, target) : g \in graphs}

\* The roles as g has them, each with a verdict some graph gives it.
Sayings(g, graphs, principal, target) ==
  {said \in [effectiveRoles(g.roles, g.assignments, principal) -> Decision] :
     \A r \in DOMAIN said : said[r] \in SaidBy(graphs, r, target)}

MixedAnswers(graphs, principal, target) ==
  UNION {{combine({said[r] : r \in DOMAIN said}) : said \in Sayings(g, graphs, principal, target)}
         : g \in graphs}

(***************************************************************************)
(* A check that writes do overlap may mix the graphs there were while it   *)
(* ran, resolving roles in one and asking each role in another, but uses   *)
(* nothing older than itself: neither a layer nor a shared flight hands it *)
(* a piece that an earlier write had made stale before it began.           *)
(***************************************************************************)
AnswersAreRecent ==
  \A t \in Threads : check[t].phase = "answered" =>
    check[t].verdict \in MixedAnswers(check[t].graphs, check[t].principal, check[t].target)

(***************************************************************************)
(* Eviction never costs a hit while the retention covers a bucket but for  *)
(* its last tick: what the next request can still reach stays in either    *)
(* cache as it is, whoever puts for the same identity, and a check that    *)
(* has its verdict leaves it there, not evicted by its own put.            *)
(***************************************************************************)
RetentionCoversBucket == Ttl * TicksPerMilli >= BucketSize * TicksPerMilli - 1

StoredAs(c) == [key |-> [subject |-> c.principal, target |-> c.target], snapshot |-> c.snapshot]

ReachableEntriesAreKept ==
  [][RetentionCoversBucket =>
       \A f \in FlightKey : f.snapshot >= LaterOf(revision', quantize(clock', BucketSize)) =>
         /\ entries[f] # Nothing => entries'[f] = entries[f]
         /\ checkEntries[f] # Nothing => checkEntries'[f] = checkEntries[f]
         /\ \A t \in Threads : check'[t].phase = "answered" /\ StoredAs(check'[t]) = f =>
              checkEntries'[f] = check'[t].verdict]_serviceVars

(***************************************************************************)
(* What evaluateRbacCached's comment says of the two layers: within one    *)
(* check, every role is asked at the snapshot layer 1 was asked at.        *)
(***************************************************************************)
LayersAgreeOnSnapshot ==
  \A t \in Threads : check[t].phase = "inCache" => flight[t].snapshot = check[t].snapshot

(***************************************************************************)
(* Every check returns or throws, though it may wait, role after role, on  *)
(* other threads' computations.                                            *)
(***************************************************************************)
EveryCheckReturns == \A t \in Threads : check[t] # NoCheck ~> check[t] = NoCheck

=============================================================================
