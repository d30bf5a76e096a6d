# A TLA+ verification project for iam_engine

`iam_engine` answers "may this principal do this action on this resource?"
from a graph of roles, through two decision caches whose keys carry a
*snapshot*, an instant of the policy timeline. This directory models the part
of it where the difficulty lies: how a request chooses its snapshot while
others write the graph, how threads share one computation in a cache, and
whether what the caches hold may be served.

Modules are checked with TLC on small instances and, liveness apart, proved
with TLAPS for every value of the constants.

## 1. Inventory

| component | state | operations | interacts with |
|---|---|---|---|
| snapshot arithmetic (`quantize`, `selectSnapshot`, `stampWrite`) | none | pure functions of instants, in clock ticks | called by every request and write |
| `RoleGraph` (`roles.cpp`) | `roles_`, `assignments_`, `revision_`, one shared mutex, a clock | `addRole`, `assign` (stamp a revision), `find`, `effectiveRoles`, `revision` | read by the engine; its revision is the floor of every snapshot |
| `DecisionCache` (`cache.cpp`) | `entries_` (identity, snapshot -> decision), `inFlight_`, three counters, one shared mutex, a clock | `get`, `put` (evicts), `getOrCompute` (single flight), `resetCounters`, `size`, `now` | called from many threads; calls back `compute` with no lock held |
| `PolicyEngine` (`engine.cpp`) | none | `evaluateRbacCached` (layer 1), `evaluateForRoleCached` (layer 2), `evaluateRbac`, `evaluateForRole`, `evaluate`, `combine` | two caches and the graph, in several separate critical sections per check |
| `AuthorizationService` (`service.cpp`) | a graph, two caches, a default level, one clock for all | `check`, `addRole`, `assign`, `revision`, `stats` | the public entry point |
| policy documents (`policy.cpp`) | none | JSON to `Policy`, `wildcardMatch`, `matchesAction`, `matchesResource` | used by `evaluateForRole`, `evaluate` |
| demonstration of a torn check (`demos/snapshot_consistency_race.cpp`) | two flags under one mutex; two checkpoints under another, with a condition variable | `runBuggyDemo`, `runFixedDemoStressTest`, `main` | two threads; stands alone |
| demonstration of an escaping pointer (`experimental/pointer_escapes_lock.cpp`) | two stores, one overwritten in place and one of counted immutable objects | `put`, `find`, `run`, `main` | a writer and a reader; stands alone; the second store is written as `RoleGraph` is |
| walkthrough, benchmark, tests, lessons | - | - | use the library |

What is hard:

* **A check is many critical sections.** It reads the revision, reads the
  clock, looks in layer 1, resolves roles, and for each role reads both again
  and enters layer 2; writes land between any two of them. Correctness is not
  that such a check is right (it overlaps a write) but that nothing it leaves
  in a cache is ever served as current.
* **The revision floor** is all that separates entries of before and after a
  write. It depends on what the clock may do: stand still, or step back.
* **Single flight** has a stale fast path, a registration that must be atomic,
  an exception path, futures that outlive the registration, and evictions
  between storing and retiring.
* **Results outlive locks.** `find` hands out an object that `addRole` may
  replace while it is read; the two demonstration programs are about the two
  ways this goes wrong.
* **Two key namespaces** share one key type; only separate instances keep a
  role and a principal of one name apart.

What makes each component correct:

* arithmetic and floor: a write retires every key used before it; a caller
  reads its own writes at every level, whatever its token; buckets and tokens
  do not fragment sharing; every write outdates every token handed out;
* `DecisionCache`: one computation per key at a time and none of what is
  stored; every answer is for the key asked about; no waiter is orphaned; a
  failure is not cached; every call ends; counters add up;
* service: what a later request can reach is current in both layers; a check
  no write overlaps answers what `evaluateRbac` would, one that writes overlap
  uses no graph older than itself; eviction costs no hit; every check ends;
* demonstrations: the first half is torn on every schedule, the second half
  never; no wake-up is lost; nobody reads freed memory and nothing leaks.

## 2. Modules

```
 Snapshots ---- SnapshotsProofs
     |    \---- RevisionFloor ----- RevisionFloorProofs
     |                \------------ MCRevisionFloor
 CacheStore
     |
 DecisionCache ---- DecisionCacheProofs ----------------\
     |     |  \---- DecisionCacheRefinement --- MCDecisionCache
     |     |            (SingleFlightMemo) \             \
     |     |                                DecisionCacheAuditProofs
     |     \------- DecisionCacheAudit ----/
     |                       \----------------- MCDecisionCacheAudit
     |
     +-- PolicyGraph ---- RoleTraversal ----- RoleTraversalProofs
     |        |                  \----------- MCLockedReads
     |        \---------- PolicyEvaluation -- PolicyEvaluationProofs
     |                           \----------- MCPolicyEvaluation
 AuthorizationService ---- AuthorizationServiceProofs (with DecisionCacheProofs
              \                               and SnapshotsProofs)
               \---------- MCAuthorizationService

 Handover, PointerEscape ---- DemonstrationProofs
              \-------------- MCLockedReads (with RoleTraversal)
```

`SingleFlightMemo` extends `CacheStore` and is instantiated, not extended, by
`DecisionCacheRefinement`.

* **Snapshots**: instants are naturals (ticks); `quantize`, `selectSnapshot`
  and `stampWrite` are the code's arithmetic, both integer divisions included.
  `Readings` and `WriteReadings` are the injected clock. `ClockModel` says how
  much is assumed of it: `"adjustable"` (nothing: the tests' lambda may step
  back), `"coarse"` (never backward, possibly equal: `steady_clock`'s
  contract), `"ticking"` (coarse, and a write never reads the same tick as an
  earlier reading that is newer than the last revision; a nanosecond clock on
  one thread approximates it).
* **RevisionFloor**: requests and writers only. `Write` is the critical
  section of `addRole`/`assign`; `ReturnToken` is the separate locked read the
  service does for the token; a request makes its two readings in either
  order, as C++ does not order arguments, then selects. `fresh` and `owed`
  remember whether a write landed since the request began and the newest
  token anyone held then; `used` and `retired` are histories.
* **CacheStore**: the container: `getUnlocked`, `put`, `evict` as operators on
  a function from (identity, snapshot) to a decision or nothing. An identity
  whose map is empty is the same as one never put.
* **DecisionCache**: threads in `get`, `put`, `resetCounters` and
  `getOrCompute`. An action is one critical section of `mutex_`, or one step
  outside it, so the lock is the atomicity of actions. `inFlight[f]` is the
  owner's thread, standing for the shared future in the map; `promise[t]` is
  the shared state of the promise thread t owns, and `outcome[t]` what t's
  call will return or throw. A future keeps its value however long the waiter
  sleeps, so publishing (`Settle`) gives every holder its outcome at once and
  `Await` may come later. The order of the code's steps is kept: store, set
  the promise, erase the flight; on an exception: erase, then set.
* **SingleFlightMemo** (abstract): what a shared cache promises, with no lock,
  promise, future or program counter. A table; per key no run, a run, or a
  finished run's result still on offer; per thread what it asked and the
  answer it is going to get. `Finish` fills the table and answers everyone it
  serves in one step; `Fail` does so with the exception and leaves nothing.
* **DecisionCacheRefinement**: `DecisionCache` implements it. `memo` is
  `entries`, `asked` is `flight`; `runs[f]` follows from the owner's program
  counter; `answer[t]` is open until t holds an answer or waits on an owner
  who has settled it. So the run finishes at `Store`, fails at `Drop`, and its
  result is withdrawn at `Retire`; joining a flight between `Store` and
  `Retire` takes the result on offer; `Throw`, `Compute`, `Fulfil`, `Reject`,
  `Join`, `Await` and the resets are stutters. The mapping needs no history.
* **DecisionCacheAudit**: history variables beside DecisionCache: the misses
  that resolved themselves, and whether the counters were ever reset.
* **PolicyGraph**: what a graph answers with no cache. `effectiveRoles` is the
  least set that holds the assignments and is closed under `inherits`; a
  role's own policies are reduced to the verdict they have for a target, which
  stands for one (action, resource) pair.
* **RoleTraversal**: `effectiveRolesUnlocked` one loop iteration at a time,
  any number of walkers under the shared lock beside writers under the unique
  one. A walk is its locals: `ans`, `layer` (the code's `curRoles`),
  `nextLayer`, `visited`, and the two iterators `at` (position in the layer)
  and `child` (position in `inherits`, 0 before the role is reported).
  `Unlocked` is the unique lock's guard. Here vectors keep order and repeats:
  an assignment made twice is there twice. The revision a write stamps is
  RevisionFloor's subject and is left out. `Graph` and `Direct` forget order
  and repeats and give the graph as PolicyGraph has it.
* **PolicyEvaluation**: what the other modules reduce to a verdict per
  target. A pattern or a value is a sequence of characters; `wildcardMatch`
  looks at the last character only and compares as many characters as the
  value has, as `compare` does. A field of a document is a string, an array,
  something else or missing; `Throws` and `readStringOrArray` are the parser's
  calls on each (something else is an empty list, silently). A state is what
  has been loaded into each role: `Load` parses a document and appends it,
  `Replace` adds the role anew. `verdictOfRole` and `evaluate` are the two
  scans, the early return included. The reference they are checked against
  reads the *documents*, as sets of rules.
* **AuthorizationService**: the whole service. The subproblem cache *is*
  DecisionCache: its actions are conjoined with what the engine does around
  them. The whole-check cache is only used through `get` and `put`, one
  critical section each (`LookUpHit`, `LookUpMiss`, `StoreVerdict`). `check[t]`
  holds the parameters and locals of `evaluateRbacCached`. A role's snapshot is
  selected anew for every role, as the code does. `graphs` in `check[t]` is a
  history: the graphs there have been since the check began. `Abandon` is an
  exception between the calls a check makes, `Propagate` one out of the
  subproblem cache.
* **Handover**: main and the writer of the torn-check demonstration, one step
  per access to the flags where a critical section has two. A thread in
  `wait(lock, predicate)` tests, blocks, sleeps and wakes in separate steps,
  with `checkpoint_mutex` explicit, because a lost wake-up lives between them.
* **PointerEscape**: `run()` over `BrokenStore`, then over `SafeStore`. Objects
  live at addresses that are reused; `refs` counts owners and 0 is free memory.
  An overwrite in place copies cell by cell under the lock; a reader reads
  cell by cell with none. What a racing read of an `int` returns is the old or
  the new value.

Abstractions that apply throughout: names are model values; hashing and
logging are left out; `size()`, `stats()` and the accessors are pure reads
with no action; failed allocation is represented by `Throw` (compute or `put`
throws before it changes anything) and, in the service, by `Abandon`; an
exception of the injected clock is left out (see section 6).

## 3. Runs

| run | instance | what it shows |
|---|---|---|
| `floor_ticking` | 1 request thread, 2 writers, instants 0..5, bucket of 3 | types; after a write no fresh request selects a snapshot used before it |
| `floor_adjustable` | 2 request threads, 2 writers, instants 0..2, bucket of 3 | read-your-writes, redundant tokens, one key per bucket, writes outdate tokens, with a clock that steps back and tokens that are another administrator's |
| `cache_safety` | 3 threads, 1 identity, 2 snapshots, retention 0, exceptions | types; single flight; no orphaned wait; no redundant run; no sticky failure; implements the abstract memo |
| `cache_calls` | 2 threads, direct `get`/`put` and resets too, exceptions, counters modulo 2 | implements the abstract memo beside direct puts; misses add up; every call returns or throws |
| `service_levels` | 1 thread, all levels, instants 2..4, bucket of 2, exceptions, writes that redefine either role or assign the second | reachable entries are current and are not evicted; checks no write overlaps answer as uncached ones, also after checks that writes did overlap |
| `service_shared` | 2 threads, `MinimizeLatency`, instants 2..4, two writes that revoke | reachable entries are current and answers recent when threads share flights and publish late, and when a write lands before a check and another during it |
| `service_live` | 2 threads, two roles each, exceptions, no write | every check returns or throws |
| `policy_evaluation` | 2 roles, up to 3 statements; patterns with the star at the end, alone, at the front and nowhere, and the empty one; values as short as the empty one; malformed, missing and non-string fields | types; the scans say what the sets of rules say; asking role by role answers as the flat evaluation |
| `locked_reads` | the walk: 3 role names, lists of up to 2 inherited roles, 1 principal with up to 2 assignments, 1 walker, writers; or the torn check: 3 spurious wake-ups, 3 checks; or the escaping pointer: 2 readers, 3 cells, 2 passes, 4 puts per store | types; the walk finds the closure, of one graph, reports inherited roles once and returns; the torn check is reproduced on every schedule; the pinned one is never torn; the handshake ends; objects live as long as held; snapshots are whole |
| `service_coarse` | 1 thread, a clock that may repeat a tick | **violated**: finding 1 |
| `service_layers` | 1 thread, `MinimizeLatency` | **violated**: finding 2 |
| `floor_tokens` | 2 request threads, 2 writers, a ticking clock, instants 0..2, bucket of 3 | **violated**: finding 3 |

Bounds. `Time` (0..`LastInstant`) bounds the clock and the revision; a write
whose stamp would pass it is not taken, a limit of the instance and not of the
program. How far the instants reach differs from run to run:

* `floor_ticking` spans two buckets and their boundary, with several writes,
  two of them possibly stamped before either token is read;
* `floor_adjustable` and `floor_tokens` stay within one bucket, the first with
  a clock that moves both ways in it and up to two writes. What two buckets
  add for those properties is left to the theorems, which speak of any number;
* `service_levels`, `service_coarse` and `service_layers` start at 2, the
  beginning of a bucket, and reach the next boundary at 4, with up to two
  writes at any point of a check or between checks;
* `service_shared` does the same for two threads. Its two writes redefine the
  one role that is asked, so that it denies or says nothing: after the first,
  whichever it is, the answer is Deny for good. A check that begins then and
  is overlapped by the second may answer Deny only, so that an Allow from
  before, through a cache or a flight, would be seen. (With one write, or
  writes of which either gives the other's verdict back, an overlapped check
  could answer anything, and `AnswersAreRecent` would say nothing of it.) A
  second level for both threads is beyond what TLC finishes; `service_levels`
  has all levels;
* `service_live` is about waiting and has no write;
* in `cache_safety` and `cache_calls` snapshots are arguments of the caller's:
  there is no bucket, no revision and no write; the clock drives eviction only.

Three threads in the cache give an owner, a joiner and a latecomer, the most
that interact over one key: flights of different keys share no state but the
counters. `TicksPerMilli` is 1 in the
runs; the theorems hold for all values. Retention is 0 or 1 ms, so an entry
may be evicted by the very put that stores it. `CounterModulus` is 1 where
counters are irrelevant (TLC would otherwise multiply states) and 2 where they
are audited. In the service, one principal carries the name of one of the two
roles, so that the two layers use equal keys, in tables that are separate as
the two objects of the service are; the graph is set up so that the principal
is allowed and a write takes that away.
Behaviours start at the end of set-up (`SetupTime` is the stamp of the last
write), a state the program reaches by its own `addRole` and `assign`.

Three role names give every shape the walk distinguishes: a role that
inherits itself, cycles of two and three, the same role twice in one list, a
diamond, a name nobody defined. Walkers only read, so one walker and the writer
show their interaction; the theorem covers any number. `MaxAssigned` bounds the
assignments of a principal and `MaxStatements` the statements loaded: two
decide order, a third can change what two said.

Retention in `service_levels` is 1 ms with a bucket of 2 ms and one tick to the
millisecond: the least for which `RetentionCoversBucket` holds, so one tick
less of either loses an entry. The premise is over constants and is true of
the instance and of the defaults (`ttl` 5000 ms, `bucketSize` 1000 ms,
`service.hpp:47-52`).

The walk and the two demonstration programs share nothing but their subject,
what may be read beside a writer and under which lock (`roles.cpp:86-91` refers
to the first program); a behaviour of their run is of the one `program` names.
Two readers are one more than the program has, as `RoleGraph` has many. Two passes over three cells, four puts and two stores let
every reader hold an object across several puts, and addresses be reused.
Spurious wake-ups are bounded because the liveness of the handshake rests on
there being finitely many; three suffice to wake either thread twice.

Deadlock is checked in every run but `locked_reads`, two of whose programs
end: an idle thread can always begin a call, and a role can always be replaced.
A walk that stopped would violate `EveryWalkReturns`.

A promise that is destroyed unset gives its waiters a `broken_promise`. The
models leave `~promise` out, because in the code every promise somebody waits on
has been set by then (`NoOrphanedWait`, proved as `NoOrphanedWaitHolds`). So what the catch block of `getOrCompute` guards against is that waiters are
given an exception nobody threw; that they would wait for ever, as the comment
at `cache.cpp:157` says, overstates it. A wait that really has no end, in C++ as
in the model, is that of a thread on a promise of its own, and that is the
mutation under which `EveryCallReturns` and `EveryCheckReturns` are seen to
fail. For `EveryWalkReturns` it is a walk that calls `find`, and waits for the
lock it holds. A walk that forgot `nextLayer.clear()` would never end either,
but its answer would grow for ever: TLC has no cycle to find there, and
`ReportedOnce` is what catches it.

Fairness. `Fairness` of DecisionCache, `FairServiceSpec`, and `ReadsSpec` for the
walk, ask weak fairness of each thread's *next step inside a call*: a thread the operating system keeps scheduling,
with a `compute` that terminates (the engine's callback is a finite scan) and
locks that are eventually granted. Callers are never obliged to begin a call,
and writers are under no fairness. In `locked_reads` each of the two threads
of the handover program is weakly fair; its locks are contended finitely often
in the handshake, and not at all once the writer sees `stop`. That main's checks
of the stress test ever finish is not claimed: the writer takes the mutex again
as soon as it lets go, and `std::mutex` is not fair. No run needs fairness for
safety.

Refinement. `ImplementsMemo` subsumes that every answer is the table's, or a
run's, for exactly the identity and snapshot asked about: a step that gave a
call anything else is no step of the abstract memo. It is checked as a property
of both cache runs, with eviction by the storing put itself (retention 0), so
that results on offer and results in the table do differ.

## 4. What is proved

Every invariant and every safety action property the runs check, and the
refinement, for every value of the constants. Each module proves an inductive
invariant `Inv` (`Init => Inv`, `Inv /\ [Next]_vars => Inv'`), one lemma or
step to an action, and takes the properties from it.

**SnapshotsProofs**, for every instant, bucket and clock resolution:
`QuantizeBounds` and `QuantizeMonotone` (from two facts on integer division),
`FloorHolds`, `OldTokenIsRedundant`.

**RevisionFloorProofs**, for any number of requests and writers:

* `TypeCorrect`;
* for **any clock**, `FloorInvariant`: tokens handed out never pass the
  revision, and what a request read is at least what it owes, and the current
  revision if no write landed since. From it follow `ReadYourWritesHolds`,
  `TokenIsRedundantHolds`, `SharedKeyHolds` and
  `WriteOutdatesEveryTokenHolds`. The properties alone are not inductive: they
  speak of requests that have made both readings and say nothing of one that
  has made one;
* for a **ticking clock**, `TickingInvariant`: everything used or read lies
  within what the clock and the revision have reached, and everything used
  before the last write lies strictly before its revision; hence
  `RetiredKeysUnreachableHolds`. The assumption is needed: without it finding
  1 is the counterexample.

**DecisionCacheProofs**, for any number of threads, keys and instants, any
retention and any clock:

* `PutChangesOneAnswer`, about the container;
* `TypeCorrect`, with `OutcomeInv` (what an owner carries is a decision until
  it is stored, an exception once it failed, and its promise is unset until
  published);
* `FlightInv`: `inFlight_` names a thread for a key exactly while that thread
  computes, stores, publishes, retires or drops that key. From it follow
  `SingleFlightHolds`, `FailureIsNotStickyHolds`, `NoOrphanedWaitHolds`
  and `NoRedundantRunHolds`. Single flight alone is not inductive: it is
  the map's exactness that makes finding no flight mean that nobody flies;
* `CacheInvariant` gathers these as `CacheInv`, and a step of the cache keeps
  it whatever happens around the cache: the service's proofs, in which the
  cache is one part, start from that.

**DecisionCacheAuditProofs**:

* `ImplementsMemoHolds`: initial states map to initial states, and under
  `CacheInv` each action maps to the abstract step section 2 names for it or
  to a stutter. The two facts that make it work are in `CacheInv`: a call that
  waits with no answer yet waits on an unsettled owner of the very key it asks
  about, and the map is exact, so that a run is on offer in the abstract memo
  exactly when `inFlight_` names its owner;
* `MissesAccountedForHolds`: `AuditInv` adds to the property that finitely many
  misses are outstanding (there may be infinitely many threads) and that
  whoever is inside `resetCounters` has been recorded. Each step carries one
  unit between two terms of a sum; that it may be carried modulo the width of
  the counters is `ModAdd`, from the uniqueness of remainders.

**AuthorizationServiceProofs**, for any number of threads, roles, principals,
targets and levels:

* `ServiceTypeInvariant`, for **any clock**: the types, `CacheInv` for the
  subproblem cache inside the service, and what a check's phase says of its
  locals;
* for a **ticking clock**, `SoundInvariant`. `ReachedInv` bounds every
  snapshot stored, asked about or selected by what the clock and the revision
  have reached, so that a write leaves all of them behind. `Sound(rho, G)` says
  that everything the two caches, the flights and the checks hold for
  a snapshot at or after rho is what some graph of the set G says. `SoundInv` is
  that for the current revision and the current graph, and for every check
  in progress with the revision there was when it began and the graphs there
  have been since: a check that writes overlap is behind the current revision,
  and what it shares with others then is as old as that, and no older. From it
  follow `ReachableEntriesAreCurrentHolds`, `AnswersAreRecentHolds` and, with a
  set of one graph, `AnswersAreUncachedAnswersHolds`. Currency of the entries
  alone is not inductive: a late store brings what its check read before;
* for a ticking clock and a retention that covers a bucket but for its last
  tick, `ReachableEntriesAreKeptHolds`: what either layer holds at a snapshot
  a request can still select stays as it is, and (`KeptInv`) a check that has
  its verdict leaves it stored. It rests on `QuantizeBounds`.

**RoleTraversalProofs**, for any graph, any number of roles, principals and
walkers:

* `TypeCorrect`, with `LocatedInv` (while a walk goes through children, its
  role is in its layer and is defined): no index of the loops is out of range;
* `AnswerIsClosureHolds`, from `LoopInv`: everything visited lies in every
  closed set that holds the assignments; what is visited is what is reported,
  ahead in this layer, or in the next; every role reported has all its
  children visited, except the one being gone through, of which those before
  position `child` are. `AnswerIsClosure` speaks of finished walks only, so
  nothing of it is inductive. That writes wait for the lock is what lets the
  invariant speak of one graph. Each step of the loop is a lemma on the loop's
  variables alone;
* `ReportedOnceHolds`, from `CountInv`: a role's occurrences in what is
  reported, ahead in the layer and in the next layer *together* stay within
  the limit. Counting the reported ones alone leaves open what is queued.

**PolicyEvaluationProofs**, for any documents, texts and number of statements:

* `LoadedInvariant`: a role's policies are its documents, each as the parser
  reads it; `PolicyTypeCorrect` follows;
* `PatternMeaning`, `FieldMeaning` and `StatementMeaning`: `wildcardMatch` is
  the prefix relation, and a statement that was read matches what its document
  names;
* `FlattenContents`, `VerdictScan` and `FlatScan`: what a loop over statements
  computes is what `Said` says of the set of them. This is induction over
  the length of a sequence, done without the induction theorems (which take an
  operator as a parameter): `LeastElement` follows from the well-foundedness of
  the naturals, and `Upwards` (a set that holds the first step, and each step
  if the one before, holds them all) from a least counterexample. The recursive
  definitions are functions, so that it remains to show that one function
  satisfies the recursion, and that any that does agrees with it;
* hence `OrderIsIrrelevantHolds` and `RolesDecomposeHolds`.

**DemonstrationProofs**. The run's `ReadsSpec` is of any one program; these
theorems are about `HandoverSpec` and `EscapeSpec` (and RoleTraversalProofs' about
`Spec`), one program each with no fairness, of which the run's behaviours are
behaviours while the other programs' variables stand still.

* `HandoverInvariant`: which mutex each thread holds, what it has written, and
  what main has read follow from where the two threads are; the checkpoints order
  the halves. Hence `BugAlwaysReproducedHolds` and `FixNeverViolatedHolds`, for
  any number of spurious wake-ups and iterations;
* `EscapeInvariant`: `refs` counts the owners of every object (an installed
  object has one, and each holder in the second store), and what a reader of
  the first store holds is the installed object, which is never replaced.
  Hence `ObjectsLiveAsLongAsHeldHolds`, for any number of readers, addresses,
  cells and puts; and, with `WholeInv` (what is installed and what is held is
  whole, and a reader has seen nothing else), `SnapshotsAreWholeHolds`.

Assumptions of the proofs are those declared beside the constants, which TLC
evaluates in every run: instants are naturals and downward closed; tick rate
and modulus are positive; the "none" values are none; role names are finite
where they are listed (`SetToSeq`); texts are sequences, and a document's
fields have one of the shapes JSON gives them; there are two more addresses
than readers. The theorems of the ticking clock say so as a hypothesis.

Only model-checked: liveness (that calls, checks, walks and the handshake end),
which the prover does not treat.

## 5. Findings

1. **A write in a tick already read retires nothing** (`service_coarse`,
   `roles.cpp:32`). `stampWrite` advances past the previous *revision* only. If
   a check has read tick T, T is the snapshot it selects (a bucket boundary,
   a disabled bucket or `FullyConsistent`), and a write lands in the same tick
   after the check resolved its roles, the revision becomes T too. The check
   then stores its pre-write verdict at T, and later checks select T and are
   served that verdict, until the bucket or the next write moves them on. The
   documentation promises that a write takes effect on the next check
   (`engine.cpp:105-108`, `roles.hpp:53-56`); the comment on `stampWrite`
   itself calls a coarse clock "a real case". With a clock that ticks
   (`service_levels`, `service_shared`, `RetiredKeysUnreachableHolds`) the
   promise holds.
2. **The layers of one check need not agree on a snapshot**
   (`service_layers`, `engine.cpp:206`), although the comment at
   `engine.cpp:230-232` says that passing `consistency` and `minSnapshot`
   through makes them agree: the revision and the clock are read again for
   every role. It does not make a reachable entry stale
   (`ReachableEntriesAreCurrent` holds), but a check that overlaps a write may
   combine answers of two graphs.
3. **A token newer than the bucket costs nothing** (`floor_tokens`,
   `engine.cpp:119`), although the comments at `engine.cpp:89-91` and
   `engine.hpp:80-81` say that it forces a private snapshot, a key nobody else
   will ever share. They describe the level alone. The revision floor comes
   after it, and a token is a reading of the revision, so a request without a
   token is raised as far (as `engine.hpp:118-120` says). `TokenIsRedundant`
   (`floor_adjustable`, `TokenIsRedundantHolds`) is the other side of this
   finding: no token the service hands out ever changes the key.

## 6. Not modelled, and the plan

Not modelled: the JSON parser itself (a library) and the reading of files; the
walkthrough and the benchmark, sequential scripts with no state of their own;
`stats()` and `size()`, reads about which nothing is promised.

The injected clock is assumed to answer. A clock that threw would leave a write
in the graph with its revision unadvanced (`roles.cpp:44`, `roles.cpp:50`), and an
entry stored with nothing evicted (`cache.cpp:84`); `steady_clock::now` does not
throw.

Possible extensions: `stats()` beside running checks, whose seven reads are
separate (a reader may see more hits than calls); a token from elsewhere, newer
than the clock, which pins its request's snapshot in the future; `fromJsonFile`
and the allocation failures of single containers, which the model folds into
`Throw` and `Abandon`.
