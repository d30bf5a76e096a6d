--------------------------- MODULE DecisionCache ---------------------------
(***************************************************************************)
(* One DecisionCache shared by threads: get, put, resetCounters, and       *)
(* getOrCompute with its single flight.  Every action is one critical      *)
(* section of mutex_ or one step outside it, so the lock itself is the     *)
(* atomicity of the actions.                                               *)
(*                                                                         *)
(* getOrCompute, by pc:                                                    *)
(*   idle         not in a call                                            *)
(*   registering  missed on the fast path, about to take the lock          *)
(*   joining      found somebody's flight, lock released                   *)
(*   waiting      in waitOn.get()                                          *)
(*   computing    owns the flight, in compute()                            *)
(*   storing      in put()                                                 *)
(*   fulfilling   about to set the promise                                 *)
(*   retiring     about to erase the fulfilled flight                      *)
(*   dropping     caught an exception, about to erase the flight           *)
(*   rejecting    about to pass the exception to the waiters               *)
(*   returned     has its answer or its exception                          *)
(*   clearing...  inside resetCounters                                     *)
(***************************************************************************)
EXTENDS CacheStore

CONSTANTS
  Threads,
  PutKeys,          \* the identities whose users call get and put themselves
  MayThrow,         \* whether compute and put may throw
  CounterModulus,   \* size_t counters wrap at this: 2^64 in the code
  NoThread,
  NoFlight

ASSUME PutKeysAssumption == PutKeys \subseteq Keys
ASSUME MayThrowAssumption == MayThrow \in BOOLEAN
ASSUME ModulusAssumption == CounterModulus \in Nat \ {0}
ASSUME NoneAssumption == NoThread \notin Threads /\ NoFlight \notin FlightKey

VARIABLES
  clock,      \* the last reading anyone took of the injected clock
  entries,    \* entries_
  inFlight,   \* inFlight_, as the thread that computes each flight
  pc,
  flight,     \* flight[t]: the (key, snapshot) of t's call
  outcome,    \* outcome[t]: what t's call is going to return or throw
  promise,    \* promise[t]: the shared state of the promise t owns
  waitOn,     \* waitOn[t]: the owner of the promise t waits on
  hits, misses, coalesced

callVars == <<pc, flight, outcome, promise, waitOn>>
counters == <<hits, misses, coalesced>>
vars == <<clock, entries, inFlight, callVars, counters>>

Pending == "Pending"     \* no answer yet
Failed == "Failed"       \* the exception

Outcomes == Decision \cup {Nothing, Pending, Failed}

\* The owner's states while its flight is registered.
Flying == {"computing", "storing", "fulfilling", "retiring", "dropping"}

\* The owner's states until its promise is set.
Unsettled == {"computing", "storing", "fulfilling", "dropping", "rejecting"}

Steps == Flying \cup Unsettled \cup
  {"idle", "registering", "joining", "waiting", "returned", "clearingMisses", "clearingCoalesced"}

Init ==
  /\ clock = 0
  /\ entries = NoEntries
  /\ inFlight = [f \in FlightKey |-> NoThread]
  /\ pc = [t \in Threads |-> "idle"]
  /\ flight = [t \in Threads |-> NoFlight]
  /\ outcome = [t \in Threads |-> Pending]
  /\ promise = [t \in Threads |-> Pending]
  /\ waitOn = [t \in Threads |-> NoThread]
  /\ hits = 0
  /\ misses = 0
  /\ coalesced = 0

Bump(counter) == (counter + 1) % CounterModulus

Goto(t, step) == pc' = [pc EXCEPT ![t] = step]

Answer(t, o) == outcome' = [outcome EXCEPT ![t] = o]

-----------------------------------------------------------------------------
(***************************************************************************)
(* get and put, for callers that do not share the computation.             *)
(***************************************************************************)
\* The lookup of get and of getOrCompute's fast path, with its one tally.
Lookup(t, f) ==
  /\ pc[t] = "idle"
  /\ flight' = [flight EXCEPT ![t] = f]
  /\ IF getUnlocked(entries, f) # Nothing
     THEN hits' = Bump(hits) /\ UNCHANGED misses
     ELSE misses' = Bump(misses) /\ UNCHANGED hits
  /\ UNCHANGED <<clock, entries, inFlight, promise, waitOn, coalesced>>

Get(t, f) ==
  /\ Lookup(t, f)
  /\ Answer(t, getUnlocked(entries, f))
  /\ Goto(t, "returned")

Put(t, f, decision) ==
  /\ pc[t] = "idle"
  /\ \E now \in Readings(clock) :
       /\ clock' = now
       /\ entries' = put(entries, f, decision, now)
  /\ UNCHANGED <<inFlight, callVars, counters>>

(***************************************************************************)
(* getOrCompute.                                                           *)
(***************************************************************************)
FastPathHit(t, f) ==
  /\ getUnlocked(entries, f) # Nothing
  /\ Lookup(t, f)
  /\ Answer(t, getUnlocked(entries, f))
  /\ Goto(t, "returned")

FastPathMiss(t, f) ==
  /\ getUnlocked(entries, f) = Nothing
  /\ Lookup(t, f)
  /\ Goto(t, "registering")
  /\ UNCHANGED outcome

\* Another thread stored the answer since the fast path missed: a hit that
\* is not tallied.
FindStored(t) ==
  /\ pc[t] = "registering"
  /\ getUnlocked(entries, flight[t]) # Nothing
  /\ Answer(t, getUnlocked(entries, flight[t]))
  /\ Goto(t, "returned")
  /\ UNCHANGED <<clock, entries, inFlight, flight, promise, waitOn, counters>>

\* MUTANT: flights looked up by identity, whatever their snapshot.
JoinIdentity(t) ==
  /\ pc[t] = "registering"
  /\ getUnlocked(entries, flight[t]) = Nothing
  /\ \E f \in FlightKey :
       /\ f.key = flight[t].key
       /\ inFlight[f] # NoThread
       /\ waitOn' = [waitOn EXCEPT ![t] = inFlight[f]]
       /\ Answer(t, promise[inFlight[f]])
  /\ Goto(t, "joining")
  /\ UNCHANGED <<clock, entries, inFlight, flight, promise, counters>>

\* Somebody is already computing it.  Its promise may be set by now, when the
\* entry it stored has been evicted since.
JoinFlight(t) ==
  /\ pc[t] = "registering"
  /\ getUnlocked(entries, flight[t]) = Nothing
  /\ inFlight[flight[t]] # NoThread
  /\ waitOn' = [waitOn EXCEPT ![t] = inFlight[flight[t]]]
  /\ Answer(t, promise[inFlight[flight[t]]])
  /\ Goto(t, "joining")
  /\ UNCHANGED <<clock, entries, inFlight, flight, promise, counters>>

\* MUTANT: the inspection of inFlight_ under a shared lock, stale when the
\* flight is registered.
OwnUnchecked(t) ==
  /\ pc[t] = "registering"
  /\ getUnlocked(entries, flight[t]) = Nothing
  /\ inFlight' = [inFlight EXCEPT ![flight[t]] = t]
  /\ Goto(t, "computing")
  /\ UNCHANGED <<clock, entries, flight, outcome, promise, waitOn, counters>>

\* MUTANT: no second look at the entries under the exclusive lock.
OwnWithoutRecheck(t) ==
  /\ pc[t] = "registering"
  /\ inFlight[flight[t]] = NoThread
  /\ inFlight' = [inFlight EXCEPT ![flight[t]] = t]
  /\ Goto(t, "computing")
  /\ UNCHANGED <<clock, entries, flight, outcome, promise, waitOn, counters>>

\* MUTANT: whoever registers a flight waits on it like the others.
OwnAndWait(t) ==
  /\ pc[t] = "registering"
  /\ getUnlocked(entries, flight[t]) = Nothing
  /\ inFlight[flight[t]] = NoThread
  /\ inFlight' = [inFlight EXCEPT ![flight[t]] = t]
  /\ waitOn' = [waitOn EXCEPT ![t] = t]
  /\ Goto(t, "joining")
  /\ UNCHANGED <<clock, entries, flight, outcome, promise, counters>>

OwnFlight(t) ==
  /\ pc[t] = "registering"
  /\ getUnlocked(entries, flight[t]) = Nothing
  /\ inFlight[flight[t]] = NoThread
  /\ inFlight' = [inFlight EXCEPT ![flight[t]] = t]
  /\ Goto(t, "computing")
  /\ UNCHANGED <<clock, entries, flight, outcome, promise, waitOn, counters>>

\* MUTANT: the joiner not tallied.
JoinUncounted(t) ==
  /\ pc[t] = "joining"
  /\ Goto(t, "waiting")
  /\ UNCHANGED <<clock, entries, inFlight, flight, outcome, promise, waitOn, counters>>

Join(t) ==
  /\ pc[t] = "joining"
  /\ coalesced' = Bump(coalesced)
  /\ Goto(t, "waiting")
  /\ UNCHANGED <<clock, entries, inFlight, flight, outcome, promise, waitOn, hits, misses>>

\* waitOn.get() returns, or rethrows, once the promise is set.
Await(t) ==
  /\ pc[t] = "waiting"
  /\ outcome[t] # Pending
  /\ Goto(t, "returned")
  /\ UNCHANGED <<clock, entries, inFlight, flight, outcome, promise, waitOn, counters>>

Compute(t, decision) ==
  /\ pc[t] = "computing"
  /\ Answer(t, decision)
  /\ Goto(t, "storing")
  /\ UNCHANGED <<clock, entries, inFlight, flight, promise, waitOn, counters>>

\* MUTANT: the exception stored like an answer.
ThrowIntoStore(t) ==
  /\ MayThrow
  /\ pc[t] \in {"computing", "storing"}
  /\ Answer(t, Failed)
  /\ Goto(t, "storing")
  /\ UNCHANGED <<clock, entries, inFlight, flight, promise, waitOn, counters>>

\* compute threw, or put before it changed anything.
Throw(t) ==
  /\ MayThrow
  /\ pc[t] \in {"computing", "storing"}
  /\ Answer(t, Failed)
  /\ Goto(t, "dropping")
  /\ UNCHANGED <<clock, entries, inFlight, flight, promise, waitOn, counters>>

Store(t) ==
  /\ pc[t] = "storing"
  /\ \E now \in Readings(clock) :
       /\ clock' = now
       /\ entries' = put(entries, flight[t], outcome[t], now)
  /\ Goto(t, "fulfilling")
  /\ UNCHANGED <<inFlight, flight, outcome, promise, waitOn, counters>>

\* The promise is set, and with it the future of everyone who holds it.
Settle(t) ==
  /\ promise' = [promise EXCEPT ![t] = outcome[t]]
  /\ outcome' = [u \in Threads |-> IF waitOn[u] = t /\ outcome[u] = Pending
                                   THEN outcome[t] ELSE outcome[u]]

Fulfil(t) ==
  /\ pc[t] = "fulfilling"
  /\ Settle(t)
  /\ Goto(t, "retiring")
  /\ UNCHANGED <<clock, entries, inFlight, flight, waitOn, counters>>

Retire(t) ==
  /\ pc[t] = "retiring"
  /\ inFlight' = [inFlight EXCEPT ![flight[t]] = NoThread]
  /\ Goto(t, "returned")
  /\ UNCHANGED <<clock, entries, flight, outcome, promise, waitOn, counters>>

\* MUTANT: the failed flight left registered.
DropNothing(t) ==
  /\ pc[t] = "dropping"
  /\ Goto(t, "rejecting")
  /\ UNCHANGED <<clock, entries, inFlight, flight, outcome, promise, waitOn, counters>>

\* The first half of the catch block: nobody may join a flight that failed.
Drop(t) ==
  /\ pc[t] = "dropping"
  /\ inFlight' = [inFlight EXCEPT ![flight[t]] = NoThread]
  /\ Goto(t, "rejecting")
  /\ UNCHANGED <<clock, entries, flight, outcome, promise, waitOn, counters>>

\* MUTANT: rethrown without passing the exception on.  C++ would then give the
\* waiters the broken_promise of ~promise, and not the exception they are owed;
\* ~promise has nothing to do here, where every promise has been set by then.
RethrowOnly(t) ==
  /\ pc[t] = "rejecting"
  /\ Goto(t, "returned")
  /\ UNCHANGED <<clock, entries, inFlight, flight, outcome, promise, waitOn, counters>>

Reject(t) ==
  /\ pc[t] = "rejecting"
  /\ Settle(t)
  /\ Goto(t, "returned")
  /\ UNCHANGED <<clock, entries, inFlight, flight, waitOn, counters>>

Return(t) ==
  /\ pc[t] = "returned"
  /\ flight' = [flight EXCEPT ![t] = NoFlight]
  /\ outcome' = [outcome EXCEPT ![t] = Pending]
  /\ promise' = [promise EXCEPT ![t] = Pending]
  /\ waitOn' = [waitOn EXCEPT ![t] = NoThread]
  /\ Goto(t, "idle")
  /\ UNCHANGED <<clock, entries, inFlight, counters>>

(***************************************************************************)
(* resetCounters: three stores, other threads counting between them.       *)
(***************************************************************************)
ResetHits(t) ==
  /\ pc[t] = "idle"
  /\ hits' = 0
  /\ Goto(t, "clearingMisses")
  /\ UNCHANGED <<clock, entries, inFlight, flight, outcome, promise, waitOn, misses, coalesced>>

ResetMisses(t) ==
  /\ pc[t] = "clearingMisses"
  /\ misses' = 0
  /\ Goto(t, "clearingCoalesced")
  /\ UNCHANGED <<clock, entries, inFlight, flight, outcome, promise, waitOn, hits, coalesced>>

ResetCoalesced(t) ==
  /\ pc[t] = "clearingCoalesced"
  /\ coalesced' = 0
  /\ Goto(t, "idle")
  /\ UNCHANGED <<clock, entries, inFlight, flight, outcome, promise, waitOn, hits, misses>>

-----------------------------------------------------------------------------
(***************************************************************************)
(* A call begins only when its caller makes it; every later step is the    *)
(* library's own and is taken in the end.                                  *)
(***************************************************************************)
Call(t) ==
  \/ \E f \in FlightKey : FastPathHit(t, f) \/ FastPathMiss(t, f)
  \/ \E f \in [key : PutKeys, snapshot : Time] :
       Get(t, f) \/ \E decision \in Decision : Put(t, f, decision)
  \/ ResetHits(t)

\* What a call does without compute's result.
Advance(t) ==
  \/ FindStored(t) \/ JoinFlight(t) \/ OwnFlight(t)
  \/ Join(t) \/ Await(t)
  \/ Throw(t) \/ Store(t) \/ Fulfil(t) \/ Retire(t) \/ Drop(t) \/ Reject(t)
  \/ Return(t)
  \/ ResetMisses(t) \/ ResetCoalesced(t)

\* compute is the caller's: any decision.
Proceed(t) == Advance(t) \/ \E decision \in Decision : Compute(t, decision)

Next == \E t \in Threads : Call(t) \/ Proceed(t)

Spec == Init /\ [][Next]_vars

\* Every thread inside a call goes on running, and compute terminates.
Fairness == \A t \in Threads : WF_vars(Proceed(t))

-----------------------------------------------------------------------------
TypeOK ==
  /\ clock \in Time
  /\ entries \in Entries
  /\ inFlight \in [FlightKey -> Threads \cup {NoThread}]
  /\ pc \in [Threads -> Steps]
  /\ flight \in [Threads -> FlightKey \cup {NoFlight}]
  /\ \A t \in Threads : pc[t] \in Flying \cup {"registering", "joining", "waiting", "rejecting"}
       => flight[t] # NoFlight
  /\ outcome \in [Threads -> Outcomes]
  /\ promise \in [Threads -> Outcomes]
  /\ waitOn \in [Threads -> Threads \cup {NoThread}]
  /\ {hits, misses, coalesced} \subseteq 0 .. CounterModulus - 1

(***************************************************************************)
(* No two threads compute the same identity at the same snapshot at once,  *)
(* nor is a second computation begun while the first is being stored: what *)
(* getOrCompute takes the exclusive lock for.                              *)
(***************************************************************************)
SingleFlight ==
  \A t, u \in Threads :
     t # u /\ pc[t] \in Flying /\ pc[u] \in Flying => flight[t] # flight[u]

(***************************************************************************)
(* Nobody waits on a promise its owner is not going to set: the owner is   *)
(* still on its way to setting it, for the same identity and snapshot,     *)
(* even when the flight is no longer registered, and is not left to        *)
(* ~promise, which would hand out an exception that nobody threw.          *)
(***************************************************************************)
NoOrphanedWait ==
  \A t \in Threads :
     pc[t] \in {"joining", "waiting"} /\ outcome[t] = Pending =>
       /\ waitOn[t] # NoThread
       /\ pc[waitOn[t]] \in Unsettled
       /\ flight[waitOn[t]] = flight[t]

(***************************************************************************)
(* No evaluation is begun of what the cache already holds, although the    *)
(* fast path looked before another thread stored it.  Only for identities  *)
(* nobody stores with put directly.                                        *)
(***************************************************************************)
NoRedundantRun ==
  \A t \in Threads :
     pc[t] = "computing" /\ flight[t].key \notin PutKeys => entries[flight[t]] = Nothing

(***************************************************************************)
(* A failure reaches the calls that were already waiting when it was       *)
(* published and no later one: no call joins a flight whose exception is   *)
(* set, so the call after a failure tries again.                           *)
(***************************************************************************)
FailureIsNotSticky ==
  [][\A t \in Threads : pc[t] = "registering" /\ pc'[t] = "joining" => outcome'[t] # Failed]_vars

(***************************************************************************)
(* Every call returns or throws, however calls, evictions and exceptions   *)
(* interleave, provided compute terminates.                                *)
(***************************************************************************)
EveryCallReturns == \A t \in Threads : pc[t] # "idle" ~> pc[t] = "idle"

=============================================================================
