---------------------- MODULE DecisionCacheAuditProofs ----------------------
(***************************************************************************)
(* What a DecisionCache is to those beside it, for any number of threads,  *)
(* identities and instants, any retention, any clock and any width of the  *)
(* counters: it implements SingleFlightMemo, and its counters add up.      *)
(***************************************************************************)
EXTENDS DecisionCacheAudit, DecisionCacheRefinement, DecisionCacheProofs, FiniteSetTheorems

-----------------------------------------------------------------------------
(* The memo: the initial state maps to the initial state, and every step to *)
(* the step of the memo named with it below, or to a stutter.              *)

\* The two modules speak of the same data.
LEMMA SameData ==
  /\ Memo!FlightKey = FlightKey
  /\ Memo!Nothing = Nothing /\ Memo!Pending = Pending /\ Memo!Failed = Failed
  /\ Memo!NoEntries = NoEntries
  /\ Memo!Decision = Decision
  /\ \A e, f, d, now : Memo!put(e, f, d, now) = put(e, f, d, now)
  BY DEF Memo!FlightKey, FlightKey, Memo!Nothing, Nothing, Memo!Pending, Pending, Memo!Failed, Failed,
         Memo!NoEntries, NoEntries, Memo!put, put, Memo!evict, evict, Memo!Decision, Decision

-----------------------------------------------------------------------------
(* What the mapping makes of a state. *)

\* The threads whose answer t's promise is going to carry.
Waiters(t) == {u \in Threads : waitOn[u] = t /\ outcome[u] = Pending}

\* Only an owner that has yet to set its promise is waited on, by callers that
\* ask what it asks.
LEMMA WaitersAsk ==
  ASSUME CacheInv, NEW t \in Threads, NEW u \in Waiters(t)
  PROVE  /\ pc[t] \in Unsettled /\ flight[u] = flight[t]
         /\ u # t /\ pc[u] \in {"joining", "waiting"}
  BY NoneAssumption DEF CacheInv, CallInv, NoOrphanedWait, Waiters, Unsettled

\* A thread's answer, by where the thread is and whom it waits on.
LEMMA SettledCases ==
  ASSUME CacheInv, NEW u \in Threads
  PROVE  /\ pc[u] \in {"computing", "storing", "dropping"} => Settled(u) = Pending
         /\ outcome[u] # Pending /\ pc[u] \notin {"computing", "storing", "dropping"}
              => Settled(u) = outcome[u]
         /\ waitOn[u] = NoThread /\ pc[u] \notin {"computing", "storing", "dropping"}
              => Settled(u) = outcome[u]
         /\ \A t \in Threads : u \in Waiters(t) =>
              Settled(u) = IF pc[t] \in {"fulfilling", "rejecting"} THEN outcome[t] ELSE Pending
  BY NoneAssumption, WaitersAsk DEF CacheInv, CallInv, TypeOK, Settled, Waiters, Pending

\* The run of a key, by the step of the thread registered for it.
LEMMA RunCases ==
  ASSUME CacheInv, NEW f \in FlightKey
  PROVE  /\ inFlight[f] = NoThread => Runs[f] = "Idle"
         /\ \A t \in Threads : inFlight[f] = t =>
              /\ pc[t] \in {"computing", "storing", "dropping"} => Runs[f] = "Running"
              /\ pc[t] \in {"fulfilling", "retiring"} => Runs[f] = outcome[t] /\ Runs[f] \in Decision
  BY NoneAssumption DEF CacheInv, OutcomeInv, Runs, RunOf

(***************************************************************************)
(* A step of t that leaves what others hold, and what t has settled for    *)
(* those who wait on it, changes no answer but t's own.                    *)
(***************************************************************************)
LEMMA OwnAnswer ==
  ASSUME CacheInv, NEW t \in Threads,
         \A u \in Threads \ {t} :
           pc'[u] = pc[u] /\ outcome'[u] = outcome[u] /\ waitOn'[u] = waitOn[u],
         Waiters(t) # {} =>
           /\ pc'[t] \in {"fulfilling", "rejecting"} <=> pc[t] \in {"fulfilling", "rejecting"}
           /\ pc[t] \in {"fulfilling", "rejecting"} => outcome'[t] = outcome[t]
  PROVE  Answers' = [Answers EXCEPT ![t] = Settled(t)']
<1>1. ASSUME NEW u \in Threads \ {t} PROVE Settled(u)' = Settled(u)
  <2>1. CASE u \in Waiters(t)
    BY <2>1 DEF Settled, Waiters
  <2>2. CASE outcome[u] = Pending /\ waitOn[u] # NoThread /\ waitOn[u] # t
    BY <2>2 DEF Settled, CacheInv, TypeOK
  <2>3. CASE outcome[u] # Pending \/ waitOn[u] = NoThread
    BY <2>3 DEF Settled
  <2> QED
    BY <2>1, <2>2, <2>3 DEF Waiters
<1> QED
  BY <1>1 DEF Answers

(***************************************************************************)
(* A step that moves t within the life of its run, or outside any, and     *)
(* leaves inFlight_ alone, changes no run.                                 *)
(***************************************************************************)
LEMMA SameRuns ==
  ASSUME CacheInv, NEW t \in Threads, inFlight' = inFlight,
         \A u \in Threads \ {t} : pc'[u] = pc[u] /\ (pc[u] \in Flying => outcome'[u] = outcome[u]),
         pc[t] \in Flying => RunOf(t)' = RunOf(t)
  PROVE  Runs' = Runs
<1>1. ASSUME NEW f \in FlightKey, inFlight[f] # NoThread PROVE RunOf(inFlight[f])' = RunOf(inFlight[f])
  <2>1. inFlight[f] \in Threads /\ pc[inFlight[f]] \in Flying
    BY <1>1 DEF CacheInv, TypeOK, FlightInv
  <2>2. CASE inFlight[f] = t
    BY <2>1, <2>2 DEF RunOf
  <2>3. CASE inFlight[f] # t
    BY <2>1, <2>3 DEF RunOf
  <2> QED
    BY <2>2, <2>3
<1> QED
  BY <1>1 DEF Runs

-----------------------------------------------------------------------------
(* The steps, one by one.  A call's beginning. *)

\* Nobody waits on a thread outside a run.
LEMMA NobodyWaits ==
  ASSUME CacheInv, NEW t \in Threads, pc[t] \notin Unsettled
  PROVE  Waiters(t) = {}
  BY WaitersAsk

\* A call answered by the fast path, or by get, looks at the table.
LEMMA LookStep ==
  ASSUME CacheInv, NEW t \in Threads, NEW f \in FlightKey,
         FastPathHit(t, f) \/ (Get(t, f) /\ f.key \in PutKeys)
  PROVE  Memo!Look(t, f)
<1> USE DEF Goto, Answer
<1>1. /\ pc[t] = "idle" /\ pc' = [pc EXCEPT ![t] = "returned"]
      /\ flight' = [flight EXCEPT ![t] = f]
      /\ outcome' = [outcome EXCEPT ![t] = entries[f]]
      /\ UNCHANGED <<entries, inFlight, waitOn>>
      /\ f.key \in PutKeys \/ entries[f] # Nothing
  BY DEF FastPathHit, Get, Lookup, getUnlocked
<1>2. pc \in [Threads -> Steps] /\ outcome \in [Threads -> Outcomes] /\ entries[f] \in Decision \cup {Nothing}
  BY DEF CacheInv, TypeOK, Entries
<1>3. flight[t] = NoFlight /\ waitOn[t] = NoThread
  BY <1>1 DEF CacheInv, CallInv, OutsideCall, TypeOK
<1>4. Answers' = [Answers EXCEPT ![t] = entries[f]]
  <2>1. Settled(t)' = entries[f]
    BY <1>1, <1>2, <1>3 DEF Settled, Pending, Nothing, Decision
  <2> QED
    BY <1>1, <1>2, <2>1, NobodyWaits, OwnAnswer DEF Unsettled
<1>5. Runs' = Runs
  BY <1>1, <1>2, SameRuns DEF Flying
<1> QED
  BY <1>1, <1>3, <1>4, <1>5, SameData DEF Memo!Look

\* One the fast path cannot answer asks.
LEMMA AskStep ==
  ASSUME CacheInv, NEW t \in Threads, NEW f \in FlightKey, FastPathMiss(t, f)
  PROVE  Memo!Ask(t, f)
<1>1. /\ pc[t] = "idle" /\ pc' = [pc EXCEPT ![t] = "registering"]
      /\ flight' = [flight EXCEPT ![t] = f]
      /\ UNCHANGED <<entries, inFlight, outcome, waitOn>>
      /\ entries[f] = Nothing
  BY DEF FastPathMiss, Lookup, getUnlocked, Goto
<1>2. pc \in [Threads -> Steps]
  BY DEF CacheInv, TypeOK
<1>3. flight[t] = NoFlight /\ waitOn[t] = NoThread
  BY <1>1 DEF CacheInv, CallInv, OutsideCall, TypeOK
<1>4. Answers' = Answers
  <2>1. Settled(t)' = Settled(t)
    BY <1>1, <1>2, <1>3 DEF Settled
  <2>2. Answers' = [Answers EXCEPT ![t] = Settled(t)']
    BY <1>1, <1>2, NobodyWaits, OwnAnswer DEF Unsettled
  <2> QED
    BY <2>1, <2>2 DEF Answers
<1>5. Runs' = Runs
  BY <1>1, <1>2, SameRuns DEF Flying
<1> QED
  BY <1>1, <1>3, <1>4, <1>5, SameData DEF Memo!Ask

\* put puts.
LEMMA MemoPutStep ==
  ASSUME CacheInv, NEW t \in Threads, NEW f \in FlightKey, NEW d \in Decision, Put(t, f, d)
  PROVE  Memo!Put(f, d)
<1>1. UNCHANGED <<inFlight, pc, flight, outcome, waitOn>>
  BY DEF Put, callVars
<1>2. Answers' = Answers /\ Runs' = Runs
  BY <1>1 DEF Answers, Settled, Runs, RunOf
<1>3. \E now \in Time : entries' = put(entries, f, d, now)
  BY DEF Put, Readings
<1> QED
  BY <1>1, <1>2, <1>3, SameData DEF Memo!Put

\* resetCounters is none of the memo's business.
LEMMA ResetStep ==
  ASSUME CacheInv, NEW t \in Threads, ResetHits(t) \/ ResetMisses(t) \/ ResetCoalesced(t)
  PROVE  UNCHANGED Memo!memoVars
<1>1. /\ pc[t] \in OutsideCall /\ \E step \in OutsideCall : pc' = [pc EXCEPT ![t] = step]
      /\ UNCHANGED <<entries, inFlight, flight, outcome, waitOn>>
  BY DEF ResetHits, ResetMisses, ResetCoalesced, Goto, OutsideCall
<1>2. pc \in [Threads -> Steps]
  BY DEF CacheInv, TypeOK
<1>3. Answers' = Answers
  <2>1. Settled(t)' = Settled(t)
    <3>1. waitOn[t] = NoThread
      BY <1>1 DEF CacheInv, CallInv, OutsideCall, TypeOK
    <3> QED
      BY <1>1, <1>2, <3>1 DEF Settled, OutsideCall
  <2>2. Answers' = [Answers EXCEPT ![t] = Settled(t)']
    BY <1>1, <1>2, NobodyWaits, OwnAnswer DEF Unsettled, OutsideCall
  <2> QED
    BY <2>1, <2>2 DEF Answers
<1>4. Runs' = Runs
  BY <1>1, <1>2, SameRuns DEF Flying, OutsideCall
<1> QED
  BY <1>1, <1>3, <1>4 DEF Memo!memoVars

-----------------------------------------------------------------------------
(* A call that missed: it finds the answer, joins a run, or makes one. *)

\* Whoever has missed and not yet joined or run has no answer, and asks.
LEMMA RegisteringAsks ==
  ASSUME CacheInv, NEW t \in Threads, pc[t] = "registering"
  PROVE  /\ flight[t] \in FlightKey /\ waitOn[t] = NoThread /\ Settled(t) = Pending
         /\ t \in Memo!Askers(flight[t])
<1>1. flight[t] \in FlightKey /\ waitOn[t] = NoThread /\ outcome[t] = Pending
  BY DEF CacheInv, TypeOK, CallInv, Flying
<1>2. Settled(t) = Pending
  BY <1>1, SettledCases
<1> QED
  BY <1>1, <1>2, SameData DEF Memo!Askers, Answers

\* The second look recalls the stored answer.
LEMMA FindStep ==
  ASSUME CacheInv, NEW t \in Threads, FindStored(t)
  PROVE  Memo!Recall(t, flight[t])
<1> DEFINE f == flight[t]
<1>1. /\ pc[t] = "registering" /\ pc' = [pc EXCEPT ![t] = "returned"]
      /\ outcome' = [outcome EXCEPT ![t] = entries[f]]
      /\ UNCHANGED <<entries, inFlight, flight, waitOn>>
      /\ entries[f] # Nothing
  BY DEF FindStored, getUnlocked, Goto, Answer
<1>2. pc \in [Threads -> Steps] /\ outcome \in [Threads -> Outcomes]
  BY DEF CacheInv, TypeOK
<1>3. f \in FlightKey /\ entries[f] \in Decision /\ waitOn[t] = NoThread
  BY <1>1, RegisteringAsks DEF CacheInv, TypeOK, Entries
<1>4. Answers' = [Answers EXCEPT ![t] = entries[f]]
  <2>1. Settled(t)' = entries[f]
    BY <1>1, <1>2, <1>3 DEF Settled
  <2> QED
    BY <1>1, <1>2, <2>1, NobodyWaits, OwnAnswer DEF Unsettled
<1>5. Runs' = Runs
  BY <1>1, <1>2, SameRuns DEF Flying
<1> QED
  BY <1>1, <1>4, <1>5, RegisteringAsks, SameData DEF Memo!Recall

(***************************************************************************)
(* Joining a flight whose owner has stored its answer takes the answer on  *)
(* offer; joining one that is still running changes nothing yet.           *)
(***************************************************************************)
LEMMA JoinStep ==
  ASSUME CacheInv, NEW t \in Threads, JoinFlight(t)
  PROVE  Memo!Recall(t, flight[t]) \/ UNCHANGED Memo!memoVars
<1> DEFINE f == flight[t]
           o == inFlight[f]
<1>1. /\ pc[t] = "registering" /\ pc' = [pc EXCEPT ![t] = "joining"]
      /\ outcome' = [outcome EXCEPT ![t] = promise[o]]
      /\ waitOn' = [waitOn EXCEPT ![t] = o]
      /\ UNCHANGED <<entries, inFlight, flight>>
      /\ o # NoThread
  BY DEF JoinFlight, Goto, Answer
<1>2. /\ pc \in [Threads -> Steps] /\ outcome \in [Threads -> Outcomes]
      /\ waitOn \in [Threads -> Threads \cup {NoThread}]
  BY DEF CacheInv, TypeOK
<1>3. f \in FlightKey /\ Settled(t) = Pending /\ t \in Memo!Askers(f)
  BY <1>1, RegisteringAsks
<1>4. o \in Threads \ {t} /\ pc[o] \in Flying
  BY <1>1, <1>3 DEF CacheInv, TypeOK, FlightInv, Flying
<1>5. Answers' = [Answers EXCEPT ![t] = Settled(t)']
  BY <1>1, <1>2, NobodyWaits, OwnAnswer DEF Unsettled
<1>6. Runs' = Runs
  BY <1>1, <1>2, SameRuns DEF Flying
<1>7. pc'[o] = pc[o] /\ outcome'[o] = outcome[o] /\ pc'[t] = "joining" /\ waitOn'[t] = o
      /\ outcome'[t] = promise[o]
  BY <1>1, <1>2, <1>4
<1>8. CASE pc[o] \in {"computing", "storing", "dropping"}
  <2>1. promise[o] = Pending
    BY <1>4, <1>8 DEF CacheInv, OutcomeInv
  <2>2. Settled(t)' = Pending
    BY <1>7, <1>8, <2>1 DEF Settled, Pending
  <2>3. Answers' = Answers
    BY <1>3, <1>5, <2>2 DEF Answers
  <2> QED
    BY <1>1, <1>6, <2>3 DEF Memo!memoVars
<1>9. CASE pc[o] \in {"fulfilling", "retiring"}
  <2>1. outcome[o] \in Decision /\ Runs[f] = outcome[o]
    BY <1>3, <1>4, <1>9, RunCases DEF CacheInv, OutcomeInv
  <2>2. promise[o] \in {Pending, outcome[o]} /\ (pc[o] = "retiring" => promise[o] = outcome[o])
    BY <1>4, <1>9 DEF CacheInv, OutcomeInv
  <2>3. Settled(t)' = outcome[o]
    <3>1. CASE promise[o] = Pending
      <4>1. pc[o] = "fulfilling"
        BY <1>9, <2>1, <2>2, <3>1 DEF Pending, Decision
      <4> QED
        BY <1>4, <1>7, <4>1, <3>1, NoneAssumption DEF Settled
    <3>2. CASE promise[o] = outcome[o] /\ promise[o] # Pending
      BY <1>7, <3>2 DEF Settled
    <3> QED
      BY <2>2, <3>1, <3>2
  <2> QED
    BY <1>1, <1>3, <1>5, <1>6, <2>1, <2>3, SameData DEF Memo!Recall
<1> QED
  BY <1>4, <1>8, <1>9 DEF Flying

\* Owning the flight starts the run.
LEMMA OwnStep ==
  ASSUME CacheInv, NEW t \in Threads, OwnFlight(t)
  PROVE  Memo!Start(flight[t])
<1> DEFINE f == flight[t]
<1>1. /\ pc[t] = "registering" /\ pc' = [pc EXCEPT ![t] = "computing"]
      /\ inFlight' = [inFlight EXCEPT ![f] = t]
      /\ UNCHANGED <<entries, flight, outcome, waitOn>>
      /\ entries[f] = Nothing /\ inFlight[f] = NoThread
  BY DEF OwnFlight, getUnlocked, Goto
<1>2. /\ pc \in [Threads -> Steps] /\ inFlight \in [FlightKey -> Threads \cup {NoThread}]
  BY DEF CacheInv, TypeOK
<1>3. f \in FlightKey /\ Settled(t) = Pending /\ t \in Memo!Askers(f)
  BY <1>1, RegisteringAsks
<1>4. Answers' = Answers
  <2>1. Answers' = [Answers EXCEPT ![t] = Settled(t)']
    BY <1>1, <1>2, NobodyWaits, OwnAnswer DEF Unsettled
  <2>2. Settled(t)' = Pending
    BY <1>1, <1>2, RegisteringAsks DEF Settled
  <2> QED
    BY <1>3, <2>1, <2>2 DEF Answers
<1>5. Runs[f] = "Idle"
  BY <1>1, <1>3, RunCases
<1>6. Runs' = [Runs EXCEPT ![f] = "Running"]
  <2>1. RunOf(t)' = "Running"
    BY <1>1, <1>2 DEF RunOf
  <2>2. ASSUME NEW g \in FlightKey, g # f, inFlight[g] # NoThread
        PROVE  RunOf(inFlight[g])' = RunOf(inFlight[g]) /\ inFlight'[g] = inFlight[g]
    <3>1. inFlight[g] \in Threads /\ inFlight[g] # t
      BY <1>1, <1>2, <2>2 DEF CacheInv, FlightInv, Flying
    <3> QED
      BY <1>1, <1>2, <2>2, <3>1 DEF RunOf
  <2> QED
    BY <1>1, <1>2, <1>3, <2>1, <2>2, NoneAssumption DEF Runs
<1> QED
  BY <1>1, <1>3, <1>4, <1>5, <1>6, SameData DEF Memo!Start, Memo!SetRun, Memo!Idle, Memo!Running

\* Counting oneself as coalesced, and waking up, change no answer.
LEMMA WaitingStep ==
  ASSUME CacheInv, NEW t \in Threads, Join(t) \/ Await(t)
  PROVE  UNCHANGED Memo!memoVars
<1>1. /\ pc[t] \in {"joining", "waiting"}
      /\ \E step \in {"waiting", "returned"} : pc' = [pc EXCEPT ![t] = step]
      /\ UNCHANGED <<entries, inFlight, flight, outcome, waitOn>>
  BY DEF Join, Await, Goto
<1>2. pc \in [Threads -> Steps]
  BY DEF CacheInv, TypeOK
<1>3. Answers' = Answers
  <2>1. Settled(t)' = Settled(t)
    <3>1. outcome[t] = Pending => waitOn[t] # t
      BY <1>1 DEF CacheInv, NoOrphanedWait, Unsettled
    <3> QED
      BY <1>1, <1>2, <3>1 DEF Settled
  <2>2. Answers' = [Answers EXCEPT ![t] = Settled(t)']
    BY <1>1, <1>2, NobodyWaits, OwnAnswer DEF Unsettled
  <2> QED
    BY <2>1, <2>2 DEF Answers
<1>4. Runs' = Runs
  BY <1>1, <1>2, SameRuns DEF Flying
<1> QED
  BY <1>1, <1>3, <1>4 DEF Memo!memoVars

-----------------------------------------------------------------------------
(* An owner's steps. *)

\* The key an owner flies, and whose flight it is.
LEMMA OwnersKey ==
  ASSUME CacheInv, NEW t \in Threads, pc[t] \in Flying
  PROVE  flight[t] \in FlightKey /\ inFlight[flight[t]] = t /\ waitOn[t] = NoThread
  BY DEF CacheInv, TypeOK, FlightInv, CallInv, Flying

\* compute's end, and an exception on the way to the store, settle nothing.
LEMMA RunningStep ==
  ASSUME CacheInv, NEW t \in Threads, Throw(t) \/ \E d \in Decision : Compute(t, d)
  PROVE  UNCHANGED Memo!memoVars
<1>1. /\ pc[t] \in {"computing", "storing"}
      /\ \E step \in {"storing", "dropping"} : pc' = [pc EXCEPT ![t] = step]
      /\ \A u \in Threads \ {t} : outcome'[u] = outcome[u]
      /\ UNCHANGED <<entries, inFlight, flight, waitOn>>
  BY DEF Throw, Compute, Goto, Answer, CacheInv, TypeOK
<1>2. pc \in [Threads -> Steps] /\ waitOn[t] = NoThread
  BY <1>1, OwnersKey DEF CacheInv, TypeOK, Flying
<1>3. pc'[t] \in {"storing", "dropping"} /\ waitOn'[t] = NoThread
  BY <1>1, <1>2
<1>4. Answers' = Answers
  <2>1. Settled(t)' = Pending /\ Settled(t) = Pending
    BY <1>1, <1>2, <1>3 DEF Settled
  <2>2. Answers' = [Answers EXCEPT ![t] = Settled(t)']
    BY <1>1, <1>2, <1>3, OwnAnswer
  <2> QED
    BY <2>1, <2>2 DEF Answers
<1>5. Runs' = Runs
  <2>1. RunOf(t)' = RunOf(t)
    BY <1>1, <1>3 DEF RunOf
  <2> QED
    BY <1>1, <1>2, <2>1, SameRuns
<1> QED
  BY <1>1, <1>4, <1>5 DEF Memo!memoVars

(***************************************************************************)
(* The step that settles a run, and whose waiters are then served with the *)
(* owner: both had asked, and neither had an answer.                       *)
(***************************************************************************)
LEMMA ServedStep ==
  ASSUME CacheInv, NEW t \in Threads, pc[t] \in {"storing", "dropping"},
         NEW step \in {"fulfilling", "rejecting"}, pc' = [pc EXCEPT ![t] = step],
         UNCHANGED <<flight, outcome, waitOn>>
  PROVE  Memo!AnswerSome(flight[t], outcome[t])
<1> DEFINE served == {t} \cup Waiters(t)
<1>1. pc \in [Threads -> Steps] /\ waitOn[t] = NoThread /\ Settled(t) = Pending
  BY OwnersKey, SettledCases DEF CacheInv, TypeOK, Flying
<1>2. served \in (SUBSET Memo!Askers(flight[t])) \ {{}}
  <2>1. ASSUME NEW u \in Waiters(t) PROVE u \in Threads /\ flight[u] = flight[t] /\ Settled(u) = Pending
    BY <2>1, WaitersAsk, SettledCases DEF Waiters
  <2>2. \A u \in Threads : flight[u] = flight[t] /\ Settled(u) = Pending => u \in Memo!Askers(flight[t])
    BY SameData DEF Memo!Askers, Answers
  <2>3. served \subseteq Memo!Askers(flight[t]) /\ t \in served
    BY <1>1, <2>1, <2>2
  <2>4. served # {}
    BY <2>3
  <2> HIDE DEF served
  <2> QED
    BY <2>3, <2>4
<1>3. ASSUME NEW u \in Threads
      PROVE  Settled(u)' = IF u \in served THEN outcome[t] ELSE Settled(u)
  <2>1. CASE u = t
    BY <1>1, <2>1 DEF Settled
  <2>2. CASE u \in Waiters(t)
    <3>1. u # t /\ pc[u] \in {"joining", "waiting"} /\ waitOn[u] = t /\ outcome[u] = Pending
      BY <2>2, WaitersAsk DEF Waiters
    <3>2. pc'[u] = pc[u] /\ pc'[t] = step
      BY <1>1, <3>1
    <3> QED
      BY <2>2, <3>1, <3>2, NoneAssumption DEF Settled
  <2>3. CASE u \notin served
    <3>1. u # t /\ (outcome[u] # Pending \/ waitOn[u] # t)
      BY <2>3 DEF Waiters
    <3>2. pc'[u] = pc[u] /\ (waitOn[u] # NoThread /\ waitOn[u] # t => pc'[waitOn[u]] = pc[waitOn[u]])
      BY <1>1, <3>1 DEF CacheInv, TypeOK
    <3> QED
      BY <2>3, <3>1, <3>2 DEF Settled
  <2> QED
    BY <2>1, <2>2, <2>3
<1>4. Answers' = [u \in Threads |-> IF u \in served THEN outcome[t] ELSE Answers[u]]
  BY <1>3 DEF Answers
<1> QED
  BY <1>2, <1>4 DEF Memo!AnswerSome

\* The step that changes the run of t's key alone.
LEMMA OwnRun ==
  ASSUME CacheInv, NEW t \in Threads, pc[t] \in Flying,
         inFlight' \in {inFlight, [inFlight EXCEPT ![flight[t]] = NoThread]},
         \A u \in Threads \ {t} : pc'[u] = pc[u], UNCHANGED outcome
  PROVE  Runs' = [Runs EXCEPT ![flight[t]] = IF inFlight' = inFlight THEN RunOf(t)' ELSE "Idle"]
<1> DEFINE f == flight[t]
<1>1. f \in FlightKey /\ inFlight[f] = t /\ inFlight \in [FlightKey -> Threads \cup {NoThread}]
  BY OwnersKey DEF CacheInv, TypeOK
<1>2. ASSUME NEW g \in FlightKey, g # f, inFlight[g] # NoThread
      PROVE  RunOf(inFlight[g])' = RunOf(inFlight[g]) /\ inFlight'[g] = inFlight[g]
  <2> DEFINE o == inFlight[g]
  <2>1. o \in Threads /\ o # t /\ pc[o] \in Flying
    BY <1>1, <1>2 DEF CacheInv, FlightInv
  <2>2. inFlight'[g] = o
    BY <1>1, <1>2
  <2>3. pc'[o] = pc[o] /\ outcome'[o] = outcome[o]
    BY <2>1
  <2> QED
    BY <2>1, <2>2, <2>3 DEF RunOf, Flying
<1>3. ASSUME NEW g \in FlightKey, g # f PROVE Runs'[g] = Runs[g]
  <2>1. CASE inFlight[g] = NoThread
    BY <1>1, <1>3, <2>1 DEF Runs
  <2>2. CASE inFlight[g] # NoThread
    BY <1>2, <1>3, <2>2 DEF Runs
  <2> QED
    BY <2>1, <2>2
<1>4. Runs'[f] = IF inFlight' = inFlight THEN RunOf(t)' ELSE "Idle"
  BY <1>1, NoneAssumption DEF Runs
<1> QED
  BY <1>1, <1>3, <1>4 DEF Runs

\* Storing the answer finishes the run.
LEMMA FinishStep ==
  ASSUME CacheInv, NEW t \in Threads, Store(t)
  PROVE  Memo!Finish(flight[t], outcome[t])
<1> DEFINE f == flight[t]
<1>1. /\ pc[t] = "storing" /\ pc' = [pc EXCEPT ![t] = "fulfilling"]
      /\ UNCHANGED <<inFlight, flight, outcome, waitOn>>
      /\ \E now \in Time : entries' = put(entries, f, outcome[t], now)
  BY DEF Store, Goto, Readings
<1>2. pc \in [Threads -> Steps]
  BY DEF CacheInv, TypeOK
<1>3. Runs[f] = "Running" /\ f \in FlightKey
  BY <1>1, OwnersKey, RunCases DEF Flying
<1>4. Runs' = [Runs EXCEPT ![f] = outcome[t]]
  <2>1. RunOf(t)' = outcome[t]
    BY <1>1, <1>2 DEF RunOf
  <2> QED
    BY <1>1, <1>2, <2>1, OwnRun DEF Flying
<1>5. Memo!AnswerSome(f, outcome[t])
  BY <1>1, ServedStep
<1> QED
  BY <1>1, <1>3, <1>4, <1>5, SameData DEF Memo!Finish, Memo!SetRun, Memo!Running

\* Erasing the flight of a failure ends the run, for good.
LEMMA FailStep ==
  ASSUME CacheInv, NEW t \in Threads, Drop(t)
  PROVE  Memo!Fail(flight[t])
<1> DEFINE f == flight[t]
<1>1. /\ pc[t] = "dropping" /\ pc' = [pc EXCEPT ![t] = "rejecting"]
      /\ inFlight' = [inFlight EXCEPT ![f] = NoThread]
      /\ UNCHANGED <<entries, flight, outcome, waitOn>>
      /\ outcome[t] = Failed
  BY DEF Drop, Goto, CacheInv, OutcomeInv
<1>2. pc \in [Threads -> Steps] /\ inFlight \in [FlightKey -> Threads \cup {NoThread}]
  BY DEF CacheInv, TypeOK
<1>3. Runs[f] = "Running" /\ f \in FlightKey /\ inFlight[f] = t
  BY <1>1, OwnersKey, RunCases DEF Flying
<1>4. Runs' = [Runs EXCEPT ![f] = "Idle"]
  <2>1. inFlight' # inFlight
    BY <1>1, <1>2, <1>3, NoneAssumption
  <2> QED
    BY <1>1, <1>2, <2>1, OwnRun DEF Flying
<1>5. Memo!AnswerSome(f, Failed)
  BY <1>1, ServedStep
<1> QED
  BY <1>1, <1>3, <1>4, <1>5, SameData DEF Memo!Fail, Memo!SetRun, Memo!Running, Memo!Idle

\* Erasing a fulfilled flight withdraws its result.
LEMMA WithdrawStep ==
  ASSUME CacheInv, NEW t \in Threads, Retire(t)
  PROVE  Memo!Withdraw(flight[t])
<1> DEFINE f == flight[t]
<1>1. /\ pc[t] = "retiring" /\ pc' = [pc EXCEPT ![t] = "returned"]
      /\ inFlight' = [inFlight EXCEPT ![f] = NoThread]
      /\ UNCHANGED <<entries, flight, outcome, waitOn>>
  BY DEF Retire, Goto
<1>2. pc \in [Threads -> Steps] /\ inFlight \in [FlightKey -> Threads \cup {NoThread}]
  BY DEF CacheInv, TypeOK
<1>3. Runs[f] \in Decision /\ f \in FlightKey /\ inFlight[f] = t /\ waitOn[t] = NoThread
  BY <1>1, OwnersKey, RunCases DEF Flying
<1>4. Runs' = [Runs EXCEPT ![f] = "Idle"]
  <2>1. inFlight' # inFlight
    BY <1>1, <1>2, <1>3, NoneAssumption
  <2> QED
    BY <1>1, <1>2, <2>1, OwnRun DEF Flying
<1>5. Answers' = Answers
  <2>1. Settled(t)' = Settled(t)
    BY <1>1, <1>2, <1>3 DEF Settled
  <2>2. Answers' = [Answers EXCEPT ![t] = Settled(t)']
    BY <1>1, <1>2, NobodyWaits, OwnAnswer DEF Unsettled
  <2> QED
    BY <2>1, <2>2 DEF Answers
<1> QED
  BY <1>1, <1>3, <1>4, <1>5, SameData DEF Memo!Withdraw, Memo!SetRun, Memo!Idle

\* Setting the promise only carries news that is settled.
LEMMA SettleStep ==
  ASSUME CacheInv, NEW t \in Threads, Fulfil(t) \/ Reject(t)
  PROVE  UNCHANGED Memo!memoVars
<1>1. /\ \/ pc[t] = "fulfilling" /\ pc' = [pc EXCEPT ![t] = "retiring"]
         \/ pc[t] = "rejecting" /\ pc' = [pc EXCEPT ![t] = "returned"]
      /\ outcome' = [u \in Threads |-> IF u \in Waiters(t) THEN outcome[t] ELSE outcome[u]]
      /\ UNCHANGED <<entries, inFlight, flight, waitOn>>
  BY DEF Fulfil, Reject, Settle, Goto, Waiters
<1>2. pc \in [Threads -> Steps] /\ outcome[t] # Pending /\ waitOn[t] = NoThread
  BY <1>1 DEF CacheInv, TypeOK, OutcomeInv, CallInv, Pending, Failed, Decision
<1>3. t \notin Waiters(t) /\ outcome'[t] = outcome[t]
  BY <1>1, <1>2 DEF Waiters
<1>4. ASSUME NEW u \in Threads PROVE Settled(u)' = Settled(u)
  <2>1. CASE u = t
    BY <1>1, <1>2, <1>3, <2>1 DEF Settled
  <2>2. CASE u \in Waiters(t)
    <3>1. pc[u] \in {"joining", "waiting"} /\ u # t /\ Settled(u) = outcome[t]
      BY <1>1, <2>2, WaitersAsk, SettledCases
    <3>2. pc'[u] = pc[u] /\ outcome'[u] = outcome[t]
      BY <1>1, <1>2, <2>2, <3>1
    <3> QED
      BY <1>2, <3>1, <3>2 DEF Settled
  <2>3. CASE u # t /\ u \notin Waiters(t)
    <3>1. pc'[u] = pc[u] /\ outcome'[u] = outcome[u]
      BY <1>1, <1>2, <2>3
    <3>2. CASE outcome[u] = Pending /\ waitOn[u] # NoThread
      <4>1. /\ waitOn[u] \in Threads /\ waitOn[u] # t /\ pc[waitOn[u]] \in Unsettled
            /\ waitOn[waitOn[u]] = NoThread
        BY <2>3, <3>2 DEF CacheInv, CallInv, NoOrphanedWait, TypeOK, Waiters, Unsettled
      <4>2. pc'[waitOn[u]] = pc[waitOn[u]] /\ outcome'[waitOn[u]] = outcome[waitOn[u]]
        BY <1>1, <1>2, <4>1, NoneAssumption DEF Waiters
      <4> QED
        BY <1>1, <3>1, <4>2 DEF Settled
    <3>3. CASE ~(outcome[u] = Pending /\ waitOn[u] # NoThread)
      BY <1>1, <3>1, <3>3 DEF Settled
    <3> QED
      BY <3>2, <3>3
  <2> QED
    BY <2>1, <2>2, <2>3
<1>5. Answers' = Answers
  BY <1>4 DEF Answers
<1>6. Runs' = Runs
  <2>1. \A u \in Threads \ {t} : pc'[u] = pc[u] /\ (pc[u] \in Flying => outcome'[u] = outcome[u])
    BY <1>1, <1>2, WaitersAsk DEF Flying
  <2>2. pc[t] \in Flying => RunOf(t)' = RunOf(t)
    BY <1>1, <1>2, <1>3 DEF RunOf, Flying
  <2> QED
    BY <1>1, <2>1, <2>2, SameRuns
<1> QED
  BY <1>1, <1>5, <1>6 DEF Memo!memoVars

\* A call returns with the answer it was given.
LEMMA ReturnStep ==
  ASSUME CacheInv, NEW t \in Threads, Return(t)
  PROVE  Memo!Return(t)
<1>1. /\ pc[t] = "returned" /\ pc' = [pc EXCEPT ![t] = "idle"]
      /\ flight' = [flight EXCEPT ![t] = NoFlight]
      /\ outcome' = [outcome EXCEPT ![t] = Pending]
      /\ waitOn' = [waitOn EXCEPT ![t] = NoThread]
      /\ UNCHANGED <<entries, inFlight>>
  BY DEF Return, Goto
<1>2. /\ pc \in [Threads -> Steps] /\ outcome \in [Threads -> Outcomes]
      /\ waitOn \in [Threads -> Threads \cup {NoThread}]
  BY DEF CacheInv, TypeOK
<1>3. Answers[t] # Pending
  BY <1>1, SettledCases DEF CacheInv, CallInv, Answers
<1>4. Answers' = [Answers EXCEPT ![t] = Pending]
  <2>1. Settled(t)' = Pending
    BY <1>1, <1>2 DEF Settled
  <2> QED
    BY <1>1, <1>2, <2>1, NobodyWaits, OwnAnswer DEF Unsettled
<1>5. Runs' = Runs
  BY <1>1, <1>2, SameRuns DEF Flying
<1> QED
  BY <1>1, <1>3, <1>4, <1>5, SameData DEF Memo!Return

-----------------------------------------------------------------------------
\* Every step is the memo's, or a stutter.
LEMMA MemoStep == CacheInv /\ [Next]_vars => [Memo!Next]_Memo!memoVars
<1> SUFFICES ASSUME CacheInv, [Next]_vars PROVE [Memo!Next]_Memo!memoVars
  OBVIOUS
<1>1. [key : PutKeys, snapshot : Time] \subseteq FlightKey
  BY PutKeysAssumption DEF FlightKey
<1>2. ASSUME NEW t \in Threads, Call(t) PROVE [Memo!Next]_Memo!memoVars
  <2>1. ASSUME NEW f \in FlightKey, FastPathHit(t, f) PROVE Memo!Next
    BY <2>1, LookStep, SameData DEF Memo!Next
  <2>2. ASSUME NEW f \in FlightKey, FastPathMiss(t, f) PROVE Memo!Next
    BY <2>2, AskStep, SameData DEF Memo!Next
  <2>3. ASSUME NEW f \in [key : PutKeys, snapshot : Time], Get(t, f) PROVE Memo!Next
    BY <1>1, <2>3, LookStep, SameData DEF Memo!Next
  <2>4. ASSUME NEW f \in [key : PutKeys, snapshot : Time], NEW d \in Decision, Put(t, f, d)
        PROVE  Memo!Next
    BY <1>1, <2>4, MemoPutStep, SameData DEF Memo!Next
  <2>5. CASE ResetHits(t)
    BY <2>5, ResetStep
  <2> QED
    BY <1>2, <2>1, <2>2, <2>3, <2>4, <2>5 DEF Call
<1>3. ASSUME NEW t \in Threads, Proceed(t) PROVE [Memo!Next]_Memo!memoVars
  <2>1. pc[t] \in Flying \cup {"registering"} => flight[t] \in FlightKey
    BY DEF CacheInv, TypeOK
  <2>2. CASE FindStored(t) \/ JoinFlight(t) \/ OwnFlight(t)
    <3>1. pc[t] = "registering"
      BY <2>2 DEF FindStored, JoinFlight, OwnFlight
    <3>2. Memo!Recall(t, flight[t]) \/ Memo!Start(flight[t]) \/ UNCHANGED Memo!memoVars
      BY <2>2, FindStep, JoinStep, OwnStep
    <3> QED
      BY <2>1, <3>1, <3>2, SameData DEF Memo!Next
  <2>3. CASE Join(t) \/ Await(t)
    BY <2>3, WaitingStep
  <2>4. CASE Throw(t) \/ \E d \in Decision : Compute(t, d)
    BY <2>4, RunningStep
  <2>5. CASE Store(t)
    <3>1. pc[t] = "storing" /\ outcome[t] \in Decision
      BY <2>5 DEF Store, CacheInv, OutcomeInv
    <3> QED
      BY <2>1, <2>5, <3>1, FinishStep, SameData DEF Memo!Next, Flying
  <2>6. CASE Fulfil(t) \/ Reject(t)
    BY <2>6, SettleStep
  <2>7. CASE Retire(t) \/ Drop(t)
    <3>1. pc[t] \in Flying
      BY <2>7 DEF Retire, Drop, Flying
    <3> QED
      BY <2>1, <2>7, <3>1, WithdrawStep, FailStep, SameData DEF Memo!Next
  <2>8. CASE Return(t)
    BY <2>8, ReturnStep DEF Memo!Next
  <2>9. CASE ResetMisses(t) \/ ResetCoalesced(t)
    BY <2>9, ResetStep
  <2> QED
    BY <1>3, <2>2, <2>3, <2>4, <2>5, <2>6, <2>7, <2>8, <2>9 DEF Proceed, Advance
<1>4. CASE UNCHANGED vars
  BY <1>4 DEF vars, callVars, Memo!memoVars, Answers, Settled, Runs, RunOf
<1> QED
  BY <1>2, <1>3, <1>4 DEF Next

(***************************************************************************)
(* The cache implements the memo: every answer is the table's or a run's   *)
(* for exactly the identity and snapshot asked about.                      *)
(***************************************************************************)
THEOREM ImplementsMemoHolds == Spec => ImplementsMemo
<1>1. Init => Memo!Init
  <2>1. Init => Runs = [f \in FlightKey |-> "Idle"] /\ Answers = [t \in Threads |-> Pending]
    BY DEF Init, Runs, Answers, Settled
  <2> QED
    BY <2>1, SameData DEF Init, Memo!Init, Memo!Idle
<1> QED
  BY <1>1, MemoStep, CacheInvariant, PTL DEF Spec, ImplementsMemo, Memo!Spec

-----------------------------------------------------------------------------
(* Arithmetic of counters that wrap. *)

\* Quotient and remainder.
LEMMA DivMod ==
  ASSUME NEW x \in Nat, NEW m \in Nat \ {0}
  PROVE  /\ x \div m \in Nat /\ x % m \in Nat /\ x % m < m
         /\ x = (x \div m) * m + (x % m)
<1>1. x % m \in 0 .. m - 1
  BY SMT
<1>2. x \div m \in Nat
  BY SMT
<1>3. x = (x \div m) * m + (x % m)
  BY SMT
<1> QED
  BY <1>1, <1>2, <1>3

\* A natural number has one remainder.
LEMMA ModUnique ==
  ASSUME NEW m \in Nat \ {0}, NEW q \in Nat, NEW r \in 0 .. m - 1
  PROVE  (q * m + r) % m = r
<1> DEFINE x == q * m + r
           p == x \div m
           s == x % m
<1>1. q * m \in Nat /\ x \in Nat
  BY SMT
<1>2. p \in Nat /\ s \in Nat /\ s < m /\ x = p * m + s /\ x = q * m + r
  BY <1>1, DivMod
<1> HIDE DEF x, p, s
<1>3. ~(p < q)
  <2>1. SUFFICES ASSUME p < q PROVE FALSE
    OBVIOUS
  <2>2. PICK k \in Nat : q = p + 1 + k
    <3>1. q - p - 1 \in Nat /\ q = p + 1 + (q - p - 1)
      BY <1>2, <2>1
    <3> QED
      BY <3>1
  <2>3. q * m = p * m + m + k * m /\ k * m \in Nat /\ p * m \in Nat
    BY <1>2, <2>2, SMT
  <2> QED
    BY <1>2, <2>3, SMT
<1>4. ~(q < p)
  <2>1. SUFFICES ASSUME q < p PROVE FALSE
    OBVIOUS
  <2>2. PICK k \in Nat : p = q + 1 + k
    <3>1. p - q - 1 \in Nat /\ p = q + 1 + (p - q - 1)
      BY <1>2, <2>1
    <3> QED
      BY <3>1
  <2>3. p * m = q * m + m + k * m /\ k * m \in Nat /\ q * m \in Nat
    BY <1>2, <2>2, SMT
  <2> QED
    BY <1>2, <2>3, SMT
<1>5. p = q /\ q * m \in Nat
  BY <1>1, <1>2, <1>3, <1>4
<1>6. s = r
  BY <1>2, <1>5
<1> QED
  BY <1>6 DEF s, x

\* A counter may wrap before or after something is added to it.
LEMMA ModAdd ==
  ASSUME NEW m \in Nat \ {0}, NEW x \in Nat, NEW y \in Nat
  PROVE  ((x % m) + y) % m = (x + y) % m
<1> DEFINE q == x \div m
           a == x % m
           p == (a + y) \div m
           b == (a + y) % m
<1>1. q \in Nat /\ a \in Nat /\ x = q * m + a
  BY DivMod
<1>2. a + y \in Nat
  BY <1>1
<1>3. p \in Nat /\ b \in Nat /\ b < m /\ a + y = p * m + b
  BY <1>2, DivMod
<1> HIDE DEF q, a, p, b
<1>4. x + y = (q + p) * m + b /\ q + p \in Nat /\ b \in 0 .. m - 1
  <2>1. (q + p) * m = q * m + p * m /\ q * m \in Nat /\ p * m \in Nat
    BY <1>1, <1>3, SMT
  <2> QED
    BY <1>1, <1>3, <2>1
<1>5. (x + y) % m = b
  BY <1>4, ModUnique
<1> QED
  BY <1>5 DEF a, b

\* The four ways one unit is carried from a term of the sum to another, or into it.
LEMMA Carries ==
  ASSUME NEW c \in Nat, NEW r \in Nat, NEW n \in Nat
  PROVE  /\ Bump((c + r + n) % CounterModulus) = (c + r + (n + 1)) % CounterModulus
         /\ Bump((c + r + n) % CounterModulus) = (c + Bump(r) + n) % CounterModulus
         /\ (c + Bump(r) + n) % CounterModulus = (c + r + (n + 1)) % CounterModulus
         /\ (Bump(c) + r + n) % CounterModulus = (c + r + (n + 1)) % CounterModulus
<1> DEFINE m == CounterModulus
<1>0. /\ m \in Nat \ {0} /\ 1 \in Nat
      /\ c + r + n \in Nat /\ c + n \in Nat /\ r + n \in Nat /\ r + 1 \in Nat /\ c + 1 \in Nat
  BY ModulusAssumption
<1>b. (c + 1) % m \in Nat /\ (r + 1) % m \in Nat
  BY <1>0, DivMod
<1> HIDE DEF m
<1>1. (((c + r + n) % m) + 1) % m = ((c + r + n) + 1) % m
  BY <1>0, ModAdd
<1>2. (((r + 1) % m) + (c + n)) % m = ((r + 1) + (c + n)) % m
  BY <1>0, ModAdd
<1>3. (((c + 1) % m) + (r + n)) % m = ((c + 1) + (r + n)) % m
  BY <1>0, ModAdd
<1>4. /\ (c + r + n) + 1 = c + r + (n + 1)
      /\ (r + 1) + (c + n) = c + r + (n + 1)
      /\ (c + 1) + (r + n) = c + r + (n + 1)
      /\ ((r + 1) % m) + (c + n) = c + ((r + 1) % m) + n
      /\ ((c + 1) % m) + (r + n) = ((c + 1) % m) + r + n
  BY <1>b
<1> QED
  BY <1>1, <1>2, <1>3, <1>4 DEF Bump, m

-----------------------------------------------------------------------------
(* What each step does to the sum.  A miss is outstanding until it is       *)
(* tallied as coalesced or resolved.                                       *)

Outstanding == {t \in Threads : pc[t] \in {"registering", "joining"}}

Clearing == {"clearingMisses", "clearingCoalesced"}

NoneResolves == \A t \in Threads : ~Resolves(t)

Quiet == Outstanding' = Outstanding /\ UNCHANGED <<misses, coalesced>> /\ NoneResolves

Missed(t) ==
  /\ t \notin Outstanding /\ Outstanding' = Outstanding \cup {t}
  /\ misses' = Bump(misses) /\ UNCHANGED coalesced /\ NoneResolves

MissReturned(t) ==
  /\ Outstanding' = Outstanding /\ Resolves(t)
  /\ misses' = Bump(misses) /\ UNCHANGED coalesced

Resolved(t) ==
  /\ t \in Outstanding /\ Outstanding' = Outstanding \ {t} /\ Resolves(t)
  /\ UNCHANGED <<misses, coalesced>>

Coalesced(t) ==
  /\ t \in Outstanding /\ Outstanding' = Outstanding \ {t} /\ NoneResolves
  /\ UNCHANGED misses /\ coalesced' = Bump(coalesced)

Cleared(t) == Outstanding' = Outstanding /\ (pc'[t] = "clearingMisses" \/ pc[t] \in Clearing)

\* No step does anything else to the sum.
LEMMA Accounts ==
  ASSUME CacheInv, [Next]_vars
  PROVE  /\ Quiet \/ \E t \in Threads : Missed(t) \/ MissReturned(t) \/ Resolved(t) \/ Coalesced(t) \/ Cleared(t)
         /\ \A t \in Threads : pc'[t] = "clearingCoalesced" => pc[t] \in Clearing
<1> DEFINE Accounted ==
             Quiet \/ \E t \in Threads : Missed(t) \/ MissReturned(t) \/ Resolved(t) \/ Coalesced(t) \/ Cleared(t)
           Orderly == \A t \in Threads : pc'[t] = "clearingCoalesced" => pc[t] \in Clearing
<1> SUFFICES Accounted /\ Orderly
  OBVIOUS
<1> USE DEF Goto
<1>0. TypeOK /\ pc \in [Threads -> Steps]
  BY DEF CacheInv, TypeOK
<1>m. ASSUME NEW t \in Threads, NEW step, pc' = [pc EXCEPT ![t] = step]
      PROVE  pc'[t] = step /\ \A u \in Threads \ {t} : pc'[u] = pc[u] /\ ~Resolves(u)
  BY <1>0, <1>m DEF Resolves
<1>1. ASSUME NEW t \in Threads, NEW f \in FlightKey, FastPathMiss(t, f) PROVE Accounted /\ Orderly
  <2>1. /\ pc[t] = "idle" /\ pc'[t] = "registering" /\ misses' = Bump(misses) /\ UNCHANGED coalesced
        /\ \A u \in Threads \ {t} : pc'[u] = pc[u] /\ ~Resolves(u)
    BY <1>1, <1>m DEF FastPathMiss, Lookup
  <2>2. Missed(t)
    BY <2>1 DEF Missed, Outstanding, NoneResolves, Resolves
  <2> QED
    BY <2>1, <2>2 DEF Clearing
<1>2. ASSUME NEW t \in Threads, NEW f \in FlightKey, FastPathHit(t, f) \/ Get(t, f)
      PROVE  Accounted /\ Orderly
  <2>1. /\ pc[t] = "idle" /\ pc'[t] = "returned" /\ UNCHANGED coalesced
        /\ outcome'[t] = getUnlocked(entries, f)
        /\ misses' = IF getUnlocked(entries, f) # Nothing THEN misses ELSE Bump(misses)
        /\ \A u \in Threads \ {t} : pc'[u] = pc[u] /\ ~Resolves(u)
    BY <1>0, <1>2, <1>m DEF FastPathHit, Get, Lookup, Answer, TypeOK
  <2>2. Outstanding' = Outstanding
    BY <2>1 DEF Outstanding
  <2>3. CASE getUnlocked(entries, f) # Nothing
    BY <2>1, <2>2, <2>3 DEF Quiet, NoneResolves, Resolves, Clearing
  <2>4. CASE getUnlocked(entries, f) = Nothing
    <3>1. MissReturned(t)
      BY <2>1, <2>2, <2>4 DEF MissReturned, Resolves
    <3> QED
      BY <2>1, <3>1 DEF Clearing
  <2> QED
    BY <2>3, <2>4
<1>3. ASSUME NEW t \in Threads, NEW f \in FlightKey, NEW d \in Decision, Put(t, f, d)
      PROVE  Accounted /\ Orderly
  BY <1>3 DEF Put, callVars, counters, Quiet, Outstanding, NoneResolves, Resolves, Clearing
<1>4. ASSUME NEW t \in Threads, ResetHits(t) \/ ResetMisses(t) \/ ResetCoalesced(t)
      PROVE  Accounted /\ Orderly
  <2>1. /\ \A u \in Threads \ {t} : pc'[u] = pc[u]
        /\ \/ pc[t] = "idle" /\ pc'[t] = "clearingMisses"
           \/ pc[t] = "clearingMisses" /\ pc'[t] = "clearingCoalesced"
           \/ pc[t] = "clearingCoalesced" /\ pc'[t] = "idle"
    BY <1>4, <1>m DEF ResetHits, ResetMisses, ResetCoalesced
  <2>2. Cleared(t)
    BY <2>1 DEF Cleared, Outstanding, Clearing
  <2> QED
    BY <2>1, <2>2 DEF Clearing
<1>5. ASSUME NEW t \in Threads, FindStored(t) \/ OwnFlight(t) PROVE Accounted /\ Orderly
  <2>1. /\ pc[t] = "registering" /\ pc'[t] \in {"returned", "computing"} /\ UNCHANGED <<misses, coalesced>>
        /\ \A u \in Threads \ {t} : pc'[u] = pc[u]
    BY <1>5, <1>m DEF FindStored, OwnFlight, counters
  <2>2. Resolved(t)
    BY <2>1 DEF Resolved, Outstanding, Resolves
  <2> QED
    BY <2>1, <2>2 DEF Clearing
<1>6. ASSUME NEW t \in Threads, Join(t) PROVE Accounted /\ Orderly
  <2>1. /\ pc[t] = "joining" /\ pc'[t] = "waiting" /\ UNCHANGED misses /\ coalesced' = Bump(coalesced)
        /\ \A u \in Threads \ {t} : pc'[u] = pc[u] /\ ~Resolves(u)
    BY <1>6, <1>m DEF Join
  <2>2. Coalesced(t)
    BY <2>1 DEF Coalesced, Outstanding, NoneResolves, Resolves
  <2> QED
    BY <2>1, <2>2 DEF Clearing
<1>7. ASSUME NEW t \in Threads, NEW d \in Decision,
             JoinFlight(t) \/ Await(t) \/ Compute(t, d) \/ Throw(t) \/ Store(t) \/ Fulfil(t) \/ Retire(t)
               \/ Drop(t) \/ Reject(t) \/ Return(t)
      PROVE  Accounted /\ Orderly
  <2>1. /\ UNCHANGED <<misses, coalesced>>
        /\ \A u \in Threads \ {t} : pc'[u] = pc[u] /\ ~Resolves(u)
        /\ pc'[t] \notin Clearing
        /\ \/ pc[t] = "registering" /\ pc'[t] = "joining"
           \/ pc[t] \notin {"idle", "registering", "joining"} /\ pc'[t] \notin {"registering", "joining"}
    BY <1>7, <1>m
       DEF JoinFlight, Await, Compute, Throw, Store, Fulfil, Retire, Drop, Reject, Return, counters, Clearing
  <2>2. Quiet
    BY <2>1 DEF Quiet, Outstanding, NoneResolves, Resolves
  <2> QED
    BY <2>1, <2>2 DEF Clearing
<1>8. ASSUME UNCHANGED vars PROVE Accounted /\ Orderly
  BY <1>8 DEF vars, callVars, counters, Quiet, Outstanding, NoneResolves, Resolves, Clearing
<1>9. [key : PutKeys, snapshot : Time] \subseteq FlightKey /\ "Allow" \in Decision
  BY PutKeysAssumption DEF FlightKey, Decision
<1> HIDE DEF Accounted, Orderly
<1> QED
  BY <1>1, <1>2, <1>3, <1>4, <1>5, <1>6, <1>7, <1>8, <1>9 DEF Next, Call, Proceed, Advance

\* Of the record: it counts resolutions until the first reset.
LEMMA RecordIs ==
  ASSUME cleared \in BOOLEAN, Record
  PROVE  /\ cleared' \in BOOLEAN
         /\ cleared => cleared'
         /\ \A t \in Threads : pc'[t] = "clearingMisses" => cleared'
         /\ cleared' => resolved' = 0
         /\ ~cleared' /\ NoneResolves => resolved' = resolved
         /\ ~cleared' /\ ~NoneResolves => resolved' = Bump(resolved)
  BY DEF Record, NoneResolves

-----------------------------------------------------------------------------
(***************************************************************************)
(* Finitely many misses are outstanding, whoever is inside resetCounters   *)
(* has been recorded, and the sum is right.                                *)
(***************************************************************************)
AuditInv ==
  /\ resolved \in Nat /\ cleared \in BOOLEAN
  /\ IsFiniteSet(Outstanding)
  /\ \A t \in Threads : pc[t] \in Clearing => cleared
  /\ MissesAccountedFor

\* Every step carries its unit from one term to another.
LEMMA AuditStep == CacheInv /\ AuditInv /\ [Next /\ Record]_auditVars => AuditInv'
<1> SUFFICES ASSUME CacheInv, AuditInv, [Next /\ Record]_auditVars PROVE AuditInv'
  OBVIOUS
<1>1. CASE UNCHANGED auditVars
  BY <1>1 DEF AuditInv, Outstanding, MissesAccountedFor, auditVars, vars, callVars, counters
<1>2. CASE Next /\ Record
  <2> DEFINE n == Cardinality(Outstanding)
             m == CounterModulus
  <2>1. /\ resolved \in Nat /\ coalesced \in Nat /\ n \in Nat
        /\ IsFiniteSet(Outstanding)
    BY FS_CardinalityType DEF AuditInv, CacheInv, TypeOK
  <2>2. /\ Quiet \/ \E t \in Threads : Missed(t) \/ MissReturned(t) \/ Resolved(t) \/ Coalesced(t) \/ Cleared(t)
        /\ \A t \in Threads : pc'[t] = "clearingCoalesced" => pc[t] \in Clearing
    BY <1>2, Accounts
  <2>3. /\ cleared' \in BOOLEAN
        /\ cleared => cleared'
        /\ \A t \in Threads : pc'[t] = "clearingMisses" => cleared'
        /\ cleared' => resolved' = 0
        /\ ~cleared' /\ NoneResolves => resolved' = resolved
        /\ ~cleared' /\ ~NoneResolves => resolved' = Bump(resolved)
    BY <1>2, RecordIs DEF AuditInv
  <2>4. resolved' \in Nat
    BY <2>1, <2>3, BumpType, ModulusAssumption
  <2>5. \A t \in Threads : pc'[t] \in Clearing => cleared'
    BY <2>2, <2>3 DEF AuditInv, Clearing
  <2>6. IsFiniteSet(Outstanding')
    <3>1. CASE \E t \in Threads : Outstanding' = Outstanding \cup {t}
      BY <2>1, <3>1, FS_AddElement
    <3>2. CASE \E t \in Threads : Outstanding' = Outstanding \ {t}
      BY <2>1, <3>2, FS_RemoveElement
    <3>3. CASE Outstanding' = Outstanding
      BY <2>1, <3>3
    <3> QED
      BY <2>2, <3>1, <3>2, <3>3 DEF Quiet, Missed, MissReturned, Resolved, Coalesced, Cleared
  <2>7. ASSUME ~cleared' PROVE misses' = (coalesced' + resolved' + Cardinality(Outstanding')) % m
    <3>1. misses = (coalesced + resolved + n) % m
      BY <2>3, <2>7 DEF AuditInv, MissesAccountedFor, Outstanding
    <3>2. CASE Quiet
      BY <2>3, <2>7, <3>1, <3>2 DEF Quiet
    <3>3. ASSUME NEW t \in Threads, Missed(t)
          PROVE  misses' = (coalesced' + resolved' + Cardinality(Outstanding')) % m
      <4>1. Cardinality(Outstanding') = n + 1
        BY <2>1, <3>3, FS_AddElement DEF Missed
      <4>2. resolved' = resolved /\ coalesced' = coalesced /\ misses' = Bump(misses)
        BY <2>3, <2>7, <3>3 DEF Missed
      <4> QED
        BY <2>1, <3>1, <4>1, <4>2, Carries
    <3>4. ASSUME NEW t \in Threads, MissReturned(t)
          PROVE  misses' = (coalesced' + resolved' + Cardinality(Outstanding')) % m
      <4>1. resolved' = Bump(resolved) /\ coalesced' = coalesced /\ misses' = Bump(misses)
        BY <2>3, <2>7, <3>4 DEF MissReturned, NoneResolves
      <4> QED
        BY <2>1, <3>1, <3>4, <4>1, Carries DEF MissReturned
    <3>5. ASSUME NEW t \in Threads, Outstanding' = Outstanding \ {t}, t \in Outstanding
          PROVE  Cardinality(Outstanding') \in Nat /\ n = Cardinality(Outstanding') + 1
      <4>1. Cardinality(Outstanding') = n - 1
        BY <2>1, <3>5, FS_RemoveElement
      <4>2. Cardinality(Outstanding') \in Nat
        BY <2>6, FS_CardinalityType
      <4> QED
        BY <2>1, <4>1, <4>2
    <3>6. ASSUME NEW t \in Threads, Resolved(t)
          PROVE  misses' = (coalesced' + resolved' + Cardinality(Outstanding')) % m
      <4>1. resolved' = Bump(resolved) /\ coalesced' = coalesced /\ misses' = misses
        BY <2>3, <2>7, <3>6 DEF Resolved, NoneResolves
      <4> DEFINE k == Cardinality(Outstanding')
      <4>2. k \in Nat /\ n = k + 1
        BY <3>5, <3>6 DEF Resolved
      <4> HIDE DEF k
      <4>3. misses = (coalesced + resolved + (k + 1)) % m
        BY <3>1, <4>2
      <4>4. misses' = (coalesced' + resolved' + k) % m
        BY <2>1, <4>1, <4>2, <4>3, Carries
      <4> QED
        BY <4>4 DEF k
    <3>7. ASSUME NEW t \in Threads, Coalesced(t)
          PROVE  misses' = (coalesced' + resolved' + Cardinality(Outstanding')) % m
      <4>1. resolved' = resolved /\ coalesced' = Bump(coalesced) /\ misses' = misses
        BY <2>3, <2>7, <3>7 DEF Coalesced
      <4> DEFINE k == Cardinality(Outstanding')
      <4>2. k \in Nat /\ n = k + 1
        BY <3>5, <3>7 DEF Coalesced
      <4> HIDE DEF k
      <4>3. misses = (coalesced + resolved + (k + 1)) % m
        BY <3>1, <4>2
      <4>4. misses' = (coalesced' + resolved' + k) % m
        BY <2>1, <4>1, <4>2, <4>3, Carries
      <4> QED
        BY <4>4 DEF k
    <3>8. ~\E t \in Threads : Cleared(t)
      BY <2>3, <2>7 DEF Cleared, AuditInv
    <3> QED
      BY <2>2, <3>2, <3>3, <3>4, <3>6, <3>7, <3>8
  <2>8. MissesAccountedFor'
    BY <2>7 DEF MissesAccountedFor, Outstanding
  <2> QED
    BY <2>3, <2>4, <2>5, <2>6, <2>8 DEF AuditInv
<1> QED
  BY <1>1, <1>2

(***************************************************************************)
(* Until somebody resets them, the counters tally every miss once, however *)
(* many threads call and at whatever width the counters wrap.              *)
(***************************************************************************)
THEOREM MissesAccountedForHolds == FairAuditSpec => []MissesAccountedFor
<1>1. AuditInit => Init /\ AuditInv
  <2> SUFFICES ASSUME AuditInit PROVE Init /\ AuditInv
    OBVIOUS
  <2>1. Outstanding = {} /\ \A t \in Threads : pc[t] \notin Clearing
    BY DEF AuditInit, Init, Outstanding, Clearing
  <2>2. IsFiniteSet(Outstanding) /\ Cardinality(Outstanding) = 0
    BY <2>1, FS_EmptySet
  <2>3. 0 % CounterModulus = 0
    BY ModulusAssumption
  <2>4. MissesAccountedFor
    BY <2>2, <2>3 DEF AuditInit, Init, MissesAccountedFor, Outstanding
  <2> QED
    BY <2>1, <2>2, <2>4 DEF AuditInit, AuditInv
<1>2. [Next /\ Record]_auditVars => [Next]_vars
  BY DEF auditVars
<1>3. AuditInv => MissesAccountedFor
  BY DEF AuditInv
<1> QED
  BY <1>1, <1>2, <1>3, AuditStep, CacheInvariant, PTL DEF FairAuditSpec, Spec

=============================================================================
