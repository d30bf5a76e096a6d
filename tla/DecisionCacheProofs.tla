------------------------ MODULE DecisionCacheProofs ------------------------
(***************************************************************************)
(* DecisionCache is safe for any number of threads, identities and         *)
(* instants, any retention, and any clock.                                 *)
(***************************************************************************)
EXTENDS DecisionCache, TLAPS

-----------------------------------------------------------------------------
(* What put does to the container. *)

\* put of a decision leaves a well-typed container.
LEMMA PutType ==
  ASSUME NEW e \in Entries, NEW f \in FlightKey, NEW d \in Decision, NEW now
  PROVE  put(e, f, d, now) \in Entries
  BY DEF put, evict, Entries

(***************************************************************************)
(* put changes an answer only at the key it was given; everywhere else it  *)
(* can only forget, and only about the same identity.                      *)
(***************************************************************************)
THEOREM PutChangesOneAnswer ==
  ASSUME NEW e \in Entries, NEW f \in FlightKey, NEW d, NEW now, NEW g \in FlightKey
  PROVE  /\ put(e, f, d, now)[g] \in {e[g], d, Nothing}
         /\ put(e, f, d, now)[g] = d /\ d # e[g] /\ d # Nothing => g = f
         /\ g # f => put(e, f, d, now)[g] \in {e[g], Nothing}
         /\ g.key # f.key => put(e, f, d, now)[g] = e[g]
  BY DEF put, evict, Entries, FlightKey

\* A counter stays below its modulus.
LEMMA BumpType ==
  ASSUME NEW n \in Nat
  PROVE  Bump(n) \in 0 .. CounterModulus - 1
  BY ModulusAssumption, SMT DEF Bump

\* The program counter ranges over thirteen steps.
LEMMA StepsList ==
  Steps = {"idle", "registering", "joining", "waiting", "computing", "storing", "fulfilling",
           "retiring", "dropping", "rejecting", "returned", "clearingMisses", "clearingCoalesced"}
  BY DEF Steps, Flying, Unsettled

-----------------------------------------------------------------------------
(* Type correctness, which needs to know what an owner's outcome is before  *)
(* it is stored and published.                                             *)

OutcomeInv ==
  \A t \in Threads :
    /\ pc[t] \in {"storing", "fulfilling", "retiring"} => outcome[t] \in Decision
    /\ pc[t] \in {"dropping", "rejecting"} => outcome[t] = Failed
    /\ pc[t] \notin {"retiring", "returned"} => promise[t] = Pending
    /\ pc[t] = "retiring" => promise[t] = outcome[t]

\* The initial state is well typed.
LEMMA InitTypes == Init => TypeOK /\ OutcomeInv
<1> SUFFICES ASSUME Init PROVE TypeOK /\ OutcomeInv
  OBVIOUS
<1>1. 0 \in Time /\ 0 \in 0 .. CounterModulus - 1
  BY TimeAssumption, ModulusAssumption
<1>2. TypeOK
  BY <1>1, StepsList
     DEF Init, TypeOK, Entries, NoEntries, Nothing, Outcomes, Pending, Failed, Flying
<1> QED
  BY <1>2 DEF Init, OutcomeInv

\* Every step keeps the types, given what an owner stores is a decision.
LEMMA TypeStep == TypeOK /\ OutcomeInv /\ [Next]_vars => TypeOK'
<1> SUFFICES ASSUME TypeOK, OutcomeInv, [Next]_vars PROVE TypeOK'
  OBVIOUS
<1> USE StepsList DEF Goto, Answer, Flying, Outcomes, Pending, Failed, Nothing
<1>0. /\ hits \in Nat /\ misses \in Nat /\ coalesced \in Nat
      /\ Bump(hits) \in 0 .. CounterModulus - 1
      /\ Bump(misses) \in 0 .. CounterModulus - 1
      /\ Bump(coalesced) \in 0 .. CounterModulus - 1
      /\ 0 \in 0 .. CounterModulus - 1
  <2>1. hits \in Nat /\ misses \in Nat /\ coalesced \in Nat
    BY DEF TypeOK
  <2> QED
    BY <2>1, BumpType, ModulusAssumption
<1>00. ASSUME NEW f \in FlightKey PROVE getUnlocked(entries, f) \in Decision \cup {Nothing}
  BY DEF TypeOK, Entries, getUnlocked
<1>1. ASSUME NEW t \in Threads, NEW f \in FlightKey, FastPathHit(t, f) \/ Get(t, f)
      PROVE  TypeOK'
  BY <1>0, <1>00, <1>1, NoneAssumption DEF TypeOK, FastPathHit, Get, Lookup
<1>2. ASSUME NEW t \in Threads, NEW f \in FlightKey, FastPathMiss(t, f) PROVE TypeOK'
  BY <1>0, <1>2, NoneAssumption DEF TypeOK, FastPathMiss, Lookup
<1>3. ASSUME NEW t \in Threads, NEW f \in FlightKey, NEW d \in Decision, Put(t, f, d)
      PROVE  TypeOK'
  BY <1>3, PutType DEF TypeOK, Put, Readings, callVars, counters
<1>4. ASSUME NEW t \in Threads, ResetHits(t) \/ ResetMisses(t) \/ ResetCoalesced(t)
      PROVE  TypeOK'
  BY <1>0, <1>4 DEF TypeOK, ResetHits, ResetMisses, ResetCoalesced
<1>5. ASSUME NEW t \in Threads, FindStored(t) PROVE TypeOK'
  <2>1. flight[t] \in FlightKey
    BY <1>5 DEF TypeOK, FindStored
  <2> QED
    BY <1>5, <1>00, <2>1 DEF TypeOK, FindStored, counters
<1>6. ASSUME NEW t \in Threads, JoinFlight(t) PROVE TypeOK'
  <2>1. flight[t] \in FlightKey /\ inFlight[flight[t]] \in Threads
    BY <1>6 DEF TypeOK, JoinFlight
  <2> QED
    BY <1>6, <2>1 DEF TypeOK, JoinFlight, counters
<1>7. ASSUME NEW t \in Threads, OwnFlight(t) PROVE TypeOK'
  BY <1>7 DEF TypeOK, OwnFlight, counters
<1>8. ASSUME NEW t \in Threads, Join(t) PROVE TypeOK'
  BY <1>0, <1>8 DEF TypeOK, Join
<1>9. ASSUME NEW t \in Threads, Await(t) PROVE TypeOK'
  BY <1>9 DEF TypeOK, Await, counters
<1>10. ASSUME NEW t \in Threads, Throw(t) PROVE TypeOK'
  BY <1>10 DEF TypeOK, Throw, counters
<1>11. ASSUME NEW t \in Threads, NEW d \in Decision, Compute(t, d) PROVE TypeOK'
  BY <1>11 DEF TypeOK, Compute, counters
<1>12. ASSUME NEW t \in Threads, Store(t) PROVE TypeOK'
  <2>1. flight[t] \in FlightKey /\ outcome[t] \in Decision
    BY <1>12 DEF TypeOK, OutcomeInv, Store
  <2> QED
    BY <1>12, <2>1, PutType DEF TypeOK, Store, Readings, counters
<1>13. ASSUME NEW t \in Threads, Fulfil(t) PROVE TypeOK'
  BY <1>13 DEF TypeOK, Fulfil, Settle, counters
<1>14. ASSUME NEW t \in Threads, Reject(t) PROVE TypeOK'
  BY <1>14 DEF TypeOK, Reject, Settle, counters
<1>15. ASSUME NEW t \in Threads, Retire(t) PROVE TypeOK'
  BY <1>15 DEF TypeOK, Retire, counters
<1>16. ASSUME NEW t \in Threads, Drop(t) PROVE TypeOK'
  BY <1>16 DEF TypeOK, Drop, counters
<1>17. ASSUME NEW t \in Threads, Return(t) PROVE TypeOK'
  BY <1>17 DEF TypeOK, Return, counters
<1>18. ASSUME UNCHANGED vars PROVE TypeOK'
  BY <1>18 DEF TypeOK, vars, callVars, counters
<1>19. [key : PutKeys, snapshot : Time] \subseteq FlightKey
  BY PutKeysAssumption DEF FlightKey
<1> QED
  BY <1>1, <1>2, <1>3, <1>4, <1>5, <1>6, <1>7, <1>8, <1>9, <1>10, <1>11, <1>12, <1>13, <1>14,
     <1>15, <1>16, <1>17, <1>18, <1>19
     DEF Next, Call, Proceed, Advance

\* Every step keeps what is known of outcomes and promises.
LEMMA OutcomeStep == TypeOK /\ OutcomeInv /\ [Next]_vars => OutcomeInv'
<1> SUFFICES ASSUME TypeOK, OutcomeInv, [Next]_vars PROVE OutcomeInv'
  OBVIOUS
<1> USE DEF Goto, Answer, Pending, Failed, Nothing, Decision
<1>1. ASSUME NEW t \in Threads, NEW f \in FlightKey,
             FastPathHit(t, f) \/ FastPathMiss(t, f) \/ Get(t, f)
      PROVE  OutcomeInv'
  BY <1>1 DEF TypeOK, OutcomeInv, FastPathHit, FastPathMiss, Get, Lookup
<1>2. ASSUME NEW t \in Threads, NEW f \in FlightKey, NEW d \in Decision, Put(t, f, d)
      PROVE  OutcomeInv'
  BY <1>2 DEF OutcomeInv, Put, callVars
<1>3. ASSUME NEW t \in Threads, ResetHits(t) \/ ResetMisses(t) \/ ResetCoalesced(t)
      PROVE  OutcomeInv'
  BY <1>3 DEF TypeOK, OutcomeInv, ResetHits, ResetMisses, ResetCoalesced
<1>4. ASSUME NEW t \in Threads, FindStored(t) \/ JoinFlight(t) \/ OwnFlight(t)
      PROVE  OutcomeInv'
  BY <1>4 DEF TypeOK, OutcomeInv, FindStored, JoinFlight, OwnFlight
<1>5. ASSUME NEW t \in Threads, Join(t) \/ Await(t) PROVE OutcomeInv'
  BY <1>5 DEF TypeOK, OutcomeInv, Join, Await
<1>6. ASSUME NEW t \in Threads, NEW d \in Decision, Compute(t, d) PROVE OutcomeInv'
  BY <1>6 DEF TypeOK, OutcomeInv, Compute
<1>7. ASSUME NEW t \in Threads, Throw(t) \/ Store(t) PROVE OutcomeInv'
  BY <1>7 DEF TypeOK, OutcomeInv, Throw, Store
<1>8. ASSUME NEW t \in Threads, Fulfil(t) \/ Reject(t) PROVE OutcomeInv'
  <2>1. outcome[t] # Pending
    BY <1>8 DEF OutcomeInv, Fulfil, Reject
  <2>2. \A u \in Threads : outcome[u] # Pending => outcome'[u] = outcome[u]
    BY <1>8 DEF Fulfil, Reject, Settle
  <2>3. /\ \A u \in Threads \ {t} : pc'[u] = pc[u] /\ promise'[u] = promise[u]
        /\ promise'[t] = outcome[t]
    BY <1>8 DEF TypeOK, Fulfil, Reject, Settle
  <2>4. \/ pc[t] = "fulfilling" /\ pc'[t] = "retiring"
        \/ pc[t] = "rejecting" /\ pc'[t] = "returned"
    <3>1. CASE Fulfil(t)
      BY <3>1 DEF TypeOK, Fulfil
    <3>2. CASE Reject(t)
      BY <3>2 DEF TypeOK, Reject
    <3> QED
      BY <1>8, <3>1, <3>2
  <2> QED
    BY <2>1, <2>2, <2>3, <2>4 DEF OutcomeInv
<1>9. ASSUME NEW t \in Threads, Retire(t) \/ Drop(t) PROVE OutcomeInv'
  BY <1>9 DEF TypeOK, OutcomeInv, Retire, Drop
<1>10. ASSUME NEW t \in Threads, Return(t) PROVE OutcomeInv'
  BY <1>10 DEF TypeOK, OutcomeInv, Return
<1>11. ASSUME UNCHANGED vars PROVE OutcomeInv'
  BY <1>11 DEF OutcomeInv, vars, callVars
<1>12. [key : PutKeys, snapshot : Time] \subseteq FlightKey
  BY PutKeysAssumption DEF FlightKey
<1> QED
  BY <1>1, <1>2, <1>3, <1>4, <1>5, <1>6, <1>7, <1>8, <1>9, <1>10, <1>11, <1>12
     DEF Next, Call, Proceed, Advance

\* So both hold in every state.
LEMMA Types == Spec => [](TypeOK /\ OutcomeInv)
  BY InitTypes, TypeStep, OutcomeStep, PTL DEF Spec

(***************************************************************************)
(* Every variable keeps its type; in particular only decisions are stored. *)
(***************************************************************************)
THEOREM TypeCorrect == Spec => []TypeOK
  BY Types, PTL

-----------------------------------------------------------------------------
(***************************************************************************)
(* inFlight_ is exact: a thread is registered for a flight precisely while *)
(* it computes, stores, publishes or gives up that flight.                 *)
(***************************************************************************)
FlightInv ==
  /\ \A t \in Threads : pc[t] \in Flying => inFlight[flight[t]] = t
  /\ \A f \in FlightKey :
       inFlight[f] # NoThread => pc[inFlight[f]] \in Flying /\ flight[inFlight[f]] = f

\* Every step keeps inFlight_ exact.
LEMMA FlightStep == TypeOK /\ FlightInv /\ [Next]_vars => FlightInv'
<1> SUFFICES ASSUME TypeOK, FlightInv, [Next]_vars PROVE FlightInv'
  OBVIOUS
<1> USE NoneAssumption DEF Goto, Flying
<1>1. ASSUME NEW t \in Threads, NEW f \in FlightKey,
             FastPathHit(t, f) \/ FastPathMiss(t, f) \/ Get(t, f)
      PROVE  FlightInv'
  <2>1. /\ pc[t] = "idle" /\ pc'[t] \notin Flying
        /\ inFlight' = inFlight
        /\ \A u \in Threads \ {t} : pc'[u] = pc[u] /\ flight'[u] = flight[u]
    BY <1>1 DEF TypeOK, FastPathHit, FastPathMiss, Get, Lookup
  <2> QED
    BY <2>1 DEF TypeOK, FlightInv
<1>2. ASSUME NEW t \in Threads, NEW f \in FlightKey, NEW d \in Decision, Put(t, f, d)
      PROVE  FlightInv'
  BY <1>2 DEF FlightInv, Put, callVars
<1>3. ASSUME NEW t \in Threads, ResetHits(t) \/ ResetMisses(t) \/ ResetCoalesced(t)
      PROVE  FlightInv'
  BY <1>3 DEF TypeOK, FlightInv, ResetHits, ResetMisses, ResetCoalesced
<1>4. ASSUME NEW t \in Threads, FindStored(t) \/ JoinFlight(t) PROVE FlightInv'
  BY <1>4 DEF TypeOK, FlightInv, FindStored, JoinFlight
<1>5. ASSUME NEW t \in Threads, OwnFlight(t) PROVE FlightInv'
  BY <1>5 DEF TypeOK, FlightInv, OwnFlight
<1>6. ASSUME NEW t \in Threads, Join(t) \/ Await(t) PROVE FlightInv'
  BY <1>6 DEF TypeOK, FlightInv, Join, Await
<1>7. ASSUME NEW t \in Threads, NEW d \in Decision, Compute(t, d) PROVE FlightInv'
  BY <1>7 DEF TypeOK, FlightInv, Compute
<1>8. ASSUME NEW t \in Threads, Throw(t) PROVE FlightInv'
  BY <1>8 DEF TypeOK, FlightInv, Throw
<1>9. ASSUME NEW t \in Threads, Store(t) \/ Fulfil(t) PROVE FlightInv'
  BY <1>9 DEF TypeOK, FlightInv, Store, Fulfil
<1>10. ASSUME NEW t \in Threads, Retire(t) \/ Drop(t) PROVE FlightInv'
  <2>1. /\ pc[t] \in Flying /\ pc'[t] \notin Flying /\ flight' = flight
        /\ inFlight' = [inFlight EXCEPT ![flight[t]] = NoThread]
        /\ \A u \in Threads \ {t} : pc'[u] = pc[u]
    BY <1>10 DEF TypeOK, Retire, Drop
  <2>2. flight[t] \in FlightKey
    BY <2>1 DEF TypeOK
  <2> QED
    BY <2>1, <2>2 DEF TypeOK, FlightInv
<1>11. ASSUME NEW t \in Threads, Reject(t) PROVE FlightInv'
  BY <1>11 DEF TypeOK, FlightInv, Reject
<1>12. ASSUME NEW t \in Threads, Return(t) PROVE FlightInv'
  BY <1>12 DEF TypeOK, FlightInv, Return
<1>13. ASSUME UNCHANGED vars PROVE FlightInv'
  BY <1>13 DEF FlightInv, vars, callVars
<1>14. [key : PutKeys, snapshot : Time] \subseteq FlightKey
  BY PutKeysAssumption DEF FlightKey
<1> QED
  BY <1>1, <1>2, <1>3, <1>4, <1>5, <1>6, <1>7, <1>8, <1>9, <1>10, <1>11, <1>12, <1>13, <1>14
     DEF Next, Call, Proceed, Advance

\* inFlight_ is exact in every state.
LEMMA Flights == Spec => []FlightInv
<1>1. Init => FlightInv
  BY DEF Init, FlightInv, Flying
<1> QED
  BY <1>1, FlightStep, TypeCorrect, PTL DEF Spec

(***************************************************************************)
(* One computation of a key at a time, for any number of threads.          *)
(***************************************************************************)
THEOREM SingleFlightHolds == Spec => []SingleFlight
<1>1. FlightInv => SingleFlight
  BY DEF FlightInv, SingleFlight
<1> QED
  BY <1>1, Flights, PTL

(***************************************************************************)
(* A call never joins a flight whose failure is already published, because *)
(* a failed flight is dropped before its promise is set.                   *)
(***************************************************************************)
THEOREM FailureIsNotStickyHolds == Spec => FailureIsNotSticky
<1> DEFINE NotSticky ==
      \A t \in Threads : pc[t] = "registering" /\ pc'[t] = "joining" => outcome'[t] # Failed
<1>1. TypeOK /\ OutcomeInv /\ FlightInv /\ [Next]_vars => [NotSticky]_vars
  <2> SUFFICES ASSUME TypeOK, OutcomeInv, FlightInv, Next, NEW t \in Threads,
                      pc[t] = "registering", pc'[t] = "joining"
               PROVE  outcome'[t] # Failed
    OBVIOUS
  <2>1. JoinFlight(t)
    <3> USE DEF Goto, TypeOK
    <3>1. PICK u \in Threads : Call(u) \/ Proceed(u)
      BY DEF Next
    <3>2. u = t
      BY <3>1 DEF Call, Proceed, Advance, FastPathHit, FastPathMiss, Get, Put, ResetHits, callVars,
                  FindStored, JoinFlight, OwnFlight, Join, Await, Throw, Store, Fulfil, Retire, Drop,
                  Reject, Return, ResetMisses, ResetCoalesced, Compute
    <3> QED
      BY <3>1, <3>2 DEF Call, Proceed, Advance, FastPathHit, FastPathMiss, Get, Put, ResetHits, Lookup,
                  FindStored, OwnFlight, Join, Await, Throw, Store, Fulfil, Retire, Drop,
                  Reject, Return, ResetMisses, ResetCoalesced, Compute
  <2> DEFINE o == inFlight[flight[t]]
  <2>2. flight[t] \in FlightKey /\ o \in Threads /\ outcome'[t] = promise[o]
    BY <2>1 DEF TypeOK, JoinFlight, Answer
  <2>3. pc[o] \in Flying
    BY <2>1, <2>2, NoneAssumption DEF FlightInv
  <2> QED
    BY <2>2, <2>3 DEF OutcomeInv, Flying, Pending, Failed, Decision
<1> QED
  BY <1>1, Types, Flights, PTL DEF Spec, FailureIsNotSticky

-----------------------------------------------------------------------------
(***************************************************************************)
(* Nobody waits forever on a promise nobody will set.                      *)
(***************************************************************************)
LEMMA WaitStep ==
  TypeOK /\ OutcomeInv /\ FlightInv /\ NoOrphanedWait /\ [Next]_vars => NoOrphanedWait'
<1> SUFFICES ASSUME TypeOK, OutcomeInv, FlightInv, NoOrphanedWait, [Next]_vars
             PROVE  NoOrphanedWait'
  OBVIOUS
<1> USE NoneAssumption DEF Goto, Answer, Unsettled
<1>1. ASSUME NEW t \in Threads, NEW f \in FlightKey,
             FastPathHit(t, f) \/ FastPathMiss(t, f) \/ Get(t, f)
      PROVE  NoOrphanedWait'
  <2>1. /\ pc[t] = "idle" /\ pc'[t] \in {"registering", "returned"} /\ waitOn' = waitOn
        /\ \A u \in Threads \ {t} : pc'[u] = pc[u] /\ flight'[u] = flight[u] /\ outcome'[u] = outcome[u]
    BY <1>1 DEF TypeOK, FastPathHit, FastPathMiss, Get, Lookup
  <2> QED
    BY <2>1 DEF TypeOK, NoOrphanedWait
<1>2. ASSUME NEW t \in Threads, NEW f \in FlightKey, NEW d \in Decision, Put(t, f, d)
      PROVE  NoOrphanedWait'
  BY <1>2 DEF NoOrphanedWait, Put, callVars
<1>3. ASSUME NEW t \in Threads, ResetHits(t) \/ ResetMisses(t) \/ ResetCoalesced(t)
      PROVE  NoOrphanedWait'
  BY <1>3 DEF TypeOK, NoOrphanedWait, ResetHits, ResetMisses, ResetCoalesced
<1>4. ASSUME NEW t \in Threads, FindStored(t) \/ OwnFlight(t) PROVE NoOrphanedWait'
  BY <1>4 DEF TypeOK, NoOrphanedWait, FindStored, OwnFlight
<1>5. ASSUME NEW t \in Threads, JoinFlight(t) PROVE NoOrphanedWait'
  <2> DEFINE o == inFlight[flight[t]]
  <2>1. /\ flight[t] \in FlightKey /\ o \in Threads /\ pc[t] = "registering"
        /\ pc[o] \in Flying /\ flight[o] = flight[t] /\ o # t
    BY <1>5 DEF TypeOK, JoinFlight, FlightInv, Flying
  <2>2. promise[o] = Pending => pc[o] \in Unsettled
    BY <2>1 DEF OutcomeInv, Flying, Pending, Decision
  <2>3. /\ waitOn' = [waitOn EXCEPT ![t] = o] /\ outcome' = [outcome EXCEPT ![t] = promise[o]]
        /\ pc' = [pc EXCEPT ![t] = "joining"] /\ flight' = flight
    BY <1>5 DEF JoinFlight
  <2> QED
    BY <2>1, <2>2, <2>3 DEF TypeOK, NoOrphanedWait
<1>6. ASSUME NEW t \in Threads, Join(t) \/ Await(t) PROVE NoOrphanedWait'
  BY <1>6 DEF TypeOK, NoOrphanedWait, Join, Await
<1>7. ASSUME NEW t \in Threads, NEW d \in Decision, Compute(t, d) PROVE NoOrphanedWait'
  BY <1>7 DEF TypeOK, NoOrphanedWait, Compute
<1>8. ASSUME NEW t \in Threads, Throw(t) \/ Store(t) \/ Drop(t) PROVE NoOrphanedWait'
  <2>1. /\ pc[t] \in Unsettled /\ pc'[t] \in Unsettled /\ flight' = flight /\ waitOn' = waitOn
        /\ \A u \in Threads \ {t} : pc'[u] = pc[u] /\ outcome'[u] = outcome[u]
    BY <1>8 DEF TypeOK, Throw, Store, Drop
  <2> QED
    BY <2>1 DEF TypeOK, NoOrphanedWait
<1>9. ASSUME NEW t \in Threads, Fulfil(t) \/ Reject(t) PROVE NoOrphanedWait'
  <2>1. outcome[t] # Pending
    BY <1>9 DEF OutcomeInv, Fulfil, Reject, Pending, Failed, Decision
  <2>2. /\ flight' = flight /\ waitOn' = waitOn /\ pc'[t] \in {"retiring", "returned"}
        /\ \A u \in Threads \ {t} : pc'[u] = pc[u]
    BY <1>9 DEF TypeOK, Fulfil, Reject
  <2>3. \A u \in Threads : outcome'[u] = Pending => outcome[u] = Pending /\ waitOn[u] # t
    BY <1>9, <2>1 DEF Fulfil, Reject, Settle
  <2> QED
    BY <2>2, <2>3 DEF TypeOK, NoOrphanedWait
<1>10. ASSUME NEW t \in Threads, Retire(t) PROVE NoOrphanedWait'
  BY <1>10 DEF TypeOK, NoOrphanedWait, Retire
<1>11. ASSUME NEW t \in Threads, Return(t) PROVE NoOrphanedWait'
  BY <1>11 DEF TypeOK, NoOrphanedWait, Return
<1>12. ASSUME UNCHANGED vars PROVE NoOrphanedWait'
  BY <1>12 DEF NoOrphanedWait, vars, callVars
<1>13. [key : PutKeys, snapshot : Time] \subseteq FlightKey
  BY PutKeysAssumption DEF FlightKey
<1> QED
  BY <1>1, <1>2, <1>3, <1>4, <1>5, <1>6, <1>7, <1>8, <1>9, <1>10, <1>11, <1>12, <1>13
     DEF Next, Call, Proceed, Advance

\* In every state, whoever waits has an owner that is still on its way to setting
\* the promise, registered or not.
THEOREM NoOrphanedWaitHolds == Spec => []NoOrphanedWait
<1>1. Init => NoOrphanedWait
  BY DEF Init, NoOrphanedWait
<1> QED
  BY <1>1, WaitStep, Types, Flights, PTL DEF Spec

-----------------------------------------------------------------------------
(***************************************************************************)
(* What a thread holds follows from where it is: no answer before there is *)
(* one, none missing when it returns, and nobody to wait on unless it has  *)
(* joined a flight.                                                        *)
(***************************************************************************)
OutsideCall == {"idle", "clearingMisses", "clearingCoalesced"}

CallInv ==
  \A t \in Threads :
    /\ pc[t] \in OutsideCall \cup {"registering", "computing"} => outcome[t] = Pending
    /\ pc[t] = "returned" => outcome[t] # Pending
    /\ outcome[t] = Nothing => pc[t] = "returned"
    /\ waitOn[t] # NoThread => pc[t] \in {"joining", "waiting", "returned"}
    /\ flight[t] = NoFlight <=> pc[t] \in OutsideCall

\* Every step keeps that.
LEMMA CallStep == TypeOK /\ OutcomeInv /\ FlightInv /\ CallInv /\ [Next]_vars => CallInv'
<1> SUFFICES ASSUME TypeOK, OutcomeInv, FlightInv, CallInv, [Next]_vars PROVE CallInv'
  OBVIOUS
<1> USE NoneAssumption DEF Goto, Answer, OutsideCall, Pending, Failed, Nothing, Decision
<1>1. ASSUME NEW t \in Threads, NEW f \in FlightKey,
             FastPathHit(t, f) \/ FastPathMiss(t, f) \/ Get(t, f)
      PROVE  CallInv'
  <2>1. getUnlocked(entries, f) \in Decision \cup {Nothing}
    BY DEF TypeOK, Entries, getUnlocked
  <2>2. /\ pc[t] = "idle" /\ waitOn' = waitOn
        /\ pc'[t] \in {"registering", "returned"}
        /\ flight' = [flight EXCEPT ![t] = f]
        /\ \A u \in Threads \ {t} : pc'[u] = pc[u] /\ outcome'[u] = outcome[u]
    BY <1>1 DEF TypeOK, FastPathHit, FastPathMiss, Get, Lookup
  <2>3. /\ pc'[t] = "registering" => outcome' = outcome
        /\ pc'[t] = "returned" => outcome'[t] # Pending
        /\ outcome'[t] = Nothing => pc'[t] = "returned"
    BY <1>1, <2>1, <2>2 DEF TypeOK, CallInv, FastPathHit, FastPathMiss, Get
  <2>4. flight'[t] # NoFlight /\ \A u \in Threads \ {t} : flight'[u] = flight[u]
    BY <2>2 DEF TypeOK
  <2>5. ASSUME NEW u \in Threads \ {t} PROVE CallInv!(u)'
    BY <2>2, <2>4 DEF CallInv
  <2>6. CallInv!(t)'
    BY <2>2, <2>3, <2>4 DEF CallInv
  <2> QED
    BY <2>5, <2>6 DEF CallInv
<1>2. ASSUME NEW t \in Threads, NEW f \in FlightKey, NEW d \in Decision, Put(t, f, d)
      PROVE  CallInv'
  BY <1>2 DEF CallInv, Put, callVars
<1>3. ASSUME NEW t \in Threads, ResetHits(t) \/ ResetMisses(t) \/ ResetCoalesced(t)
      PROVE  CallInv'
  BY <1>3 DEF TypeOK, CallInv, ResetHits, ResetMisses, ResetCoalesced
<1>4. ASSUME NEW t \in Threads, FindStored(t) PROVE CallInv'
  <2>1. getUnlocked(entries, flight[t]) \in Decision
    BY <1>4 DEF TypeOK, FindStored, Entries, getUnlocked
  <2> QED
    BY <1>4, <2>1 DEF TypeOK, CallInv, FindStored
<1>5. ASSUME NEW t \in Threads, JoinFlight(t) PROVE CallInv'
  <2> DEFINE o == inFlight[flight[t]]
  <2>1. /\ flight[t] \in FlightKey /\ o \in Threads /\ pc[o] \in Flying
    BY <1>5 DEF TypeOK, JoinFlight, FlightInv
  <2>2. promise[o] # Nothing
    BY <2>1 DEF OutcomeInv, Flying
  <2>3. /\ waitOn' = [waitOn EXCEPT ![t] = o] /\ outcome' = [outcome EXCEPT ![t] = promise[o]]
        /\ pc[t] = "registering" /\ pc' = [pc EXCEPT ![t] = "joining"] /\ flight' = flight
    BY <1>5 DEF JoinFlight
  <2> QED
    BY <2>1, <2>2, <2>3 DEF TypeOK, CallInv
<1>6. ASSUME NEW t \in Threads, OwnFlight(t) \/ Join(t) \/ Await(t) PROVE CallInv'
  BY <1>6 DEF TypeOK, CallInv, OwnFlight, Join, Await
<1>7. ASSUME NEW t \in Threads, NEW d \in Decision, Compute(t, d) PROVE CallInv'
  BY <1>7 DEF TypeOK, CallInv, Compute
<1>8. ASSUME NEW t \in Threads, Throw(t) \/ Store(t) PROVE CallInv'
  BY <1>8 DEF TypeOK, CallInv, Throw, Store
<1>9. ASSUME NEW t \in Threads, Fulfil(t) \/ Reject(t) PROVE CallInv'
  <2>1. /\ outcome[t] \notin {Pending, Nothing} /\ pc[t] \in {"fulfilling", "rejecting"}
        /\ pc'[t] \in {"retiring", "returned"} /\ \A u \in Threads \ {t} : pc'[u] = pc[u]
        /\ flight' = flight /\ waitOn' = waitOn
    BY <1>9 DEF TypeOK, OutcomeInv, Fulfil, Reject
  <2>2. \A u \in Threads :
          \/ outcome'[u] = outcome[u]
          \/ waitOn[u] = t /\ outcome[u] = Pending /\ outcome'[u] = outcome[t]
    BY <1>9 DEF Fulfil, Reject, Settle
  <2>3. outcome'[t] = outcome[t]
    BY <2>1, <2>2
  <2>4. ASSUME NEW u \in Threads \ {t} PROVE CallInv!(u)'
    BY <2>1, <2>2, <2>4 DEF CallInv
  <2>5. CallInv!(t)'
    BY <2>1, <2>3 DEF CallInv
  <2> QED
    BY <2>4, <2>5 DEF CallInv
<1>10. ASSUME NEW t \in Threads, Retire(t) \/ Drop(t) PROVE CallInv'
  BY <1>10 DEF TypeOK, OutcomeInv, CallInv, Retire, Drop
<1>11. ASSUME NEW t \in Threads, Return(t) PROVE CallInv'
  BY <1>11 DEF TypeOK, CallInv, Return
<1>12. ASSUME UNCHANGED vars PROVE CallInv'
  BY <1>12 DEF CallInv, vars, callVars
<1>13. [key : PutKeys, snapshot : Time] \subseteq FlightKey
  BY PutKeysAssumption DEF FlightKey
<1> QED
  BY <1>1, <1>2, <1>3, <1>4, <1>5, <1>6, <1>7, <1>8, <1>9, <1>10, <1>11, <1>12, <1>13
     DEF Next, Call, Proceed, Advance

\* What a user of the cache may rely on.
CacheInv == TypeOK /\ OutcomeInv /\ FlightInv /\ CallInv /\ NoOrphanedWait

\* Every step keeps all of it.
LEMMA CacheStep == CacheInv /\ [Next]_vars => CacheInv'
  BY TypeStep, OutcomeStep, FlightStep, CallStep, WaitStep DEF CacheInv

(***************************************************************************)
(* The strengthening the cache's users rest on holds in every state.       *)
(***************************************************************************)
THEOREM CacheInvariant == Spec => []CacheInv
<1>1. Init => CacheInv
  <2>1. Init => FlightInv /\ CallInv /\ NoOrphanedWait
    BY NoneAssumption DEF Init, FlightInv, CallInv, NoOrphanedWait, Flying, OutsideCall, Pending, Nothing
  <2> QED
    BY <2>1, InitTypes DEF CacheInv
<1> QED
  BY <1>1, CacheStep, PTL DEF Spec

-----------------------------------------------------------------------------
(***************************************************************************)
(* What the cache holds is not computed again: an entry appears only when  *)
(* the one registered computation of it is stored.                         *)
(***************************************************************************)
LEMMA RunStep ==
  TypeOK /\ OutcomeInv /\ FlightInv /\ NoRedundantRun /\ [Next]_vars => NoRedundantRun'
<1> SUFFICES ASSUME TypeOK, OutcomeInv, FlightInv, NoRedundantRun, [Next]_vars
             PROVE  NoRedundantRun'
  OBVIOUS
<1> USE DEF Goto
<1>1. ASSUME NEW t \in Threads, NEW f \in FlightKey,
             FastPathHit(t, f) \/ FastPathMiss(t, f) \/ Get(t, f)
      PROVE  NoRedundantRun'
  <2>1. /\ pc'[t] # "computing" /\ entries' = entries
        /\ \A u \in Threads \ {t} : pc'[u] = pc[u] /\ flight'[u] = flight[u]
    BY <1>1 DEF TypeOK, FastPathHit, FastPathMiss, Get, Lookup
  <2> QED
    BY <2>1 DEF NoRedundantRun
<1>2. ASSUME NEW t \in Threads, NEW f \in [key : PutKeys, snapshot : Time], NEW d \in Decision,
             Put(t, f, d)
      PROVE  NoRedundantRun'
  <2>1. PICK now \in Time : entries' = put(entries, f, d, now)
    BY <1>2 DEF Put, Readings
  <2>2. f \in FlightKey
    BY PutKeysAssumption DEF FlightKey
  <2>3. ASSUME NEW u \in Threads, pc'[u] = "computing", flight'[u].key \notin PutKeys
        PROVE  entries'[flight'[u]] = Nothing
    <3>1. /\ flight'[u] = flight[u] /\ flight[u] \in FlightKey /\ flight[u].key # f.key
          /\ pc[u] = "computing"
      BY <1>2, <2>3 DEF TypeOK, Put, callVars, Flying
    <3> QED
      BY <2>1, <2>2, <2>3, <3>1, PutChangesOneAnswer DEF TypeOK, NoRedundantRun
  <2> QED
    BY <2>3 DEF NoRedundantRun
<1>3. ASSUME NEW t \in Threads, ResetHits(t) \/ ResetMisses(t) \/ ResetCoalesced(t)
      PROVE  NoRedundantRun'
  BY <1>3 DEF TypeOK, NoRedundantRun, ResetHits, ResetMisses, ResetCoalesced
<1>4. ASSUME NEW t \in Threads, FindStored(t) \/ JoinFlight(t) \/ OwnFlight(t)
      PROVE  NoRedundantRun'
  BY <1>4 DEF TypeOK, NoRedundantRun, FindStored, JoinFlight, OwnFlight, getUnlocked
<1>5. ASSUME NEW t \in Threads, Join(t) \/ Await(t) PROVE NoRedundantRun'
  BY <1>5 DEF TypeOK, NoRedundantRun, Join, Await
<1>6. ASSUME NEW t \in Threads, NEW d \in Decision, Compute(t, d) PROVE NoRedundantRun'
  BY <1>6 DEF TypeOK, NoRedundantRun, Compute
<1>7. ASSUME NEW t \in Threads, Store(t) PROVE NoRedundantRun'
  <2>1. PICK now \in Time : entries' = put(entries, flight[t], outcome[t], now)
    BY <1>7 DEF Store, Readings
  <2>2. /\ flight' = flight /\ pc[t] = "storing" /\ pc'[t] # "computing"
        /\ \A u \in Threads \ {t} : pc'[u] = pc[u]
    BY <1>7 DEF TypeOK, Store
  <2>3. flight[t] \in FlightKey
    BY <2>2 DEF TypeOK, Flying
  <2>4. ASSUME NEW u \in Threads, pc'[u] = "computing", flight[u].key \notin PutKeys
        PROVE  entries'[flight[u]] = Nothing
    <3>1. u # t /\ pc[u] = "computing" /\ flight[u] \in FlightKey
      BY <2>2, <2>4 DEF TypeOK, Flying
    <3>2. flight[u] # flight[t]
      BY <2>2, <3>1 DEF FlightInv, Flying
    <3> QED
      BY <2>1, <2>3, <2>4, <3>1, <3>2, PutChangesOneAnswer DEF TypeOK, NoRedundantRun
  <2> QED
    BY <2>2, <2>4 DEF NoRedundantRun
<1>8. ASSUME NEW t \in Threads, Throw(t) \/ Fulfil(t) \/ Retire(t) \/ Drop(t) \/ Reject(t)
      PROVE  NoRedundantRun'
  <2>1. /\ entries' = entries /\ flight' = flight /\ pc'[t] # "computing"
        /\ \A u \in Threads \ {t} : pc'[u] = pc[u]
    BY <1>8 DEF TypeOK, Throw, Fulfil, Retire, Drop, Reject
  <2> QED
    BY <2>1 DEF NoRedundantRun
<1>9. ASSUME NEW t \in Threads, Return(t) PROVE NoRedundantRun'
  BY <1>9 DEF TypeOK, NoRedundantRun, Return
<1>10. ASSUME UNCHANGED vars PROVE NoRedundantRun'
  BY <1>10 DEF NoRedundantRun, vars, callVars
<1>11. [key : PutKeys, snapshot : Time] \subseteq FlightKey
  BY PutKeysAssumption DEF FlightKey
<1>12. ASSUME NEW t \in Threads, Call(t) PROVE NoRedundantRun'
  BY <1>1, <1>2, <1>3, <1>11, <1>12 DEF Call
<1>13. ASSUME NEW t \in Threads, Proceed(t) PROVE NoRedundantRun'
  BY <1>3, <1>4, <1>5, <1>6, <1>7, <1>8, <1>9, <1>13 DEF Proceed, Advance
<1> QED
  BY <1>10, <1>12, <1>13 DEF Next

\* In every state, what an owner computes is not stored, unless somebody puts
\* that identity directly.
THEOREM NoRedundantRunHolds == Spec => []NoRedundantRun
<1>1. Init => NoRedundantRun
  BY DEF Init, NoRedundantRun
<1> QED
  BY <1>1, RunStep, Types, Flights, PTL DEF Spec

=============================================================================
