-------------------------- MODULE SingleFlightMemo --------------------------
(***************************************************************************)
(* What a shared DecisionCache promises, without locks, promises, futures  *)
(* or program counters: a memo table, at most one run per identity and     *)
(* snapshot, and for every call the answer it is going to get.  A run ends *)
(* in one step that fills the table and answers its callers; until the     *)
(* run's result is withdrawn, calls that come late may still take it.      *)
(***************************************************************************)
EXTENDS CacheStore

CONSTANTS Threads, PutKeys, NoFlight

VARIABLES
  memo,     \* the table
  runs,     \* runs[f]: Idle, Running, or the result still on offer
  asked,    \* asked[t]: what t's call asks about, or NoFlight
  answer    \* answer[t]: what t's call will return or throw, once it is settled

memoVars == <<memo, runs, asked, answer>>

Idle == "Idle"
Running == "Running"
Pending == "Pending"
Failed == "Failed"

\* The calls about f whose answer is still open.
Askers(f) == {t \in Threads : asked[t] = f /\ answer[t] = Pending}

\* Some of those calls, one at least, get the answer.
AnswerSome(f, o) ==
  \E served \in (SUBSET Askers(f)) \ {{}} :
     answer' = [t \in Threads |-> IF t \in served THEN o ELSE answer[t]]

SetRun(f, r) == runs' = [runs EXCEPT ![f] = r]

Init ==
  /\ memo = NoEntries
  /\ runs = [f \in FlightKey |-> Idle]
  /\ asked = [t \in Threads |-> NoFlight]
  /\ answer = [t \in Threads |-> Pending]

\* A call that the table answers at once; only get reports a miss.
Look(t, f) ==
  /\ asked[t] = NoFlight
  /\ f.key \in PutKeys \/ memo[f] # Nothing
  /\ asked' = [asked EXCEPT ![t] = f]
  /\ answer' = [answer EXCEPT ![t] = memo[f]]
  /\ UNCHANGED <<memo, runs>>

Ask(t, f) ==
  /\ asked[t] = NoFlight
  /\ memo[f] = Nothing
  /\ asked' = [asked EXCEPT ![t] = f]
  /\ UNCHANGED <<memo, runs, answer>>

\* An open call finds its answer: in the table, or on offer.
Recall(t, f) ==
  /\ t \in Askers(f)
  /\ \/ memo[f] # Nothing /\ answer' = [answer EXCEPT ![t] = memo[f]]
     \/ runs[f] \in Decision /\ answer' = [answer EXCEPT ![t] = runs[f]]
  /\ UNCHANGED <<memo, runs, asked>>

Start(f) ==
  /\ Askers(f) # {}
  /\ memo[f] = Nothing
  /\ runs[f] = Idle
  /\ SetRun(f, Running)
  /\ UNCHANGED <<memo, asked, answer>>

Finish(f, decision) ==
  /\ runs[f] = Running
  /\ \E now \in Time : memo' = put(memo, f, decision, now)
  /\ SetRun(f, decision)
  /\ AnswerSome(f, decision)
  /\ UNCHANGED asked

\* The result is no longer handed out; the table keeps or has evicted it.
Withdraw(f) ==
  /\ runs[f] \in Decision
  /\ SetRun(f, Idle)
  /\ UNCHANGED <<memo, asked, answer>>

\* A failed run leaves nothing behind but the exception of those it served.
Fail(f) ==
  /\ runs[f] = Running
  /\ SetRun(f, Idle)
  /\ AnswerSome(f, Failed)
  /\ UNCHANGED <<memo, asked>>

Put(f, decision) ==
  /\ \E now \in Time : memo' = put(memo, f, decision, now)
  /\ UNCHANGED <<runs, asked, answer>>

Return(t) ==
  /\ answer[t] # Pending
  /\ asked' = [asked EXCEPT ![t] = NoFlight]
  /\ answer' = [answer EXCEPT ![t] = Pending]
  /\ UNCHANGED <<memo, runs>>

Next ==
  \/ \E t \in Threads : Return(t) \/ \E f \in FlightKey : Look(t, f) \/ Ask(t, f) \/ Recall(t, f)
  \/ \E f \in FlightKey : Start(f) \/ Withdraw(f) \/ Fail(f)
  \/ \E f \in FlightKey, decision \in Decision : Finish(f, decision)
  \/ \E f \in [key : PutKeys, snapshot : Time], decision \in Decision : Put(f, decision)

Spec == Init /\ [][Next]_memoVars

=============================================================================
