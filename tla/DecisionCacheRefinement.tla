---------------------- MODULE DecisionCacheRefinement ----------------------
(***************************************************************************)
(* DecisionCache implements SingleFlightMemo.  A run's result is settled   *)
(* the moment its owner has stored it, a failure the moment the flight is  *)
(* dropped; the promise, set afterwards, only carries the news.            *)
(***************************************************************************)
EXTENDS DecisionCache

\* What the owner of a flight has to offer to those who find it registered.
RunOf(owner) ==
  CASE pc[owner] \in {"computing", "storing", "dropping"} -> "Running"
    [] pc[owner] \in {"fulfilling", "retiring"} -> outcome[owner]

\* A caller's answer is open until it holds one, or waits on somebody who has
\* settled it.
Settled(t) ==
  CASE pc[t] \in {"computing", "storing", "dropping"} -> Pending
    [] outcome[t] = Pending /\ waitOn[t] # NoThread /\ pc[waitOn[t]] \in {"fulfilling", "rejecting"}
         -> outcome[waitOn[t]]
    [] OTHER -> outcome[t]

Runs == [f \in FlightKey |-> IF inFlight[f] = NoThread THEN "Idle" ELSE RunOf(inFlight[f])]

Answers == [t \in Threads |-> Settled(t)]

Memo == INSTANCE SingleFlightMemo WITH
  memo <- entries, runs <- Runs, asked <- flight, answer <- Answers

(***************************************************************************)
(* getOrCompute, get and put, in whatever order threads take their steps,  *)
(* answer as a memo table would that computes each missing entry in one    *)
(* run: every answer is the table's or a run's for exactly the identity    *)
(* and snapshot asked about, given while the call was open; a call gets    *)
(* one answer and keeps it; a failure reaches no call that begins later.   *)
(***************************************************************************)
ImplementsMemo == Memo!Spec

=============================================================================
