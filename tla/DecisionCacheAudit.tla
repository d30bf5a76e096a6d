------------------------- MODULE DecisionCacheAudit ------------------------
(***************************************************************************)
(* DecisionCache with an auditor beside it: history variables, which       *)
(* record and never constrain.                                             *)
(***************************************************************************)
EXTENDS DecisionCache, FiniteSets

VARIABLES
  resolved,   \* the misses that ended without joining a flight, until a reset
  cleared     \* whether resetCounters has been called

auditVars == <<vars, resolved, cleared>>

\* A miss is resolved by a get, by the second look, or by owning the flight.
Resolves(t) ==
  \/ pc[t] = "idle" /\ pc'[t] = "returned" /\ outcome'[t] = Nothing
  \/ pc[t] = "registering" /\ pc'[t] \in {"returned", "computing"}

Record ==
  /\ cleared' = (cleared \/ \E t \in Threads : pc'[t] = "clearingMisses")
  /\ resolved' = CASE cleared' -> 0
                    [] ~cleared' /\ (\E t \in Threads : Resolves(t)) -> Bump(resolved)
                    [] OTHER -> resolved

AuditInit ==
  /\ Init
  /\ resolved = 0
  /\ cleared = FALSE

FairAuditSpec == AuditInit /\ [][Next /\ Record]_auditVars /\ Fairness

-----------------------------------------------------------------------------
(***************************************************************************)
(* The counters add up, wrap-around included: until somebody resets them,  *)
(* every miss is a coalesced call, a call that resolved its miss itself,   *)
(* or a call that has yet to do either; none is tallied twice by the       *)
(* second look under the lock.                                             *)
(***************************************************************************)
MissesAccountedFor ==
  cleared \/
  misses = (coalesced + resolved
             + Cardinality({t \in Threads : pc[t] \in {"registering", "joining"}})) % CounterModulus

=============================================================================
