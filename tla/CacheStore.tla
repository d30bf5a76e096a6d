----------------------------- MODULE CacheStore -----------------------------
(***************************************************************************)
(* The container of a DecisionCache: a decision, or nothing, for every     *)
(* identity at every snapshot, and what each operation on it does.         *)
(***************************************************************************)
EXTENDS Snapshots

CONSTANTS
  Keys,   \* the identities: (subject, action, resource)
  Ttl     \* retention, in milliseconds

ASSUME TtlAssumption == Ttl \in Nat

\* The full logical key, which also names one computation in flight.
FlightKey == [key : Keys, snapshot : Time]

\* std::nullopt.  Distinct from "Undecided", which is an answer.
Nothing == "Nothing"

Entries == [FlightKey -> Decision \cup {Nothing}]

NoEntries == [f \in FlightKey |-> Nothing]

getUnlocked(entries, f) == entries[f]

\* MUTANT: the cutoff itself dropped as well.
EvictInclusive(entries, key, now) ==
  [f \in FlightKey |-> IF f.key = key /\ f.snapshot <= now - Ttl * TicksPerMilli
                       THEN Nothing ELSE entries[f]]

\* Drops what is older than the retention window, of one identity only.
evict(entries, key, now) ==
  [f \in FlightKey |-> IF f.key = key /\ f.snapshot < now - Ttl * TicksPerMilli
                       THEN Nothing ELSE entries[f]]

\* now is the reading of the clock evict takes, under the lock.
put(entries, f, decision, now) ==
  evict([entries EXCEPT ![f] = decision], f.key, now)

=============================================================================
