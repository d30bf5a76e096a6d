----------------------------- MODULE Snapshots -----------------------------
(***************************************************************************)
(* The arithmetic of snapshots: how a request picks the point of the       *)
(* policy timeline it is evaluated at, how a write picks its revision, and *)
(* what a reading of the injected clock may return.  A snapshot is an      *)
(* integer number of clock ticks since the clock's epoch; bucket sizes are *)
(* in milliseconds, as in the code.                                        *)
(***************************************************************************)
EXTENDS Integers

CONSTANTS
  Time,           \* the instants the clock can show in the behaviours considered
  TicksPerMilli,  \* clock ticks in a millisecond (1000000 for nanoseconds)
  ClockModel      \* what is known of the clock: see Readings

\* cache.cpp relies on time_since_epoch() never being negative; every earlier
\* tick is an instant too.  Nat in the theorems, 0 .. n for TLC.
ASSUME TimeAssumption == Time \subseteq Nat /\ 0 \in Time /\ \A t \in Time : 0 .. t \subseteq Time
ASSUME TicksAssumption == TicksPerMilli \in Nat \ {0}
ASSUME ClockAssumption == ClockModel \in {"ticking", "coarse", "adjustable"}

Consistency == {"MinimizeLatency", "AtLeastAsFresh", "FullyConsistent"}

Decision == {"Allow", "Deny", "Undecided"}

LaterOf(a, b) == IF a >= b THEN a ELSE b

-----------------------------------------------------------------------------
\* MUTANT: rounded to the end of the bucket.
QuantizeUp(t, bucket) ==
  IF bucket = 0
  THEN t
  ELSE (((t \div TicksPerMilli) \div bucket + 1) * bucket) * TicksPerMilli

(***************************************************************************)
(* The start of the bucket that holds t.  The first quotient is the        *)
(* duration_cast to whole milliseconds, the second the rounding itself.    *)
(***************************************************************************)
quantize(t, bucket) ==
  IF bucket = 0
  THEN t
  ELSE (((t \div TicksPerMilli) \div bucket) * bucket) * TicksPerMilli

\* What a consistency level asks for before the revision floor is applied.
Candidate(consistency, minSnapshot, now, bucketSize) ==
  CASE consistency = "MinimizeLatency" -> quantize(now, bucketSize)
    [] consistency = "AtLeastAsFresh"  -> LaterOf(quantize(now, bucketSize), minSnapshot)
    [] consistency = "FullyConsistent" -> now

\* MUTANT: the floor confined to the level that already takes one.
FloorOnlyForTokens(consistency, minSnapshot, revision, now, bucketSize) ==
  IF consistency = "AtLeastAsFresh"
  THEN LaterOf(Candidate(consistency, minSnapshot, now, bucketSize), revision)
  ELSE Candidate(consistency, minSnapshot, now, bucketSize)

\* MUTANT: between a write and the next boundary every request keeps its instant.
FloorIsTheInstant(consistency, minSnapshot, revision, now, bucketSize) ==
  IF Candidate(consistency, minSnapshot, now, bucketSize) >= revision
  THEN Candidate(consistency, minSnapshot, now, bucketSize)
  ELSE LaterOf(now, revision)

\* The snapshot a request is evaluated at: no level escapes the revision floor.
selectSnapshot(consistency, minSnapshot, revision, now, bucketSize) ==
  LaterOf(Candidate(consistency, minSnapshot, now, bucketSize), revision)

\* MUTANT: std::max(revision_, clock_()) alone.
StampWithoutAdvance(previous, now) == LaterOf(now, previous)

\* The revision of a write: strictly later than the one before, whatever the clock does.
stampWrite(previous, now) == LaterOf(now, previous + 1)

-----------------------------------------------------------------------------
(***************************************************************************)
(* The injected clock.  Every reading is an instant of Time.               *)
(*   "adjustable"  any instant: the lambda a test passes may step back     *)
(*   "coarse"      never before the last reading, possibly equal to it:    *)
(*                 what std::chrono::steady_clock promises                 *)
(*   "ticking"     coarse, and a write never reads the very tick that an   *)
(*                 earlier reading, newer than the last revision, returned *)
(***************************************************************************)
Readings(last) == {now \in Time : ClockModel = "adjustable" \/ now >= last}

WriteReadings(last, revision) ==
  {now \in Readings(last) : ClockModel = "ticking" => now > last \/ revision >= last}

=============================================================================
