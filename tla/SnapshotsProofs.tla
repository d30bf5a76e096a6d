--------------------------- MODULE SnapshotsProofs --------------------------
(***************************************************************************)
(* What the arithmetic of snapshots guarantees for every bucket size,      *)
(* every clock resolution and every instant.                               *)
(***************************************************************************)
EXTENDS Snapshots, TLAPS

-----------------------------------------------------------------------------
(* Arithmetic of the two roundings. *)

\* Integer division rounds down, by less than the divisor.
LEMMA DivBounds ==
  ASSUME NEW t \in Nat, NEW b \in Nat \ {0}
  PROVE  /\ t \div b \in Nat
         /\ (t \div b) * b <= t
         /\ t < (t \div b) * b + b
  BY SMT

\* Integer division keeps the order.
LEMMA DivMonotone ==
  ASSUME NEW s \in Nat, NEW t \in Nat, NEW b \in Nat \ {0}, s <= t
  PROVE  s \div b <= t \div b
  BY SMT

\* So does multiplication by a natural number.
LEMMA TimesMonotone ==
  ASSUME NEW s \in Nat, NEW t \in Nat, NEW b \in Nat, s <= t
  PROVE  s * b \in Nat /\ s * b <= t * b
  BY SMT

(***************************************************************************)
(* quantize never rounds up, and with buckets enabled it gives up less     *)
(* than one bucket (rounded up to whole milliseconds): the staleness a     *)
(* caller accepts by sharing.                                              *)
(***************************************************************************)
THEOREM QuantizeBounds ==
  ASSUME NEW t \in Nat, NEW bucket \in Nat
  PROVE  /\ quantize(t, bucket) \in Nat
         /\ quantize(t, bucket) <= t
         /\ bucket # 0 => t < quantize(t, bucket) + bucket * TicksPerMilli
<1>1. CASE bucket = 0
  BY <1>1 DEF quantize
<1>2. CASE bucket # 0
  <2> DEFINE ms == t \div TicksPerMilli
             n == ms \div bucket
  <2>1. /\ ms \in Nat
        /\ ms * TicksPerMilli <= t
        /\ t < ms * TicksPerMilli + TicksPerMilli
    BY DivBounds, TicksAssumption
  <2>2. /\ n \in Nat
        /\ n * bucket <= ms
        /\ ms < n * bucket + bucket
    BY DivBounds, <2>1, <1>2
  <2> HIDE DEF ms, n
  <2>3. n * bucket \in Nat
    BY <2>2, SMT
  <2>4. (n * bucket) * TicksPerMilli \in Nat /\ (n * bucket) * TicksPerMilli <= ms * TicksPerMilli
    BY <2>1, <2>2, <2>3, TimesMonotone, TicksAssumption
  <2>5. ms + 1 <= n * bucket + bucket
    BY <2>1, <2>2, <2>3, SMT
  <2>6. (ms + 1) * TicksPerMilli <= (n * bucket + bucket) * TicksPerMilli
    BY <2>1, <2>3, <2>5, TimesMonotone, TicksAssumption
  <2>7. /\ (ms + 1) * TicksPerMilli = ms * TicksPerMilli + TicksPerMilli
        /\ (n * bucket + bucket) * TicksPerMilli = (n * bucket) * TicksPerMilli + bucket * TicksPerMilli
    BY <2>1, <2>3, TicksAssumption, SMT
  <2>8. ms * TicksPerMilli \in Nat /\ bucket * TicksPerMilli \in Nat
    BY <2>1, TicksAssumption, SMT
  <2>9. quantize(t, bucket) = (n * bucket) * TicksPerMilli
    BY <1>2 DEF quantize, ms, n
  <2>10. t < (n * bucket) * TicksPerMilli + bucket * TicksPerMilli
    BY <2>1, <2>4, <2>6, <2>7, <2>8, TicksAssumption, SMT
  <2> QED
    BY <2>1, <2>4, <2>8, <2>9, <2>10, SMT
<1> QED
  BY <1>1, <1>2

(***************************************************************************)
(* Buckets keep the order of instants: a later request never lands on an   *)
(* earlier bucket.                                                         *)
(***************************************************************************)
THEOREM QuantizeMonotone ==
  ASSUME NEW s \in Nat, NEW t \in Nat, NEW bucket \in Nat, s <= t
  PROVE  quantize(s, bucket) <= quantize(t, bucket)
<1>1. CASE bucket = 0
  BY <1>1 DEF quantize
<1>2. CASE bucket # 0
  <2> DEFINE m(x) == x \div TicksPerMilli
             n(x) == m(x) \div bucket
  <2>1. m(s) \in Nat /\ m(t) \in Nat /\ m(s) <= m(t)
    BY DivBounds, DivMonotone, TicksAssumption
  <2>2. n(s) \in Nat /\ n(t) \in Nat /\ n(s) <= n(t)
    BY <2>1, DivBounds, DivMonotone, <1>2
  <2> HIDE DEF n
  <2>3. n(s) * bucket \in Nat /\ n(t) * bucket \in Nat /\ n(s) * bucket <= n(t) * bucket
    BY <2>2, TimesMonotone, SMT
  <2>4. (n(s) * bucket) * TicksPerMilli <= (n(t) * bucket) * TicksPerMilli
    BY <2>3, TimesMonotone, TicksAssumption
  <2> QED
    BY <2>4, <1>2 DEF quantize, n
<1> QED
  BY <1>1, <1>2

(***************************************************************************)
(* No level escapes the revision floor, whatever the token and the clock,  *)
(* and without a token from the future the snapshot is never later than    *)
(* both the clock and the last write.                                      *)
(***************************************************************************)
THEOREM FloorHolds ==
  ASSUME NEW level \in Consistency, NEW token \in Nat, NEW rev \in Nat, NEW now \in Nat,
         NEW bucket \in Nat
  PROVE  LET s == selectSnapshot(level, token, rev, now, bucket) IN
         /\ s \in Nat
         /\ s >= rev
         /\ level = "AtLeastAsFresh" => s >= token
         /\ token <= rev => s <= LaterOf(now, rev)
<1>1. quantize(now, bucket) \in Nat /\ quantize(now, bucket) <= now
  BY QuantizeBounds
<1> QED
  BY <1>1 DEF selectSnapshot, Candidate, LaterOf, Consistency

(***************************************************************************)
(* A token no later than the revision leaves the choice of AtLeastAsFresh  *)
(* that of MinimizeLatency.                                                *)
(***************************************************************************)
THEOREM OldTokenIsRedundant ==
  ASSUME NEW token \in Nat, NEW rev \in Nat, NEW now \in Nat, NEW bucket \in Nat, token <= rev
  PROVE  selectSnapshot("AtLeastAsFresh", token, rev, now, bucket)
           = selectSnapshot("MinimizeLatency", token, rev, now, bucket)
<1>1. quantize(now, bucket) \in Nat
  BY QuantizeBounds
<1> QED
  BY <1>1 DEF selectSnapshot, Candidate, LaterOf

-----------------------------------------------------------------------------
(* Instants. *)

\* The assumption on Time, as a fact to cite.
LEMMA TimeFacts == Time \subseteq Nat /\ 0 \in Time /\ \A t \in Time : 0 .. t \subseteq Time
  BY TimeAssumption

\* The snapshot a request selects is an instant: one of those it was given,
\* or the start of the bucket of one of them.
LEMMA SelectedType ==
  ASSUME NEW level \in Consistency, NEW token \in Time, NEW rev \in Time, NEW now \in Time,
         NEW bucket \in Nat
  PROVE  selectSnapshot(level, token, rev, now, bucket) \in Time
<1>0. now \in Nat
  BY TimeFacts
<1>1. quantize(now, bucket) \in Nat /\ quantize(now, bucket) <= now
  BY <1>0, QuantizeBounds
<1>2. quantize(now, bucket) \in Time
  BY <1>0, <1>1, TimeFacts
<1> QED
  BY <1>2 DEF selectSnapshot, Candidate, LaterOf, Consistency

=============================================================================
