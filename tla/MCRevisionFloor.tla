-------------------------- MODULE MCRevisionFloor --------------------------
(***************************************************************************)
(* Small instances of RevisionFloor: a set of request threads, two         *)
(* administrators, a bucket of three ticks and instants 0 .. LastInstant,  *)
(* which bounds both the clock and the revision: two buckets for one       *)
(* request thread and a clock that ticks, one bucket for two threads and a *)
(* clock that may step back.                                               *)
(***************************************************************************)
EXTENDS RevisionFloor, TLC

CONSTANTS LastInstant, c1, c2, w1, w2

MCTime == 0 .. LastInstant
MCCheckers == {c1, c2}
MCWriters == {w1, w2}
MCWriterSymmetry == Permutations(MCWriters)
MCSymmetry == Permutations(MCCheckers) \cup MCWriterSymmetry
=============================================================================
