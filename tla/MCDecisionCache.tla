-------------------------- MODULE MCDecisionCache --------------------------
(***************************************************************************)
(* Small instances of DecisionCache: instants 0 .. LastInstant.            *)
(***************************************************************************)
EXTENDS DecisionCacheRefinement, TLC

CONSTANTS LastInstant

MCTime == 0 .. LastInstant
MCSymmetry == Permutations(Threads)
=============================================================================
