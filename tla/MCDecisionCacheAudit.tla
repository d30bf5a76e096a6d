------------------------ MODULE MCDecisionCacheAudit -----------------------
(***************************************************************************)
(* Small instances of DecisionCacheAudit: instants 0 .. LastInstant.       *)
(***************************************************************************)
EXTENDS DecisionCacheAudit, DecisionCacheRefinement

CONSTANTS LastInstant

MCTime == 0 .. LastInstant
=============================================================================
