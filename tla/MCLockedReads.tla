---------------------------- MODULE MCLockedReads ---------------------------
(***************************************************************************)
(* What may be read, and for how long, beside a writer: the walk of the    *)
(* role graph under one shared lock, and the two demonstration programs,   *)
(* of a check torn between two critical sections and of a pointer that     *)
(* outlives its lock.  They share nothing; program is the one that runs.   *)
(*                                                                         *)
(* The walk: all graphs over three role names with at most two inherited   *)
(* roles each, the same one twice included, and at most two assignments,   *)
(* of one name or of two.                                                  *)
(***************************************************************************)
EXTENDS RoleTraversal, Handover, PointerEscape

CONSTANTS base, left, lead

VARIABLE program

readsVars == <<program, vars, handoverVars, escapeVars>>

ReadsInit ==
  /\ program \in {"traversal", "handover", "escape"}
  /\ Init
  /\ HandoverInit
  /\ EscapeInit

InTraversal(A) == program = "traversal" /\ A /\ UNCHANGED <<program, handoverVars, escapeVars>>
InHandover(A) == program = "handover" /\ A /\ UNCHANGED <<program, vars, escapeVars>>
InEscape(A) == program = "escape" /\ A /\ UNCHANGED <<program, vars, handoverVars>>

ReadsNext == InTraversal(Next) \/ InHandover(HandoverNext) \/ InEscape(EscapeNext)

\* A thread inside effectiveRoles goes on running, and so does either thread
\* of the handover; nobody promises a spurious wake-up.
ReadsSpec ==
  /\ ReadsInit
  /\ [][ReadsNext]_readsVars
  /\ \A w \in Walkers : WF_readsVars(InTraversal(Step(w)))
  /\ WF_readsVars(InHandover(MainStep))
  /\ WF_readsVars(InHandover(WriterStep))

-----------------------------------------------------------------------------
MCRoleNames == {base, left, lead}
MCLists == UNION {[1 .. n -> MCRoleNames] : n \in 0 .. 2}
MCTargets == {}
=============================================================================
