---------------------------- MODULE PolicyGraph ----------------------------
(***************************************************************************)
(* What a role graph says about a request, with no cache in between.  A    *)
(* request asks about a target, standing for its (action, resource) pair;  *)
(* a role's own policies are reduced to what they say of each target.      *)
(***************************************************************************)
CONSTANTS
  RoleNames,
  Principals,   \* may overlap RoleNames: nothing keeps the two apart
  Targets,
  NoRole        \* find() of a name nobody added

Verdicts == {"Allow", "Deny", "Undecided"}

Role == [inherits : SUBSET RoleNames, says : [Targets -> Verdicts]]

ASSUME NoRoleAssumption == NoRole \notin Role

\* roles_ and assignments_.  The order and the repeats of the vectors are left
\* out: no answer depends on them.
Roles == [RoleNames -> Role \cup {NoRole}]
Assignments == [Principals -> SUBSET RoleNames]

-----------------------------------------------------------------------------
\* A set of roles that contains all it inherits.
Closed(roles, S) ==
  \A r \in S : roles[r] # NoRole => roles[r].inherits \subseteq S

\* Everything reachable from the principal's assignments; a name nobody
\* defined is reported and leads nowhere.
effectiveRoles(roles, assignments, principal) ==
  {r \in RoleNames : \A S \in SUBSET RoleNames :
     assignments[principal] \subseteq S /\ Closed(roles, S) => r \in S}

\* One role's own policies; inheritance is the caller's business.
evaluateForRole(roles, role, target) ==
  IF roles[role] = NoRole THEN "Undecided" ELSE roles[role].says[target]

\* Deny outranks Allow; nobody allowing is a denial.
combine(decisions) ==
  IF "Allow" \in decisions /\ "Deny" \notin decisions THEN "Allow" ELSE "Deny"

evaluateRbac(roles, assignments, principal, target) ==
  combine({evaluateForRole(roles, r, target) : r \in effectiveRoles(roles, assignments, principal)})

=============================================================================
