----------------------- MODULE MCAuthorizationService ----------------------
(***************************************************************************)
(* Small instances of the service: one target, a principal named like one  *)
(* of two roles, instants 0 .. LastInstant, and a graph that was set up    *)
(* before the behaviour starts, in which the principal is allowed.         *)
(***************************************************************************)
EXTENDS AuthorizationService, TLC

CONSTANTS LastInstant, engineer, intern, target

MCTime == 0 .. LastInstant
MCRoleNames == {engineer, intern}
MCPrincipals == {engineer}
MCTargets == {target}
MCKeys == [subject : MCPrincipals \cup MCRoleNames, target : MCTargets]

Says(verdict) == [g \in MCTargets |-> verdict]

Allowing(inherited) == [inherits |-> inherited, says |-> Says("Allow")]
Denying == [inherits |-> {}, says |-> Says("Deny")]
MCSetupAssigned == engineer :> {engineer}

\* Writes that take two steps to revoke: engineer absorbs intern, a name
\* nobody defined, or the principal is given it, and intern denies.
RedefineSetup == engineer :> Allowing({}) @@ intern :> NoRole
RedefineAddable == engineer :> {Allowing({intern})} @@ intern :> {Denying}

\* A write that revokes at once: the principal is given a role that denies.
AssignSetup == engineer :> Allowing({}) @@ intern :> Denying
AssignAssignable == {<<engineer, intern>>}

\* Two writes, either of which revokes and neither of which gives anything
\* back, to a role that is not named like the principal: a check that begins
\* between them may not be allowed, though the second one overlaps it.
Silent == [inherits |-> {}, says |-> Says("Undecided")]
RevokeSetup == [r \in MCRoleNames |-> Allowing({})]
RevokeAddable == engineer :> {} @@ intern :> {Denying, Silent}
InternAssigned == engineer :> {intern}

\* Two roles to ask, in either order.
BothAssigned == engineer :> {engineer, intern}
NothingAddable == [r \in MCRoleNames |-> {}]

MCSymmetry == Permutations(Threads)
=============================================================================
