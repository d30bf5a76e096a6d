------------------------- MODULE MCPolicyEvaluation -------------------------
(***************************************************************************)
(* Small documents: patterns with the star at the end, alone, in front and *)
(* nowhere, and the empty one; fields that are strings, arrays, malformed  *)
(* and missing; up to two statements in a document.                        *)
(***************************************************************************)
EXTENDS PolicyEvaluation

CONSTANTS a, b, engineer, intern

MCRoleNames == {engineer, intern}
MCPrincipals == {engineer}
MCTargets == {}
MCValues == {<<>>, <<a>>, <<b, a>>, <<a, b>>}
MCPatterns == {<<>>, <<a>>, <<Star>>, <<a, Star>>, <<Star, a>>}

Text(pattern) == [kind |-> "string", text |-> pattern]
Array(items) == [kind |-> "array", items |-> items]

ActionFields ==
  {Text(<<a, Star>>), Array(<<<<Star, a>>, <<>>>>), Array(<<<<a>>, NotAString>>),
   [kind |-> "other"], [kind |-> "missing"]}
ResourceFields == {Text(<<Star>>), Array(<<<<a>>>>)}

Raw == [effect : {"Allow", "Deny", "Audit"}, action : ActionFields, resource : ResourceFields]

MCDocuments == {<<s>> : s \in Raw} \cup {<<s, t>> : s, t \in Raw}
=============================================================================
