-------------------------- MODULE PolicyEvaluation --------------------------
(***************************************************************************)
(* From policy documents to verdicts: what parsing makes of a document,    *)
(* when a pattern matches, and the scan of a role's statements, beside     *)
(* what the documents say when they are read as sets of rules.  A state is *)
(* what has been loaded so far into each role.                             *)
(***************************************************************************)
EXTENDS PolicyGraph, Integers, SequencesExt

CONSTANTS
  Star,            \* the character '*'
  NotAString,      \* an element of a JSON array that is no string
  Values,          \* the actions and resources requests name: sequences of characters
  Patterns,        \* the entries of Action and Resource: likewise
  Documents,       \* the documents' "Statement" arrays
  MaxStatements    \* a bound on the statements loaded into all roles together

ASSUME RoleNamesAssumption == IsFiniteSet(RoleNames)

\* Texts are sequences of characters.
ASSUME TextAssumption == \A text \in Patterns \cup Values : text \in Seq(ToSet(text))

\* Action or Resource as JSON.
Field ==
  [kind : {"string"}, text : Patterns]
    \cup [kind : {"array"}, items : Seq(Patterns \cup {NotAString})]
    \cup [kind : {"other", "missing"}]

ASSUME DocumentsAssumption ==
  \A document \in Documents :
    /\ document \in Seq(ToSet(document))
    /\ \A raw \in ToSet(document) : {raw.action, raw.resource} \subseteq Field

Requests == [action : Values, resource : Values]

Statement == [effect : {"Allow", "Deny"}, actions : Seq(Patterns), resources : Seq(Patterns)]

VARIABLES
  documents,   \* documents[r]: the documents role r was built from
  policies     \* policies[r]: Role::policies, each policy its sequence of statements

vars == <<documents, policies>>

-----------------------------------------------------------------------------
(***************************************************************************)
(* Patterns.                                                               *)
(***************************************************************************)
\* Only the last character is special.  compare() reads as many characters of
\* the value as the prefix has, or as there are.
wildcardMatch(pattern, value) ==
  \/ pattern = <<Star>>
  \/ /\ pattern # <<>> /\ Last(pattern) = Star
     /\ LET read == IF Len(value) < Len(pattern) - 1 THEN Len(value) ELSE Len(pattern) - 1
        IN SubSeq(value, 1, read) = Front(pattern)
  \/ /\ pattern = <<>> \/ Last(pattern) # Star
     /\ pattern = value

matchesAction(s, action) == \E k \in DOMAIN s.actions : wildcardMatch(s.actions[k], action)

matchesResource(s, resource) ==
  \E k \in DOMAIN s.resources : wildcardMatch(s.resources[k], resource)

Matches(s, q) == matchesAction(s, q.action) /\ matchesResource(s, q.resource)

(***************************************************************************)
(* Documents.  A field is a string, an array, something else, or missing.  *)
(***************************************************************************)
\* MUTANT: only a missing field is an error.
OnlyMissingThrows(field) == field.kind = "missing"

\* at() throws for a field that is not there, get<std::string>() for an
\* element of an array that is no string.
Throws(field) ==
  \/ field.kind = "missing"
  \/ field.kind = "array" /\ NotAString \in ToSet(field.items)

\* A number or an object is read as an empty list, without complaint.
readStringOrArray(field) ==
  CASE field.kind = "string" -> <<field.text>>
    [] field.kind = "array"  -> field.items
    [] OTHER                 -> <<>>

\* One statement that cannot be read loses the document.
Parses(document) ==
  \A k \in DOMAIN document :
    /\ document[k].effect \in {"Allow", "Deny"}
    /\ ~Throws(document[k].action)
    /\ ~Throws(document[k].resource)

fromJsonString(document) ==
  [k \in DOMAIN document |->
     [effect |-> document[k].effect,
      actions |-> readStringOrArray(document[k].action),
      resources |-> readStringOrArray(document[k].resource)]]

(***************************************************************************)
(* The scans.  A Deny returns at once: nothing after it changes the answer.*)
(***************************************************************************)
\* MUTANT: the first statement that matches decides.
FirstMatch(list, q) ==
  LET statements == FlattenSeq(list)
      after[k \in 0 .. Len(statements)] ==
        IF k = 0 THEN "Undecided"
        ELSE IF after[k - 1] # "Undecided" \/ ~Matches(statements[k], q) THEN after[k - 1]
        ELSE statements[k].effect
  IN after[Len(statements)]

\* PolicyEngine::evaluateForRole on the policies of the role it found.
verdictOfRole(list, q) ==
  LET statements == FlattenSeq(list)
      after[k \in 0 .. Len(statements)] ==
        IF k = 0 THEN "Undecided"
        ELSE IF after[k - 1] = "Deny" \/ ~Matches(statements[k], q) THEN after[k - 1]
        ELSE statements[k].effect
  IN after[Len(statements)]

\* MUTANT: an Allow returns at once.
AllowReturns(list, q) ==
  LET statements == FlattenSeq(list)
      hits == {k \in DOMAIN statements : Matches(statements[k], q)}
  IN hits # {} /\ statements[CHOOSE k \in hits : \A j \in hits : k <= j].effect = "Allow"

\* The flat evaluation of a vector of policies: default deny, then the same scan.
evaluate(list, q) ==
  LET statements == FlattenSeq(list)
      after[k \in 0 .. Len(statements)] ==
        IF k = 0 THEN [returned |-> FALSE, allowed |-> FALSE]
        ELSE IF after[k - 1].returned \/ ~Matches(statements[k], q) THEN after[k - 1]
        ELSE [returned |-> statements[k].effect = "Deny", allowed |-> statements[k].effect = "Allow"]
  IN after[Len(statements)].allowed

-----------------------------------------------------------------------------
Init ==
  /\ documents = [r \in RoleNames |-> <<>>]
  /\ policies = [r \in RoleNames |-> <<>>]

Loaded == FoldFunction(LAMBDA list, n : Len(FlattenSeq(list)) + n, 0, policies)

\* Policy::fromJsonString, its result added to the policies of a role.
Load(role, document) ==
  /\ Parses(document)
  /\ Loaded + Len(document) <= MaxStatements
  /\ documents' = [documents EXCEPT ![role] = Append(@, document)]
  /\ policies' = [policies EXCEPT ![role] = Append(@, fromJsonString(document))]

\* The role is added again, with no policies yet.
Replace(role) ==
  /\ documents' = [documents EXCEPT ![role] = <<>>]
  /\ policies' = [policies EXCEPT ![role] = <<>>]

Next == \E role \in RoleNames : Replace(role) \/ \E document \in Documents : Load(role, document)

Spec == Init /\ [][Next]_vars

-----------------------------------------------------------------------------
TypeOK == \A r \in RoleNames : policies[r] \in Seq(Seq(Statement))

\* What a pattern, a field and a statement of a document mean.
Denotes(pattern, value) ==
  IF pattern # <<>> /\ Last(pattern) = Star
  THEN \E k \in 0 .. Len(value) : Front(pattern) = SubSeq(value, 1, k)
  ELSE pattern = value

Names(field, value) ==
  \/ field.kind = "string" /\ Denotes(field.text, value)
  \/ field.kind = "array" /\ \E pattern \in ToSet(field.items) : Denotes(pattern, value)

Rules(role) == UNION {ToSet(document) : document \in ToSet(documents[role])}

Effects(role, q) ==
  {raw.effect : raw \in {x \in Rules(role) : Names(x.action, q.action) /\ Names(x.resource, q.resource)}}

(***************************************************************************)
(* A role says what the set of its documents' rules says: any Deny that    *)
(* names the request outranks every Allow, wherever either stands ("Order  *)
(* is irrelevant to evaluation", policy.hpp), and with neither the role    *)
(* says nothing.                                                           *)
(***************************************************************************)
OrderIsIrrelevant ==
  \A role \in RoleNames, q \in Requests :
    verdictOfRole(policies[role], q) =
      IF "Deny" \in Effects(role, q) THEN "Deny"
      ELSE IF "Allow" \in Effects(role, q) THEN "Allow" ELSE "Undecided"

(***************************************************************************)
(* Asking each role for a verdict of its own and combining the verdicts,   *)
(* which is what makes them cacheable apart, loses nothing: it answers as  *)
(* the flat evaluation of all the roles' policies together does.           *)
(***************************************************************************)
RolesDecompose ==
  \A q \in Requests :
    LET order == SetToSeq(RoleNames) IN
    evaluate(FlattenSeq([k \in DOMAIN order |-> policies[order[k]]]), q) <=>
      combine({verdictOfRole(policies[r], q) : r \in RoleNames}) = "Allow"

=============================================================================
