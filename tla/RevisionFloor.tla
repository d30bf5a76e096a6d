--------------------------- MODULE RevisionFloor ---------------------------
(***************************************************************************)
(* How requests choose the snapshot they are evaluated at while writes     *)
(* move the graph's revision.  A request makes two readings, the graph's   *)
(* revision and the cache's clock, in either order (they are arguments of  *)
(* one call, so C++ does not order them), and a write may land between     *)
(* them.  A write stamps the revision under the graph's lock and reads it  *)
(* back, as the caller's token, under the lock again.                      *)
(***************************************************************************)
EXTENDS Snapshots

CONSTANTS
  Checkers,     \* request threads
  Writers,      \* administration threads
  BucketSize    \* Config::bucketSize, in milliseconds

ASSUME BucketAssumption == BucketSize \in Nat

\* Not an instant: a reading not made yet.
Unread == -1

NoRequest == [stage |-> "idle"]

Requests ==
  [stage : {"selecting"}, level : Consistency, token : Time,
   revision : Time \cup {Unread}, now : Time \cup {Unread}, fresh : BOOLEAN, owed : Time]

VARIABLES
  clock,      \* the last reading anyone took of the injected clock
  revision,   \* RoleGraph::revision_
  stamped,    \* the writers whose write is done and whose token is not read yet
  newest,     \* the newest token handed to a caller
  request,    \* request[c]: what c has read so far for the request it serves
  used,       \* history: the snapshots selected so far
  retired     \* history: the snapshots selected before the last write

vars == <<clock, revision, stamped, newest, request, used, retired>>

Init ==
  /\ clock = 0
  /\ revision = 0
  /\ stamped = {}
  /\ newest = 0
  /\ request = [c \in Checkers |-> NoRequest]
  /\ used = {}
  /\ retired = {}

-----------------------------------------------------------------------------
(***************************************************************************)
(* Writes.                                                                 *)
(***************************************************************************)

\* RoleGraph::addRole / assign, whole critical section: every request under
\* way has now overlapped a write.
Write(w) ==
  /\ w \notin stamped
  /\ \E now \in WriteReadings(clock, revision) :
       LET new == stampWrite(revision, now) IN
       /\ new \in Time
       /\ clock' = now
       /\ revision' = new
  /\ stamped' = stamped \cup {w}
  /\ request' = [c \in Checkers |->
                   IF request[c] = NoRequest THEN NoRequest ELSE [request[c] EXCEPT !.fresh = FALSE]]
  /\ retired' = used
  /\ UNCHANGED <<newest, used>>

\* The second half of AuthorizationService::addRole / assign: the token is a
\* reading of the revision of its own, and may be a later write's.
ReturnToken(w) ==
  /\ w \in stamped
  /\ newest' = LaterOf(newest, revision)
  /\ stamped' = stamped \ {w}
  /\ UNCHANGED <<clock, revision, request, used, retired>>

(***************************************************************************)
(* Requests.  Only AtLeastAsFresh looks at the token, which may be any up  *)
(* to the newest handed out, or Snapshot{}, the caller's who has none.     *)
(***************************************************************************)
BeginCheck(c, level, token) ==
  /\ request[c] = NoRequest
  /\ request' = [request EXCEPT ![c] =
                   [stage |-> "selecting", level |-> level, token |-> token,
                    revision |-> Unread, now |-> Unread, fresh |-> TRUE, owed |-> newest]]
  /\ UNCHANGED <<clock, revision, stamped, newest, used, retired>>

ReadRevision(c) ==
  /\ request[c].stage = "selecting"
  /\ request[c].revision = Unread
  /\ request' = [request EXCEPT ![c].revision = revision]
  /\ UNCHANGED <<clock, revision, stamped, newest, used, retired>>

ReadNow(c) ==
  /\ request[c].stage = "selecting"
  /\ request[c].now = Unread
  /\ \E now \in Readings(clock) :
       /\ clock' = now
       /\ request' = [request EXCEPT ![c].now = now]
  /\ UNCHANGED <<revision, stamped, newest, used, retired>>

Selected(r) == selectSnapshot(r.level, r.token, r.revision, r.now, BucketSize)

HasRead(c) ==
  /\ request[c].stage = "selecting"
  /\ request[c].revision # Unread
  /\ request[c].now # Unread

\* The request goes on to look in the cache at the snapshot it selected.
Select(c) ==
  /\ HasRead(c)
  /\ used' = used \cup {Selected(request[c])}
  /\ request' = [request EXCEPT ![c] = NoRequest]
  /\ UNCHANGED <<clock, revision, stamped, newest, retired>>

Next ==
  \/ \E w \in Writers : Write(w) \/ ReturnToken(w)
  \/ \E c \in Checkers :
       \/ \E token \in 0 .. newest : BeginCheck(c, "AtLeastAsFresh", token)
       \/ \E level \in {"MinimizeLatency", "FullyConsistent"} : BeginCheck(c, level, 0)
       \/ ReadRevision(c)
       \/ ReadNow(c)
       \/ Select(c)

Spec == Init /\ [][Next]_vars

-----------------------------------------------------------------------------
TypeOK ==
  /\ clock \in Time
  /\ revision \in Time
  /\ stamped \subseteq Writers
  /\ newest \in Time
  /\ request \in [Checkers -> Requests \cup {NoRequest}]
  /\ used \subseteq Time
  /\ retired \subseteq Time

(***************************************************************************)
(* A write makes the entries cached before it unreachable: no request that *)
(* begins after the last write, whatever its level, its token and the      *)
(* bucket it falls in, is evaluated at a snapshot some request was already *)
(* evaluated at before that write (the claim in selectSnapshot's comment   *)
(* on the revision floor).                                                 *)
(***************************************************************************)
RetiredKeysUnreachable ==
  \A c \in Checkers : HasRead(c) /\ request[c].fresh => Selected(request[c]) \notin retired

(***************************************************************************)
(* Read your writes, at every level: a check is evaluated no earlier than  *)
(* any token that had been handed out when it began, even one handed to    *)
(* somebody else, and even if the injected clock has stepped back since.   *)
(***************************************************************************)
ReadYourWrites ==
  \A c \in Checkers : HasRead(c) => Selected(request[c]) >= request[c].owed

(***************************************************************************)
(* Because the floor is applied to every level, a token this service       *)
(* handed out never changes the key, not even one newer than the bucket:   *)
(* AtLeastAsFresh and MinimizeLatency, given the same two readings, pick   *)
(* the same snapshot and so share.  The comments on the levels say         *)
(* otherwise: see NewerTokenIsPrivate.                                     *)
(***************************************************************************)
TokenIsRedundant ==
  \A c \in Checkers : HasRead(c) /\ request[c].level = "AtLeastAsFresh" =>
     Selected(request[c]) = Selected([request[c] EXCEPT !.level = "MinimizeLatency"])

(***************************************************************************)
(* What selectSnapshot's comment says of the tokens that cost something    *)
(* ("Only a token newer than the bucket forces a private, unshared         *)
(* snapshot"; in engine.hpp "a private key nobody else will ever share"):  *)
(* a request with a token newer than its bucket is not evaluated where a   *)
(* request without one is.                                                 *)
(***************************************************************************)
NewerTokenIsPrivate ==
  \A b, c \in Checkers :
     /\ HasRead(b) /\ request[b].level = "MinimizeLatency"
     /\ HasRead(c) /\ request[c].level = "AtLeastAsFresh"
     /\ request[c].token > quantize(request[c].now, BucketSize)
     => Selected(request[b]) # Selected(request[c])

(***************************************************************************)
(* The floor does not fragment the cache: requests with no write after     *)
(* they began, whose clock readings fall in one bucket, share one snapshot *)
(* even between a write and the next bucket boundary.  FullyConsistent     *)
(* asks for its own instant and is left out.                               *)
(***************************************************************************)
SharedKeyWithinBucket ==
  \A b, c \in Checkers :
     /\ HasRead(b) /\ request[b].fresh /\ request[b].level # "FullyConsistent"
     /\ HasRead(c) /\ request[c].fresh /\ request[c].level # "FullyConsistent"
     /\ quantize(request[b].now, BucketSize) = quantize(request[c].now, BucketSize)
     => Selected(request[b]) = Selected(request[c])

(***************************************************************************)
(* Every write is distinguishable from everything already told to a        *)
(* caller: its revision is strictly later than every token handed out,     *)
(* with two writes in one tick or a clock that stepped back as well.       *)
(***************************************************************************)
WriteOutdatesEveryToken ==
  [][\A w \in Writers : Write(w) => revision' > newest]_vars

=============================================================================
