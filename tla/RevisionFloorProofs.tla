------------------------ MODULE RevisionFloorProofs ------------------------
(***************************************************************************)
(* The safety of RevisionFloor for any number of request threads and       *)
(* writers, any bucket size and any clock resolution.                      *)
(***************************************************************************)
EXTENDS RevisionFloor, SnapshotsProofs

-----------------------------------------------------------------------------
(* Type correctness. *)

\* What the type invariant says of a request that has made both readings.
LEMMA ReadType ==
  ASSUME TypeOK, NEW c \in Checkers, HasRead(c)
  PROVE  /\ request[c] \in Requests
         /\ request[c].level \in Consistency
         /\ request[c].token \in Time
         /\ request[c].revision \in Time
         /\ request[c].now \in Time
         /\ request[c].owed \in Time
  BY TimeFacts DEF TypeOK, HasRead, Requests, NoRequest, Unread

\* Every state of the floor protocol is well typed: whatever requests select and
\* writes stamp is an instant.
THEOREM TypeCorrect == Spec => []TypeOK
<1>1. Init => TypeOK
  BY TimeFacts DEF Init, TypeOK
<1>2. TypeOK /\ [Next]_vars => TypeOK'
  <2> SUFFICES ASSUME TypeOK, [Next]_vars PROVE TypeOK'
    OBVIOUS
  <2> USE TimeFacts
  <2>1. ASSUME NEW w \in Writers, Write(w) PROVE TypeOK'
    <3>1. ASSUME NEW c \in Checkers PROVE request'[c] \in Requests \cup {NoRequest}
      BY <2>1 DEF TypeOK, Write, Requests, NoRequest
    <3>2. request' = [c \in Checkers |-> request'[c]]
      BY <2>1 DEF Write
    <3>3. clock' \in Time /\ revision' \in Time
      BY <2>1 DEF TypeOK, Write, WriteReadings, Readings
    <3> QED
      BY <2>1, <3>1, <3>2, <3>3 DEF TypeOK, Write
  <2>2. ASSUME NEW w \in Writers, ReturnToken(w) PROVE TypeOK'
    BY <2>2 DEF TypeOK, ReturnToken, LaterOf
  <2>3. ASSUME NEW c \in Checkers, NEW level \in Consistency, NEW token \in 0 .. newest,
               BeginCheck(c, level, token)
        PROVE  TypeOK'
    <3>1. token \in Time
      BY DEF TypeOK
    <3> QED
      BY <2>3, <3>1 DEF TypeOK, BeginCheck, Requests
  <2>4. ASSUME NEW c \in Checkers, ReadRevision(c) PROVE TypeOK'
    BY <2>4 DEF TypeOK, ReadRevision, Requests, NoRequest
  <2>5. ASSUME NEW c \in Checkers, ReadNow(c) PROVE TypeOK'
    BY <2>5 DEF TypeOK, ReadNow, Readings, Requests, NoRequest
  <2>6. ASSUME NEW c \in Checkers, Select(c) PROVE TypeOK'
    <3>1. HasRead(c)
      BY <2>6 DEF Select
    <3>2. Selected(request[c]) \in Time
      BY <3>1, ReadType, SelectedType, BucketAssumption DEF Selected
    <3> QED
      BY <2>6, <3>2 DEF TypeOK, Select
  <2>7. ASSUME UNCHANGED vars PROVE TypeOK'
    BY <2>7 DEF TypeOK, vars
  <2>8. newest \in Nat /\ 0 \in 0 .. newest
    BY DEF TypeOK
  <2> QED
    BY <2>1, <2>2, <2>3, <2>4, <2>5, <2>6, <2>7, <2>8 DEF Next, Consistency
<1> QED
  BY <1>1, <1>2, PTL DEF Spec

-----------------------------------------------------------------------------
(***************************************************************************)
(* What holds of a request under way, for any clock: it owes its caller no *)
(* more than the revision it read, and it read the current one unless a    *)
(* write landed after it began.                                            *)
(***************************************************************************)
RequestInv(r) ==
  r # NoRequest =>
    /\ r.token <= newest
    /\ r.owed <= newest
    /\ r.revision # Unread =>
         /\ r.token <= r.revision
         /\ r.owed <= r.revision
         /\ r.fresh => r.revision = revision

FloorInv ==
  /\ newest <= revision
  /\ \A c \in Checkers : RequestInv(request[c])

\* FloorInv holds in every state, whatever the clock does: it is preserved with
\* the type invariant alone.
THEOREM FloorInvariant == Spec => []FloorInv
<1>1. Init => FloorInv
  BY DEF Init, FloorInv, RequestInv
<1>2. TypeOK /\ FloorInv /\ [Next]_vars => FloorInv'
  <2> SUFFICES ASSUME TypeOK, FloorInv, [Next]_vars PROVE FloorInv'
    OBVIOUS
  <2> USE TimeFacts
  <2>1. ASSUME NEW w \in Writers, Write(w) PROVE FloorInv'
    <3>1. revision' > revision
      BY <2>1 DEF Write, WriteReadings, Readings, stampWrite, LaterOf, TypeOK
    <3>2. revision \in Nat /\ revision' \in Nat /\ newest \in Nat /\ newest' = newest
      BY <2>1 DEF Write, TypeOK
    <3>3. ASSUME NEW c \in Checkers PROVE RequestInv(request[c])'
      <4>1. CASE request[c] = NoRequest
        BY <2>1, <4>1 DEF Write, RequestInv
      <4>2. CASE request[c] # NoRequest
        <5>1. request[c] \in Requests
          BY <4>2 DEF TypeOK
        <5>2. /\ request'[c].token = request[c].token
              /\ request'[c].owed = request[c].owed
              /\ request'[c].revision = request[c].revision
              /\ request'[c].fresh = FALSE
          BY <2>1, <4>2, <5>1 DEF Write, Requests
        <5> QED
          BY <3>2, <4>2, <5>2 DEF FloorInv, RequestInv
      <4> QED
        BY <4>1, <4>2
    <3> QED
      BY <3>1, <3>2, <3>3 DEF FloorInv
  <2>2. ASSUME NEW w \in Writers, ReturnToken(w) PROVE FloorInv'
    <3>1. newest' <= revision /\ newest <= newest' /\ newest' \in Nat /\ newest \in Nat
      BY <2>2 DEF ReturnToken, LaterOf, FloorInv, TypeOK
    <3>2. ASSUME NEW c \in Checkers PROVE RequestInv(request[c])'
      <4>1. request' = request /\ revision' = revision
        BY <2>2 DEF ReturnToken
      <4>2. request[c] # NoRequest => request[c].token \in Nat /\ request[c].owed \in Nat
        BY DEF TypeOK, Requests
      <4> QED
        BY <3>1, <4>1, <4>2 DEF FloorInv, RequestInv
    <3> QED
      BY <2>2, <3>1, <3>2 DEF FloorInv, ReturnToken
  <2>3. ASSUME NEW c \in Checkers, NEW level \in Consistency, NEW token \in 0 .. newest,
               BeginCheck(c, level, token)
        PROVE  FloorInv'
    BY <2>3 DEF FloorInv, RequestInv, BeginCheck, TypeOK, Unread
  <2>4. ASSUME NEW c \in Checkers, ReadRevision(c) PROVE FloorInv'
    <3>1. request[c] \in Requests
      BY <2>4 DEF ReadRevision, TypeOK, NoRequest
    <3>2. /\ request'[c] = [request[c] EXCEPT !.revision = revision]
          /\ \A b \in Checkers \ {c} : request'[b] = request[b]
          /\ newest' = newest /\ revision' = revision
      BY <2>4 DEF ReadRevision, TypeOK
    <3>3. RequestInv(request[c])'
      BY <2>4, <3>1, <3>2 DEF FloorInv, RequestInv, ReadRevision, TypeOK, Requests, NoRequest
    <3> QED
      BY <3>2, <3>3 DEF FloorInv, RequestInv
  <2>5. ASSUME NEW c \in Checkers, ReadNow(c) PROVE FloorInv'
    <3>1. request[c] \in Requests
      BY <2>5 DEF ReadNow, TypeOK, NoRequest
    <3>2. /\ request'[c] = [request[c] EXCEPT !.now = clock']
          /\ \A b \in Checkers \ {c} : request'[b] = request[b]
          /\ newest' = newest /\ revision' = revision
      BY <2>5 DEF ReadNow, TypeOK
    <3>3. RequestInv(request[c])'
      BY <2>5, <3>1, <3>2 DEF FloorInv, RequestInv, ReadNow, TypeOK, Requests, NoRequest
    <3> QED
      BY <3>2, <3>3 DEF FloorInv, RequestInv
  <2>6. ASSUME NEW c \in Checkers, Select(c) PROVE FloorInv'
    BY <2>6 DEF FloorInv, RequestInv, Select, TypeOK
  <2>7. ASSUME UNCHANGED vars PROVE FloorInv'
    BY <2>7 DEF FloorInv, RequestInv, vars
  <2>8. newest \in Nat /\ 0 \in 0 .. newest
    BY DEF TypeOK
  <2> QED
    BY <2>1, <2>2, <2>3, <2>4, <2>5, <2>6, <2>7, <2>8 DEF Next, Consistency
<1> QED
  BY <1>1, <1>2, TypeCorrect, PTL DEF Spec

(***************************************************************************)
(* Read your writes at every level, for any clock, any number of threads   *)
(* and any bucket.                                                         *)
(***************************************************************************)
THEOREM ReadYourWritesHolds == Spec => []ReadYourWrites
<1>1. TypeOK /\ FloorInv => ReadYourWrites
  <2> SUFFICES ASSUME TypeOK, FloorInv, NEW c \in Checkers, HasRead(c)
               PROVE  Selected(request[c]) >= request[c].owed
    BY DEF ReadYourWrites
  <2> DEFINE r == request[c]
  <2>1. /\ r.level \in Consistency /\ r.token \in Nat /\ r.revision \in Nat /\ r.now \in Nat
        /\ r.owed \in Nat
    BY ReadType, TimeFacts
  <2>2. Selected(r) \in Nat /\ Selected(r) >= r.revision
    BY <2>1, FloorHolds, BucketAssumption DEF Selected
  <2>3. r.owed <= r.revision
    BY DEF FloorInv, RequestInv, HasRead, NoRequest
  <2> QED
    BY <2>1, <2>2, <2>3
<1> QED
  BY <1>1, TypeCorrect, FloorInvariant, PTL

(***************************************************************************)
(* A token the service handed out never changes the key, for any clock.    *)
(***************************************************************************)
THEOREM TokenIsRedundantHolds == Spec => []TokenIsRedundant
<1>1. TypeOK /\ FloorInv => TokenIsRedundant
  <2> SUFFICES ASSUME TypeOK, FloorInv, NEW c \in Checkers, HasRead(c),
                      request[c].level = "AtLeastAsFresh"
               PROVE  Selected(request[c])
                        = Selected([request[c] EXCEPT !.level = "MinimizeLatency"])
    BY DEF TokenIsRedundant
  <2> DEFINE r == request[c]
             q == [r EXCEPT !.level = "MinimizeLatency"]
  <2>1. r \in Requests /\ r.token \in Nat /\ r.revision \in Nat /\ r.now \in Nat
    BY ReadType, TimeFacts
  <2>2. r.token <= r.revision
    BY DEF FloorInv, RequestInv, HasRead, NoRequest
  <2>3. /\ q.level = "MinimizeLatency" /\ q.token = r.token
        /\ q.revision = r.revision /\ q.now = r.now
    BY <2>1 DEF Requests
  <2>4. selectSnapshot("AtLeastAsFresh", r.token, r.revision, r.now, BucketSize)
          = selectSnapshot("MinimizeLatency", r.token, r.revision, r.now, BucketSize)
    BY <2>1, <2>2, OldTokenIsRedundant, BucketAssumption
  <2> QED
    BY <2>3, <2>4 DEF Selected
<1> QED
  BY <1>1, TypeCorrect, FloorInvariant, PTL

(***************************************************************************)
(* The floor does not fragment the cache within a bucket, for any clock.   *)
(***************************************************************************)
THEOREM SharedKeyHolds == Spec => []SharedKeyWithinBucket
<1>1. TypeOK /\ FloorInv => SharedKeyWithinBucket
  <2> SUFFICES ASSUME TypeOK, FloorInv, NEW b \in Checkers, NEW c \in Checkers,
                      HasRead(b), request[b].fresh, request[b].level # "FullyConsistent",
                      HasRead(c), request[c].fresh, request[c].level # "FullyConsistent",
                      quantize(request[b].now, BucketSize) = quantize(request[c].now, BucketSize)
               PROVE  Selected(request[b]) = Selected(request[c])
    BY DEF SharedKeyWithinBucket
  <2> DEFINE bucket == quantize(request[c].now, BucketSize)
  <2>1. ASSUME NEW d \in {b, c} PROVE Selected(request[d]) = LaterOf(bucket, revision)
    <3> DEFINE r == request[d]
    <3>1. /\ r.level \in {"MinimizeLatency", "AtLeastAsFresh"}
          /\ r.token \in Nat /\ r.revision \in Nat /\ r.now \in Nat
      BY ReadType, TimeFacts DEF Consistency
    <3>2. r.token <= r.revision /\ r.revision = revision
      BY DEF FloorInv, RequestInv, HasRead, NoRequest
    <3>3. bucket \in Nat /\ quantize(r.now, BucketSize) = bucket
      BY <3>1, QuantizeBounds, BucketAssumption
    <3>4. Selected(r) = selectSnapshot("MinimizeLatency", r.token, r.revision, r.now, BucketSize)
      BY <3>1, <3>2, OldTokenIsRedundant, BucketAssumption DEF Selected
    <3> QED
      BY <3>2, <3>3, <3>4 DEF selectSnapshot, Candidate
  <2> QED
    BY <2>1
<1> QED
  BY <1>1, TypeCorrect, FloorInvariant, PTL

(***************************************************************************)
(* Every write is stamped later than every token handed out, for any       *)
(* clock.                                                                  *)
(***************************************************************************)
THEOREM WriteOutdatesEveryTokenHolds == Spec => WriteOutdatesEveryToken
<1>1. TypeOK /\ FloorInv /\ [Next]_vars => [\A w \in Writers : Write(w) => revision' > newest]_vars
  <2> SUFFICES ASSUME TypeOK, FloorInv, NEW w \in Writers, Write(w) PROVE revision' > newest
    OBVIOUS
  <2> QED
    BY TimeFacts DEF TypeOK, FloorInv, Write, WriteReadings, Readings, stampWrite, LaterOf
<1> QED
  BY <1>1, TypeCorrect, FloorInvariant, PTL DEF Spec, WriteOutdatesEveryToken

-----------------------------------------------------------------------------
(***************************************************************************)
(* A clock that ticks between a reading and a later write.  Everything     *)
(* read or selected so far is then no later than both the clock and the    *)
(* revision, so the next stamp is strictly later than all of it: that is   *)
(* what a clock that may repeat a tick does not give.                      *)
(***************************************************************************)
Reached(s) == s <= LaterOf(clock, revision)

TickingInv ==
  /\ \A s \in used : Reached(s)
  /\ \A s \in retired : s < revision
  /\ \A c \in Checkers : request[c] # NoRequest => Reached(request[c].now) /\ Reached(request[c].revision)

\* TickingInv holds in every state, provided the clock ticks between a reading
\* and a later write.
THEOREM TickingInvariant ==
  ASSUME ClockModel = "ticking"
  PROVE  Spec => []TickingInv
<1>1. Init => TickingInv
  BY DEF Init, TickingInv, Reached, LaterOf
<1>2. TypeOK /\ FloorInv /\ TickingInv /\ [Next]_vars => TickingInv'
  <2> SUFFICES ASSUME TypeOK, FloorInv, TickingInv, [Next]_vars PROVE TickingInv'
    OBVIOUS
  <2> USE TimeFacts
  <2>0. clock \in Nat /\ revision \in Nat /\ used \subseteq Nat /\ retired \subseteq Nat
    BY DEF TypeOK
  <2>1. ASSUME NEW w \in Writers, Write(w) PROVE TickingInv'
    <3>1. /\ clock' \in Nat /\ revision' \in Nat
          /\ LaterOf(clock, revision) < revision'
          /\ revision' <= LaterOf(clock', revision')
      BY <2>0, <2>1 DEF Write, WriteReadings, Readings, stampWrite, LaterOf
    <3>2. LaterOf(clock, revision) \in Nat /\ LaterOf(clock', revision') \in Nat
      BY <2>0, <3>1 DEF LaterOf
    <3>3. \A s \in Nat \cup {Unread} : Reached(s) => Reached(s)' /\ s < revision'
      BY <3>1, <3>2 DEF Reached, Unread
    <3>4. used' = used /\ retired' = used
      BY <2>1 DEF Write
    <3>5. ASSUME NEW c \in Checkers, request'[c] # NoRequest
          PROVE  Reached(request[c].now)' /\ Reached(request[c].revision)'
      <4>1. request[c] # NoRequest /\ request[c] \in Requests
        BY <2>1, <3>5 DEF Write, TypeOK
      <4>2. request'[c].now = request[c].now /\ request'[c].revision = request[c].revision
        BY <2>1, <4>1 DEF Write, Requests
      <4>3. Reached(request[c].now) /\ Reached(request[c].revision)
        BY <4>1 DEF TickingInv
      <4>4. request[c].now \in Nat \cup {Unread} /\ request[c].revision \in Nat \cup {Unread}
        BY <4>1 DEF Requests
      <4> QED
        BY <3>1, <3>2, <4>2, <4>3, <4>4 DEF Reached, Unread
    <3> QED
      BY <2>0, <3>3, <3>4, <3>5 DEF TickingInv
  <2>2. ASSUME NEW w \in Writers, ReturnToken(w) PROVE TickingInv'
    BY <2>2 DEF TickingInv, Reached, ReturnToken
  <2>3. ASSUME NEW c \in Checkers, NEW level \in Consistency, NEW token \in 0 .. newest,
               BeginCheck(c, level, token)
        PROVE  TickingInv'
    BY <2>0, <2>3 DEF TickingInv, Reached, BeginCheck, TypeOK, Unread, LaterOf
  <2>4. ASSUME NEW c \in Checkers, ReadRevision(c) PROVE TickingInv'
    <3>1. request[c] \in Requests
      BY <2>4 DEF ReadRevision, TypeOK, NoRequest
    <3> QED
      BY <2>0, <2>4, <3>1 DEF TickingInv, Reached, ReadRevision, TypeOK, Requests, NoRequest, LaterOf
  <2>5. ASSUME NEW c \in Checkers, ReadNow(c) PROVE TickingInv'
    <3>1. request[c] \in Requests
      BY <2>5 DEF ReadNow, TypeOK, NoRequest
    <3>2. /\ clock' \in Nat /\ clock <= clock' /\ revision' = revision
          /\ used' = used /\ retired' = retired
          /\ request'[c] = [request[c] EXCEPT !.now = clock']
          /\ \A b \in Checkers \ {c} : request'[b] = request[b]
      BY <2>5 DEF ReadNow, Readings, TypeOK
    <3>3. LaterOf(clock, revision) <= LaterOf(clock, revision)'
          /\ LaterOf(clock, revision) \in Nat /\ LaterOf(clock, revision)' \in Nat
      BY <2>0, <3>2 DEF LaterOf
    <3>4. \A s \in Nat \cup {Unread} : Reached(s) => Reached(s)'
      BY <3>3 DEF Reached, Unread
    <3>5. Reached(request[c].now)' /\ Reached(request[c].revision)'
      <4>1. request'[c].now = clock' /\ request'[c].revision = request[c].revision
        BY <3>1, <3>2 DEF Requests
      <4>2. request[c].revision \in Nat \cup {Unread} /\ Reached(request[c].revision)
        BY <2>5, <3>1 DEF Requests, TickingInv, ReadNow, NoRequest
      <4> QED
        BY <2>0, <3>2, <3>3, <4>1, <4>2 DEF Reached, LaterOf, Unread
    <3>6. ASSUME NEW b \in Checkers \ {c}, request'[b] # NoRequest
          PROVE  Reached(request[b].now)' /\ Reached(request[b].revision)'
      <4>1. request[b] \in Requests /\ request'[b] = request[b]
        BY <3>2, <3>6 DEF TypeOK
      <4>2. request[b].now \in Nat \cup {Unread} /\ request[b].revision \in Nat \cup {Unread}
        BY <4>1 DEF Requests
      <4> QED
        BY <3>3, <3>6, <4>1, <4>2 DEF TickingInv, Reached, Unread
    <3> QED
      BY <2>0, <3>2, <3>4, <3>5, <3>6 DEF TickingInv
  <2>6. ASSUME NEW c \in Checkers, Select(c) PROVE TickingInv'
    <3> DEFINE r == request[c]
    <3>1. HasRead(c) /\ r # NoRequest
      BY <2>6 DEF Select, HasRead, NoRequest
    <3>2. /\ r.level \in Consistency /\ r.token \in Nat /\ r.revision \in Nat /\ r.now \in Nat
          /\ r.token <= r.revision
      BY <3>1, ReadType DEF FloorInv, RequestInv, HasRead
    <3>3. Selected(r) \in Nat /\ Selected(r) <= LaterOf(r.now, r.revision)
      BY <3>2, FloorHolds, BucketAssumption DEF Selected
    <3>4. Reached(Selected(r))
      BY <2>0, <3>1, <3>2, <3>3 DEF TickingInv, Reached, LaterOf
    <3> QED
      BY <2>6, <3>4 DEF TickingInv, Reached, Select, TypeOK
  <2>7. ASSUME UNCHANGED vars PROVE TickingInv'
    BY <2>7 DEF TickingInv, Reached, vars
  <2>8. newest \in Nat /\ 0 \in 0 .. newest
    BY DEF TypeOK
  <2> QED
    BY <2>1, <2>2, <2>3, <2>4, <2>5, <2>6, <2>7, <2>8 DEF Next, Consistency
<1> QED
  BY <1>1, <1>2, TypeCorrect, FloorInvariant, PTL DEF Spec

(***************************************************************************)
(* Under such a clock a write leaves every entry cached before it          *)
(* unreachable, for every bucket size, level and token handed out.         *)
(***************************************************************************)
THEOREM RetiredKeysUnreachableHolds ==
  ASSUME ClockModel = "ticking"
  PROVE  Spec => []RetiredKeysUnreachable
<1>1. TypeOK /\ FloorInv /\ TickingInv => RetiredKeysUnreachable
  <2> SUFFICES ASSUME TypeOK, FloorInv, TickingInv, NEW c \in Checkers, HasRead(c),
                      request[c].fresh
               PROVE  Selected(request[c]) \notin retired
    BY DEF RetiredKeysUnreachable
  <2> DEFINE r == request[c]
  <2>1. r.level \in Consistency /\ r.token \in Nat /\ r.revision \in Nat /\ r.now \in Nat
    BY ReadType, TimeFacts
  <2>2. Selected(r) \in Nat /\ Selected(r) >= r.revision
    BY <2>1, FloorHolds, BucketAssumption DEF Selected
  <2>3. r.revision = revision
    BY DEF FloorInv, RequestInv, HasRead, NoRequest
  <2> QED
    BY <2>1, <2>2, <2>3 DEF TickingInv
<1>2. Spec => []TickingInv
  BY TickingInvariant
<1> QED
  BY <1>1, <1>2, TypeCorrect, FloorInvariant, PTL

=============================================================================
