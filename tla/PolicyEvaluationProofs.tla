----------------------- MODULE PolicyEvaluationProofs -----------------------
(***************************************************************************)
(* The verdicts are those of the rules for any documents, any number of    *)
(* statements and any texts.                                               *)
(***************************************************************************)
EXTENDS PolicyEvaluation, WellFoundedInduction, SequenceTheorems, FiniteSetTheorems, TLAPS

-----------------------------------------------------------------------------
(* What is computed step by step along a sequence.                         *)

\* A set of natural numbers has a least element.
LEMMA LeastElement ==
  ASSUME NEW T \in SUBSET Nat, T # {}
  PROVE  \E m \in T : \A k \in T : m <= k
<1> DEFINE R == {ss \in Nat \X Nat : ss[1] < ss[2]}
<1>1. IsWellFoundedOn(R, Nat)
  BY NatLessThanWellFounded DEF OpToRel
<1> HIDE DEF R
<1>2. PICK m \in T : \A k \in T : <<k, m>> \notin R
  BY <1>1, WFMin
<1>3. \A k \in T : ~(k < m)
  BY <1>2 DEF R
<1> QED
  BY <1>3

\* What holds at the first step, and at each step if at the one before, holds at all.
LEMMA Upwards ==
  ASSUME NEW lo \in Nat, NEW n \in Nat, NEW T, lo \in T,
         \A k \in lo .. n : k # lo /\ k - 1 \in T => k \in T
  PROVE  lo .. n \subseteq T
<1> DEFINE bad == (lo .. n) \ T
<1>1. SUFFICES ASSUME bad # {} PROVE FALSE
  OBVIOUS
<1>2. PICK m \in bad : \A k \in bad : m <= k
  <2>1. bad \in SUBSET Nat
    OBVIOUS
  <2> HIDE DEF bad
  <2> QED
    BY <1>1, <2>1, LeastElement
<1>3. m \in lo .. n /\ m # lo /\ m - 1 \in lo .. n /\ m - 1 \notin bad
  BY <1>2
<1> QED
  BY <1>2, <1>3

Stepwise(f, n, c, D) == f[1] = c /\ \A k \in 2 .. n : f[k] = D[<<f[k - 1], k>>]

(***************************************************************************)
(* A function may be defined by its first value and a step D from each     *)
(* value to the next.                                                      *)
(***************************************************************************)
LEMMA StepwiseDefines ==
  ASSUME NEW n \in Nat \ {0}, NEW V, NEW c \in V, NEW D \in [V \X (2 .. n) -> V]
  PROVE  \E f \in [1 .. n -> V] : Stepwise(f, n, c, D)
<1> USE DEF Stepwise
<1> DEFINE Upto(m, f) == f[1] = c /\ \A k \in 2 .. m : f[k] = D[<<f[k - 1], k>>]
           T == {m \in 1 .. n : \E f \in [1 .. m -> V] : Upto(m, f)}
<1>1. 1 \in T
  <2> DEFINE g == [i \in 1 .. 1 |-> c]
  <2>1. 1 \in 1 .. 1 /\ 1 \in 1 .. n /\ 2 .. 1 = {}
    OBVIOUS
  <2>2. g \in [1 .. 1 -> V] /\ g[1] = c
    BY <2>1
  <2> QED
    BY <2>1, <2>2
<1>2. ASSUME NEW k \in 1 .. n, k # 1, k - 1 \in T PROVE k \in T
  <2>0. k \in 2 .. n
    BY <1>2
  <2>1. PICK f \in [1 .. k - 1 -> V] : Upto(k - 1, f)
    BY <1>2
  <2> DEFINE g == [i \in 1 .. k |-> IF i = k THEN D[<<f[k - 1], k>>] ELSE f[i]]
  <2>2. f[k - 1] \in V /\ D[<<f[k - 1], k>>] \in V
    <3>1. k - 1 \in 1 .. k - 1
      BY <2>0
    <3>2. f[k - 1] \in V
      BY <3>1
    <3> QED
      BY <2>0, <3>2
  <2>3. g \in [1 .. k -> V]
    <3>1. \A i \in 1 .. k : i # k => i \in 1 .. k - 1
      BY <2>0
    <3> QED
      BY <2>2, <3>1
  <2>4. g[1] = c
    BY <2>0, <2>1
  <2>5. ASSUME NEW i \in 2 .. k PROVE g[i] = D[<<g[i - 1], i>>]
    <3>1. i - 1 \in 1 .. k /\ i - 1 # k /\ i \in 1 .. k
      BY <2>0
    <3>2. CASE i = k
      BY <3>1, <3>2
    <3>3. CASE i # k
      <4>1. i \in 2 .. k - 1
        BY <2>0, <3>3
      <4> QED
        BY <2>1, <3>1, <3>3, <4>1
    <3> QED
      BY <3>2, <3>3
  <2> HIDE DEF g
  <2>6. Upto(k, g)
    BY <2>4, <2>5
  <2> QED
    BY <2>3, <2>6
<1>3. 1 .. n \subseteq T
  <2> HIDE DEF T
  <2> QED
    BY <1>1, <1>2, Upwards
<1>4. n \in T
  <2>1. n \in 1 .. n
    OBVIOUS
  <2> HIDE DEF T
  <2> QED
    BY <1>3, <2>1
<1> QED
  BY <1>4

-----------------------------------------------------------------------------
(* What a sequence of sequences holds. *)

Contents(list) == UNION {ToSet(list[i]) : i \in DOMAIN list}

\* The elements of two sequences put together.
LEMMA ConcatContents ==
  ASSUME NEW S, NEW s \in Seq(S), NEW t \in Seq(S)
  PROVE  s \o t \in Seq(S) /\ ToSet(s \o t) = ToSet(s) \cup ToSet(t)
<1>1. /\ s \o t \in Seq(S) /\ Len(s \o t) = Len(s) + Len(t)
      /\ \A i \in 1 .. Len(s) + Len(t) : (s \o t)[i] = IF i <= Len(s) THEN s[i] ELSE t[i - Len(s)]
  BY ConcatProperties
<1>2. /\ DOMAIN s = 1 .. Len(s) /\ DOMAIN t = 1 .. Len(t) /\ DOMAIN (s \o t) = 1 .. Len(s) + Len(t)
      /\ Len(s) \in Nat /\ Len(t) \in Nat
  BY <1>1, LenProperties
<1> DEFINE both == s \o t
<1> HIDE DEF both
<1>3. ASSUME NEW i \in DOMAIN s PROVE s[i] \in ToSet(s \o t)
  <2>1. i \in 1 .. Len(s) + Len(t) /\ i <= Len(s)
    BY <1>2
  <2> QED
    BY <1>1, <1>2, <2>1 DEF ToSet
<1>4. ASSUME NEW j \in DOMAIN t PROVE t[j] \in ToSet(s \o t)
  <2>1. Len(s) + j \in 1 .. Len(s) + Len(t) /\ ~(Len(s) + j <= Len(s)) /\ (Len(s) + j) - Len(s) = j
    BY <1>2
  <2>2. (s \o t)[Len(s) + j] = t[j]
    BY <1>1, <2>1
  <2> QED
    BY <1>2, <2>1, <2>2 DEF ToSet
<1>5. ASSUME NEW i \in 1 .. Len(s) + Len(t) PROVE (s \o t)[i] \in ToSet(s) \cup ToSet(t)
  <2>1. CASE i <= Len(s)
    BY <1>1, <1>2, <2>1 DEF ToSet
  <2>2. CASE ~(i <= Len(s))
    <3>1. i - Len(s) \in DOMAIN t
      BY <1>2, <2>2
    <3> QED
      BY <1>1, <2>2, <3>1 DEF ToSet
  <2> QED
    BY <2>1, <2>2
<1> QED
  BY <1>1, <1>2, <1>3, <1>4, <1>5 DEF ToSet

Flattens(f, list) ==
  f = [i \in 1 .. Len(list) |-> IF i = 1 THEN list[i] ELSE f[i - 1] \o list[i]]

(***************************************************************************)
(* Flattening keeps what the inner sequences hold and nothing else.        *)
(***************************************************************************)
LEMMA FlattenContents ==
  ASSUME NEW S, NEW list \in Seq(Seq(S))
  PROVE  FlattenSeq(list) \in Seq(S) /\ ToSet(FlattenSeq(list)) = Contents(list)
<1>0. Len(list) \in Nat /\ DOMAIN list = 1 .. Len(list) /\ \A i \in 1 .. Len(list) : list[i] \in Seq(S)
  BY LenProperties, ElementOfSeq
<1>1. CASE Len(list) = 0
  <2>1. FlattenSeq(list) = list
    BY <1>1 DEF FlattenSeq
  <2>2. DOMAIN list = {} /\ list = <<>>
    BY <1>0, <1>1, EmptySeq
  <2>3. list \in Seq(S)
    BY <2>2, EmptySeq
  <2> QED
    BY <2>1, <2>2, <2>3 DEF ToSet, Contents
<1>2. CASE Len(list) # 0
  <2>1. FlattenSeq(list) = (CHOOSE f : Flattens(f, list))[Len(list)]
    BY <1>2 DEF FlattenSeq, Flattens
  <2>2. PICK n \in Nat \ {0} : n = Len(list)
    BY <1>0, <1>2
  <2>3. \A i \in 1 .. n : list[i] \in Seq(S)
    BY <1>0, <2>2
  <2>4. \E f : Flattens(f, list)
    <3> DEFINE D == [vk \in Seq(S) \X (2 .. n) |-> vk[1] \o list[vk[2]]]
    <3>1. D \in [Seq(S) \X (2 .. n) -> Seq(S)]
      BY <2>3, ConcatProperties
    <3> DEFINE V == Seq(S)
               c == list[1]
    <3>2. \A v \in Seq(S), k \in 2 .. n : D[<<v, k>>] = v \o list[k]
      OBVIOUS
    <3>3. list[1] \in Seq(S)
      BY <2>3
    <3> HIDE DEF D
    <3>4. PICK f \in [1 .. n -> Seq(S)] : f[1] = list[1] /\ \A k \in 2 .. n : f[k] = D[<<f[k - 1], k>>]
      <4>1. c \in V
        BY <3>3
      <4>2. D \in [V \X (2 .. n) -> V]
        BY <3>1
      <4>3. n \in Nat \ {0}
        OBVIOUS
      <4> HIDE DEF V, c
      <4>4. \E f \in [1 .. n -> V] : Stepwise(f, n, c, D)
        BY <4>1, <4>2, <4>3, StepwiseDefines
      <4> QED
        BY <4>4 DEF V, c, Stepwise
    <3>5. ASSUME NEW k \in 1 .. n PROVE f[k] = IF k = 1 THEN list[k] ELSE f[k - 1] \o list[k]
      <4>1. CASE k = 1
        BY <3>4, <4>1
      <4>2. CASE k # 1
        <5>1. k \in 2 .. n /\ k - 1 \in 1 .. n
          BY <4>2
        <5>2. f[k - 1] \in Seq(S)
          BY <3>4, <5>1
        <5>3. f[k] = D[<<f[k - 1], k>>]
          BY <3>4, <5>1
        <5>4. D[<<f[k - 1], k>>] = f[k - 1] \o list[k]
          BY ONLY <3>2, <5>1, <5>2
        <5> QED
          BY <4>2, <5>3, <5>4
      <4> QED
        BY <4>1, <4>2
    <3>6. f = [i \in 1 .. n |-> f[i]]
      BY <3>4
    <3>7. f = [i \in 1 .. n |-> IF i = 1 THEN list[i] ELSE f[i - 1] \o list[i]]
      BY <3>5, <3>6
    <3> QED
      BY <2>2, <3>7 DEF Flattens
  <2>5. PICK f : f = CHOOSE g : Flattens(g, list)
    OBVIOUS
  <2>6. f = [i \in 1 .. n |-> IF i = 1 THEN list[i] ELSE f[i - 1] \o list[i]]
    BY <2>2, <2>4, <2>5 DEF Flattens
  <2>7. f[1] = list[1]
    <3>1. 1 \in 1 .. n
      OBVIOUS
    <3> QED
      BY <2>6, <3>1
  <2>8. ASSUME NEW i \in 2 .. n PROVE f[i] = f[i - 1] \o list[i]
    <3>1. i \in 1 .. n /\ i # 1
      OBVIOUS
    <3> QED
      BY <2>6, <3>1
  <2> DEFINE T == {i \in 1 .. n : f[i] \in Seq(S) /\ ToSet(f[i]) = UNION {ToSet(list[j]) : j \in 1 .. i}}
  <2>9. 1 \in T
    <3>1. 1 .. 1 = {1} /\ 1 \in 1 .. n
      OBVIOUS
    <3> QED
      BY <2>3, <2>7, <3>1
  <2>10. ASSUME NEW i \in 1 .. n, i # 1, i - 1 \in T PROVE i \in T
    <3>1. i \in 2 .. n
      BY <2>10
    <3>2. 1 .. i = (1 .. (i - 1)) \cup {i}
      BY <3>1
    <3>3. f[i - 1] \in Seq(S) /\ ToSet(f[i - 1]) = UNION {ToSet(list[j]) : j \in 1 .. (i - 1)}
      BY <2>10
    <3>4. f[i] \in Seq(S) /\ ToSet(f[i]) = ToSet(f[i - 1]) \cup ToSet(list[i])
      <4>1. f[i] = f[i - 1] \o list[i] /\ list[i] \in Seq(S)
        BY <2>3, <2>8, <3>1
      <4> QED
        BY ONLY <3>3, <4>1, ConcatContents
    <3>5. ToSet(f[i]) = UNION {ToSet(list[j]) : j \in 1 .. i}
      BY ONLY <3>2, <3>3, <3>4
    <3> QED
      BY <3>4, <3>5
  <2>11. 1 .. n \subseteq T
    <3> HIDE DEF T
    <3>1. 1 \in Nat /\ n \in Nat
      OBVIOUS
    <3> QED
      BY <2>9, <2>10, <3>1, Upwards
  <2>12. n \in T
    <3>1. n \in 1 .. n
      OBVIOUS
    <3> HIDE DEF T
    <3> QED
      BY <2>11, <3>1
  <2>13. FlattenSeq(list) = f[n]
    BY <2>1, <2>2, <2>5
  <2> QED
    BY <1>0, <2>2, <2>12, <2>13 DEF Contents
<1> QED
  BY <1>1, <1>2

-----------------------------------------------------------------------------
(* What the scans find. *)

\* What statements say when they are read as a set.
Said(statements, q) ==
  IF \E s \in statements : Matches(s, q) /\ s.effect = "Deny" THEN "Deny"
  ELSE IF \E s \in statements : Matches(s, q) /\ s.effect = "Allow" THEN "Allow" ELSE "Undecided"

\* One more statement, read after the others.
LEMMA SaidStep ==
  ASSUME NEW statements, NEW q, NEW s, s.effect \in {"Allow", "Deny"}
  PROVE  Said(statements \cup {s}, q) =
           IF Said(statements, q) = "Deny" \/ ~Matches(s, q) THEN Said(statements, q) ELSE s.effect
<1>1. CASE ~Matches(s, q)
  BY <1>1 DEF Said
<1>2. CASE Matches(s, q) /\ s.effect = "Deny"
  BY <1>2 DEF Said
<1>3. CASE Matches(s, q) /\ s.effect = "Allow"
  BY <1>3 DEF Said
<1> QED
  BY <1>1, <1>2, <1>3

First(statements, k) == {statements[j] : j \in 1 .. k}

\* What the first k statements say, from what the k - 1 before do.
LEMMA SaidUpTo ==
  ASSUME NEW statements \in Seq(Statement), NEW q, NEW k \in 1 .. Len(statements)
  PROVE  Said(First(statements, k), q) =
           IF Said(First(statements, k - 1), q) = "Deny" \/ ~Matches(statements[k], q)
           THEN Said(First(statements, k - 1), q) ELSE statements[k].effect
<1>1. Len(statements) \in Nat /\ statements[k] \in Statement
  BY LenProperties, ElementOfSeq
<1>2. statements[k].effect \in {"Allow", "Deny"}
  BY <1>1 DEF Statement
<1>3. 1 .. k = (1 .. (k - 1)) \cup {k}
  BY <1>1
<1>4. First(statements, k) = First(statements, k - 1) \cup {statements[k]}
  BY <1>3 DEF First
<1> QED
  BY <1>2, <1>4, SaidStep

\* No statement says nothing.
LEMMA SaidOfNothing ==
  ASSUME NEW statements, NEW q
  PROVE  Said(First(statements, 0), q) = "Undecided"
<1>1. 1 .. 0 = {}
  OBVIOUS
<1> QED
  BY <1>1 DEF Said, First

\* The first so many are all of them.
LEMMA FirstAll ==
  ASSUME NEW statements \in Seq(Statement)
  PROVE  First(statements, Len(statements)) = ToSet(statements)
BY LenProperties DEF First, ToSet

ScansVerdict(f, statements, q) ==
  f = [k \in 0 .. Len(statements) |->
         IF k = 0 THEN "Undecided"
         ELSE IF f[k - 1] = "Deny" \/ ~Matches(statements[k], q) THEN f[k - 1]
         ELSE statements[k].effect]

(***************************************************************************)
(* The scan of a role's statements finds what the set of them says.        *)
(***************************************************************************)
LEMMA VerdictScan ==
  ASSUME NEW statements \in Seq(Statement), NEW q
  PROVE  (CHOOSE f : ScansVerdict(f, statements, q))[Len(statements)] = Said(ToSet(statements), q)
<1>1. PICK n \in Nat : n = Len(statements)
  BY LenProperties
<1> DEFINE said(k) == Said(First(statements, k), q)
<1>2. /\ said(0) = "Undecided"
      /\ \A k \in 1 .. n : said(k) =
           IF said(k - 1) = "Deny" \/ ~Matches(statements[k], q) THEN said(k - 1) ELSE statements[k].effect
  BY <1>1, SaidOfNothing, SaidUpTo
<1> HIDE DEF said
<1>3. \E f : ScansVerdict(f, statements, q)
  <2> DEFINE g == [k \in 0 .. n |-> said(k)]
  <2>1. \A k \in 0 .. n : k # 0 => k \in 1 .. n /\ g[k - 1] = said(k - 1)
    OBVIOUS
  <2>2. \A k \in 0 .. n : said(k) =
          IF k = 0 THEN "Undecided"
          ELSE IF g[k - 1] = "Deny" \/ ~Matches(statements[k], q) THEN g[k - 1]
          ELSE statements[k].effect
    BY <1>2, <2>1
  <2> HIDE DEF g
  <2>3. g = [k \in 0 .. n |->
          IF k = 0 THEN "Undecided"
          ELSE IF g[k - 1] = "Deny" \/ ~Matches(statements[k], q) THEN g[k - 1]
          ELSE statements[k].effect]
    BY <2>2 DEF g
  <2> QED
    BY <1>1, <2>3 DEF ScansVerdict
<1>4. PICK f : f = CHOOSE g : ScansVerdict(g, statements, q)
  OBVIOUS
<1>5. f = [k \in 0 .. n |->
        IF k = 0 THEN "Undecided"
        ELSE IF f[k - 1] = "Deny" \/ ~Matches(statements[k], q) THEN f[k - 1]
        ELSE statements[k].effect]
  BY <1>1, <1>3, <1>4 DEF ScansVerdict
<1> DEFINE T == {k \in 0 .. n : f[k] = said(k)}
<1>6. 0 \in T
  <2>1. 0 \in 0 .. n
    OBVIOUS
  <2> QED
    BY <1>2, <1>5, <2>1
<1>7. ASSUME NEW k \in 0 .. n, k # 0, k - 1 \in T PROVE k \in T
  <2>1. k \in 1 .. n /\ f[k - 1] = said(k - 1)
    BY <1>7
  <2>2. f[k] = IF f[k - 1] = "Deny" \/ ~Matches(statements[k], q) THEN f[k - 1] ELSE statements[k].effect
    BY <1>5, <1>7
  <2> QED
    BY <1>2, <2>1, <2>2
<1>8. 0 .. n \subseteq T
  <2> HIDE DEF T
  <2>1. 0 \in Nat
    OBVIOUS
  <2> QED
    BY <1>6, <1>7, <2>1, Upwards
<1>9. f[n] = said(n)
  <2>1. n \in 0 .. n
    OBVIOUS
  <2> QED
    BY <1>8, <2>1
<1> QED
  BY <1>1, <1>4, <1>9, FirstAll DEF said

ScansFlat(f, statements, q) ==
  f = [k \in 0 .. Len(statements) |->
         IF k = 0 THEN [returned |-> FALSE, allowed |-> FALSE]
         ELSE IF f[k - 1].returned \/ ~Matches(statements[k], q) THEN f[k - 1]
         ELSE [returned |-> statements[k].effect = "Deny", allowed |-> statements[k].effect = "Allow"]]

\* The flat scan allows what the set of the statements allows.
LEMMA FlatScan ==
  ASSUME NEW statements \in Seq(Statement), NEW q
  PROVE  (CHOOSE f : ScansFlat(f, statements, q))[Len(statements)].allowed
           <=> Said(ToSet(statements), q) = "Allow"
<1>1. PICK n \in Nat : n = Len(statements)
  BY LenProperties
<1> DEFINE said(k) == Said(First(statements, k), q)
           held(k) == [returned |-> said(k) = "Deny", allowed |-> said(k) = "Allow"]
           Step(v, k) ==
             IF v.returned \/ ~Matches(statements[k], q) THEN v
             ELSE [returned |-> statements[k].effect = "Deny", allowed |-> statements[k].effect = "Allow"]
<1>2. held(0) = [returned |-> FALSE, allowed |-> FALSE] /\ \A k \in 1 .. n : held(k) = Step(held(k - 1), k)
  <2>1. said(0) = "Undecided"
    BY SaidOfNothing
  <2>2. \A k \in 1 .. n : said(k) =
          IF said(k - 1) = "Deny" \/ ~Matches(statements[k], q) THEN said(k - 1) ELSE statements[k].effect
    BY <1>1, SaidUpTo
  <2> HIDE DEF said
  <2> QED
    BY <2>1, <2>2
<1>3. ASSUME NEW k \in 0 .. n PROVE held(k).allowed <=> said(k) = "Allow"
  OBVIOUS
<1> HIDE DEF held, Step
<1>4. \E f : ScansFlat(f, statements, q)
  <2> DEFINE g == [k \in 0 .. n |-> held(k)]
  <2>1. \A k \in 0 .. n : k # 0 => k \in 1 .. n /\ g[k - 1] = held(k - 1)
    OBVIOUS
  <2>2. \A k \in 0 .. n : held(k) =
          IF k = 0 THEN [returned |-> FALSE, allowed |-> FALSE] ELSE Step(g[k - 1], k)
    BY <1>2, <2>1
  <2> HIDE DEF g
  <2>3. g = [k \in 0 .. n |->
          IF k = 0 THEN [returned |-> FALSE, allowed |-> FALSE] ELSE Step(g[k - 1], k)]
    BY <2>2 DEF g
  <2> QED
    BY <1>1, <2>3 DEF ScansFlat, Step
<1>5. PICK f : f = CHOOSE g : ScansFlat(g, statements, q)
  OBVIOUS
<1>6. f = [k \in 0 .. n |->
        IF k = 0 THEN [returned |-> FALSE, allowed |-> FALSE] ELSE Step(f[k - 1], k)]
  BY <1>1, <1>4, <1>5 DEF ScansFlat, Step
<1> DEFINE T == {k \in 0 .. n : f[k] = held(k)}
<1>7. 0 \in T
  <2>1. 0 \in 0 .. n
    OBVIOUS
  <2> QED
    BY <1>2, <1>6, <2>1
<1>8. ASSUME NEW k \in 0 .. n, k # 0, k - 1 \in T PROVE k \in T
  <2>1. k \in 1 .. n /\ f[k - 1] = held(k - 1)
    BY <1>8
  <2>2. f[k] = Step(f[k - 1], k)
    BY <1>6, <1>8
  <2> QED
    BY <1>2, <2>1, <2>2
<1>9. 0 .. n \subseteq T
  <2> HIDE DEF T
  <2>1. 0 \in Nat
    OBVIOUS
  <2> QED
    BY <1>7, <1>8, <2>1, Upwards
<1>10. f[n] = held(n) /\ n \in 0 .. n
  <2>1. n \in 0 .. n
    OBVIOUS
  <2> QED
    BY <1>9, <2>1
<1> QED
  BY <1>1, <1>3, <1>5, <1>10, FirstAll DEF said

\* What either scan makes of a sequence of policies.
LEMMA VerdictIs ==
  ASSUME NEW list \in Seq(Seq(Statement)), NEW q
  PROVE  verdictOfRole(list, q) = Said(Contents(list), q)
<1>1. verdictOfRole(list, q) = (CHOOSE f : ScansVerdict(f, FlattenSeq(list), q))[Len(FlattenSeq(list))]
  BY DEF verdictOfRole, ScansVerdict
<1> QED
  BY <1>1, FlattenContents, VerdictScan

\* What the flat evaluation makes of it.
LEMMA EvaluateIs ==
  ASSUME NEW list \in Seq(Seq(Statement)), NEW q
  PROVE  evaluate(list, q) <=> Said(Contents(list), q) = "Allow"
<1>1. evaluate(list, q) = (CHOOSE f : ScansFlat(f, FlattenSeq(list), q))[Len(FlattenSeq(list))].allowed
  BY DEF evaluate, ScansFlat
<1> QED
  BY <1>1, FlattenContents, FlatScan

-----------------------------------------------------------------------------
(* What a pattern, a field and a statement of a document mean. *)

\* A prefix no longer than the text has its length.
LEMMA PrefixLength ==
  ASSUME NEW text \in Patterns \cup Values, NEW k \in Nat, k <= Len(text)
  PROVE  Len(SubSeq(text, 1, k)) = k
<1>1. text \in Seq(ToSet(text))
  BY TextAssumption
<1>2. Len(text) \in Nat /\ \A i \in 1 .. Len(text) : text[i] \in ToSet(text)
  BY <1>1, LenProperties, ElementOfSeq
<1>3. \A i \in 1 .. k : text[i] \in ToSet(text)
  BY <1>2
<1> QED
  BY <1>3, SubSeqProperties

(***************************************************************************)
(* compare() with a length finds what begins with the prefix, and an       *)
(* asterisk alone, whose prefix is empty, finds everything.                *)
(***************************************************************************)
LEMMA PatternMeaning ==
  ASSUME NEW pattern \in Patterns, NEW value \in Values
  PROVE  wildcardMatch(pattern, value) <=> Denotes(pattern, value)
<1>1. Len(pattern) \in Nat /\ Len(value) \in Nat
  <2>1. pattern \in Seq(ToSet(pattern)) /\ value \in Seq(ToSet(value))
    BY TextAssumption
  <2> QED
    BY <2>1, LenProperties
<1>2. pattern # <<>> => Len(pattern) # 0
  <2>1. pattern \in Seq(ToSet(pattern))
    BY TextAssumption
  <2> QED
    BY <2>1, EmptySeq
<1>3. CASE ~(pattern # <<>> /\ Last(pattern) = Star)
  <2>1. <<Star>> # <<>> /\ Len(<<Star>>) = 1 /\ <<Star>>[1] = Star
    OBVIOUS
  <2>2. pattern # <<Star>>
    BY <1>3, <2>1 DEF Last
  <2> QED
    BY <1>3, <2>2 DEF wildcardMatch, Denotes
<1>4. CASE pattern # <<>> /\ Last(pattern) = Star
  <2>1. Len(pattern) - 1 \in Nat /\ Len(Front(pattern)) = Len(pattern) - 1
    BY <1>1, <1>2, <1>4, PrefixLength DEF Front
  <2>2. ASSUME NEW k \in 0 .. Len(value), Front(pattern) = SubSeq(value, 1, k)
        PROVE  k = Len(pattern) - 1
    <3>1. k \in Nat /\ k <= Len(value)
      BY <1>1
    <3>2. Len(SubSeq(value, 1, k)) = k
      BY <3>1, PrefixLength
    <3> QED
      BY <2>1, <2>2, <3>2
  <2>3. CASE pattern = <<Star>>
    <3>1. Len(pattern) - 1 = 0
      BY <2>3
    <3>2. Front(pattern) = SubSeq(pattern, 1, 0)
      BY <3>1, Zenon DEF Front
    <3>3. SubSeq(pattern, 1, 0) = <<>> /\ SubSeq(value, 1, 0) = <<>> /\ 0 \in 0 .. Len(value)
      BY <1>1, SubSeqEmpty
    <3> QED
      BY <1>4, <2>3, <3>2, <3>3 DEF wildcardMatch, Denotes
  <2>4. CASE pattern # <<Star>>
    <3>1. PICK read \in 0 .. Len(value) :
            read = IF Len(value) < Len(pattern) - 1 THEN Len(value) ELSE Len(pattern) - 1
      BY <1>1, <2>1
    <3>2. wildcardMatch(pattern, value) <=> SubSeq(value, 1, read) = Front(pattern)
      BY <1>4, <2>4, <3>1 DEF wildcardMatch
    <3>3. ASSUME NEW k \in 0 .. Len(value), Front(pattern) = SubSeq(value, 1, k) PROVE k = read
      BY <1>1, <2>1, <2>2, <3>1, <3>3
    <3> QED
      BY <1>4, <3>2, <3>3 DEF Denotes
  <2> QED
    BY <2>3, <2>4
<1> QED
  BY <1>3, <1>4

\* What is read of a field that does not throw: patterns, which mean what the field does.
LEMMA FieldMeaning ==
  ASSUME NEW field \in Field, ~Throws(field)
  PROVE  /\ readStringOrArray(field) \in Seq(Patterns)
         /\ \A value \in Values :
              (\E k \in DOMAIN readStringOrArray(field) : wildcardMatch(readStringOrArray(field)[k], value))
                <=> Names(field, value)
<1>1. CASE field \in [kind : {"string"}, text : Patterns]
  <2>1. readStringOrArray(field) = <<field.text>> /\ field.kind = "string" /\ field.text \in Patterns
    BY <1>1 DEF readStringOrArray
  <2>2. <<field.text>> \in Seq(Patterns) /\ DOMAIN <<field.text>> = {1} /\ <<field.text>>[1] = field.text
    BY <2>1
  <2> QED
    BY <2>1, <2>2, PatternMeaning DEF Names
<1>2. CASE field \in [kind : {"array"}, items : Seq(Patterns \cup {NotAString})]
  <2>1. /\ readStringOrArray(field) = field.items /\ field.kind = "array"
        /\ field.items \in Seq(Patterns \cup {NotAString}) /\ NotAString \notin ToSet(field.items)
    BY <1>2 DEF readStringOrArray, Throws
  <2> DEFINE items == field.items
  <2>2. items \in [1 .. Len(items) -> Patterns \cup {NotAString}] /\ Len(items) \in Nat
    BY <2>1, LenProperties
  <2>3. \A k \in 1 .. Len(items) : items[k] \in Patterns
    BY <2>1, <2>2 DEF ToSet
  <2>4. items \in Seq(Patterns)
    <3>1. items \in [1 .. Len(items) -> Patterns]
      BY <2>2, <2>3
    <3> HIDE DEF items
    <3> QED
      BY <2>2, <3>1, SeqDef
  <2>5. \A value \in Values : \A k \in DOMAIN items : wildcardMatch(items[k], value) <=> Denotes(items[k], value)
    BY <2>2, <2>3, PatternMeaning
  <2> QED
    BY <2>1, <2>4, <2>5 DEF Names, ToSet
<1>3. CASE field \in [kind : {"other", "missing"}]
  <2>1. readStringOrArray(field) = <<>> /\ \A value \in Values : ~Names(field, value)
    BY <1>3 DEF readStringOrArray, Names
  <2> QED
    BY <2>1, EmptySeq
<1> QED
  BY <1>1, <1>2, <1>3 DEF Field

\* What becomes of one element of the "Statement" array.
Read(raw) ==
  [effect |-> raw.effect, actions |-> readStringOrArray(raw.action), resources |-> readStringOrArray(raw.resource)]

Readable(raw) == raw.effect \in {"Allow", "Deny"} /\ ~Throws(raw.action) /\ ~Throws(raw.resource)

Fields(raw) == {raw.action, raw.resource} \subseteq Field

\* A statement matches what its element of the document names.
LEMMA StatementMeaning ==
  ASSUME NEW raw, Fields(raw), Readable(raw), NEW q \in Requests
  PROVE  Matches(Read(raw), q) <=> Names(raw.action, q.action) /\ Names(raw.resource, q.resource)
<1>1. raw.action \in Field /\ raw.resource \in Field /\ q.action \in Values /\ q.resource \in Values
  BY DEF Fields, Requests
<1>2. matchesAction(Read(raw), q.action) <=> Names(raw.action, q.action)
  BY <1>1, FieldMeaning DEF matchesAction, Read, Readable
<1>3. matchesResource(Read(raw), q.resource) <=> Names(raw.resource, q.resource)
  BY <1>1, FieldMeaning DEF matchesResource, Read, Readable
<1> QED
  BY <1>2, <1>3 DEF Matches

\* A document that parses becomes its elements, each read, and no others.
LEMMA DocumentMeaning ==
  ASSUME NEW document \in Documents, Parses(document)
  PROVE  /\ fromJsonString(document) \in Seq(Statement)
         /\ ToSet(fromJsonString(document)) = {Read(raw) : raw \in ToSet(document)}
         /\ \A raw \in ToSet(document) : Fields(raw) /\ Readable(raw)
<1>1. PICK n \in Nat : n = Len(document) /\ DOMAIN document = 1 .. n
  <2>1. document \in Seq(ToSet(document))
    BY DocumentsAssumption
  <2> QED
    BY <2>1, LenProperties
<1>2. \A raw \in ToSet(document) : Fields(raw) /\ Readable(raw)
  BY DocumentsAssumption DEF Parses, ToSet, Fields, Readable
<1>3. fromJsonString(document) = [k \in 1 .. n |-> Read(document[k])]
  BY <1>1 DEF fromJsonString, Read
<1>4. ASSUME NEW k \in 1 .. n PROVE Read(document[k]) \in Statement
  <2>1. document[k] \in ToSet(document)
    BY <1>1 DEF ToSet
  <2>2. Fields(document[k]) /\ Readable(document[k])
    BY <1>2, <2>1
  <2>3. \A field \in Field : ~Throws(field) => readStringOrArray(field) \in Seq(Patterns)
    BY FieldMeaning
  <2> QED
    BY <2>2, <2>3 DEF Fields, Readable, Read, Statement
<1>5. fromJsonString(document) \in Seq(Statement)
  <2>1. [k \in 1 .. n |-> Read(document[k])] \in [1 .. n -> Statement]
    BY <1>4
  <2> QED
    BY <1>3, <2>1, SeqDef
<1>6. ToSet(fromJsonString(document)) = {Read(raw) : raw \in ToSet(document)}
  BY <1>1, <1>3 DEF ToSet
<1> QED
  BY <1>2, <1>5, <1>6

-----------------------------------------------------------------------------
(* What has been loaded. *)

\* The policies of a role are its documents, each read and none left out.
LoadedInv ==
  /\ documents \in [RoleNames -> Seq(Documents)]
  /\ \A r \in RoleNames : \A i \in DOMAIN documents[r] : Parses(documents[r][i])
  /\ policies = [r \in RoleNames |-> [i \in DOMAIN documents[r] |-> fromJsonString(documents[r][i])]]

\* Nothing is loaded at first.
LEMMA LoadedInit == Init => LoadedInv
<1> SUFFICES ASSUME Init PROVE LoadedInv
  OBVIOUS
<1>1. <<>> \in Seq(Documents) /\ DOMAIN <<>> = {}
  BY EmptySeq
<1>2. \A r \in RoleNames : documents[r] = <<>>
  BY DEF Init
<1>3. [i \in {} |-> fromJsonString(<<>>[i])] = <<>>
  OBVIOUS
<1> QED
  BY <1>1, <1>2, <1>3 DEF Init, LoadedInv

\* Load appends a document and what is read of it; Replace drops both.
LEMMA LoadedNext == LoadedInv /\ [Next]_vars => LoadedInv'
<1> SUFFICES ASSUME LoadedInv, [Next]_vars PROVE LoadedInv'
  OBVIOUS
<1>0. \A r \in RoleNames : documents[r] \in Seq(Documents)
  BY DEF LoadedInv
<1>1. ASSUME NEW role \in RoleNames, Replace(role) PROVE LoadedInv'
  <2>1. <<>> \in Seq(Documents) /\ DOMAIN <<>> = {} /\ [i \in {} |-> fromJsonString(<<>>[i])] = <<>>
    BY EmptySeq
  <2>2. \A r \in RoleNames : documents'[r] = IF r = role THEN <<>> ELSE documents[r]
    BY <1>1 DEF Replace, LoadedInv
  <2>3. documents' \in [RoleNames -> Seq(Documents)]
    BY <1>1, <2>1 DEF Replace, LoadedInv
  <2>4. \A r \in RoleNames : \A i \in DOMAIN documents'[r] : Parses(documents'[r][i])
    BY <2>1, <2>2 DEF LoadedInv
  <2>5. policies' = [r \in RoleNames |-> [i \in DOMAIN documents'[r] |-> fromJsonString(documents'[r][i])]]
    <3>1. policies' = [r \in RoleNames |-> IF r = role THEN <<>> ELSE policies[r]]
      BY <1>1 DEF Replace, LoadedInv
    <3>2. ASSUME NEW r \in RoleNames
          PROVE  (IF r = role THEN <<>> ELSE policies[r])
                   = [i \in DOMAIN documents'[r] |-> fromJsonString(documents'[r][i])]
      BY <2>1, <2>2 DEF LoadedInv
    <3> QED
      BY <3>1, <3>2
  <2> QED
    BY <2>3, <2>4, <2>5 DEF LoadedInv
<1>2. ASSUME NEW role \in RoleNames, NEW document \in Documents, Load(role, document) PROVE LoadedInv'
  <2> DEFINE old == documents[role]
             new == Append(old, document)
  <2>1. old \in Seq(Documents)
    BY <1>0
  <2>2. PICK n \in Nat : n = Len(old) /\ DOMAIN old = 1 .. n
    BY <2>1, LenProperties
  <2>3. /\ new \in Seq(Documents) /\ DOMAIN new = 1 .. n + 1
        /\ \A i \in 1 .. n : new[i] = old[i]
        /\ new[n + 1] = document
    BY <2>1, <2>2, AppendProperties, LenProperties
  <2>4. \A r \in RoleNames : documents'[r] = IF r = role THEN new ELSE documents[r]
    BY <1>2 DEF Load, LoadedInv
  <2>5. documents' \in [RoleNames -> Seq(Documents)]
    BY <1>2, <2>3 DEF Load, LoadedInv
  <2>6. \A i \in 1 .. n + 1 : i \in 1 .. n \/ i = n + 1
    OBVIOUS
  <2>7. \A i \in DOMAIN new : Parses(new[i])
    <3>1. Parses(document) /\ \A i \in 1 .. n : Parses(old[i])
      BY <1>2, <2>2 DEF Load, LoadedInv
    <3> QED
      BY <2>3, <2>6, <3>1
  <2>8. \A r \in RoleNames : \A i \in DOMAIN documents'[r] : Parses(documents'[r][i])
    BY <2>4, <2>7 DEF LoadedInv
  <2>9. Append(policies[role], fromJsonString(document)) = [i \in DOMAIN new |-> fromJsonString(new[i])]
    <3> DEFINE V == {fromJsonString(x) : x \in Documents}
               was == [i \in 1 .. n |-> fromJsonString(old[i])]
               now == Append(was, fromJsonString(document))
    <3>1. policies[role] = was
      BY <2>2 DEF LoadedInv
    <3>2. was \in Seq(V)
      <4>1. \A i \in 1 .. n : old[i] \in Documents
        BY <2>1, <2>2, ElementOfSeq
      <4>2. was \in [1 .. n -> V]
        BY <4>1
      <4> HIDE DEF was, V
      <4> QED
        BY <4>2, SeqDef
    <3>3. Len(was) = n
      BY <3>2, LenProperties
    <3>4. /\ now \in Seq(V) /\ Len(now) = n + 1
          /\ \A i \in 1 .. n : now[i] = was[i]
          /\ now[n + 1] = fromJsonString(document)
      <4>1. fromJsonString(document) \in V
        OBVIOUS
      <4> HIDE DEF was, V
      <4> QED
        BY <3>2, <3>3, <4>1, AppendProperties
    <3>5. now = [i \in 1 .. n + 1 |-> now[i]]
      <4> HIDE DEF now
      <4> QED
        BY <3>4, LenProperties
    <3>6. ASSUME NEW i \in 1 .. n + 1 PROVE now[i] = fromJsonString(new[i])
      <4>1. CASE i \in 1 .. n
        BY <2>3, <3>4, <4>1
      <4>2. CASE i = n + 1
        BY <2>3, <3>4, <4>2
      <4> QED
        BY <2>6, <4>1, <4>2
    <3> HIDE DEF now, new
    <3>7. now = [i \in 1 .. n + 1 |-> fromJsonString(new[i])]
      BY <3>5, <3>6
    <3> QED
      BY <2>3, <3>1, <3>7 DEF now
  <2>10. policies' = [r \in RoleNames |-> [i \in DOMAIN documents'[r] |-> fromJsonString(documents'[r][i])]]
    <3>1. policies' = [r \in RoleNames |->
            IF r = role THEN Append(policies[role], fromJsonString(document)) ELSE policies[r]]
      BY <1>2 DEF Load, LoadedInv
    <3>2. ASSUME NEW r \in RoleNames
          PROVE  (IF r = role THEN Append(policies[role], fromJsonString(document)) ELSE policies[r])
                   = [i \in DOMAIN documents'[r] |-> fromJsonString(documents'[r][i])]
      <4> HIDE DEF new
      <4>1. CASE r = role
        BY <2>4, <2>9, <4>1
      <4>2. CASE r # role
        BY <2>4, <4>2 DEF LoadedInv
      <4> QED
        BY <4>1, <4>2
    <3> QED
      BY <3>1, <3>2
  <2> QED
    BY <2>5, <2>8, <2>10 DEF LoadedInv
<1>3. CASE UNCHANGED vars
  BY <1>3 DEF vars, LoadedInv
<1> QED
  BY <1>1, <1>2, <1>3 DEF Next

(***************************************************************************)
(* Each role's policies are its documents, in order, as                    *)
(* Policy::fromJsonString reads them.                                      *)
(***************************************************************************)
THEOREM LoadedInvariant == Spec => []LoadedInv
BY LoadedInit, LoadedNext, PTL DEF Spec

-----------------------------------------------------------------------------
(* What a role's policies hold, and the properties. *)

\* The statements of a role are its rules, each read.
LEMMA RoleContents ==
  ASSUME LoadedInv, NEW role \in RoleNames
  PROVE  /\ policies[role] \in Seq(Seq(Statement))
         /\ Contents(policies[role]) = {Read(raw) : raw \in Rules(role)}
         /\ \A raw \in Rules(role) : Fields(raw) /\ Readable(raw)
<1>1. PICK n \in Nat : n = Len(documents[role]) /\ DOMAIN documents[role] = 1 .. n
  <2>1. documents[role] \in Seq(Documents)
    BY DEF LoadedInv
  <2> QED
    BY <2>1, LenProperties
<1>2. \A i \in 1 .. n : documents[role][i] \in Documents /\ Parses(documents[role][i])
  <2>1. documents[role] \in Seq(Documents)
    BY DEF LoadedInv
  <2> QED
    BY <1>1, <2>1, ElementOfSeq DEF LoadedInv
<1>3. policies[role] = [i \in 1 .. n |-> fromJsonString(documents[role][i])]
  BY <1>1 DEF LoadedInv
<1>4. \A i \in 1 .. n :
        /\ policies[role][i] \in Seq(Statement)
        /\ ToSet(policies[role][i]) = {Read(raw) : raw \in ToSet(documents[role][i])}
        /\ \A raw \in ToSet(documents[role][i]) : Fields(raw) /\ Readable(raw)
  BY <1>2, <1>3, DocumentMeaning
<1>5. policies[role] \in Seq(Seq(Statement))
  <2>1. policies[role] \in [1 .. n -> Seq(Statement)]
    BY <1>3, <1>4
  <2> QED
    BY <2>1, SeqDef
<1>6. Rules(role) = UNION {ToSet(documents[role][i]) : i \in 1 .. n}
  BY <1>1 DEF Rules, ToSet
<1>7. Contents(policies[role]) = UNION {ToSet(policies[role][i]) : i \in 1 .. n}
  BY <1>3 DEF Contents
<1>8. \A x : x \in Contents(policies[role]) <=> x \in {Read(raw) : raw \in Rules(role)}
  <2>1. \A x : x \in Contents(policies[role]) <=> \E i \in 1 .. n : x \in ToSet(policies[role][i])
    BY <1>7
  <2>2. \A x : x \in Contents(policies[role])
          <=> \E i \in 1 .. n : \E raw \in ToSet(documents[role][i]) : x = Read(raw)
    <3>1. \A i \in 1 .. n : \A x :
            x \in ToSet(policies[role][i]) <=> \E raw \in ToSet(documents[role][i]) : x = Read(raw)
      <4>1. \A i \in 1 .. n : ToSet(policies[role][i]) = {Read(raw) : raw \in ToSet(documents[role][i])}
        BY <1>4
      <4> QED
        BY ONLY <4>1
    <3> QED
      BY ONLY <2>1, <3>1
  <2>3. \A x : x \in {Read(raw) : raw \in Rules(role)}
          <=> \E i \in 1 .. n : \E raw \in ToSet(documents[role][i]) : x = Read(raw)
    BY <1>6
  <2> QED
    BY <2>2, <2>3
<1>9. Contents(policies[role]) = {Read(raw) : raw \in Rules(role)}
  BY ONLY <1>8
<1>10. \A raw \in Rules(role) : Fields(raw) /\ Readable(raw)
  BY <1>4, <1>6
<1> QED
  BY <1>5, <1>9, <1>10

\* They say what the rules do.
LEMMA RoleSays ==
  ASSUME LoadedInv, NEW role \in RoleNames, NEW q \in Requests
  PROVE  Said(Contents(policies[role]), q) =
           IF "Deny" \in Effects(role, q) THEN "Deny"
           ELSE IF "Allow" \in Effects(role, q) THEN "Allow" ELSE "Undecided"
<1>1. \A raw \in Rules(role) :
        /\ Read(raw).effect = raw.effect
        /\ Matches(Read(raw), q) <=> Names(raw.action, q.action) /\ Names(raw.resource, q.resource)
  BY RoleContents, StatementMeaning DEF Read
<1>2. \A e :
        e \in Effects(role, q) <=> \E s \in Contents(policies[role]) : Matches(s, q) /\ s.effect = e
  <2>1. \A e : e \in Effects(role, q) <=>
          \E raw \in Rules(role) :
            /\ Names(raw.action, q.action) /\ Names(raw.resource, q.resource)
            /\ raw.effect = e
    BY DEF Effects
  <2>2. \A e : e \in Effects(role, q) <=>
          \E raw \in Rules(role) : Matches(Read(raw), q) /\ Read(raw).effect = e
    BY <1>1, <2>1
  <2>3. Contents(policies[role]) = {Read(raw) : raw \in Rules(role)}
    BY RoleContents
  <2> QED
    BY <2>2, <2>3
<1> QED
  BY <1>2 DEF Said

(***************************************************************************)
(* Each role holds a sequence of policies, each a sequence of statements   *)
(* with an effect and lists of patterns.                                   *)
(***************************************************************************)
THEOREM PolicyTypeCorrect == Spec => []TypeOK
<1>1. LoadedInv => TypeOK
  BY RoleContents DEF TypeOK
<1> QED
  BY <1>1, LoadedInvariant, PTL

(***************************************************************************)
(* PolicyEngine::evaluateForRole answers what a role's documents say when  *)
(* they are read as a set of rules: any Deny that names the request, then  *)
(* any Allow, wherever they stand.                                         *)
(***************************************************************************)
THEOREM OrderIsIrrelevantHolds == Spec => []OrderIsIrrelevant
<1>1. LoadedInv => OrderIsIrrelevant
  BY RoleContents, RoleSays, VerdictIs DEF OrderIsIrrelevant
<1> QED
  BY <1>1, LoadedInvariant, PTL

\* SetToSeq lists a finite set, each element somewhere.
LEMMA ListsAll ==
  /\ SetToSeq(RoleNames) \in Seq(RoleNames)
  /\ ToSet(SetToSeq(RoleNames)) = RoleNames
<1> DEFINE order == SetToSeq(RoleNames)
<1>1. PICK n \in Nat : n = Cardinality(RoleNames)
  BY RoleNamesAssumption, FS_CardinalityType
<1>2. Bijection(1 .. n, RoleNames) # {}
  BY <1>1, RoleNamesAssumption, FS_CardinalityType DEF ExistsBijection
<1>3. order \in Injection(1 .. n, RoleNames)
  <2>1. \E f \in [1 .. n -> RoleNames] : IsInjective(f)
    BY <1>2 DEF Bijection, Injection
  <2> QED
    BY <1>1, <2>1 DEF SetToSeq, Injection
<1>4. IsFiniteSet(1 .. n) /\ Cardinality(1 .. n) = n
  BY FS_Interval
<1>5. order \in Surjection(1 .. n, RoleNames)
  <2> HIDE DEF order
  <2> QED
    BY <1>1, <1>3, <1>4, RoleNamesAssumption, FS_Injection
<1>6. order \in [1 .. n -> RoleNames] /\ \A r \in RoleNames : \E k \in 1 .. n : order[k] = r
  BY <1>5 DEF Surjection
<1> HIDE DEF order
<1>7. order \in Seq(RoleNames)
  BY <1>6, SeqDef
<1>8. ToSet(order) = RoleNames
  BY <1>6 DEF ToSet
<1> QED
  BY <1>7, <1>8 DEF order

\* All the roles' policies together hold what each of them holds.
LEMMA AllContents ==
  ASSUME LoadedInv, NEW list,
         list = FlattenSeq([k \in DOMAIN SetToSeq(RoleNames) |-> policies[SetToSeq(RoleNames)[k]]])
  PROVE  /\ list \in Seq(Seq(Statement))
         /\ Contents(list) = UNION {Contents(policies[r]) : r \in RoleNames}
<1>1. PICK order \in Seq(RoleNames) : order = SetToSeq(RoleNames) /\ ToSet(order) = RoleNames
  BY ListsAll
<1>2. PICK n \in Nat : n = Len(order) /\ DOMAIN order = 1 .. n /\ \A k \in 1 .. n : order[k] \in RoleNames
  BY LenProperties, ElementOfSeq
<1>3. {order[k] : k \in 1 .. n} = RoleNames
  BY <1>1, <1>2 DEF ToSet
<1> DEFINE all == [k \in 1 .. n |-> policies[order[k]]]
<1>4. all \in Seq(Seq(Seq(Statement))) /\ DOMAIN all = 1 .. n
  <2> DEFINE V == Seq(Seq(Statement))
  <2>1. all \in [1 .. n -> V]
    BY <1>2, RoleContents
  <2> HIDE DEF all, V
  <2>2. all \in Seq(V) /\ DOMAIN all = 1 .. n
    BY <2>1, SeqDef
  <2> QED
    BY <2>2 DEF V
<1>5. \A k \in 1 .. n : all[k] = policies[order[k]]
  OBVIOUS
<1>6. list = FlattenSeq(all)
  BY <1>1, <1>2
<1> HIDE DEF all
<1>7. list \in Seq(Seq(Statement)) /\ ToSet(list) = UNION {ToSet(all[k]) : k \in 1 .. n}
  BY <1>4, <1>6, FlattenContents DEF Contents
<1>8. \A p : p \in ToSet(list) <=> \E r \in RoleNames : p \in ToSet(policies[r])
  <2>1. \A p : p \in ToSet(list) <=> \E k \in 1 .. n : p \in ToSet(policies[order[k]])
    <3>1. \A p : p \in ToSet(list) <=> \E k \in 1 .. n : p \in ToSet(all[k])
      BY ONLY <1>7
    <3> QED
      BY ONLY <1>5, <3>1
  <2>2. \A r \in RoleNames : \E k \in 1 .. n : order[k] = r
    BY <1>3
  <2> QED
    BY <1>2, <2>1, <2>2
<1>9. \A x, s : s \in Contents(x) <=> \E p \in ToSet(x) : s \in ToSet(p)
  BY DEF Contents, ToSet
<1>10. \A s : s \in Contents(list) <=> \E r \in RoleNames : s \in Contents(policies[r])
  <2>1. \A s : s \in Contents(list) <=> \E p \in ToSet(list) : s \in ToSet(p)
    BY <1>9
  <2>2. \A s : s \in Contents(list) <=>
          \E r \in RoleNames : \E p \in ToSet(policies[r]) : s \in ToSet(p)
    BY <1>8, <2>1
  <2> QED
    BY <1>9, <2>2
<1>11. Contents(list) = UNION {Contents(policies[r]) : r \in RoleNames}
  BY ONLY <1>10
<1> QED
  BY <1>7, <1>11

(***************************************************************************)
(* Verdicts role by role, combined, allow what the flat evaluation of all  *)
(* the roles' policies together allows.                                    *)
(***************************************************************************)
THEOREM RolesDecomposeHolds == Spec => []RolesDecompose
<1>1. LoadedInv => RolesDecompose
  <2> SUFFICES ASSUME LoadedInv, NEW q \in Requests
               PROVE  LET order == SetToSeq(RoleNames) IN
                      evaluate(FlattenSeq([k \in DOMAIN order |-> policies[order[k]]]), q) <=>
                        combine({verdictOfRole(policies[r], q) : r \in RoleNames}) = "Allow"
    BY DEF RolesDecompose
  <2>1. PICK list :
          list = FlattenSeq([k \in DOMAIN SetToSeq(RoleNames) |-> policies[SetToSeq(RoleNames)[k]]])
    OBVIOUS
  <2>2. evaluate(list, q) <=> Said(UNION {Contents(policies[r]) : r \in RoleNames}, q) = "Allow"
    BY <2>1, AllContents, EvaluateIs
  <2>3. \A r \in RoleNames : verdictOfRole(policies[r], q) = Said(Contents(policies[r]), q)
    BY RoleContents, VerdictIs
  <2>4. Said(UNION {Contents(policies[r]) : r \in RoleNames}, q) = "Allow" <=>
          /\ \A r \in RoleNames : Said(Contents(policies[r]), q) # "Deny"
          /\ \E r \in RoleNames : Said(Contents(policies[r]), q) = "Allow"
    BY DEF Said
  <2>5. evaluate(list, q) <=> combine({verdictOfRole(policies[r], q) : r \in RoleNames}) = "Allow"
    BY <2>2, <2>3, <2>4 DEF combine
  <2> QED
    BY <2>1, <2>5
<1> QED
  BY <1>1, LoadedInvariant, PTL

=============================================================================
