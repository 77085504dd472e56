------------------------ MODULE RealizedKicks_proofs ------------------------
(***************************************************************************)
(* Theorems about RealizedKicks: for every list of items, page size, delay *)
(* and budget, the walks have no holes and a kick is never dropped.        *)
(***************************************************************************)
EXTENDS RealizedKicks, FiniteSetTheorems, SequenceTheorems, TLAPS
-----------------------------------------------------------------------------
(* Sets of naturals. *)

\* A set of naturals has a least element.
LEMMA LeastOf ==
  ASSUME NEW S \in SUBSET Nat, S # {}
  PROVE  \E n \in S : \A m \in S : n <= m
<1>1. \E n \in S : \A m \in S : <<m, n>> \notin OpToRel(<, Nat)
  BY WFMin, NatLessThanWellFounded, Zenon
<1>2. PICK n \in S : \A m \in S : <<m, n>> \notin OpToRel(<, Nat)
  BY <1>1
<1>3. \A m \in S : ~(m < n)
  BY <1>2 DEF OpToRel
<1> QED BY <1>3

\* And one with an upper bound has a greatest.
LEMMA GreatestOf ==
  ASSUME NEW N \in Nat, NEW S \in SUBSET (0..N), S # {}
  PROVE  \E n \in S : \A m \in S : m <= n
<1> DEFINE T == {N - s : s \in S}
<1>1. T \in SUBSET Nat
  <2> SUFFICES ASSUME NEW s \in S PROVE N - s \in Nat
    OBVIOUS
  <2> QED BY s \in 0..N
<1>2. T # {}
  BY S # {}, Zenon
<1>3. PICK t \in T : \A u \in T : t <= u
  <2> HIDE DEF T
  <2> QED BY <1>1, <1>2, LeastOf
<1>4. PICK n \in S : t = N - n
  BY <1>3
<1>5. \A m \in S : N - n <= N - m
  BY <1>3, <1>4
<1>6. \A m \in S : m <= n
  BY <1>5
<1> QED BY <1>6

\* Sets up to a bound are finite.
LEMMA PartFinite ==
  ASSUME NEW N \in Nat, NEW S \in SUBSET (1..N)
  PROVE  IsFiniteSet(S) /\ Cardinality(S) \in Nat
<1>1. IsFiniteSet(1..N)
  <2>1. 1 \in Int /\ N \in Int
    OBVIOUS
  <2> QED BY <2>1, FS_Interval
<1>2. IsFiniteSet(S)
  BY <1>1, FS_Subset
<1> QED BY <1>2, FS_CardinalityType

\* The order that Ascending chooses.
Ascends(s) == \A j, k \in DOMAIN s : j < k => s[j] < s[k]

\* Every set of items can be put in ascending order: by induction over its
\* size, the greatest item goes last.
LEMMA AscendingExists ==
  ASSUME NEW N \in Nat
  PROVE  \A S \in SUBSET (1..N) :
           \E s \in [1..Cardinality(S) -> S] : Ascends(s)
<1> DEFINE Bad(S) == \A s \in [1..Cardinality(S) -> S] : ~Ascends(s)
           T == {Cardinality(S) : S \in {X \in SUBSET (1..N) : Bad(X)}}
<1> SUFFICES ASSUME NEW W \in SUBSET (1..N), Bad(W) PROVE FALSE
  BY Zenon
<1>0. Cardinality(W) \in T
  BY Zenon
<1>1. \A S \in SUBSET (1..N) : IsFiniteSet(S) /\ Cardinality(S) \in Nat
  BY PartFinite
<1>2. T \in SUBSET Nat
  BY <1>1, Zenon
<1>3. PICK n \in T : \A m \in T : n <= m
  <2> HIDE DEF T
  <2> QED BY <1>0, <1>2, LeastOf
<1>4. PICK S \in SUBSET (1..N) : Bad(S) /\ n = Cardinality(S)
  BY <1>3, Zenon
<1>5. S # {}
  <2> SUFFICES ASSUME S = {} PROVE FALSE
    OBVIOUS
  <2>1. Cardinality(S) = 0
    BY FS_EmptySet
  <2>2. <<>> \in [1..0 -> S] /\ Ascends(<<>>)
    BY DEF Ascends
  <2> QED BY <2>1, <2>2, <1>4, Zenon
<1>6. PICK g \in S : \A m \in S : m <= g
  <2>1. S \in SUBSET (0..N)
    OBVIOUS
  <2> QED BY <1>5, <2>1, GreatestOf
<1> DEFINE R == S \ {g}
<1>7. R \in SUBSET (1..N) /\ Cardinality(R) = n - 1 /\ n - 1 \in Nat
  <2>1. Cardinality(R) = n - 1
    BY <1>1, <1>4, <1>6, FS_RemoveElement
  <2>2. Cardinality(R) \in Nat
    BY <1>1
  <2> QED BY <2>1, <2>2
<1>8. n \in Nat
  BY <1>2, <1>3, Zenon
<1>9. ~Bad(R)
  <2>1. n - 1 \notin T
    <3> HIDE DEF T
    <3> QED BY <1>3, <1>8
  <2> QED BY <2>1, <1>7, Zenon
<1>10. PICK r \in [1..(n - 1) -> R] : Ascends(r)
  <2> HIDE DEF R
  <2> QED BY <1>7, <1>9
<1> DEFINE s == [i \in 1..n |-> IF i = n THEN g ELSE r[i]]
<1>11. s \in [1..n -> S]
  <2>1. \A i \in 1..n : i # n => i \in 1..(n - 1)
    BY <1>8
  <2>2. \A i \in 1..n : (IF i = n THEN g ELSE r[i]) \in S
    BY <2>1, <1>10, <1>6
  <2> QED BY <2>2, Zenon
<1>12. Ascends(s)
  <2> SUFFICES ASSUME NEW j \in 1..n, NEW k \in 1..n, j < k
               PROVE  s[j] < s[k]
    BY DEF Ascends
  <2>1. j \in 1..(n - 1)
    BY <1>8
  <2>2. r[j] \in R /\ s[j] = r[j]
    BY <2>1, <1>10, <1>8
  <2>3. CASE k = n
    <3>1. s[k] = g
      BY <2>3
    <3>2. r[j] \in S /\ r[j] # g
      BY <2>2
    <3>3. \A i \in S : i \in Nat
      BY S \in SUBSET (1..N)
    <3>4. r[j] <= g
      BY <3>2, <1>6
    <3>5. r[j] \in Nat /\ g \in Nat
      BY <3>2, <3>3
    <3>6. r[j] < g
      BY <3>2, <3>4, <3>5
    <3> QED BY <2>2, <3>1, <3>6
  <2>4. CASE k # n
    <3>1. k \in 1..(n - 1) /\ s[k] = r[k]
      BY <2>4, <1>8
    <3> QED BY <2>1, <2>2, <3>1, <1>10 DEF Ascends
  <2> QED BY <2>3, <2>4
<1> QED
  <2> HIDE DEF s
  <2>1. s \in [1..Cardinality(S) -> S]
    BY <1>4, <1>11
  <2> QED BY <2>1, <1>4, <1>12

\* Ascending lists a set once and in order.
LEMMA AscendingLists ==
  ASSUME NEW N \in Nat, NEW S \in SUBSET (1..N)
  PROVE  /\ Ascending(S) \in [1..Cardinality(S) -> S]
         /\ Ascending(S) \in Seq(S) /\ Len(Ascending(S)) = Cardinality(S)
         /\ Ascends(Ascending(S))
         /\ \A i \in S : \E j \in 1..Cardinality(S) : Ascending(S)[j] = i
<1> DEFINE s == Ascending(S)
           C == Cardinality(S)
<1>1. s \in [1..C -> S] /\ Ascends(s)
  BY AscendingExists DEF Ascending, Ascends
<1>2. C \in Nat /\ IsFiniteSet(S)
  BY PartFinite
<1> HIDE DEF s, C
<1>3. s \in Seq(S) /\ Len(s) = C
  BY <1>1, <1>2
<1>4. s \in Injection(1..C, S)
  <2> SUFFICES ASSUME NEW j \in 1..C, NEW k \in 1..C, j # k PROVE s[j] # s[k]
    BY <1>1 DEF Injection, IsInjective
  <2>1. s[j] \in Nat /\ s[k] \in Nat
    <3>1. s[j] \in S /\ s[k] \in S
      BY <1>1
    <3>2. \A i \in S : i \in Nat
      OBVIOUS
    <3> QED BY <3>1, <3>2
  <2>2. j < k => s[j] < s[k]
    BY <1>1 DEF Ascends
  <2>3. k < j => s[k] < s[j]
    BY <1>1 DEF Ascends
  <2> QED BY <1>2, <2>1, <2>2, <2>3
<1>5. Cardinality(1..C) = C
  BY <1>2, FS_Interval
<1>6. s \in Surjection(1..C, S)
  BY <1>2, <1>4, <1>5, FS_Injection DEF C
<1>7. \A i \in S : \E j \in 1..C : s[j] = i
  BY <1>6 DEF Surjection
<1> QED BY <1>1, <1>3, <1>7 DEF s, C

\* The greatest and the least of a page.
LEMMA Extremes ==
  ASSUME NEW N \in Nat, NEW S \in SUBSET (1..N), S # {}
  PROVE  /\ Max(S) \in S /\ \A m \in S : m <= Max(S)
         /\ Min(S) \in S /\ \A m \in S : Min(S) <= m
<1>1. \E n \in S : \A m \in S : n >= m
  <2>1. S \in SUBSET (0..N)
    OBVIOUS
  <2>2. PICK n \in S : \A m \in S : m <= n
    BY <2>1, GreatestOf
  <2> QED BY <2>2
<1>2. \E n \in S : \A m \in S : n <= m
  <2>1. S \in SUBSET Nat
    OBVIOUS
  <2> QED BY <2>1, LeastOf
<1>3. Max(S) \in S /\ \A m \in S : Max(S) >= m
  BY <1>1 DEF Max
<1>4. Min(S) \in S /\ \A m \in S : Min(S) <= m
  BY <1>2 DEF Min
<1> QED BY <1>3, <1>4

\* A page is a lower part of the items after the cursor, and all of them if
\* it is not full.
LEMMA LeastIsLower ==
  ASSUME NEW N \in Nat, NEW S \in SUBSET (1..N), NEW n \in Nat \ {0}
  PROVE  /\ Least(S, n) \in SUBSET S
         /\ \A i \in Least(S, n), j \in S : j < i => j \in Least(S, n)
         /\ Cardinality(Least(S, n)) < n => Least(S, n) = S
<1> DEFINE L == Least(S, n)
           Below(i) == {j \in S : j < i}
<1>1. \A i \in S : Below(i) \in SUBSET (1..N)
  OBVIOUS
<1>2. \A i \in S : i \in L <=> Cardinality(Below(i)) < n
  BY DEF Least
<1>3. L \in SUBSET S
  BY DEF Least
<1>4. ASSUME NEW i \in L, NEW j \in S, j < i PROVE j \in L
  <2>1. i \in S
    BY <1>3
  <2>2. Below(j) \in SUBSET Below(i)
    <3>1. ASSUME NEW k \in S, k < j PROVE k < i
      <4>1. i \in Nat /\ j \in Nat /\ k \in Nat
        BY <2>1
      <4> QED BY <1>4, <3>1, <4>1
    <3> QED BY <3>1, Zenon
  <2>3. IsFiniteSet(Below(i)) /\ Cardinality(Below(i)) \in Nat
    BY <1>1, <2>1, PartFinite
  <2>4. Cardinality(Below(j)) \in Nat
    BY <1>1, PartFinite
  <2> HIDE DEF Below, L
  <2>5. Cardinality(Below(j)) <= Cardinality(Below(i))
    BY <2>2, <2>3, FS_Subset
  <2> QED BY <1>2, <2>1, <2>3, <2>4, <2>5
<1>5. ASSUME Cardinality(L) < n, S \ L # {} PROVE FALSE
  <2>1. S \ L \in SUBSET Nat
    <3>1. \A i \in S : i \in Nat
      OBVIOUS
    <3> QED BY <3>1, Zenon
  <2>2. PICK m \in S \ L : \A k \in S \ L : m <= k
    <3> HIDE DEF L
    <3> QED BY <1>5, <2>1, LeastOf
  <2>3. Below(m) \in SUBSET L
    <3>1. ASSUME NEW k \in S, k < m, k \notin L PROVE FALSE
      <4>1. k \in Nat /\ m \in Nat
        <5> HIDE DEF L
        <5> QED OBVIOUS
      <4>2. m <= k
        BY <2>2, <3>1
      <4> QED BY <3>1, <4>1, <4>2
    <3> QED BY <3>1, Zenon
  <2>4. L \in SUBSET (1..N)
    BY <1>3
  <2>5. IsFiniteSet(L) /\ Cardinality(L) \in Nat
    BY <2>4, PartFinite
  <2>6. Cardinality(Below(m)) \in Nat
    BY <1>1, PartFinite
  <2> HIDE DEF Below, L
  <2>7. Cardinality(Below(m)) <= Cardinality(L)
    BY <2>3, <2>5, FS_Subset
  <2> QED BY <1>2, <1>5, <2>2, <2>5, <2>6, <2>7
<1> HIDE DEF L
<1>6. \A i \in L, j \in S : j < i => j \in L
  BY <1>4
<1>7. Cardinality(L) < n => L = S
  BY <1>3, <1>5
<1> QED BY <1>3, <1>6, <1>7 DEF L

\* What a page adds to the rows goes after them, once and in order.
LEMMA CollectedRows ==
  ASSUME NEW N \in Nat, NEW rows \in Seq(1..N), NEW page \in SUBSET (1..N)
  PROVE  LET c == Collected(rows, page) IN
         /\ c \in Seq(1..N)
         /\ \A i : i \in Range(c) <=> i \in Range(rows) \/ i \in page
         /\ \A j, k \in DOMAIN c : j < k =>
              \/ /\ j \in DOMAIN rows /\ k \in DOMAIN rows
                 /\ c[j] = rows[j] /\ c[k] = rows[k]
              \/ c[j] \in Range(rows) /\ c[k] \in page \ Range(rows)
              \/ /\ c[j] \in page \ Range(rows) /\ c[k] \in page \ Range(rows)
                 /\ c[j] < c[k]
<1> DEFINE new == page \ Range(rows)
           s == Ascending(new)
           c == rows \o s
           R == Len(rows)
           C == Cardinality(new)
<1>1. new \in SUBSET (1..N)
  OBVIOUS
<1>2. /\ s \in [1..C -> new] /\ s \in Seq(new) /\ Len(s) = C /\ Ascends(s)
      /\ \A i \in new : \E j \in 1..C : s[j] = i
  <2> HIDE DEF new
  <2> QED BY <1>1, AscendingLists
<1>3. s \in Seq(1..N) /\ C \in Nat /\ R \in Nat
  <2> HIDE DEF new, s
  <2>1. C \in Nat
    BY <1>1, PartFinite
  <2>2. R \in Nat
    OBVIOUS
  <2>3. s \in [1..C -> 1..N]
    BY <1>1, <1>2
  <2> QED BY <1>2, <2>1, <2>2, <2>3
<1>4. /\ c \in Seq(1..N) /\ DOMAIN c = 1..(R + C)
      /\ \A i \in 1..(R + C) : c[i] = IF i <= R THEN rows[i] ELSE s[i - R]
      /\ DOMAIN rows = 1..R
  <2>1. Len(s) = C
    BY <1>2
  <2> HIDE DEF s, new, C
  <2>2. DOMAIN rows = 1..R
    OBVIOUS
  <2>3. c \in Seq(1..N) /\ Len(c) = R + C
    BY <2>1, <1>3, ConcatProperties
  <2>4. DOMAIN c = 1..(R + C)
    <3> HIDE DEF c, R
    <3> QED BY <2>3
  <2>5. \A i \in 1..(R + C) : c[i] = IF i <= R THEN rows[i] ELSE s[i - R]
    BY <2>1, <1>3, ConcatProperties
  <2> QED BY <2>2, <2>3, <2>4, <2>5
<1>5. \A i : i \in Range(rows) <=> \E j \in 1..R : rows[j] = i
  BY <1>4 DEF Range
<1>6. \A i : i \in Range(c) <=> \E j \in 1..(R + C) : c[j] = i
  <2> HIDE DEF c
  <2> QED BY <1>4 DEF Range
<1>7. \A i \in 1..(R + C) : IF i <= R THEN i \in 1..R /\ c[i] = rows[i]
                            ELSE i - R \in 1..C /\ c[i] = s[i - R]
  <2> HIDE DEF s, c, C
  <2>1. \A i \in 1..(R + C) : IF i <= R THEN i \in 1..R ELSE i - R \in 1..C
    BY <1>3
  <2> QED BY <1>4, <2>1
<1>8. \A j \in 1..R : j \in 1..(R + C) /\ c[j] = rows[j]
  <2> HIDE DEF s, c, C
  <2> QED BY <1>3, <1>4
<1>9. \A j \in 1..C : R + j \in 1..(R + C) /\ c[R + j] = s[j]
  <2> HIDE DEF s, c, C, R
  <2> SUFFICES ASSUME NEW j \in 1..C
               PROVE  R + j \in 1..(R + C) /\ c[R + j] = s[j]
    OBVIOUS
  <2>1. R + j \in 1..(R + C)
    BY <1>3
  <2>2. \A i \in 1..(R + C) : i = R + j => ~(i <= R) /\ i - R = j
    BY <1>3
  <2>3. \A i \in 1..(R + C) : i = R + j => c[i] = s[j]
    BY <2>2, <1>4
  <2> QED BY <2>1, <2>3
<1> HIDE DEF s, c, C, R, new
<1>10. \A i : i \in Range(c) <=> i \in Range(rows) \/ i \in page
  <2>1. ASSUME NEW i \in Range(c) PROVE i \in Range(rows) \/ i \in page
    <3>1. PICK j \in 1..(R + C) : c[j] = i
      BY <1>6
    <3>2. CASE j <= R
      BY <3>1, <3>2, <1>5, <1>7
    <3>3. CASE ~(j <= R)
      <4>1. i \in new
        BY <3>1, <3>3, <1>2, <1>7
      <4> QED BY <4>1 DEF new
    <3> QED BY <3>2, <3>3
  <2>2. ASSUME NEW i \in Range(rows) PROVE i \in Range(c)
    BY <1>5, <1>6, <1>8
  <2>3. ASSUME NEW i \in page PROVE i \in Range(c)
    <3>1. CASE i \in Range(rows)
      BY <2>2, <3>1
    <3>2. CASE i \notin Range(rows)
      <4>1. PICK j \in 1..C : s[j] = i
        BY <1>2, <3>2 DEF new
      <4> QED BY <4>1, <1>6, <1>9
    <3> QED BY <3>1, <3>2
  <2> QED BY <2>1, <2>2, <2>3
<1>11. ASSUME NEW j \in 1..(R + C), NEW k \in 1..(R + C), j < k
       PROVE  \/ /\ j \in DOMAIN rows /\ k \in DOMAIN rows
                 /\ c[j] = rows[j] /\ c[k] = rows[k]
              \/ c[j] \in Range(rows) /\ c[k] \in new
              \/ c[j] \in new /\ c[k] \in new /\ c[j] < c[k]
  <2>1. CASE k <= R
    <3>1. j <= R
      BY <1>3, <1>11, <2>1
    <3> QED BY <2>1, <3>1, <1>4, <1>7
  <2>2. CASE ~(k <= R) /\ j <= R
    BY <2>2, <1>2, <1>5, <1>7
  <2>3. CASE ~(k <= R) /\ ~(j <= R)
    <3>1. j - R \in 1..C /\ k - R \in 1..C /\ j - R < k - R
      BY <1>3, <1>7, <1>11, <2>3
    <3>2. s[j - R] < s[k - R]
      BY <1>2, <3>1 DEF Ascends
    <3> QED BY <3>1, <3>2, <2>3, <1>2, <1>7
  <2> QED BY <2>1, <2>2, <2>3
<1>12. Collected(rows, page) = c
  BY DEF Collected, c, s, new
<1> QED BY <1>4, <1>10, <1>11, <1>12 DEF new
-----------------------------------------------------------------------------
(* The walks. *)

\* The rows are in the order of their times, each once; fills in that of their
\* ids.
Ordered(w) ==
  \A j, k \in DOMAIN w.rows : j < k =>
    /\ w.rows[j] # w.rows[k]
    /\ Stamps[w.rows[j]] <= Stamps[w.rows[k]]
    /\ w.kind = "fills" => w.rows[j] < w.rows[k]

\* Fills: the token is the last row, and everything due up to it was read.
\* Orders: everything due before the cursor's time was read, and nothing after
\* it; of those at that time, everything due before a row.
ReadUpToCursor(w) ==
  LET rows == Range(w.rows) IN
  /\ w.kind = "fills" =>
       /\ w.next = 0 \/ w.next \in rows
       /\ \A r \in rows : r <= w.next
       /\ \A i \in w.due : i <= w.next => i \in rows
  /\ w.kind = "orders" =>
       /\ \A r \in rows : Stamps[r] <= w.next
       /\ \A i \in w.due : Stamps[i] < w.next => i \in rows
       /\ \A i \in w.due, r \in rows : i < r => i \in rows

\* The inductive invariant behind WalkHasNoHole.
WalkInv ==
  /\ walk.due \subseteq listed
  /\ Ordered(walk)
  /\ walk.at \in {"send", "failed"} => ReadUpToCursor(walk)
  /\ walk.at = "whole" => walk.due \subseteq Range(walk.rows)
  /\ walk.at \in {"off", "stuck"} => walk.rows = <<>>

\* The items are numbered, and their times ascend with their numbers.
LEMMA ItemsAre ==
  /\ Len(Stamps) \in Nat /\ Items = 1..Len(Stamps)
  /\ \A i \in Items : Stamps[i] \in Nat /\ Stamps[i] > 0 /\ i \in Nat /\ i > 0
  /\ \A i, j \in Items : i <= j => Stamps[i] <= Stamps[j]
  /\ PageSize \in Nat \ {0} /\ Retries \in Nat
BY WalkAssumption DEF Items, WalkAssumption

Ats == {"off", "send", "whole", "failed", "stuck"}

\* What the updates of a walk's record change, and what they leave alone.
LEMMA EndedIs ==
  ASSUME NEW w \in Walks, NEW at \in Ats
  PROVE  LET e == Ended(w, at) IN
         /\ e \in Walks /\ e.at = at /\ e.kind = w.kind
         /\ e.next = w.next /\ e.rows = w.rows /\ e.due = w.due
BY DEF Walks, Ended, Ats

LEMMA HoldingIs ==
  ASSUME NEW w \in Walks, NEW rows \in Seq(Items)
  PROVE  LET e == Holding(w, rows) IN
         /\ e \in Walks /\ e.rows = rows /\ e.kind = w.kind
         /\ e.next = w.next /\ e.at = w.at /\ e.due = w.due
BY DEF Walks, Holding

LEMMA GoesOnIs ==
  ASSUME NEW w \in Walks, NEW next \in Nat
  PROVE  LET e == GoesOn(w, next) IN
         /\ e \in Walks /\ e.next = next /\ e.kind = w.kind
         /\ e.rows = w.rows /\ e.at = w.at /\ e.due = w.due
<1> DEFINE m == [w EXCEPT !.next = next]
<1>1. /\ m \in Walks /\ m.next = next /\ m.kind = w.kind
      /\ m.rows = w.rows /\ m.at = w.at /\ m.due = w.due
  BY DEF Walks
<1> DEFINE e == [m EXCEPT !.tries = 0]
<1>2. GoesOn(w, next) = e
  BY DEF GoesOn
<1> HIDE DEF m
<1>3. 0 \in 0..Retries
  BY ItemsAre
<1>4. /\ e \in Walks /\ e.next = m.next /\ e.kind = m.kind
      /\ e.rows = m.rows /\ e.at = m.at /\ e.due = m.due
  BY <1>1, <1>3 DEF Walks
<1> HIDE DEF e
<1> QED BY <1>1, <1>2, <1>4

\* A page is a lower part of what is listed after the cursor.
LEMMA PageIsLower ==
  ASSUME WalkTypeOK, NEW page \in PagesAfter(walk)
  PROVE  \E from \in SUBSET listed :
           /\ page \in SUBSET from
           /\ \A i \in page, j \in from : j < i => j \in page
           /\ Cardinality(page) < PageSize => page = from
           /\ walk.kind = "orders" => from = {i \in listed : Stamps[i] >= walk.next}
           /\ walk.kind # "orders" =>
                \/ from = {i \in listed : i > walk.next}
                \/ from = {i \in listed : i >= walk.next}
<1>1. PICK from \in SUBSET listed :
        /\ page = Least(from, PageSize)
        /\ walk.kind = "orders" => from = {i \in listed : Stamps[i] >= walk.next}
        /\ walk.kind # "orders" =>
             \/ from = {i \in listed : i > walk.next}
             \/ from = {i \in listed : i >= walk.next}
  BY DEF PagesAfter
<1>2. from \in SUBSET (1..Len(Stamps))
  BY ItemsAre DEF WalkTypeOK
<1>3. /\ page \in SUBSET from
      /\ \A i \in page, j \in from : j < i => j \in page
      /\ Cardinality(page) < PageSize => page = from
  BY <1>1, <1>2, ItemsAre, LeastIsLower
<1> QED BY <1>1, <1>3

\* One page more: the rows stay in order, and everything due that is listed
\* before one of the page is read.
LEMMA PageKeepsOrder ==
  ASSUME WalkTypeOK, WalkInv, walk.at = "send", NEW page \in PagesAfter(walk)
  PROVE  LET c == Collected(walk.rows, page) IN
         /\ c \in Seq(Items)
         /\ \A i : i \in Range(c) <=> i \in Range(walk.rows) \/ i \in page
         /\ \A j, k \in DOMAIN c : j < k =>
              /\ c[j] # c[k]
              /\ Stamps[c[j]] <= Stamps[c[k]]
              /\ walk.kind = "fills" => c[j] < c[k]
         /\ \A i \in walk.due, p \in page : i <= p => i \in Range(c)
         /\ Cardinality(page) < PageSize => walk.due \subseteq Range(c)
<1> DEFINE c == Collected(walk.rows, page)
           R == Range(walk.rows)
<1>1. PICK from \in SUBSET listed :
        /\ page \in SUBSET from
        /\ \A i \in page, j \in from : j < i => j \in page
        /\ Cardinality(page) < PageSize => page = from
        /\ walk.kind = "orders" => from = {i \in listed : Stamps[i] >= walk.next}
        /\ walk.kind # "orders" =>
             \/ from = {i \in listed : i > walk.next}
             \/ from = {i \in listed : i >= walk.next}
  BY PageIsLower
<1>2. /\ walk.rows \in Seq(Items) /\ page \in SUBSET Items /\ listed \in SUBSET Items
      /\ walk.next \in Nat /\ walk.kind \in {"fills", "orders"}
      /\ walk.due \in SUBSET listed
  BY <1>1 DEF WalkTypeOK, Walks, WalkInv
<1>3. ReadUpToCursor(walk) /\ Ordered(walk)
  BY DEF WalkInv
<1>4. /\ c \in Seq(Items)
      /\ \A i : i \in Range(c) <=> i \in R \/ i \in page
      /\ \A j, k \in DOMAIN c : j < k =>
           \/ /\ j \in DOMAIN walk.rows /\ k \in DOMAIN walk.rows
              /\ c[j] = walk.rows[j] /\ c[k] = walk.rows[k]
           \/ c[j] \in R /\ c[k] \in page \ R
           \/ c[j] \in page \ R /\ c[k] \in page \ R /\ c[j] < c[k]
  BY <1>2, ItemsAre, CollectedRows
<1>5. R \in SUBSET Items
  BY <1>2, RangeOfSeq
<1> HIDE DEF c, R
<1>6. ASSUME NEW r \in R, NEW p \in page \ R
      PROVE  r # p /\ Stamps[r] <= Stamps[p] /\ (walk.kind = "fills" => r < p)
  <2>1. r \in Nat /\ p \in Nat /\ p > 0 /\ Stamps[r] \in Nat /\ Stamps[p] \in Nat
    BY <1>2, <1>5, ItemsAre
  <2>2. CASE walk.kind = "fills"
    <3>1. r <= walk.next /\ (walk.next = 0 \/ walk.next \in R)
      BY <2>2, <1>3 DEF ReadUpToCursor, R
    <3>2. p >= walk.next
      BY <2>2, <1>1, <1>2, <2>1
    <3>3. r < p
      BY <2>1, <3>1, <3>2, <1>2
    <3>4. r \in Items /\ p \in Items /\ r <= p
      BY <2>1, <3>3, <1>2, <1>5
    <3> QED BY <2>1, <3>3, <3>4, ItemsAre
  <2>3. CASE walk.kind = "orders"
    <3>1. Stamps[r] <= walk.next
      BY <2>3, <1>3 DEF ReadUpToCursor, R
    <3>2. Stamps[p] >= walk.next
      BY <2>3, <1>1
    <3> QED BY <2>1, <2>3, <3>1, <3>2, <1>2
  <2> QED BY <2>2, <2>3, <1>2
<1>7. ASSUME NEW j \in DOMAIN c, NEW k \in DOMAIN c, j < k
      PROVE  /\ c[j] # c[k]
             /\ Stamps[c[j]] <= Stamps[c[k]]
             /\ walk.kind = "fills" => c[j] < c[k]
  <2>1. CASE /\ j \in DOMAIN walk.rows /\ k \in DOMAIN walk.rows
             /\ c[j] = walk.rows[j] /\ c[k] = walk.rows[k]
    BY <2>1, <1>3, <1>7 DEF Ordered
  <2>2. CASE c[j] \in R /\ c[k] \in page \ R
    BY <2>2, <1>6
  <2>3. CASE c[j] \in page \ R /\ c[k] \in page \ R /\ c[j] < c[k]
    <3>1. c[j] \in Items /\ c[k] \in Items
      BY <2>3, <1>2
    <3> QED BY <2>3, <3>1, ItemsAre
  <2> QED BY <2>1, <2>2, <2>3, <1>4, <1>7
<1>8. ASSUME NEW i \in walk.due, i \notin R PROVE i \in from
  <2>1. i \in listed /\ i \in Nat /\ Stamps[i] \in Nat
    BY <1>2, ItemsAre
  <2>2. CASE walk.kind = "fills"
    <3>1. ~(i <= walk.next)
      BY <2>2, <1>3, <1>8 DEF ReadUpToCursor, R
    <3> QED BY <2>1, <2>2, <3>1, <1>1, <1>2
  <2>3. CASE walk.kind = "orders"
    <3>1. ~(Stamps[i] < walk.next)
      BY <2>3, <1>3, <1>8 DEF ReadUpToCursor, R
    <3> QED BY <2>1, <2>3, <3>1, <1>1, <1>2
  <2> QED BY <2>2, <2>3, <1>2
<1>9. ASSUME NEW i \in walk.due, NEW p \in page, i <= p PROVE i \in Range(c)
  <2>1. i \in Nat /\ p \in Nat
    BY <1>2, ItemsAre
  <2>2. i = p \/ i < p
    BY <2>1, <1>9
  <2> QED BY <2>2, <1>1, <1>4, <1>8
<1>10. Cardinality(page) < PageSize => walk.due \subseteq Range(c)
  BY <1>1, <1>4, <1>8
<1> QED BY <1>4, <1>7, <1>9, <1>10 DEF c, R

\* What holds of a page's greatest and least item.
LEMMA CursorIs ==
  ASSUME NEW w \in Walks, NEW page \in SUBSET Items, page # {}
  PROVE  /\ Max(page) \in page /\ \A p \in page : p <= Max(page)
         /\ Cursor(w, page) \in Nat
         /\ w.kind = "fills" => Cursor(w, page) = Max(page)
         /\ w.kind = "orders" => Cursor(w, page) = Stamps[Max(page)]
<1>1. Max(page) \in page /\ \A p \in page : p <= Max(page)
  BY ItemsAre, Extremes
<1>2. Max(page) \in Items
  BY <1>1
<1>3. Max(page) \in Nat /\ Stamps[Max(page)] \in Nat
  BY <1>2, ItemsAre
<1> QED BY <1>1, <1>3 DEF Cursor

\* A step of a walk that stays as it is keeps the invariant as items are
\* listed.
LEMMA WalkInvStays ==
  ASSUME WalkInv, walk' = walk, listed \subseteq listed'
  PROVE  WalkInv'
BY DEF WalkInv, Ordered, ReadUpToCursor

\* An answer keeps the invariant of the walk.
LEMMA ReplyKeeps ==
  ASSUME WalkTypeOK, WalkInv, walk.at = "send", Reply, listed' = listed
  PROVE  WalkTypeOK' /\ WalkInv'
<1>1. PICK page \in PagesAfter(walk) : walk' = Turned(walk, page)
  BY DEF Reply
<1> DEFINE c == Collected(walk.rows, page)
<1>2. /\ c \in Seq(Items)
      /\ \A i : i \in Range(c) <=> i \in Range(walk.rows) \/ i \in page
      /\ \A j, k \in DOMAIN c : j < k =>
           /\ c[j] # c[k]
           /\ Stamps[c[j]] <= Stamps[c[k]]
           /\ walk.kind = "fills" => c[j] < c[k]
      /\ \A i \in walk.due, p \in page : i <= p => i \in Range(c)
      /\ Cardinality(page) < PageSize => walk.due \subseteq Range(c)
  BY PageKeepsOrder
<1>3. page \in SUBSET Items
  BY PageIsLower DEF WalkTypeOK
<1>4. walk \in Walks /\ walk.due \subseteq listed /\ ReadUpToCursor(walk)
  BY DEF WalkTypeOK, WalkInv
<1> HIDE DEF c
<1>5. CASE Cardinality(page) < PageSize
  <2> DEFINE e == Ended(walk, "whole")
             h == Holding(e, c)
  <2>1. walk' = h
    BY <1>1, <1>5 DEF Turned, c
  <2>2. e \in Walks /\ e.at = "whole" /\ e.kind = walk.kind /\ e.due = walk.due
    BY <1>4, EndedIs DEF Ats
  <2> HIDE DEF e
  <2>3. /\ h \in Walks /\ h.at = "whole" /\ h.kind = walk.kind
        /\ h.due = walk.due /\ h.rows = c
    BY <1>2, <2>2, HoldingIs
  <2> HIDE DEF h
  <2>4. Ordered(h)
    BY <1>2, <2>3 DEF Ordered
  <2>5. WalkInv'
    BY <1>2, <1>4, <1>5, <2>1, <2>3, <2>4 DEF WalkInv
  <2> QED BY <2>1, <2>3, <2>5 DEF WalkTypeOK
<1>6. CASE ~(Cardinality(page) < PageSize) /\ Stuck(walk, page)
  <2> DEFINE e == Ended(walk, "stuck")
             h == Holding(e, <<>>)
  <2>1. walk' = h
    BY <1>1, <1>6 DEF Turned
  <2>2. e \in Walks /\ e.at = "stuck" /\ e.kind = walk.kind /\ e.due = walk.due
    BY <1>4, EndedIs DEF Ats
  <2> HIDE DEF e
  <2>3. /\ h \in Walks /\ h.at = "stuck" /\ h.kind = walk.kind
        /\ h.due = walk.due /\ h.rows = <<>>
    <3>1. <<>> \in Seq(Items)
      OBVIOUS
    <3> QED BY <2>2, <3>1, HoldingIs
  <2> HIDE DEF h
  <2>4. Ordered(h)
    BY <2>3 DEF Ordered
  <2>5. WalkInv'
    BY <1>4, <2>1, <2>3, <2>4 DEF WalkInv
  <2> QED BY <2>1, <2>3, <2>5 DEF WalkTypeOK
<1>7. CASE ~(Cardinality(page) < PageSize) /\ ~Stuck(walk, page)
  <2> DEFINE n == Cursor(walk, page)
             h == Holding(walk, c)
             g == GoesOn(h, n)
  <2>1. walk' = g
    BY <1>1, <1>7 DEF Turned, c
  <2>2. page # {}
    <3>1. Cardinality({}) = 0
      BY FS_EmptySet
    <3>2. 0 < PageSize
      BY ItemsAre
    <3> QED BY <1>7, <3>1, <3>2
  <2>3. /\ Max(page) \in page /\ \A p \in page : p <= Max(page)
        /\ n \in Nat
        /\ walk.kind = "fills" => n = Max(page)
        /\ walk.kind = "orders" => n = Stamps[Max(page)]
    BY <1>3, <1>4, <2>2, CursorIs
  <2> HIDE DEF n
  <2>4. /\ h \in Walks /\ h.rows = c /\ h.kind = walk.kind
        /\ h.at = "send" /\ h.due = walk.due
    BY <1>2, <1>4, HoldingIs
  <2> HIDE DEF h
  <2>5. /\ g \in Walks /\ g.rows = c /\ g.kind = walk.kind
        /\ g.at = "send" /\ g.due = walk.due /\ g.next = n
    BY <2>3, <2>4, GoesOnIs
  <2> HIDE DEF g
  <2>6. Ordered(g)
    BY <1>2, <2>5 DEF Ordered
  <2>7. \A i \in Range(c) : i \in Items
    BY <1>2, RangeOfSeq
  <2>8. \A i \in walk.due : i \in Items
    BY <1>4 DEF WalkTypeOK
  <2>9. Max(page) \in Items /\ Max(page) \in Range(c)
    BY <1>2, <1>3, <2>3
  <2>10. ReadUpToCursor(g)
    <3>1. ASSUME walk.kind = "fills"
          PROVE  /\ n \in Range(c)
                 /\ \A r \in Range(c) : r <= n
                 /\ \A i \in walk.due : i <= n => i \in Range(c)
      <4>1. n = Max(page) /\ n \in page
        BY <2>3, <3>1
      <4>2. \A r \in Range(walk.rows) : r <= walk.next
        BY <1>4, <3>1 DEF ReadUpToCursor
      <4>3. walk.next <= n
        <5>1. PICK from \in SUBSET listed :
                /\ page \in SUBSET from
                /\ \/ from = {i \in listed : i > walk.next}
                   \/ from = {i \in listed : i >= walk.next}
          BY <3>1, PageIsLower
        <5>2. n \in Nat /\ walk.next \in Nat
          BY <2>3, <1>4 DEF Walks
        <5> QED BY <4>1, <5>1, <5>2
      <4>4. \A r \in Range(c) : r <= n
        <5> SUFFICES ASSUME NEW r \in Range(c) PROVE r <= n
          OBVIOUS
        <5>1. r \in Nat /\ n \in Nat /\ walk.next \in Nat
          BY <2>3, <2>7, <1>4, ItemsAre DEF Walks
        <5> QED BY <1>2, <2>3, <4>1, <4>2, <4>3, <5>1
      <4> QED BY <4>1, <4>4, <1>2
    <3>2. ASSUME walk.kind = "orders"
          PROVE  /\ \A r \in Range(c) : Stamps[r] <= n
                 /\ \A i \in walk.due : Stamps[i] < n => i \in Range(c)
                 /\ \A i \in walk.due, r \in Range(c) : i < r => i \in Range(c)
      <4>1. n = Stamps[Max(page)]
        BY <2>3, <3>2
      <4>2. /\ \A r \in Range(walk.rows) : Stamps[r] <= walk.next
            /\ \A i \in walk.due, r \in Range(walk.rows) :
                 i < r => i \in Range(walk.rows)
        BY <1>4, <3>2 DEF ReadUpToCursor
      <4>3. walk.next <= n
        <5>1. PICK from \in SUBSET listed :
                /\ page \in SUBSET from
                /\ from = {i \in listed : Stamps[i] >= walk.next}
          BY <3>2, PageIsLower
        <5>2. n \in Nat /\ walk.next \in Nat
          BY <2>3, <1>4 DEF Walks
        <5> QED BY <2>3, <4>1, <5>1, <5>2
      <4>4. ASSUME NEW r \in Range(c) PROVE Stamps[r] <= n
        <5>1. Stamps[r] \in Nat /\ n \in Nat /\ walk.next \in Nat
          BY <2>3, <2>7, <1>4, ItemsAre DEF Walks
        <5>2. CASE r \in page
          BY <2>3, <2>7, <2>9, <4>1, <5>2, ItemsAre
        <5>3. CASE r \in Range(walk.rows)
          BY <4>2, <4>3, <5>1, <5>3
        <5> QED BY <1>2, <5>2, <5>3
      <4>5. ASSUME NEW i \in walk.due, Stamps[i] < n PROVE i \in Range(c)
        <5>1. /\ i \in Items /\ Max(page) \in Items
              /\ i \in Nat /\ Max(page) \in Nat
              /\ Stamps[i] \in Nat /\ n \in Nat
          BY <2>3, <2>8, <2>9, ItemsAre
        <5>2. ~(Max(page) <= i)
          BY <4>1, <4>5, <5>1, ItemsAre
        <5>3. i <= Max(page)
          BY <5>1, <5>2
        <5> QED BY <1>2, <2>3, <5>3
      <4>6. ASSUME NEW i \in walk.due, NEW r \in Range(c), i < r
            PROVE  i \in Range(c)
        <5>1. i \in Nat /\ r \in Nat
          BY <2>7, <2>8, ItemsAre
        <5>2. CASE r \in page
          BY <1>2, <4>6, <5>1, <5>2
        <5>3. CASE r \in Range(walk.rows)
          BY <1>2, <4>2, <4>6, <5>3
        <5> QED BY <1>2, <5>2, <5>3
      <4> QED BY <4>4, <4>5, <4>6
    <3> QED BY <2>5, <3>1, <3>2 DEF ReadUpToCursor
  <2>11. WalkInv'
    BY <1>4, <2>1, <2>5, <2>6, <2>10 DEF WalkInv
  <2> QED BY <2>1, <2>5, <2>11 DEF WalkTypeOK
<1> QED BY <1>5, <1>6, <1>7

\* A request that fails, or is to be made again, leaves what was read.
LEMMA FailureKeeps ==
  ASSUME WalkTypeOK, WalkInv, walk.at = "send", RateLimited \/ RequestFails,
         listed' = listed
  PROVE  WalkTypeOK' /\ WalkInv'
<1>1. walk \in Walks /\ ReadUpToCursor(walk)
  BY DEF WalkTypeOK, WalkInv
<1>2. /\ walk' \in Walks /\ walk'.at \in {"send", "failed"}
      /\ walk'.kind = walk.kind /\ walk'.next = walk.next
      /\ walk'.rows = walk.rows /\ walk'.due = walk.due
  <2>1. CASE walk' = Ended(walk, "failed")
    BY <1>1, <2>1, EndedIs DEF Ats
  <2>2. CASE walk.tries < Retries /\ walk' = [walk EXCEPT !.tries = @ + 1]
    <3>1. walk.tries \in Nat /\ walk.tries + 1 \in 0..Retries
      BY <1>1, <2>2, ItemsAre DEF Walks
    <3> QED BY <1>1, <2>2, <3>1 DEF Walks
  <2> QED BY <2>1, <2>2 DEF RateLimited, RequestFails
<1>3. Ordered(walk)' /\ ReadUpToCursor(walk)'
  BY <1>1, <1>2 DEF WalkInv, Ordered, ReadUpToCursor
<1> QED BY <1>2, <1>3 DEF WalkInv, WalkTypeOK

\* A new walk, and none.
LEMMA NewWalkKeeps ==
  ASSUME WalkTypeOK, NEW kind \in {"fills", "orders"}, listed' = listed,
         walk' = NewWalk(kind) \/ walk' = NoWalk
  PROVE  WalkTypeOK' /\ WalkInv'
<1>1. <<>> \in Seq(Items) /\ DOMAIN <<>> = {} /\ 0 \in 0..Retries /\ 0 \in Nat
  BY ItemsAre
<1>2. Range(<<>>) = {}
  BY <1>1 DEF Range
<1>3. walk' \in Walks /\ walk'.rows = <<>> /\ walk'.due \subseteq listed
  <2>1. listed \in SUBSET Items
    BY DEF WalkTypeOK
  <2>2. CASE walk' = NewWalk(kind)
    BY <1>1, <2>1, <2>2 DEF NewWalk, Walks
  <2>3. CASE walk' = NoWalk
    BY <1>1, <2>3 DEF NoWalk, Walks
  <2> QED BY <2>2, <2>3
<1>4. CASE walk' = NewWalk(kind)
  <2>1. /\ walk'.at = "send" /\ walk'.next = 0 /\ walk'.kind = kind
    BY <1>4 DEF NewWalk
  <2>2. Ordered(walk')
    BY <1>1, <1>3 DEF Ordered
  <2>3. \A i \in walk'.due : i \in Nat /\ i > 0 /\ Stamps[i] \in Nat
    BY <1>3, ItemsAre DEF WalkTypeOK
  <2>4. ReadUpToCursor(walk')
    BY <1>2, <1>3, <2>1, <2>3 DEF ReadUpToCursor
  <2> QED BY <1>3, <2>1, <2>2, <2>4 DEF WalkInv, WalkTypeOK
<1>5. CASE walk' = NoWalk
  <2>1. walk'.at = "off"
    BY <1>5 DEF NoWalk
  <2>2. Ordered(walk')
    BY <1>1, <1>3 DEF Ordered
  <2> QED BY <1>3, <2>1, <2>2 DEF WalkInv, WalkTypeOK
<1> QED BY <1>4, <1>5

\* What was read up to the cursor has no hole.
LEMMA NoHole ==
  ASSUME WalkTypeOK, WalkInv
  PROVE  WalkHasNoHole
<1> DEFINE R == Range(walk.rows)
<1>1. \A j, k \in DOMAIN walk.rows : j < k =>
        /\ walk.rows[j] # walk.rows[k]
        /\ Stamps[walk.rows[j]] <= Stamps[walk.rows[k]]
        /\ walk.kind = "fills" => walk.rows[j] < walk.rows[k]
  BY DEF WalkInv, Ordered
<1>2. ASSUME NEW i \in walk.due, NEW r \in R, i < r, walk.at # "whole"
      PROVE  i \in R
  <2>1. /\ walk \in Walks /\ walk.at \in {"send", "failed", "off", "stuck"}
        /\ walk.rows \in Seq(Items) /\ walk.kind \in {"fills", "orders"}
        /\ walk.next \in Nat
    BY <1>2 DEF WalkTypeOK, Walks
  <2>2. walk.at \in {"send", "failed"}
    <3> SUFFICES ASSUME walk.rows = <<>> PROVE FALSE
      BY <2>1 DEF WalkInv
    <3>1. R = {}
      BY DEF Range
    <3> QED BY <3>1
  <2>3. ReadUpToCursor(walk)
    BY <2>2 DEF WalkInv
  <2>4. i \in Items /\ r \in Items
    <3>1. R \in SUBSET Items
      BY <2>1, RangeOfSeq
    <3> QED BY <3>1 DEF WalkInv, WalkTypeOK
  <2>5. i \in Nat /\ r \in Nat
    BY <2>4, ItemsAre
  <2>6. CASE walk.kind = "fills"
    BY <1>2, <2>1, <2>3, <2>5, <2>6 DEF ReadUpToCursor
  <2>7. CASE walk.kind = "orders"
    BY <1>2, <2>3, <2>7 DEF ReadUpToCursor
  <2> QED BY <2>1, <2>6, <2>7
<1>3. walk.at = "whole" => walk.due \subseteq R
  BY DEF WalkInv
<1> QED BY <1>1, <1>2, <1>3 DEF WalkHasNoHole
-----------------------------------------------------------------------------
(* The kicks. *)

\* The inductive invariant behind KicksKept: a worker has its refresh before
\* it, or it will find the newest kick younger than the delay and go round.
KickInv ==
  past.open /\ ~past.excused =>
    \E w \in Workers :
      \/ procs[w].at \in {"debounce", "queue"}
      \/ procs[w].at \in {"walk", "recheck"} /\ kick.since < Delay

Inv == TypeOK /\ WalkInv /\ KickInv

Stages == {"off", "debounce", "queue", "walk", "recheck"}
Times == 0..Budget + BootBudget
Goroutines == [Procs -> [at: Stages, left: Times]]

\* The budgets are times.
LEMMA TimesAre ==
  /\ Budget \in Times /\ BootBudget \in Times /\ 0 \in Times
  /\ \A t \in Times : (IF t > 0 THEN t - 1 ELSE 0) \in Times
BY KickAssumption DEF KickAssumption, Times

\* TypeOK, by the goroutines' records.
LEMMA TypeIs ==
  TypeOK <=>
    /\ WalkTypeOK
    /\ kick \in [since: 0..Delay, pend: BOOLEAN]
    /\ ticks \in [since: 0..Period - 1, due: BOOLEAN]
    /\ procs \in Goroutines
    /\ kept \in {"nothing", "sample", "rows"}
    /\ past \in [open: BOOLEAN, excused: BOOLEAN, kicks: 0..MaxKicks]
    /\ \A p, q \in Procs : procs[p].at = "walk" /\ procs[q].at = "walk" => p = q
    /\ \A v, w \in Workers : procs[v].at # "off" /\ procs[w].at # "off" => v = w
    /\ kick.pend <=> \E w \in Workers : procs[w].at # "off"
BY DEF TypeOK, Goroutines, Stages, Times, Holder, Running

\* The same of the next state.
LEMMA TypeIsNext ==
  TypeOK' <=>
    /\ WalkTypeOK'
    /\ kick' \in [since: 0..Delay, pend: BOOLEAN]
    /\ ticks' \in [since: 0..Period - 1, due: BOOLEAN]
    /\ procs' \in Goroutines
    /\ kept' \in {"nothing", "sample", "rows"}
    /\ past' \in [open: BOOLEAN, excused: BOOLEAN, kicks: 0..MaxKicks]
    /\ \A p, q \in Procs : procs'[p].at = "walk" /\ procs'[q].at = "walk" => p = q
    /\ \A v, w \in Workers : procs'[v].at # "off" /\ procs'[w].at # "off" => v = w
    /\ kick'.pend <=> \E w \in Workers : procs'[w].at # "off"
BY DEF TypeOK, Goroutines, Stages, Times, Holder, Running

\* What becomes of the goroutines when one of them takes a step.
LEMMA GoesToIs ==
  ASSUME procs \in Goroutines, NEW p \in Procs, NEW at \in Stages, GoesTo(p, at)
  PROVE  /\ procs' \in Goroutines /\ procs'[p].at = at
         /\ \A q \in Procs : q # p => procs'[q] = procs[q]
BY DEF GoesTo, Goroutines

LEMMA StartsIs ==
  ASSUME procs \in Goroutines, NEW p \in Procs, StartsRefresh(p)
  PROVE  /\ procs' \in Goroutines /\ procs'[p].at = "queue"
         /\ \A q \in Procs : q # p => procs'[q] = procs[q]
BY TimesAre DEF StartsRefresh, Goroutines, Stages

LEMMA StopsIs ==
  ASSUME procs \in Goroutines, NEW p \in Procs,
         procs' = [procs EXCEPT ![p] = Off]
  PROVE  /\ procs' \in Goroutines /\ procs'[p].at = "off"
         /\ \A q \in Procs : q # p => procs'[q] = procs[q]
BY TimesAre DEF Off, Goroutines, Stages

\* Neither walk nor listed is touched.
LEMMA WalkStays ==
  ASSUME Inv, walk' = walk, listed' = listed
  PROVE  WalkTypeOK' /\ WalkInv'
<1>1. WalkInv /\ WalkTypeOK
  BY TypeIs DEF Inv
<1> QED BY <1>1, WalkInvStays DEF WalkTypeOK

\* A kick.
LEMMA KickKeeps ==
  ASSUME Inv, Kick
  PROVE  Inv'
<1>1. /\ kick' = [since |-> 0, pend |-> TRUE]
      /\ past' = [open |-> TRUE, excused |-> FALSE, kicks |-> past.kicks + 1]
      /\ past.kicks < MaxKicks
      /\ UNCHANGED <<listed, walk, ticks, kept>>
  BY DEF Kick
<1>2. WalkTypeOK' /\ WalkInv'
  BY <1>1, WalkStays
<1>3. /\ kick' \in [since: 0..Delay, pend: BOOLEAN]
      /\ past' \in [open: BOOLEAN, excused: BOOLEAN, kicks: 0..MaxKicks]
      /\ kick'.pend /\ kick'.since < Delay
  <2>1. past.kicks \in 0..MaxKicks
    BY TypeIs DEF Inv
  <2>2. past.kicks + 1 \in 0..MaxKicks /\ 0 \in 0..Delay /\ 0 < Delay
    BY <1>1, <2>1, KickAssumption DEF KickAssumption
  <2> QED BY <1>1, <2>2
<1>4. /\ procs' \in Goroutines
      /\ \A p, q \in Procs : procs'[p].at = "walk" /\ procs'[q].at = "walk" => p = q
      /\ \A v, w \in Workers : procs'[v].at # "off" /\ procs'[w].at # "off" => v = w
      /\ \E w \in Workers : procs'[w].at # "off"
  <2>1. CASE kick.pend
    BY <2>1, TypeIs DEF Inv, Kick
  <2>2. CASE ~kick.pend
    <3>1. PICK w \in Workers : GoesTo(w, "debounce")
      BY <2>2 DEF Kick
    <3>2. /\ procs' \in Goroutines /\ procs'[w].at = "debounce"
          /\ \A q \in Procs : q # w => procs'[q] = procs[q]
      BY <3>1, TypeIs, GoesToIs DEF Inv, Procs, Stages
    <3>3. /\ \A v \in Workers : procs[v].at = "off"
          /\ \A p, q \in Procs : procs[p].at = "walk" /\ procs[q].at = "walk" => p = q
      BY <2>2, TypeIs DEF Inv
    <3> QED BY <3>2, <3>3 DEF Procs
  <2> QED BY <2>1, <2>2
<1>5. TypeOK'
  BY <1>1, <1>2, <1>3, <1>4, TypeIs, TypeIsNext DEF Inv
<1>6. KickInv'
  <2>1. PICK w \in Workers : procs'[w].at # "off"
    BY <1>4
  <2>2. procs'[w].at \in Stages
    BY <1>4 DEF Goroutines, Procs
  <2> QED BY <1>3, <2>1, <2>2 DEF KickInv, Stages
<1> QED BY <1>2, <1>5, <1>6 DEF Inv

\* A step of a goroutine that stays what it is: running or not, at the mutex
\* or not.
LEMMA ProcsKeep ==
  ASSUME TypeOK, NEW p \in Procs, procs' \in Goroutines,
         \A q \in Procs : q # p => procs'[q] = procs[q],
         p \in Workers => (procs'[p].at # "off" <=> procs[p].at # "off"),
         procs'[p].at = "walk" => procs[p].at = "walk" \/ Holder = {}
  PROVE  /\ \A q, r \in Procs : procs'[q].at = "walk" /\ procs'[r].at = "walk" => q = r
         /\ \A v, w \in Workers : procs'[v].at # "off" /\ procs'[w].at # "off" => v = w
         /\ kick.pend <=> \E w \in Workers : procs'[w].at # "off"
<1>1. \A q, r \in Procs : procs'[q].at = "walk" /\ procs'[r].at = "walk" => q = r
  <2>1. \A q, r \in Procs : procs[q].at = "walk" /\ procs[r].at = "walk" => q = r
    BY TypeIs
  <2>2. CASE Holder = {}
    BY <2>2 DEF Holder
  <2>3. CASE procs'[p].at = "walk" => procs[p].at = "walk"
    BY <2>1, <2>3
  <2> QED BY <2>2, <2>3
<1>2. \A w \in Workers : procs'[w].at # "off" <=> procs[w].at # "off"
  BY DEF Procs
<1>3. /\ \A v, w \in Workers : procs[v].at # "off" /\ procs[w].at # "off" => v = w
      /\ kick.pend <=> \E w \in Workers : procs[w].at # "off"
  BY TypeIs
<1> QED BY <1>1, <1>2, <1>3

\* The worker's debounce is over.
LEMMA DebounceKeeps ==
  ASSUME Inv, NEW w \in Workers, DebounceOver(w)
  PROVE  Inv'
<1>1. /\ procs[w].at = "debounce" /\ StartsRefresh(w)
      /\ UNCHANGED <<listed, walk, kick, ticks, kept, past>>
  BY DEF DebounceOver
<1>2. w \in Procs
  BY DEF Procs
<1>3. /\ procs' \in Goroutines /\ procs'[w].at = "queue"
      /\ \A q \in Procs : q # w => procs'[q] = procs[q]
  BY <1>1, <1>2, StartsIs, TypeIs DEF Inv
<1>4. /\ \A q, r \in Procs : procs'[q].at = "walk" /\ procs'[r].at = "walk" => q = r
      /\ \A v, x \in Workers : procs'[v].at # "off" /\ procs'[x].at # "off" => v = x
      /\ kick.pend <=> \E x \in Workers : procs'[x].at # "off"
  BY <1>1, <1>2, <1>3, ProcsKeep DEF Inv
<1>5. WalkTypeOK' /\ WalkInv'
  BY <1>1, WalkStays
<1>6. TypeOK'
  BY <1>1, <1>3, <1>4, <1>5, TypeIs, TypeIsNext DEF Inv
<1>7. KickInv'
  BY <1>3 DEF KickInv
<1> QED BY <1>5, <1>6, <1>7 DEF Inv

\* After the refresh.
LEMMA RecheckKeeps ==
  ASSUME Inv, NEW w \in Workers, Recheck(w)
  PROVE  Inv'
<1>1. /\ procs[w].at = "recheck"
      /\ UNCHANGED <<listed, walk, ticks, kept, past>>
  BY DEF Recheck
<1>2. w \in Procs
  BY DEF Procs
<1>3. WalkTypeOK' /\ WalkInv'
  BY <1>1, WalkStays
<1>4. CASE kick.since < Delay /\ GoesTo(w, "debounce") /\ UNCHANGED kick
  <2>1. /\ procs' \in Goroutines /\ procs'[w].at = "debounce"
        /\ \A q \in Procs : q # w => procs'[q] = procs[q]
    BY <1>2, <1>4, GoesToIs, TypeIs DEF Inv, Stages
  <2>2. /\ \A q, r \in Procs : procs'[q].at = "walk" /\ procs'[r].at = "walk" => q = r
        /\ \A v, x \in Workers : procs'[v].at # "off" /\ procs'[x].at # "off" => v = x
        /\ kick.pend <=> \E x \in Workers : procs'[x].at # "off"
    BY <1>1, <1>2, <2>1, ProcsKeep DEF Inv
  <2>3. TypeOK'
    BY <1>1, <1>3, <1>4, <2>1, <2>2, TypeIs, TypeIsNext DEF Inv
  <2>4. KickInv'
    BY <2>1 DEF KickInv
  <2> QED BY <1>3, <2>3, <2>4 DEF Inv
<1>5. CASE /\ ~(kick.since < Delay)
           /\ procs' = [procs EXCEPT ![w] = Off]
           /\ kick' = [kick EXCEPT !.pend = FALSE]
  <2>1. /\ procs' \in Goroutines /\ procs'[w].at = "off"
        /\ \A q \in Procs : q # w => procs'[q] = procs[q]
    BY <1>2, <1>5, StopsIs, TypeIs DEF Inv
  <2>2. /\ \A v \in Workers : v # w => procs[v].at = "off"
        /\ \A q, r \in Procs : procs[q].at = "walk" /\ procs[r].at = "walk" => q = r
    BY <1>1, TypeIs DEF Inv
  <2>3. \A v \in Workers : procs'[v].at = "off"
    BY <2>1, <2>2 DEF Procs
  <2>4. \A q, r \in Procs : procs'[q].at = "walk" /\ procs'[r].at = "walk" => q = r
    BY <2>1, <2>2
  <2>5. kick' \in [since: 0..Delay, pend: BOOLEAN] /\ kick'.pend = FALSE
    BY <1>5, TypeIs DEF Inv
  <2>6. TypeOK'
    BY <1>1, <1>3, <2>1, <2>3, <2>4, <2>5, TypeIs, TypeIsNext DEF Inv
  <2>7. ~(past.open /\ ~past.excused)
    <3>1. \A v \in Workers : procs[v].at \in {"off", "recheck"}
      BY <1>1, <2>2
    <3> QED BY <3>1, <1>5 DEF Inv, KickInv
  <2>8. KickInv'
    BY <1>1, <2>7 DEF KickInv
  <2> QED BY <1>3, <2>6, <2>8 DEF Inv
<1> QED BY <1>4, <1>5 DEF Recheck

\* The ticker.
LEMMA TickerKeeps ==
  ASSUME Inv, TickerFires
  PROVE  Inv'
<1>1. /\ procs["ticker"].at = "off" /\ ticks' = [ticks EXCEPT !.due = FALSE]
      /\ StartsRefresh("ticker")
      /\ UNCHANGED <<listed, walk, kick, kept, past>>
  BY DEF TickerFires
<1>2. "ticker" \in Procs /\ "ticker" \notin Workers
  BY DEF Procs, Workers
<1>3. /\ procs' \in Goroutines /\ procs'["ticker"].at = "queue"
      /\ \A q \in Procs : q # "ticker" => procs'[q] = procs[q]
  BY <1>1, <1>2, StartsIs, TypeIs DEF Inv
<1>4. /\ \A q, r \in Procs : procs'[q].at = "walk" /\ procs'[r].at = "walk" => q = r
      /\ \A v, x \in Workers : procs'[v].at # "off" /\ procs'[x].at # "off" => v = x
      /\ kick.pend <=> \E x \in Workers : procs'[x].at # "off"
  BY <1>2, <1>3, ProcsKeep DEF Inv
<1>5. WalkTypeOK' /\ WalkInv'
  BY <1>1, WalkStays
<1>6. ticks' \in [since: 0..Period - 1, due: BOOLEAN]
  BY <1>1, TypeIs DEF Inv
<1>7. TypeOK'
  BY <1>1, <1>3, <1>4, <1>5, <1>6, TypeIs, TypeIsNext DEF Inv
<1>8. \A w \in Workers : procs'[w] = procs[w]
  BY <1>2, <1>3 DEF Procs
<1>9. KickInv'
  BY <1>1, <1>8 DEF Inv, KickInv
<1> QED BY <1>5, <1>7, <1>9 DEF Inv

\* The mutex is taken.
LEMMA AcquireKeeps ==
  ASSUME Inv, NEW p \in Procs, Acquire(p)
  PROVE  Inv'
<1>1. /\ procs[p].at = "queue" /\ Holder = {} /\ GoesTo(p, "walk")
      /\ walk' = NewWalk("fills")
      /\ UNCHANGED <<listed, kick, ticks, kept>>
  BY DEF Acquire
<1>2. /\ procs' \in Goroutines /\ procs'[p].at = "walk"
      /\ \A q \in Procs : q # p => procs'[q] = procs[q]
  BY <1>1, GoesToIs, TypeIs DEF Inv, Stages
<1>3. /\ \A q, r \in Procs : procs'[q].at = "walk" /\ procs'[r].at = "walk" => q = r
      /\ \A v, x \in Workers : procs'[v].at # "off" /\ procs'[x].at # "off" => v = x
      /\ kick.pend <=> \E x \in Workers : procs'[x].at # "off"
  BY <1>1, <1>2, ProcsKeep DEF Inv
<1>4. WalkTypeOK' /\ WalkInv'
  BY <1>1, NewWalkKeeps, TypeIs DEF Inv
<1>5. CASE procs[p].left > 0 /\ past' = [past EXCEPT !.open = FALSE]
  <2>1. /\ past' \in [open: BOOLEAN, excused: BOOLEAN, kicks: 0..MaxKicks]
        /\ past'.open = FALSE
    BY <1>5, TypeIs DEF Inv
  <2>2. TypeOK'
    BY <1>1, <1>2, <1>3, <1>4, <2>1, TypeIs, TypeIsNext DEF Inv
  <2>3. KickInv'
    BY <2>1 DEF KickInv
  <2> QED BY <1>4, <2>2, <2>3 DEF Inv
<1>6. CASE past' = [past EXCEPT !.excused = @ \/ p \in Workers]
  <2>1. /\ past' \in [open: BOOLEAN, excused: BOOLEAN, kicks: 0..MaxKicks]
        /\ past'.open = past.open
        /\ past'.excused = (past.excused \/ p \in Workers)
    BY <1>6, TypeIs DEF Inv
  <2>2. TypeOK'
    BY <1>1, <1>2, <1>3, <1>4, <2>1, TypeIs, TypeIsNext DEF Inv
  <2>3. p \notin Workers => \A w \in Workers : procs'[w] = procs[w]
    BY <1>2 DEF Procs
  <2>4. KickInv'
    BY <1>1, <2>1, <2>3 DEF Inv, KickInv
  <2> QED BY <1>4, <2>2, <2>4 DEF Inv
<1> QED BY <1>5, <1>6 DEF Acquire

\* A request, and the walk of orders after that of fills.
LEMMA RequestKeeps ==
  ASSUME Inv, NEW p \in Procs, Request(p) \/ FallBack(p)
  PROVE  Inv'
<1>1. UNCHANGED <<listed, kick, ticks, procs, kept, past>>
  BY DEF Request, FallBack
<1>2. WalkTypeOK /\ WalkInv
  BY TypeIs DEF Inv
<1>3. WalkTypeOK' /\ WalkInv'
  <2>1. CASE FallBack(p)
    BY <1>1, <1>2, <2>1, NewWalkKeeps DEF FallBack
  <2>2. CASE Request(p) /\ Reply
    BY <1>1, <1>2, <2>2, ReplyKeeps DEF Request
  <2>3. CASE Request(p) /\ (RateLimited \/ RequestFails)
    BY <1>1, <1>2, <2>3, FailureKeeps DEF Request
  <2> QED BY <2>1, <2>2, <2>3 DEF Request
<1>4. TypeOK'
  BY <1>1, <1>3, TypeIs, TypeIsNext DEF Inv
<1>5. KickInv'
  BY <1>1 DEF Inv, KickInv
<1> QED BY <1>3, <1>4, <1>5 DEF Inv

\* The end of a refresh.
LEMMA FinishKeeps ==
  ASSUME Inv, NEW p \in Procs, Finish(p)
  PROVE  Inv'
<1>1. /\ procs[p].at = "walk" /\ kept' \in Keeps /\ walk' = NoWalk
      /\ UNCHANGED <<listed, kick, ticks, past>>
  BY DEF Finish
<1>2. /\ procs' \in Goroutines /\ procs'[p].at # "walk"
      /\ p \in Workers => procs'[p].at = "recheck"
      /\ \A q \in Procs : q # p => procs'[q] = procs[q]
  <2>1. CASE p \in Workers
    BY <2>1, GoesToIs, TypeIs DEF Inv, Finish, Stages
  <2>2. CASE p \notin Workers
    BY <2>2, StopsIs, TypeIs DEF Inv, Finish
  <2> QED BY <2>1, <2>2
<1>3. /\ \A q, r \in Procs : procs'[q].at = "walk" /\ procs'[r].at = "walk" => q = r
      /\ \A v, x \in Workers : procs'[v].at # "off" /\ procs'[x].at # "off" => v = x
      /\ kick.pend <=> \E x \in Workers : procs'[x].at # "off"
  BY <1>1, <1>2, ProcsKeep DEF Inv
<1>4. WalkTypeOK' /\ WalkInv'
  BY <1>1, NewWalkKeeps, TypeIs DEF Inv
<1>5. kept' \in {"nothing", "sample", "rows"}
  BY <1>1, TypeIs DEF Inv, Keeps
<1>6. TypeOK'
  BY <1>1, <1>2, <1>3, <1>4, <1>5, TypeIs, TypeIsNext DEF Inv
<1>7. KickInv'
  <2> SUFFICES ASSUME past.open, ~past.excused PROVE KickInv'
    BY <1>1 DEF KickInv
  <2>1. PICK w \in Workers :
          \/ procs[w].at \in {"debounce", "queue"}
          \/ procs[w].at \in {"walk", "recheck"} /\ kick.since < Delay
    BY DEF Inv, KickInv
  <2>2. w \in Procs
    BY DEF Procs
  <2>3. CASE w = p
    BY <1>1, <1>2, <2>1, <2>3 DEF KickInv
  <2>4. CASE w # p
    BY <1>1, <1>2, <2>1, <2>2, <2>4 DEF KickInv
  <2> QED BY <2>3, <2>4
<1> QED BY <1>4, <1>6, <1>7 DEF Inv

\* An item is listed.
LEMMA ListsKeeps ==
  ASSUME Inv, Lists
  PROVE  Inv'
<1>1. /\ \E i \in Items \ listed : listed' = listed \cup {i}
      /\ UNCHANGED <<walk, kick, ticks, procs, kept, past>>
  BY DEF Lists
<1>2. WalkTypeOK /\ WalkInv
  BY TypeIs DEF Inv
<1>3. listed \subseteq listed' /\ listed' \subseteq Items
  BY <1>1, <1>2 DEF WalkTypeOK
<1>4. WalkTypeOK' /\ WalkInv'
  BY <1>1, <1>2, <1>3, WalkInvStays DEF WalkTypeOK
<1>5. TypeOK'
  BY <1>1, <1>4, TypeIs, TypeIsNext DEF Inv
<1>6. KickInv'
  BY <1>1 DEF Inv, KickInv
<1> QED BY <1>4, <1>5, <1>6 DEF Inv

\* The clock: a worker whose refresh goes on as the delay ends excuses it.
LEMMA TickKeeps ==
  ASSUME Inv, Tick
  PROVE  Inv'
<1> DEFINE since == IF kick.since < Delay THEN kick.since + 1 ELSE Delay
<1>1. /\ AllWait
      /\ kick' = [kick EXCEPT !.since = since]
      /\ past' = [past EXCEPT !.excused = @ \/ ExcusedBy(since)]
      /\ ticks' = IF ticks.since + 1 = Period
                    THEN [since |-> 0, due |-> TRUE]
                    ELSE [ticks EXCEPT !.since = @ + 1]
      /\ procs' = [p \in Procs |->
           [procs[p] EXCEPT !.left = IF @ > 0 THEN @ - 1 ELSE 0]]
      /\ UNCHANGED <<listed, walk, kept>>
  BY DEF Tick
<1>2. /\ kick.since \in 0..Delay /\ Delay \in Nat \ {0}
      /\ Period \in Nat \ {0} /\ ticks.since \in 0..Period - 1
  BY TypeIs, KickAssumption DEF Inv, KickAssumption
<1>3. since \in 0..Delay
  BY <1>2
<1> HIDE DEF since
<1>4. /\ kick' \in [since: 0..Delay, pend: BOOLEAN]
      /\ kick'.since = since /\ kick'.pend = kick.pend
  BY <1>1, <1>3, TypeIs DEF Inv
<1>5. /\ past' \in [open: BOOLEAN, excused: BOOLEAN, kicks: 0..MaxKicks]
      /\ past'.open = past.open
      /\ past'.excused = (past.excused \/ ExcusedBy(since))
  BY <1>1, TypeIs DEF Inv, ExcusedBy
<1>6. ticks' \in [since: 0..Period - 1, due: BOOLEAN]
  <2>1. CASE ticks.since + 1 = Period
    <3>1. 0 \in 0..Period - 1
      BY <1>2
    <3> QED BY <1>1, <2>1, <3>1
  <2>2. CASE ticks.since + 1 # Period
    <3>1. ticks.since + 1 \in 0..Period - 1
      BY <1>2, <2>2
    <3> QED BY <1>1, <2>2, <3>1, TypeIs DEF Inv
  <2> QED BY <2>1, <2>2
<1>7. /\ procs' \in Goroutines
      /\ \A p \in Procs : procs'[p].at = procs[p].at
  <2>1. procs \in Goroutines
    BY TypeIs DEF Inv
  <2>2. ASSUME NEW p \in Procs
        PROVE  /\ procs'[p] \in [at: Stages, left: Times]
               /\ procs'[p].at = procs[p].at
    <3> DEFINE left == IF procs[p].left > 0 THEN procs[p].left - 1 ELSE 0
    <3>1. procs'[p] = [procs[p] EXCEPT !.left = left]
      BY <1>1
    <3>2. procs[p] \in [at: Stages, left: Times]
      BY <2>1 DEF Goroutines
    <3>3. left \in Times
      BY <3>2, TimesAre
    <3> HIDE DEF left
    <3> QED BY <3>1, <3>2, <3>3
  <2> QED BY <1>1, <2>2 DEF Goroutines
<1>8. WalkTypeOK' /\ WalkInv'
  BY <1>1, WalkStays
<1>9. \A w \in Workers : procs'[w].at = procs[w].at
  BY <1>7 DEF Procs
<1>10. TypeOK'
  <2>1. /\ \A q, r \in Procs : procs'[q].at = "walk" /\ procs'[r].at = "walk" => q = r
        /\ \A v, x \in Workers : procs'[v].at # "off" /\ procs'[x].at # "off" => v = x
        /\ kick'.pend <=> \E x \in Workers : procs'[x].at # "off"
    BY <1>4, <1>7, <1>9, TypeIs DEF Inv
  <2>2. kept' \in {"nothing", "sample", "rows"}
    BY <1>1, TypeIs DEF Inv
  <2> HIDE DEF WalkTypeOK
  <2> QED BY <1>4, <1>5, <1>6, <1>7, <1>8, <2>1, <2>2, TypeIsNext
<1>11. KickInv'
  <2> SUFFICES ASSUME past.open, ~past.excused, ~ExcusedBy(since) PROVE KickInv'
    BY <1>5 DEF KickInv
  <2>1. PICK w \in Workers :
          \/ procs[w].at \in {"debounce", "queue"}
          \/ procs[w].at \in {"walk", "recheck"} /\ kick.since < Delay
    BY DEF Inv, KickInv
  <2>2. procs[w].at # "recheck"
    BY <1>1 DEF AllWait
  <2>3. CASE procs[w].at \in {"debounce", "queue"}
    BY <1>9, <2>3 DEF KickInv
  <2>4. CASE procs[w].at = "walk" /\ kick.since < Delay
    <3>1. kick.since < since
      BY <1>2, <2>4 DEF since
    <3>2. since # Delay
      BY <2>4, <3>1 DEF ExcusedBy
    <3>3. since < Delay
      BY <1>2, <1>3, <3>2
    <3> QED BY <1>4, <1>9, <2>4, <3>3 DEF KickInv
  <2> QED BY <2>1, <2>2, <2>3, <2>4
<1> QED BY <1>8, <1>10, <1>11 DEF Inv

\* Startup.
LEMMA InitKeeps == Init => Inv
<1> SUFFICES ASSUME Init PROVE Inv
  OBVIOUS
<1>1. /\ listed \subseteq Items /\ walk = NoWalk
      /\ kick = [since |-> Delay, pend |-> FALSE]
      /\ ticks = [since |-> 0, due |-> FALSE]
      /\ procs = [p \in Procs |-> IF p = "boot"
                    THEN [at |-> "queue", left |-> BootBudget] ELSE Off]
      /\ kept = "nothing"
      /\ past = [open |-> FALSE, excused |-> FALSE, kicks |-> 0]
  BY DEF Init
<1>2. /\ <<>> \in Seq(Items) /\ DOMAIN <<>> = {} /\ 0 \in 0..Retries /\ 0 \in Nat
      /\ 0 \in 0..MaxKicks /\ 0 \in 0..Period - 1 /\ Delay \in 0..Delay
  BY ItemsAre, KickAssumption DEF KickAssumption
<1>3. walk \in Walks /\ walk.rows = <<>> /\ walk.due = {} /\ walk.at = "off"
  BY <1>1, <1>2 DEF NoWalk, Walks
<1>4. WalkTypeOK
  BY <1>1, <1>3 DEF WalkTypeOK
<1>5. WalkInv
  BY <1>2, <1>3 DEF WalkInv, Ordered
<1>6. procs \in Goroutines
  BY <1>1, TimesAre DEF Goroutines, Stages, Off
<1>7. \A p \in Procs : procs[p].at \in {"off", "queue"}
  BY <1>1 DEF Off
<1>8. \A w \in Workers : procs[w].at = "off"
  BY <1>1 DEF Off, Procs, Workers
<1>9. TypeOK
  BY <1>1, <1>2, <1>4, <1>6, <1>7, <1>8, TypeIs
<1>10. KickInv
  BY <1>1 DEF KickInv
<1> QED BY <1>5, <1>9, <1>10 DEF Inv

\* The invariant is inductive.
LEMMA Inductive == Inv /\ [Next]_vars => Inv'
<1> SUFFICES ASSUME Inv, [Next]_vars PROVE Inv'
  OBVIOUS
<1>1. CASE Kick
  BY <1>1, KickKeeps
<1>2. CASE TickerFires
  BY <1>2, TickerKeeps
<1>3. CASE Lists
  BY <1>3, ListsKeeps
<1>4. CASE Tick
  BY <1>4, TickKeeps
<1>5. ASSUME NEW p \in Procs, Step(p) PROVE Inv'
  BY <1>5, DebounceKeeps, RecheckKeeps, AcquireKeeps, RequestKeeps, FinishKeeps
  DEF Step
<1>6. CASE UNCHANGED vars
  BY <1>6 DEF vars, Inv, TypeOK, WalkTypeOK, WalkInv, Ordered, ReadUpToCursor,
     KickInv, Holder, Running
<1> QED BY <1>1, <1>2, <1>3, <1>4, <1>5, <1>6 DEF Next

\* A worker is there while a kick is not excused.
LEMMA Kept == Inv => KicksKept
BY DEF Inv, KickInv, KicksKept, Running

LEMMA Always == Spec => []Inv
<1> QED BY InitKeeps, Inductive, PTL DEF Spec
-----------------------------------------------------------------------------
\* Every variable keeps its type, one goroutine at a time holds the mutex and
\* there is a worker if and only if realizedKickPend says so, never a second.
THEOREM TypeCorrect == Spec => []TypeOK
<1>1. Inv => TypeOK
  BY DEF Inv
<1> QED BY <1>1, Always, PTL

\* Fills and ClosedOrders read without a hole, whatever is listed meanwhile,
\* repeated by a page, tried again or failed.
THEOREM NoHoles == Spec => []WalkHasNoHole
<1>1. Inv => WalkHasNoHole
  BY NoHole, TypeIs DEF Inv
<1> QED BY <1>1, Always, PTL

\* kickRealizedRefresh drops no kick but those a refresh outlasts or whose own
\* refresh finds its context spent.
THEOREM KeepsKicks == Spec => []KicksKept
BY Always, Kept, PTL
=============================================================================
