------------------------- MODULE RealizedSync_proofs -------------------------
(***************************************************************************)
(* Theorems about RealizedSync, for every history of executions: types,    *)
(* the recompute worker that misses no fill, and, for histories whose      *)
(* executions can be told apart, that a figure counts each of them once    *)
(* and a refresh leaves out none. Where each order is filled at once as    *)
(* well, no publication takes an execution back but with a recompute due.  *)
(***************************************************************************)
EXTENDS RealizedSync, SequenceTheorems, NaturalsInduction, WellFoundedInduction,
        TLAPS
-----------------------------------------------------------------------------
(* Induction and recursion up to a bound, over sets and functions. *)

LEMMA Induction ==
  ASSUME NEW n \in Nat, NEW G, 0 \in G,
         \A m \in 0..n : m < n /\ m \in G => m + 1 \in G
  PROVE  \A m \in 0..n : m \in G
<1> DEFINE B == {m \in 0..n : m \notin G}
<1>1. SUFFICES ASSUME B # {} PROVE FALSE
  OBVIOUS
<1>2. B \in SUBSET Nat
  OBVIOUS
<1>3. PICK m \in B : \A k \in B : <<k, m>> \notin OpToRel(<, Nat)
  <2> HIDE DEF B
  <2> QED BY <1>1, <1>2, WFMin, NatLessThanWellFounded, Zenon
<1>4. \A k \in B : ~(k < m)
  <2> HIDE DEF B
  <2> QED BY <1>2, <1>3 DEF OpToRel
<1>5. m \in 0..n /\ m \notin G /\ m # 0
  BY <1>3
<1>6. m - 1 \in 0..n /\ m - 1 < m /\ (m - 1) + 1 = m
  BY <1>5
<1>7. m - 1 \in G
  BY <1>4, <1>6
<1> QED BY <1>5, <1>6, <1>7

\* A function is defined by its start and its steps.
Runs(f, n, A, b, step) ==
  f \in [0..n -> A] /\ f[0] = b /\ \A i \in 1..n : f[i] = step[i][f[i - 1]]

LEMMA RecursionExists ==
  ASSUME NEW A, NEW n \in Nat, NEW b \in A, NEW step,
         \A i \in 1..n, a \in A : step[i][a] \in A
  PROVE  \E f : Runs(f, n, A, b, step)
<1> DEFINE Fits(f, m) == f[0] = b /\ \A i \in 1..m : f[i] = step[i][f[i - 1]]
           G == {m \in 0..n : \E f \in [0..m -> A] : Fits(f, m)}
<1>1. 0 \in G
  <2> DEFINE f == [i \in 0..0 |-> b]
  <2>1. f \in [0..0 -> A] /\ Fits(f, 0) /\ 0 \in 0..n
    OBVIOUS
  <2> HIDE DEF f, Fits
  <2> QED BY <2>1
<1>2. ASSUME NEW m \in 0..n, m < n, m \in G
      PROVE  m + 1 \in G
  <2>1. PICK f \in [0..m -> A] : Fits(f, m)
    BY <1>2
  <2> DEFINE g == [i \in 0..(m + 1) |-> IF i = m + 1 THEN step[m + 1][f[m]] ELSE f[i]]
  <2>2. m + 1 \in 1..n /\ m + 1 \in 0..n /\ m \in 0..m /\ m \in Int
    BY <1>2
  <2>3. f[m] \in A /\ step[m + 1][f[m]] \in A
    BY <2>2
  <2>4. g \in [0..(m + 1) -> A]
    BY <2>2, <2>3
  <2>5. \A i \in 0..m : g[i] = f[i]
    BY <2>2
  <2>6. g[m + 1] = step[m + 1][f[m]]
    BY <2>2
  <2>7. Fits(g, m + 1)
    <3>1. g[0] = b
      BY <2>1, <2>2, <2>5
    <3>2. ASSUME NEW i \in 1..(m + 1) PROVE g[i] = step[i][g[i - 1]]
      <4> HIDE DEF g
      <4>1. i - 1 \in 0..m
        BY <2>2
      <4>2. CASE i = m + 1
        BY <2>2, <2>5, <2>6, <4>1, <4>2
      <4>3. CASE i # m + 1
        <5>1. i \in 1..m /\ i \in 0..m
          BY <2>2, <4>3
        <5> QED BY <2>1, <2>5, <4>1, <5>1
      <4> QED BY <4>2, <4>3
    <3> QED BY <3>1, <3>2
  <2> HIDE DEF g, Fits
  <2> QED BY <2>2, <2>4, <2>7
<1>3. n \in G
  <2> HIDE DEF G
  <2>1. \A m \in 0..n : m \in G
    BY <1>1, <1>2, Induction
  <2> QED BY <2>1
<1> QED BY <1>3 DEF Runs
-----------------------------------------------------------------------------
(* Quantities. *)

Weight(S, n) == IF n \in S THEN Terms[n].qty ELSE 0

LEMMA TermsAre ==
  /\ Len(Terms) \in Nat /\ Execs = 1..Len(Terms)
  /\ \A k \in Execs : Terms[k].qty \in Nat \ {0}
<1>1. Len(Terms) \in Nat /\ DOMAIN Terms = 1..Len(Terms)
  BY SyncAssumption, LenProperties
<1>2. \A k \in 1..Len(Terms) :
        Terms[k] \in [order: STRING, qty: Nat \ {0}, price: Nat, at: Nat,
                      stamp: Nat, named: BOOLEAN]
  BY SyncAssumption, ElementOfSeq
<1>3. \A k \in 1..Len(Terms) : Terms[k].qty \in Nat \ {0}
  BY <1>2
<1> QED BY <1>1, <1>3 DEF Execs

LEMMA TermTimes ==
  \A k \in Execs : /\ Terms[k].at \in Nat /\ Terms[k].stamp \in Nat
                    /\ Terms[k].named \in BOOLEAN
<1>1. \A k \in 1..Len(Terms) :
        Terms[k] \in [order: STRING, qty: Nat \ {0}, price: Nat, at: Nat,
                      stamp: Nat, named: BOOLEAN]
  BY SyncAssumption, ElementOfSeq
<1> QED BY <1>1, TermsAre

LEMMA QtyIs ==
  ASSUME NEW S
  PROVE  \E u \in [0..Len(Terms) -> Nat] :
           /\ u[0] = 0 /\ \A n \in 1..Len(Terms) : u[n] = u[n - 1] + Weight(S, n)
           /\ Qty(S) = u[Len(Terms)]
<1> DEFINE N == Len(Terms)
           Sum(g) == [n \in 0..N |->
                        IF n = 0 THEN 0
                        ELSE g[n - 1] + IF n \in S THEN Terms[n].qty ELSE 0]
           u == CHOOSE g : g = Sum(g)
<1>1. Qty(S) = u[N]
  BY Zenon DEF Qty
<1>2. N \in Nat /\ \A n \in 1..N : Weight(S, n) \in Nat
  BY TermsAre DEF Weight
<1> DEFINE step == [n \in 1..N |-> [a \in Nat |-> a + Weight(S, n)]]
<1> HIDE DEF N
<1>3. \A n \in 1..N, a \in Nat : step[n][a] \in Nat
  BY <1>2
<1>4. PICK f \in [0..N -> Nat] :
        f[0] = 0 /\ \A n \in 1..N : f[n] = step[n][f[n - 1]]
  <2> HIDE DEF step
  <2>1. \E f : Runs(f, N, Nat, 0, step)
    BY <1>2, <1>3, RecursionExists
  <2> QED BY <2>1 DEF Runs
<1>5. \A n \in 1..N : f[n] = f[n - 1] + Weight(S, n)
  <2>1. ASSUME NEW n \in 1..N PROVE f[n] = f[n - 1] + Weight(S, n)
    <3>1. n - 1 \in 0..N
      BY <1>2
    <3>2. f[n - 1] \in Nat
      BY <3>1
    <3> QED BY <1>4, <3>2
  <2> QED BY <2>1
<1>6. f = Sum(f)
  <2>1. \A n \in 0..N : f[n] = IF n = 0 THEN 0
                               ELSE f[n - 1] + IF n \in S THEN Terms[n].qty ELSE 0
    <3>1. \A n \in 0..N : n = 0 \/ n \in 1..N
      BY <1>2
    <3> QED BY <1>4, <1>5, <3>1 DEF Weight
  <2> QED BY <2>1
<1>7. u = Sum(u)
  <2> HIDE DEF Sum
  <2> QED BY <1>6
<1>8. u[0] = 0 /\ \A n \in 1..N : u[n] = u[n - 1] + Weight(S, n)
  <2>1. \A n \in 0..N : u[n] = IF n = 0 THEN 0
                               ELSE u[n - 1] + IF n \in S THEN Terms[n].qty ELSE 0
    <3> HIDE DEF u
    <3> QED BY <1>7
  <2>2. 0 \in 0..N /\ \A n \in 1..N : n \in 0..N /\ n # 0
    BY <1>2
  <2> HIDE DEF u
  <2> QED BY <2>1, <2>2 DEF Weight
<1> HIDE DEF u
<1>9. u \in [0..N -> Nat]
  <2> DEFINE G == {m \in 0..N : u[m] \in Nat}
  <2>1. 0 \in G
    BY <1>2, <1>8
  <2>2. \A m \in 0..N : m < N /\ m \in G => m + 1 \in G
    <3>1. ASSUME NEW m \in 0..N, m < N, u[m] \in Nat PROVE u[m + 1] \in Nat
      <4>1. m + 1 \in 1..N /\ (m + 1) - 1 = m
        BY <1>2, <3>1
      <4>2. u[m + 1] = u[m] + Weight(S, m + 1)
        BY <1>8, <4>1
      <4> QED BY <1>2, <3>1, <4>1, <4>2
    <3>2. \A m \in 0..N : m < N => m + 1 \in 0..N
      BY <1>2
    <3> QED BY <3>1, <3>2
  <2>3. \A m \in 0..N : u[m] \in Nat
    <3>1. \A m \in 0..N : m \in G
      <4> HIDE DEF G
      <4> QED BY <1>2, <2>1, <2>2, Induction
    <3> QED BY <3>1
  <2>4. u = [m \in 0..N |-> u[m]]
    <3>1. u = Sum(u)
      BY <1>7
    <3> HIDE DEF N
    <3> QED BY <3>1, Zenon
  <2> QED BY <2>3, <2>4
<1> QED BY <1>1, <1>8, <1>9 DEF N

LEMMA QtyInNat == ASSUME NEW S PROVE Qty(S) \in Nat
BY QtyIs, TermsAre

\* A sum is no less than any of its terms.
LEMMA QtyAtLeast ==
  ASSUME NEW S, NEW k \in Execs, k \in S
  PROVE  Qty(S) >= Terms[k].qty
<1> DEFINE N == Len(Terms)
<1>1. N \in Nat /\ Execs = 1..N /\ k \in 1..N /\ Terms[k].qty \in Nat
  BY TermsAre
<1>2. \A n \in 1..N : Weight(S, n) \in Nat
  BY TermsAre DEF Weight
<1>3. Weight(S, k) = Terms[k].qty
  BY DEF Weight
<1> HIDE DEF N
<1>4. PICK u \in [0..N -> Nat] :
        /\ u[0] = 0 /\ \A n \in 1..N : u[n] = u[n - 1] + Weight(S, n)
        /\ Qty(S) = u[N]
  BY QtyIs DEF N
<1> DEFINE G == {m \in 0..N : m >= k => u[m] >= Terms[k].qty}
<1>5. 0 \in G
  BY <1>1
<1>6. \A m \in 0..N : m < N /\ m \in G => m + 1 \in G
  <2>1. ASSUME NEW m \in 0..N, m < N, m >= k => u[m] >= Terms[k].qty, m + 1 >= k
        PROVE  u[m + 1] >= Terms[k].qty
    <3>1. m + 1 \in 1..N /\ (m + 1) - 1 = m /\ u[m] \in Nat
      BY <1>1, <2>1
    <3>2. u[m + 1] = u[m] + Weight(S, m + 1)
      BY <1>4, <3>1
    <3>3. CASE m >= k
      BY <1>1, <1>2, <2>1, <3>1, <3>2, <3>3
    <3>4. CASE m + 1 = k
      <4>1. Weight(S, m + 1) = Terms[k].qty
        BY <1>3, <3>4
      <4> QED BY <1>1, <3>1, <3>2, <4>1
    <3>5. m >= k \/ m + 1 = k
      BY <1>1, <2>1
    <3> QED BY <3>3, <3>4, <3>5
  <2>2. \A m \in 0..N : m < N => m + 1 \in 0..N
    BY <1>1
  <2> QED BY <2>1, <2>2
<1>7. N \in G
  <2>1. \A m \in 0..N : m \in G
    <3> HIDE DEF G
    <3> QED BY <1>1, <1>5, <1>6, Induction
  <2> HIDE DEF G
  <2> QED BY <1>1, <2>1
<1> QED BY <1>1, <1>4, <1>7

\* The sum over at most one execution.
LEMMA QtyOfOne ==
  ASSUME NEW S, NEW k \in Execs, \A j \in Execs : j \in S => j = k
  PROVE  Qty(S) = IF k \in S THEN Terms[k].qty ELSE 0
<1> DEFINE N == Len(Terms)
           q == IF k \in S THEN Terms[k].qty ELSE 0
<1>1. N \in Nat /\ Execs = 1..N /\ k \in 1..N /\ q \in Nat
  BY TermsAre
<1>2. \A n \in 1..N : Weight(S, n) = IF n = k THEN q ELSE 0
  BY <1>1 DEF Weight
<1> HIDE DEF N, q
<1>4. PICK u \in [0..N -> Nat] :
        /\ u[0] = 0 /\ \A n \in 1..N : u[n] = u[n - 1] + Weight(S, n)
        /\ Qty(S) = u[N]
  BY QtyIs DEF N
<1> DEFINE G == {m \in 0..N : u[m] = IF m >= k THEN q ELSE 0}
<1>5. 0 \in G
  BY <1>1, <1>4
<1>6. \A m \in 0..N : m < N /\ m \in G => m + 1 \in G
  <2>1. ASSUME NEW m \in 0..N, m < N, u[m] = IF m >= k THEN q ELSE 0
        PROVE  u[m + 1] = IF m + 1 >= k THEN q ELSE 0
    <3>1. m + 1 \in 1..N /\ (m + 1) - 1 = m
      BY <1>1, <2>1
    <3>2. u[m + 1] = u[m] + IF m + 1 = k THEN q ELSE 0
      BY <1>2, <1>4, <3>1
    <3> QED BY <1>1, <2>1, <3>2
  <2>2. \A m \in 0..N : m < N => m + 1 \in 0..N
    BY <1>1
  <2> QED BY <2>1, <2>2
<1>7. N \in G
  <2>1. \A m \in 0..N : m \in G
    <3> HIDE DEF G
    <3> QED BY <1>1, <1>5, <1>6, Induction
  <2> HIDE DEF G
  <2> QED BY <1>1, <2>1
<1> QED BY <1>1, <1>4, <1>7 DEF N, q
-----------------------------------------------------------------------------
(* The walk of Unmatched over the provisional rows. *)

Bare(rest) == {r \in rest : ~Terms[r].named}
Walk == [free: SUBSET Execs, pool: Nat, kept: Seq(Execs)]
Begun(rest) == [free |-> Bare(rest), pool |-> Qty(Bare(rest)), kept |-> <<>>]
Visit(rest, open, a, k) == IF k \in open THEN MatchRow(Bare(rest), a, k) ELSE a

\* u[i] is the walk after i rows.
Walked(u, rest, ws, open) ==
  /\ u \in [0..Len(ws) -> Walk]
  /\ u[0] = Begun(rest)
  /\ \A i \in 1..Len(ws) : u[i] = Visit(rest, open, u[i - 1], ws[i])
  /\ Unmatched(rest, ws, open) = u[Len(ws)].kept

LEMMA VisitOk ==
  ASSUME NEW rest, NEW open, NEW a \in Walk, NEW k \in Execs
  PROVE  Visit(rest, open, a, k) \in Walk
<1>1. Terms[k].qty \in Nat
  BY TermsAre
<1>2. /\ a.free \in SUBSET Execs /\ a.pool \in Nat /\ a.kept \in Seq(Execs)
      /\ Append(a.kept, k) \in Seq(Execs)
  BY DEF Walk
<1> DEFINE same == {r \in a.free : SameTerms(k, r)}
           less == IF a.pool > Terms[k].qty THEN a.pool - Terms[k].qty ELSE 0
           left == a.free \ {CHOOSE r \in same : TRUE}
<1>3. less \in Nat /\ left \in SUBSET Execs
  BY <1>1, <1>2
<1>4. MatchRow(Bare(rest), a, k) \in
        {[free |-> left, pool |-> less, kept |-> a.kept],
         [free |-> a.free, pool |-> less, kept |-> a.kept],
         [free |-> a.free, pool |-> a.pool, kept |-> Append(a.kept, k)]}
  BY Zenon DEF MatchRow
<1> HIDE DEF less, left
<1>5. /\ [free |-> left, pool |-> less, kept |-> a.kept] \in Walk
      /\ [free |-> a.free, pool |-> less, kept |-> a.kept] \in Walk
      /\ [free |-> a.free, pool |-> a.pool, kept |-> Append(a.kept, k)] \in Walk
  BY <1>2, <1>3 DEF Walk
<1>6. MatchRow(Bare(rest), a, k) \in Walk
  BY <1>4, <1>5
<1> QED BY <1>6 DEF Visit

LEMMA UnmatchedIs ==
  ASSUME NEW rest \in SUBSET Execs, NEW ws \in Seq(Execs), NEW open
  PROVE  \E u : Walked(u, rest, ws, open)
<1> DEFINE N == Len(ws)
           Goes(g) == [i \in 0..N |->
                         IF i = 0 THEN Begun(rest)
                         ELSE IF ws[i] \in open
                              THEN MatchRow(Bare(rest), g[i - 1], ws[i])
                         ELSE g[i - 1]]
           u == CHOOSE g : g = Goes(g)
<1>1. Unmatched(rest, ws, open) = u[N].kept
  BY Zenon DEF Unmatched, Begun, Bare
<1>2. N \in Nat /\ \A i \in 1..N : ws[i] \in Execs
  BY ElementOfSeq, LenProperties
<1>3. Begun(rest) \in Walk
  <2>1. Bare(rest) \in SUBSET Execs /\ Qty(Bare(rest)) \in Nat /\ <<>> \in Seq(Execs)
    BY QtyInNat DEF Bare
  <2> QED BY <2>1 DEF Walk, Begun
<1> DEFINE step == [i \in 1..N |-> [a \in Walk |-> Visit(rest, open, a, ws[i])]]
<1> HIDE DEF N
<1>4. \A i \in 1..N, a \in Walk : step[i][a] \in Walk
  BY <1>2, VisitOk
<1>5. PICK f : Runs(f, N, Walk, Begun(rest), step)
  <2> HIDE DEF step
  <2> QED BY <1>2, <1>3, <1>4, RecursionExists
<1>6. f \in [0..N -> Walk] /\ f[0] = Begun(rest)
  BY <1>5 DEF Runs
<1>7. \A i \in 1..N : i - 1 \in 0..N /\ f[i] = Visit(rest, open, f[i - 1], ws[i])
  <2>1. ASSUME NEW i \in 1..N
        PROVE  i - 1 \in 0..N /\ f[i] = Visit(rest, open, f[i - 1], ws[i])
    <3>1. i - 1 \in 0..N
      BY <1>2
    <3>2. f[i - 1] \in Walk
      BY <1>6, <3>1
    <3>3. f[i] = step[i][f[i - 1]]
      <4> HIDE DEF step
      <4> QED BY <1>5 DEF Runs
    <3>4. step[i][f[i - 1]] = Visit(rest, open, f[i - 1], ws[i])
      BY <3>2
    <3> QED BY <3>1, <3>3, <3>4
  <2> QED BY <2>1
<1>8. f = Goes(f)
  <2>1. \A i \in 0..N : i = 0 \/ i \in 1..N
    BY <1>2
  <2>2. \A i \in 0..N : f[i] = IF i = 0 THEN Begun(rest)
                               ELSE IF ws[i] \in open
                                    THEN MatchRow(Bare(rest), f[i - 1], ws[i])
                               ELSE f[i - 1]
    BY <1>6, <1>7, <2>1 DEF Visit
  <2> QED BY <1>6, <2>2
<1>9. u = Goes(u)
  <2> HIDE DEF Goes
  <2> QED BY <1>8
<1>10. DOMAIN u = 0..N
  <2> HIDE DEF u
  <2> QED BY <1>9
<1>11. \A i \in 0..N : u[i] = IF i = 0 THEN Begun(rest)
                               ELSE IF ws[i] \in open
                                    THEN MatchRow(Bare(rest), u[i - 1], ws[i])
                               ELSE u[i - 1]
  <2> HIDE DEF u
  <2> QED BY <1>9
<1>12. u = [i \in 0..N |-> u[i]]
  <2> HIDE DEF N
  <2> QED BY <1>9, Zenon
<1> HIDE DEF u
<1>13. u[0] = Begun(rest) /\ \A i \in 1..N : u[i] = Visit(rest, open, u[i - 1], ws[i])
  <2>1. 0 \in 0..N /\ \A i \in 1..N : i \in 0..N /\ i # 0
    BY <1>2
  <2> QED BY <1>11, <2>1 DEF Visit
<1> DEFINE G == {m \in 0..N : u[m] \in Walk}
<1>14. 0 \in G
  BY <1>2, <1>3, <1>13
<1>15. \A m \in 0..N : m < N /\ m \in G => m + 1 \in G
  <2>1. ASSUME NEW m \in 0..N, m < N, u[m] \in Walk PROVE u[m + 1] \in Walk
    <3>1. m + 1 \in 1..N /\ (m + 1) - 1 = m
      BY <1>2, <2>1
    <3> QED BY <1>2, <1>13, <2>1, <3>1, VisitOk
  <2>2. \A m \in 0..N : m < N => m + 1 \in 0..N
    BY <1>2
  <2> QED BY <2>1, <2>2
<1>16. \A m \in 0..N : u[m] \in Walk
  <2>1. \A m \in 0..N : m \in G
    <3> HIDE DEF G
    <3> QED BY <1>2, <1>14, <1>15, Induction
  <2> QED BY <2>1
<1>17. u \in [0..N -> Walk]
  BY <1>12, <1>16
<1> QED BY <1>1, <1>13, <1>17 DEF N, Walked

\* A visit of a row keeps what was kept and appends at most the row.
LEMMA VisitKeeps ==
  ASSUME NEW rest, NEW open, NEW a, NEW k
  PROVE  \/ Visit(rest, open, a, k).kept = a.kept
         \/ k \in open /\ Visit(rest, open, a, k).kept = Append(a.kept, k)
BY DEF Visit, MatchRow

\* A row takes at most an activity of its own terms.
LEMMA VisitFrees ==
  ASSUME NEW rest, NEW open, NEW a, NEW k
  PROVE  /\ Visit(rest, open, a, k).free \subseteq a.free
         /\ \A x \in a.free : ~SameTerms(k, x) => x \in Visit(rest, open, a, k).free
<1> DEFINE same == {r \in a.free : SameTerms(k, r)}
           left == a.free \ {CHOOSE r \in same : TRUE}
<1>1. Visit(rest, open, a, k).free \in {a.free, left}
  BY DEF Visit, MatchRow
<1>2. same # {} => SameTerms(k, CHOOSE r \in same : TRUE)
  BY Zenon
<1>3. Visit(rest, open, a, k).free = left => same # {} \/ left = a.free
  BY DEF Visit, MatchRow
<1> QED BY <1>1, <1>2, <1>3

Ascending(s) == \A x, y \in 1..Len(s) : x < y => s[x] < s[y]
Has(s, k) == \E x \in 1..Len(s) : s[x] = k

LEMMA ToSetIs ==
  ASSUME NEW s \in Seq(Execs), NEW k
  PROVE  k \in ToSet(s) <=> Has(s, k)
<1>1. DOMAIN s = 1..Len(s)
  BY LenProperties
<1> QED BY <1>1, Zenon DEF ToSet, Has

LEMMA ToSetExecs ==
  ASSUME NEW s \in Seq(Execs)
  PROVE  ToSet(s) \in SUBSET Execs
<1>1. \A k \in ToSet(s) : k \in Execs
  BY ToSetIs, ElementOfSeq DEF Has
<1> QED BY <1>1

LEMMA AppendIs ==
  ASSUME NEW s \in Seq(Execs), NEW k \in Execs
  PROVE  /\ Append(s, k) \in Seq(Execs) /\ Len(Append(s, k)) = Len(s) + 1
         /\ Append(s, k)[Len(s) + 1] = k
         /\ \A x \in 1..Len(s) : Append(s, k)[x] = s[x]
         /\ Len(s) \in Nat
BY AppendProperties, LenProperties

LEMMA AppendHas ==
  ASSUME NEW s \in Seq(Execs), NEW k \in Execs, NEW j
  PROVE  Has(Append(s, k), j) <=> Has(s, j) \/ j = k
<1>1. \A x \in 1..(Len(s) + 1) : x \in 1..Len(s) \/ x = Len(s) + 1
  BY AppendIs
<1>2. \A x \in 1..Len(s) : x \in 1..(Len(s) + 1)
  BY AppendIs
<1>3. Len(s) + 1 \in 1..(Len(s) + 1)
  BY AppendIs
<1> DEFINE t == Append(s, k)
<1>4. /\ Len(t) = Len(s) + 1 /\ t[Len(s) + 1] = k
      /\ \A x \in 1..Len(s) : t[x] = s[x]
  BY AppendIs
<1> HIDE DEF t
<1>5. Has(t, j) <=> Has(s, j) \/ j = k
  BY <1>1, <1>2, <1>3, <1>4 DEF Has
<1> QED BY <1>5 DEF t

LEMMA AppendAscends ==
  ASSUME NEW s \in Seq(Execs), NEW k \in Execs, Ascending(s),
         \A x \in 1..Len(s) : s[x] < k
  PROVE  Ascending(Append(s, k))
<1> DEFINE t == Append(s, k)
<1>1. /\ Len(t) = Len(s) + 1 /\ t[Len(s) + 1] = k /\ Len(s) \in Nat
      /\ \A x \in 1..Len(s) : t[x] = s[x]
  BY AppendIs
<1> HIDE DEF t
<1>2. ASSUME NEW x \in 1..Len(t), NEW y \in 1..Len(t), x < y PROVE t[x] < t[y]
  <2>1. x \in 1..Len(s) /\ (y \in 1..Len(s) \/ y = Len(s) + 1)
    BY <1>1, <1>2
  <2> QED BY <1>1, <1>2, <2>1 DEF Ascending
<1> QED BY <1>2 DEF Ascending, t

\* What is kept are rows, those of `open`, in their order.
LEMMA UnmatchedRows ==
  ASSUME NEW rest \in SUBSET Execs, NEW ws \in Seq(Execs), NEW open, Ascending(ws)
  PROVE  /\ Unmatched(rest, ws, open) \in Seq(Execs)
         /\ Ascending(Unmatched(rest, ws, open))
         /\ \A k : Has(Unmatched(rest, ws, open), k) => Has(ws, k) /\ k \in open
<1> DEFINE N == Len(ws)
<1>1. N \in Nat /\ \A i \in 1..N : ws[i] \in Execs
  BY ElementOfSeq, LenProperties
<1>2. PICK u : Walked(u, rest, ws, open)
  BY UnmatchedIs
<1>3. /\ u \in [0..N -> Walk] /\ u[0] = Begun(rest)
      /\ \A i \in 1..N : u[i] = Visit(rest, open, u[i - 1], ws[i])
      /\ Unmatched(rest, ws, open) = u[N].kept
  BY <1>2 DEF Walked
<1> DEFINE From(m) == \A x \in 1..Len(u[m].kept) :
                        \E i \in 1..m : u[m].kept[x] = ws[i] /\ ws[i] \in open
           G == {m \in 0..N : Ascending(u[m].kept) /\ From(m)}
<1> HIDE DEF N
<1>4. \A m \in 0..N : u[m].kept \in Seq(Execs)
  BY <1>3 DEF Walk
<1>5. 0 \in G
  <2>1. u[0].kept = <<>> /\ Len(u[0].kept) = 0
    BY <1>3 DEF Begun
  <2> QED BY <1>1, <2>1 DEF Ascending
<1>6. \A m \in 0..N : m < N /\ m \in G => m + 1 \in G
  <2>1. ASSUME NEW m \in 0..N, m < N, Ascending(u[m].kept), From(m)
        PROVE  Ascending(u[m + 1].kept) /\ From(m + 1)
    <3>1. m + 1 \in 1..N /\ (m + 1) - 1 = m /\ m \in Nat
      BY <1>1, <2>1
    <3> DEFINE k == ws[m + 1]
               s == u[m].kept
               t == u[m + 1].kept
    <3>2. t = s \/ (k \in open /\ t = Append(s, k))
      <4>1. u[m + 1] = Visit(rest, open, u[m], ws[m + 1])
        BY <1>3, <3>1
      <4> QED BY <4>1, VisitKeeps
    <3>3. s \in Seq(Execs) /\ k \in Execs
      BY <1>1, <1>4, <3>1
    <3>4. \A x \in 1..Len(s) : \E i \in 1..m : s[x] = ws[i] /\ ws[i] \in open
      BY <2>1
    <3>5. \A i \in 1..m : i \in 1..(m + 1) /\ i \in 1..N /\ i < m + 1
      BY <1>1, <2>1, <3>1
    <3> HIDE DEF k, s, t
    <3>6. CASE t = s
      <4>1. Ascending(t)
        BY <2>1, <3>6 DEF s, t
      <4>2. From(m + 1)
        BY <3>4, <3>5, <3>6 DEF t
      <4> QED BY <4>1, <4>2 DEF t
    <3>7. CASE k \in open /\ t = Append(s, k)
      <4>1. \A x \in 1..Len(s) : s[x] < k
        BY <3>1, <3>4, <3>5 DEF Ascending, N, k
      <4>2. Ascending(t)
        BY <2>1, <3>3, <3>7, <4>1, AppendAscends DEF s
      <4>3. \A x \in 1..Len(t) : (x \in 1..Len(s) /\ t[x] = s[x]) \/ t[x] = k
        <5>1. /\ Len(t) = Len(s) + 1 /\ t[Len(s) + 1] = k /\ Len(s) \in Nat
              /\ \A x \in 1..Len(s) : t[x] = s[x]
          BY <3>3, <3>7, AppendIs
        <5> QED BY <5>1
      <4>4. m + 1 \in 1..(m + 1)
        BY <3>1
      <4>5. From(m + 1)
        BY <3>4, <3>5, <3>7, <4>3, <4>4 DEF t, k
      <4> QED BY <4>2, <4>5 DEF t
    <3> QED BY <3>2, <3>6, <3>7
  <2>2. \A m \in 0..N : m < N => m + 1 \in 0..N
    BY <1>1
  <2> QED BY <2>1, <2>2
<1>7. N \in G
  <2>1. \A m \in 0..N : m \in G
    <3> HIDE DEF G
    <3> QED BY <1>1, <1>5, <1>6, Induction
  <2> HIDE DEF G
  <2> QED BY <1>1, <2>1
<1>8. N \in 0..N
  BY <1>1
<1> DEFINE left == u[N].kept
<1>9. left \in Seq(Execs) /\ Ascending(left)
  BY <1>4, <1>7, <1>8
<1>10. \A x \in 1..Len(left) : \E i \in 1..N : left[x] = ws[i] /\ ws[i] \in open
  BY <1>7
<1>11. \A k : Has(left, k) => Has(ws, k) /\ k \in open
  <2> HIDE DEF left
  <2> QED BY <1>10 DEF Has, N
<1> QED BY <1>3, <1>9, <1>11

\* A row whose own activity is there without an order id takes it, if no other
\* execution has its size and price.
LEMMA BareTaken ==
  ASSUME NEW rest \in SUBSET Execs, NEW ws \in Seq(Execs), NEW open, Ascending(ws),
         NEW k \in Bare(rest), \A j \in Execs : SameTerms(j, k) => j = k
  PROVE  ~Has(Unmatched(rest, ws, open), k)
<1> DEFINE N == Len(ws)
<1>1. N \in Nat /\ \A i \in 1..N : ws[i] \in Execs
  BY ElementOfSeq, LenProperties
<1>2. PICK u : Walked(u, rest, ws, open)
  BY UnmatchedIs
<1>3. /\ u \in [0..N -> Walk] /\ u[0] = Begun(rest)
      /\ \A i \in 1..N : u[i] = Visit(rest, open, u[i - 1], ws[i])
      /\ Unmatched(rest, ws, open) = u[N].kept
  BY <1>2 DEF Walked
<1> DEFINE Free(m) == (\A i \in 1..m : ws[i] # k) => k \in u[m].free
           G == {m \in 0..N : ~Has(u[m].kept, k) /\ Free(m)}
<1>4. \A m \in 0..N : u[m].kept \in Seq(Execs)
  BY <1>3 DEF Walk
<1>5. 0 \in G
  <2>1. u[0].kept = <<>> /\ Len(u[0].kept) = 0 /\ u[0].free = Bare(rest)
    BY <1>3 DEF Begun
  <2>2. ~Has(u[0].kept, k)
    BY <2>1 DEF Has
  <2> QED BY <1>1, <2>1, <2>2
<1>6. \A m \in 0..N : m < N /\ m \in G => m + 1 \in G
  <2>1. ASSUME NEW m \in 0..N, m < N, ~Has(u[m].kept, k), Free(m)
        PROVE  ~Has(u[m + 1].kept, k) /\ Free(m + 1)
    <3>1. m + 1 \in 1..N /\ (m + 1) - 1 = m /\ m \in Nat
      BY <1>1, <2>1
    <3>2. \A i \in 1..m : i \in 1..(m + 1) /\ i \in 1..N /\ i < m + 1
      BY <1>1, <2>1, <3>1
    <3> DEFINE w == ws[m + 1]
               a == u[m]
               b == u[m + 1]
    <3>3. b = Visit(rest, open, a, w)
      BY <1>3, <3>1
    <3>4. a.kept \in Seq(Execs) /\ w \in Execs /\ m + 1 \in 1..(m + 1)
      BY <1>1, <1>4, <3>1
    <3>5. CASE w = k
      <4>1. \A i \in 1..m : ws[i] # k
        <5>1. \A i \in 1..m : ws[i] < ws[m + 1]
          BY <3>1, <3>2 DEF Ascending
        <5>2. \A i \in 1..m : ws[i] \in Int
          BY <1>1, <3>2, TermsAre
        <5> QED BY <3>5, <5>1, <5>2
      <4>2. k \in a.free
        BY <2>1, <4>1
      <4>3. SameTerms(w, k)
        BY <3>5 DEF SameTerms
      <4>4. b.kept = a.kept
        <5> HIDE DEF w, a, b
        <5>1. {r \in a.free : SameTerms(w, r)} # {}
          BY <4>2, <4>3
        <5>2. MatchRow(Bare(rest), a, w).kept = a.kept
          BY <5>1 DEF MatchRow
        <5> QED BY <3>3, <5>2 DEF Visit
      <4> QED BY <2>1, <3>4, <3>5, <4>4
    <3>6. CASE w # k
      <4>1. b.kept = a.kept \/ b.kept = Append(a.kept, w)
        BY <3>3, VisitKeeps
      <4>2. ~Has(b.kept, k)
        <5> HIDE DEF w, a, b
        <5>1. ~Has(a.kept, k)
          BY <2>1 DEF a
        <5>2. ~Has(Append(a.kept, w), k)
          BY <3>4, <3>6, <5>1, AppendHas
        <5> QED BY <4>1, <5>1, <5>2
      <4>3. ~SameTerms(w, k)
        BY <3>4, <3>6
      <4>4. ASSUME \A i \in 1..(m + 1) : ws[i] # k PROVE k \in b.free
        <5>1. k \in a.free
          BY <2>1, <3>2, <4>4
        <5> HIDE DEF w, a, b
        <5> QED BY <3>3, <4>3, <5>1, VisitFrees
      <4> QED BY <4>2, <4>4
    <3> QED BY <3>5, <3>6
  <2>2. \A m \in 0..N : m < N => m + 1 \in 0..N
    BY <1>1
  <2> QED BY <2>1, <2>2
<1>7. N \in G
  <2>1. \A m \in 0..N : m \in G
    <3> HIDE DEF G, N
    <3> QED BY <1>1, <1>5, <1>6, Induction
  <2> HIDE DEF G, N
  <2> QED BY <1>1, <2>1
<1> QED BY <1>3, <1>7

\* A row that no activity without an order id may stand for is kept.
LEMMA RowKept ==
  ASSUME NEW rest \in SUBSET Execs, NEW ws \in Seq(Execs), NEW open,
         NEW k \in open, Has(ws, k),
         \A r \in Bare(rest) : ~SameTerms(k, r) /\ Apart(k, r) > Window
  PROVE  Has(Unmatched(rest, ws, open), k)
<1> DEFINE N == Len(ws)
<1>1. N \in Nat /\ \A i \in 1..N : ws[i] \in Execs
  BY ElementOfSeq, LenProperties
<1>2. PICK u : Walked(u, rest, ws, open)
  BY UnmatchedIs
<1>3. /\ u \in [0..N -> Walk] /\ u[0] = Begun(rest)
      /\ \A i \in 1..N : u[i] = Visit(rest, open, u[i - 1], ws[i])
      /\ Unmatched(rest, ws, open) = u[N].kept
  BY <1>2 DEF Walked
<1> DEFINE Met(m) == (\E i \in 1..m : ws[i] = k) => Has(u[m].kept, k)
           G == {m \in 0..N : u[m].free \subseteq Bare(rest) /\ Met(m)}
<1>4. \A m \in 0..N : u[m].kept \in Seq(Execs)
  BY <1>3 DEF Walk
<1>5. 0 \in G
  <2>1. u[0].free = Bare(rest)
    BY <1>3 DEF Begun
  <2> QED BY <1>1, <2>1
<1>6. \A m \in 0..N : m < N /\ m \in G => m + 1 \in G
  <2>1. ASSUME NEW m \in 0..N, m < N, u[m].free \subseteq Bare(rest), Met(m)
        PROVE  u[m + 1].free \subseteq Bare(rest) /\ Met(m + 1)
    <3>1. m + 1 \in 1..N /\ (m + 1) - 1 = m /\ m \in Nat
      BY <1>1, <2>1
    <3> DEFINE w == ws[m + 1]
               a == u[m]
               b == u[m + 1]
    <3>2. b = Visit(rest, open, a, w)
      BY <1>3, <3>1
    <3>3. a.kept \in Seq(Execs) /\ w \in Execs
      BY <1>1, <1>4, <3>1
    <3>4. a.free \subseteq Bare(rest)
      BY <2>1
    <3>5. b.free \subseteq Bare(rest)
      <4> HIDE DEF w, a, b
      <4> QED BY <3>2, <3>4, VisitFrees
    <3>6. ASSUME NEW i \in 1..(m + 1), ws[i] = k PROVE Has(b.kept, k)
      <4>1. CASE i \in 1..m
        <5>1. Has(a.kept, k)
          BY <2>1, <3>6, <4>1
        <5> HIDE DEF w, a, b
        <5>2. b.kept = a.kept \/ b.kept = Append(a.kept, w)
          BY <3>2, VisitKeeps
        <5>3. Has(Append(a.kept, w), k)
          BY <3>3, <5>1, AppendHas
        <5> QED BY <5>1, <5>2, <5>3
      <4>2. CASE i = m + 1
        <5>1. w = k
          BY <3>6, <4>2
        <5> HIDE DEF w, a, b
        <5>2. {r \in a.free : SameTerms(w, r)} = {}
          BY <3>4, <5>1
        <5>3. ~\E r \in Bare(rest) : Apart(w, r) <= Window
          <6>1. \A r \in Bare(rest) : Apart(k, r) \in Int
            <7>1. \A r \in Execs : Terms[r].at \in Int /\ Terms[r].stamp \in Int
              BY TermTimes
            <7>2. k \in Execs
              BY <3>3, <5>1
            <7> QED BY <7>1, <7>2 DEF Apart, Bare
          <6>2. Window \in Int
            BY SyncAssumption
          <6> QED BY <5>1, <6>1, <6>2
        <5>4. b.kept = Append(a.kept, w)
          BY <3>2, <5>1, <5>2, <5>3 DEF Visit, MatchRow
        <5> QED BY <3>3, <5>1, <5>4, AppendHas
      <4>3. i \in 1..m \/ i = m + 1
        BY <3>1
      <4> QED BY <4>1, <4>2, <4>3
    <3> QED BY <3>5, <3>6
  <2>2. \A m \in 0..N : m < N => m + 1 \in 0..N
    BY <1>1
  <2> QED BY <2>1, <2>2
<1>7. N \in G
  <2>1. \A m \in 0..N : m \in G
    <3> HIDE DEF G, N
    <3> QED BY <1>1, <1>5, <1>6, Induction
  <2> HIDE DEF G, N
  <2> QED BY <1>1, <2>1
<1>8. \E i \in 1..N : ws[i] = k
  BY DEF Has
<1> QED BY <1>3, <1>7, <1>8

\* Strictly ascending positions never outrun their values.
LEMMA AscendingFits ==
  ASSUME NEW s \in Seq(Execs), Ascending(s)
  PROVE  Len(s) <= Len(Terms)
<1> DEFINE N == Len(s)
           G == {m \in 0..N : m = 0 \/ s[m] >= m}
<1>1. N \in Nat /\ Len(Terms) \in Nat /\ \A i \in 1..N : s[i] \in 1..Len(Terms)
  BY ElementOfSeq, LenProperties, TermsAre
<1> HIDE DEF N
<1>2. 0 \in G
  BY <1>1
<1>3. \A m \in 0..N : m < N /\ m \in G => m + 1 \in G
  <2>1. ASSUME NEW m \in 0..N, m < N, m = 0 \/ s[m] >= m PROVE s[m + 1] >= m + 1
    <3>1. m + 1 \in 1..N /\ s[m + 1] \in 1..Len(Terms)
      BY <1>1, <2>1
    <3>2. CASE m = 0
      BY <1>1, <3>1, <3>2
    <3>3. CASE m # 0
      <4>1. m \in 1..N /\ s[m] \in 1..Len(Terms) /\ m < m + 1
        BY <1>1, <3>3
      <4>2. s[m] < s[m + 1]
        BY <3>1, <4>1 DEF Ascending, N
      <4> QED BY <1>1, <2>1, <3>1, <3>3, <4>1, <4>2
    <3> QED BY <3>2, <3>3
  <2>2. \A m \in 0..N : m < N => m + 1 \in 0..N
    BY <1>1
  <2> QED BY <2>1, <2>2
<1>4. N \in G
  <2>1. \A m \in 0..N : m \in G
    <3> HIDE DEF G
    <3> QED BY <1>1, <1>2, <1>3, Induction
  <2> HIDE DEF G
  <2> QED BY <1>1, <2>1
<1>5. CASE N = 0
  BY <1>1, <1>5 DEF N
<1>6. CASE N # 0
  <2>1. N \in 1..N
    BY <1>1, <1>6
  <2>2. s[N] >= N /\ s[N] \in 1..Len(Terms)
    BY <1>1, <1>4, <1>6, <2>1
  <2> QED BY <1>1, <2>2 DEF N
<1> QED BY <1>5, <1>6
-----------------------------------------------------------------------------
(* The merge and the pruning. *)

Prefers(rest, ws, k) == Preferred(rest, ws, Terms[k].order)
Covers(rest, ws, k) == Covered(rest, ws, Terms[k].order)
Open(rest, ws) == {k \in ToSet(ws) : ~Prefers(rest, ws, k) /\ ~Covers(rest, ws, k)}
FromRest(rest, ws, k) == k \in rest /\ ~(Terms[k].named /\ Prefers(rest, ws, k))
FromWs(rest, ws, k) ==
  \/ Has(Unmatched(rest, ws, Open(rest, ws)), k)
  \/ k \in ToSet(ws) /\ Prefers(rest, ws, k)

LEMMA MergedIs ==
  ASSUME NEW rest \in SUBSET Execs, NEW ws \in Seq(Execs), Ascending(ws)
  PROVE  /\ Merged(rest, ws) \in Rows
         /\ \A k \in Execs : Merged(rest, ws)[k] =
                (IF FromRest(rest, ws, k) THEN 1 ELSE 0)
              + (IF FromWs(rest, ws, k) THEN 1 ELSE 0)
<1> DEFINE left == Unmatched(rest, ws, Open(rest, ws))
           ours == ToSet(left) \cup {k \in ToSet(ws) : Prefers(rest, ws, k)}
           theirs == {k \in rest : ~(Terms[k].named /\ Prefers(rest, ws, k))}
<1>1. left \in Seq(Execs)
  BY UnmatchedRows
<1>2. \A k : k \in ToSet(left) <=> Has(left, k)
  BY <1>1, ToSetIs
<1>3. Merged(rest, ws) = [k \in Execs |-> (IF k \in theirs THEN 1 ELSE 0)
                                        + (IF k \in ours THEN 1 ELSE 0)]
  BY Zenon DEF Merged, Open, Prefers, Covers
<1>4. \A k \in Execs : /\ k \in theirs <=> FromRest(rest, ws, k)
                       /\ k \in ours <=> FromWs(rest, ws, k)
  BY <1>2 DEF FromRest, FromWs
<1> HIDE DEF left, ours, theirs
<1> QED BY <1>3, <1>4 DEF Rows

LEMMA PrunedIs ==
  ASSUME NEW rest \in SUBSET Execs, NEW ws \in Seq(Execs), Ascending(ws)
  PROVE  /\ Pruned(ws, rest) \in Seq(Execs) /\ Ascending(Pruned(ws, rest))
         /\ \A k : Has(Pruned(ws, rest), k) => Has(ws, k)
BY UnmatchedRows DEF Pruned

\* Executions without an order id differ from every other in size or price,
\* and an order has its id in all of its activities or in none.
TellApart ==
  \A j, k \in Execs : j # k =>
    /\ Terms[j].order = Terms[k].order => Terms[j].named = Terms[k].named
    /\ ~Terms[j].named => ~SameTerms(k, j)

LEMMA MergedOnce ==
  ASSUME TellApart, NEW rest \in SUBSET Execs, NEW ws \in Seq(Execs), Ascending(ws),
         NEW k \in Execs
  PROVE  Merged(rest, ws)[k] <= 1
<1> DEFINE o == Terms[k].order
           left == Unmatched(rest, ws, Open(rest, ws))
<1>1. SUFFICES ~(FromRest(rest, ws, k) /\ FromWs(rest, ws, k))
  BY MergedIs
<1>2. SUFFICES ASSUME FromRest(rest, ws, k), FromWs(rest, ws, k) PROVE FALSE
  OBVIOUS
<1>3. k \in rest /\ Terms[k].named \in BOOLEAN /\ Terms[k].qty \in Nat \ {0}
  BY <1>2, TermsAre, TermTimes DEF FromRest
<1>4. RestQty(rest, o) \in Nat
  BY QtyInNat DEF RestQty
<1>5. CASE Terms[k].named
  <2>1. ~Prefers(rest, ws, k)
    BY <1>2, <1>5 DEF FromRest
  <2>2. k \in {j \in rest : Terms[j].named /\ Terms[j].order = o}
    BY <1>3, <1>5
  <2>3. RestQty(rest, o) >= Terms[k].qty
    BY <2>2, QtyAtLeast DEF RestQty
  <2>4. RestQty(rest, o) > 0
    BY <1>3, <1>4, <2>3
  <2>5. Covers(rest, ws, k)
    BY <2>1, <2>4 DEF Prefers, Preferred, Covers
  <2>6. k \notin Open(rest, ws)
    BY <2>5 DEF Open
  <2>7. ~Has(left, k)
    BY <2>6, UnmatchedRows
  <2> QED BY <1>2, <2>1, <2>7 DEF FromWs
<1>6. CASE ~Terms[k].named
  <2>1. k \in Bare(rest)
    BY <1>3, <1>6 DEF Bare
  <2>2. \A j \in Execs : SameTerms(j, k) => j = k
    BY <1>6 DEF TellApart
  <2>3. ~Has(left, k)
    BY <2>1, <2>2, BareTaken
  <2>4. \A j \in Execs :
          j \notin {i \in rest : Terms[i].named /\ Terms[i].order = o}
    <3>1. ASSUME NEW j \in Execs, Terms[j].named, Terms[j].order = o PROVE FALSE
      <4>1. Terms[j].named = Terms[k].named
        BY <3>1 DEF TellApart
      <4> QED BY <1>6, <3>1, <4>1
    <3> QED BY <3>1
  <2>5. RestQty(rest, o) = 0
    BY <2>4, QtyOfOne DEF RestQty
  <2>6. ~Prefers(rest, ws, k)
    BY <2>5 DEF Prefers, Preferred
  <2> QED BY <1>2, <2>3, <2>6 DEF FromWs
<1> QED BY <1>3, <1>5, <1>6

\* The executions that no listed activity without order id may be taken for.
Clear == {k \in Whole : ~Shadowed(k)}

LEMMA WholeIs ==
  ASSUME NEW k \in Whole
  PROVE  k \in Execs /\ \A j \in Execs : j # k => Terms[j].order # Terms[k].order
BY DEF Whole

LEMMA ClearIs ==
  ASSUME NEW k \in Clear
  PROVE  /\ k \in Whole
         /\ \A r \in listed : r # k /\ ~Terms[r].named =>
              ~SameTerms(k, r) /\ ~(Apart(k, r) <= Window)
BY DEF Clear, Shadowed

LEMMA SureIs == \A k \in Sure : k \in Whole /\ (k \in cache \/ k \in Clear)
BY DEF Sure, Clear

LEMMA ClearSame == ASSUME UNCHANGED listed PROVE Clear' = Clear
BY DEF Clear, Shadowed

LEMMA OrderQuantities ==
  ASSUME NEW rest \in SUBSET Execs, NEW ws \in Seq(Execs), NEW k \in Whole
  PROVE  /\ RestQty(rest, Terms[k].order) =
              IF k \in rest /\ Terms[k].named THEN Terms[k].qty ELSE 0
         /\ WsQty(ws, Terms[k].order) = IF k \in ToSet(ws) THEN Terms[k].qty ELSE 0
<1> DEFINE o == Terms[k].order
           R == {j \in rest : Terms[j].named /\ Terms[j].order = o}
           W == {j \in ToSet(ws) : Terms[j].order = o}
<1>1. \A j \in Execs : j \in R => j = k
  BY WholeIs
<1>2. \A j \in Execs : j \in W => j = k
  BY WholeIs
<1>a. k \in Execs
  BY WholeIs
<1>3. Qty(R) = IF k \in R THEN Terms[k].qty ELSE 0
  <2> HIDE DEF R
  <2> QED BY <1>1, <1>a, QtyOfOne
<1>4. Qty(W) = IF k \in W THEN Terms[k].qty ELSE 0
  <2> HIDE DEF W
  <2> QED BY <1>2, <1>a, QtyOfOne
<1>5. RestQty(rest, o) = Qty(R) /\ WsQty(ws, o) = Qty(W)
  BY DEF RestQty, WsQty
<1> QED BY <1>3, <1>4, <1>5

\* A row whose execution the activities lack is neither covered nor matched.
LEMMA RowStays ==
  ASSUME NEW rest \in SUBSET Execs, rest \subseteq listed, NEW ws \in Seq(Execs),
         NEW k \in Clear, k \in ToSet(ws), k \notin rest, NEW open, k \in open
  PROVE  /\ ~Covers(rest, ws, k) /\ ~Prefers(rest, ws, k)
         /\ Has(Unmatched(rest, ws, open), k)
<1>0. k \in Whole /\ k \in Execs
  BY ClearIs, WholeIs
<1>1. Terms[k].qty \in Nat \ {0}
  BY <1>0, TermsAre
<1>2. RestQty(rest, Terms[k].order) = 0 /\ WsQty(ws, Terms[k].order) = Terms[k].qty
  BY <1>0, OrderQuantities
<1>3. ~Covers(rest, ws, k) /\ ~Prefers(rest, ws, k)
  BY <1>1, <1>2 DEF Covers, Prefers, Covered, Preferred
<1>4. Has(ws, k)
  BY ToSetIs
<1>5. ASSUME NEW r \in Bare(rest) PROVE ~SameTerms(k, r) /\ Apart(k, r) > Window
  <2>1. r \in Execs /\ r \in listed /\ r # k /\ ~Terms[r].named
    BY <1>5 DEF Bare
  <2>2. ~SameTerms(k, r) /\ ~(Apart(k, r) <= Window)
    BY <2>1, ClearIs
  <2>3. Apart(k, r) \in Int /\ Window \in Int
    <3>1. Terms[k].stamp \in Nat /\ Terms[r].at \in Nat
      BY <1>0, <2>1, TermTimes
    <3>2. Window \in Int
      BY SyncAssumption
    <3> QED BY <3>1, <3>2 DEF Apart
  <2> QED BY <2>2, <2>3
<1>6. Has(Unmatched(rest, ws, open), k)
  BY <1>0, <1>4, <1>5, RowKept
<1> QED BY <1>3, <1>6

LEMMA MergedAll ==
  ASSUME NEW rest \in SUBSET Execs, rest \subseteq listed, NEW ws \in Seq(Execs),
         Ascending(ws), NEW k \in Whole, k \in rest \/ k \in ToSet(ws) \cap Clear
  PROVE  Merged(rest, ws)[k] > 0
<1>0. k \in Execs
  BY WholeIs
<1>1. SUFFICES FromRest(rest, ws, k) \/ FromWs(rest, ws, k)
  BY <1>0, MergedIs
<1>2. CASE k \in rest
  <2>1. Terms[k].qty \in Nat \ {0} /\ Terms[k].named \in BOOLEAN
    BY <1>0, TermsAre, TermTimes
  <2>2. SUFFICES ASSUME Terms[k].named PROVE ~Prefers(rest, ws, k)
    BY <1>2 DEF FromRest
  <2>3. RestQty(rest, Terms[k].order) = Terms[k].qty
    BY <1>2, <2>2, OrderQuantities
  <2>4. WsQty(ws, Terms[k].order) \in {0, Terms[k].qty}
    BY OrderQuantities
  <2> QED BY <2>1, <2>3, <2>4 DEF Prefers, Preferred, Covered
<1>3. CASE k \notin rest /\ k \in ToSet(ws) /\ k \in Clear
  <2>1. ~Covers(rest, ws, k) /\ ~Prefers(rest, ws, k)
    <3>1. k \in {k}
      OBVIOUS
    <3> QED BY <1>3, <3>1, RowStays
  <2>2. k \in Open(rest, ws)
    BY <1>3, <2>1 DEF Open
  <2>3. Has(Unmatched(rest, ws, Open(rest, ws)), k)
    BY <1>3, <2>2, RowStays
  <2> QED BY <2>3 DEF FromWs
<1> QED BY <1>2, <1>3

\* What is pruned is among the activities.
LEMMA PrunedKeeps ==
  ASSUME NEW rest \in SUBSET Execs, rest \subseteq listed, NEW ws \in Seq(Execs),
         Ascending(ws), NEW k \in ToSet(ws), k \in Clear, k \notin rest
  PROVE  k \in ToSet(Pruned(ws, rest))
<1>1. k \in Execs
  BY ToSetExecs
<1>2. ~Covers(rest, ws, k)
  <2>1. k \in {k}
    OBVIOUS
  <2> QED BY <1>1, <2>1, RowStays
<1>3. k \in {j \in ToSet(ws) : ~Covered(rest, ws, Terms[j].order)}
  BY <1>2 DEF Covers
<1>4. Has(Pruned(ws, rest), k)
  <2> DEFINE kept == {j \in ToSet(ws) : ~Covered(rest, ws, Terms[j].order)}
  <2>1. k \in kept
    BY <1>3
  <2> HIDE DEF kept
  <2>2. Has(Unmatched(rest, ws, kept), k)
    BY <1>1, <2>1, RowStays
  <2> QED BY <2>2 DEF Pruned, kept
<1> QED BY <1>4, PrunedIs, ToSetIs
-----------------------------------------------------------------------------
(* Types: the provisional rows are in the order of the executions. *)

RowsInOrder ==
  Ascending(wsFills) /\ \A x \in 1..Len(wsFills) : wsFills[x] <= heard

SyncInv == TypeOK /\ RowsInOrder

SampleType == [by: Sources \cup {"none"}, rows: Rows, fresh: BOOLEAN]
RefreshType ==
  [at: {"idle", "fetching", "fetched", "merged", "orders"},
   full: BOOLEAN, week: 0..MaxWeeks, seen: SUBSET Execs,
   due: SUBSET Execs, late: BOOLEAN, first: BOOLEAN, rows: Rows]
RecomputeType ==
  [at: {"off", "top", "started", "read"}, rows: Rows, late: BOOLEAN,
   behind: BOOLEAN]

LEMMA Starts ==
  /\ NoSample \in SampleType /\ NoRefresh \in RefreshType
  /\ NoRecompute \in RecomputeType /\ NoSample.rows \in Rows
<1>1. NoSample.rows \in Rows
  BY DEF NoSample, Rows
<1>2. MaxWeeks \in Nat /\ 0 \in 0..MaxWeeks
  BY SyncAssumption
<1>3. NoSample \in SampleType
  BY DEF NoSample, Rows, SampleType, Sources
<1>4. NoRefresh \in RefreshType
  BY <1>1, <1>2 DEF NoRefresh, RefreshType
<1>5. NoRecompute \in RecomputeType
  BY <1>1 DEF NoRecompute, RecomputeType
<1> QED BY <1>1, <1>3, <1>4, <1>5

LEMMA InitSync == Init => SyncInv
<1> SUFFICES ASSUME Init PROVE SyncInv
  OBVIOUS
<1>1. MaxWeeks \in Nat /\ Len(Terms) \in Nat
  BY SyncAssumption, TermsAre
<1>2. wsFills \in Seq(Execs) /\ Len(wsFills) = 0
  BY DEF Init
<1>3. RowsInOrder
  BY <1>2 DEF RowsInOrder, Ascending
<1>4. /\ sample \in SampleType /\ refresh \in RefreshType
      /\ recompute \in RecomputeType
  BY Starts DEF Init
<1>5. TypeOK
  <2>1. /\ listed \subseteq Execs /\ heard \in 0..Len(Terms) /\ noted \subseteq Execs
        /\ cache \subseteq Execs /\ cacheWeek \in -1..MaxWeeks /\ week \in 0..MaxWeeks
        /\ Len(wsFills) <= Len(Terms)
    BY <1>1, <1>2 DEF Init
  <2>2. /\ callback = "idle" /\ lastFull = "never"
        /\ ~cut /\ ~need /\ ~unseen /\ ~stuck
        /\ cut = FALSE /\ need = FALSE /\ unseen = FALSE /\ stuck = FALSE
    BY DEF Init
  <2> QED BY <1>2, <1>4, <2>1, <2>2
          DEF TypeOK, SampleType, RefreshType, RecomputeType
<1> QED BY <1>3, <1>5 DEF SyncInv

LEMMA PublishTypes ==
  ASSUME NEW by \in Sources, NEW job, job.rows \in Rows, sample \in SampleType,
         Publish(by, job)
  PROVE  sample' \in SampleType
<1>1. [by |-> by, rows |-> job.rows, fresh |-> TRUE] \in SampleType
  BY DEF SampleType
<1> QED BY <1>1 DEF Publish

LEMMA AnswerExecs ==
  ASSUME TypeOK, NEW feed \in Feeds, NEW answer \in Answers(feed)
  PROVE  feed \in SUBSET Execs /\ answer \in SUBSET Execs
<1>1. feed \in SUBSET Execs
  BY DEF Feeds, TypeOK
<1> QED BY <1>1 DEF Answers

LEMMA FetchedExecs ==
  ASSUME TypeOK, FetchSucceeds
  PROVE  cache' \in SUBSET Execs
<1>1. PICK feed \in Feeds : \E rows \in Answers(feed) : cache' = Stored(rows)
  BY DEF FetchSucceeds
<1>2. PICK rows \in Answers(feed) : cache' = Stored(rows)
  BY <1>1
<1>3. rows \in SUBSET Execs
  BY AnswerExecs
<1> QED BY <1>2, <1>3 DEF Stored, TypeOK

LEMMA NextSync ==
  ASSUME SyncInv, [Next]_vars
  PROVE  SyncInv'
<1> USE DEF feedVars, cacheVars, recomputeVars
<1>a. /\ TypeOK /\ RowsInOrder
      /\ MaxWeeks \in Nat /\ 0 \in 0..MaxWeeks
      /\ Len(Terms) \in Nat /\ Execs = 1..Len(Terms)
  BY SyncAssumption, TermsAre DEF SyncInv
<1>b. /\ sample \in SampleType /\ refresh \in RefreshType
      /\ recompute \in RecomputeType
  BY <1>a DEF TypeOK, SampleType, RefreshType, RecomputeType
<1>c. cache \in SUBSET Execs /\ wsFills \in Seq(Execs) /\ Ascending(wsFills)
  BY <1>a DEF TypeOK, RowsInOrder
<1>1. CASE UNCHANGED vars
  BY <1>a, <1>1 DEF SyncInv, TypeOK, RowsInOrder, vars
<1>2. ASSUME NEW k \in Execs, List(k) PROVE SyncInv'
  BY <1>a, <1>2 DEF SyncInv, TypeOK, RowsInOrder, List
<1>3. CASE WeekPasses
  BY <1>a, <1>3 DEF SyncInv, TypeOK, RowsInOrder, WeekPasses
<1>4. CASE WalkAges
  BY <1>a, <1>4 DEF SyncInv, TypeOK, RowsInOrder, WalkAges
<1>5. CASE SampleAges
  <2>1. sample' \in SampleType
    BY <1>b, <1>5 DEF SampleAges, SampleType
  <2> QED BY <1>a, <1>5, <2>1 DEF SyncInv, TypeOK, RowsInOrder, SampleAges, SampleType
<1>6. CASE Note
  <2>1. heard \in Nat /\ heard + 1 \in Execs /\ heard + 1 \in 0..Len(Terms)
    BY <1>a, <1>6 DEF TypeOK, Note
  <2>2. \A x \in 1..Len(wsFills) : wsFills[x] \in Int
    BY <1>a, <1>c, ElementOfSeq
  <2>3. \A x \in 1..Len(wsFills) : wsFills[x] < heard + 1
    BY <1>a, <2>1, <2>2 DEF RowsInOrder
  <2>4. wsFills' = wsFills \/ wsFills' = Append(wsFills, heard + 1)
    BY <1>6 DEF Note
  <2>5. /\ wsFills' \in Seq(Execs) /\ Ascending(wsFills')
        /\ \A x \in 1..Len(wsFills') : wsFills'[x] <= heard + 1
    <3>1. CASE wsFills' = wsFills
      BY <1>c, <2>1, <2>2, <2>3, <3>1
    <3>2. CASE wsFills' = Append(wsFills, heard + 1)
      <4>1. /\ wsFills' \in Seq(Execs) /\ Len(wsFills') = Len(wsFills) + 1
            /\ wsFills'[Len(wsFills) + 1] = heard + 1
            /\ \A x \in 1..Len(wsFills) : wsFills'[x] = wsFills[x]
            /\ Len(wsFills) \in Nat
        BY <1>c, <2>1, <3>2, AppendIs
      <4>2. Ascending(wsFills')
        BY <1>c, <2>1, <2>3, <3>2, AppendAscends
      <4> QED BY <2>1, <2>2, <2>3, <4>1, <4>2
    <3> QED BY <2>4, <3>1, <3>2
  <2>6. Len(wsFills') <= Len(Terms)
    BY <2>5, AscendingFits
  <2>7. RowsInOrder'
    BY <1>6, <2>5 DEF RowsInOrder, Note, Ascending
  <2>8. TypeOK'
    <3>1. noted' \subseteq Execs /\ heard' \in 0..Len(Terms)
      BY <1>a, <1>6, <2>1 DEF TypeOK, Note
    <3>2. callback' \in {"idle", "schedule"} /\ unseen' \in BOOLEAN
      BY <1>a, <1>6 DEF TypeOK, Note
    <3>3. UNCHANGED <<listed, cacheVars, sample, refresh, recompute, need, stuck>>
      BY <1>6 DEF Note
    <3> QED BY <1>a, <2>5, <2>6, <3>1, <3>2, <3>3 DEF TypeOK
  <2> QED BY <2>7, <2>8 DEF SyncInv
<1>7. CASE Lose
  <2>1. heard \in Int /\ \A x \in 1..Len(wsFills) : wsFills[x] \in Int
    BY <1>a, <1>c, ElementOfSeq DEF TypeOK
  <2>2. RowsInOrder'
    BY <1>a, <1>7, <2>1 DEF RowsInOrder, Lose, Ascending
  <2>3. TypeOK'
    BY <1>a, <1>7 DEF TypeOK, Lose
  <2> QED BY <2>2, <2>3 DEF SyncInv
<1>8. CASE Schedule
  <2>1. recompute' \in RecomputeType
    BY <1>b, <1>8 DEF Schedule, RecomputeType
  <2> QED BY <1>a, <1>8, <2>1 DEF SyncInv, TypeOK, RowsInOrder, Schedule, RecomputeType
<1>9. CASE RecomputeBegin
  <2>1. recompute' \in RecomputeType
    BY <1>b, <1>9 DEF RecomputeBegin, RecomputeType
  <2>2. refresh' \in RefreshType
    BY <1>b, <1>9 DEF RecomputeBegin, RefreshType, InFlight
  <2> QED BY <1>a, <1>9, <2>1, <2>2
          DEF SyncInv, TypeOK, RowsInOrder, RecomputeBegin, RecomputeType, RefreshType
<1>10. CASE RecomputeRead
  <2>1. Merged(cache, wsFills) \in Rows /\ cut \in BOOLEAN
    BY <1>a, <1>c, MergedIs DEF TypeOK
  <2>2. recompute' \in RecomputeType
    BY <1>b, <1>10, <2>1 DEF RecomputeRead, RecomputeType
  <2>3. /\ unseen' \in BOOLEAN
        /\ UNCHANGED <<feedVars, callback, cacheVars, wsFills, sample, refresh, need,
                       stuck, noted>>
    BY <1>10 DEF RecomputeRead
  <2>4. RowsInOrder'
    BY <1>a, <2>3 DEF RowsInOrder, Ascending
  <2>5. TypeOK'
    BY <1>a, <2>2, <2>3 DEF TypeOK, RecomputeType
  <2> QED BY <2>4, <2>5 DEF SyncInv
<1>11. CASE RecomputePublish
  <2>1. sample' \in SampleType
    BY <1>b, <1>11, PublishTypes DEF RecomputePublish, RecomputeType, Sources
  <2>2. refresh' \in RefreshType
    BY <1>b, <1>11 DEF RecomputePublish, RefreshType, RecomputeType
  <2>3. recompute' \in RecomputeType
    BY Starts, <1>11 DEF RecomputePublish, RecomputeType
  <2> QED BY <1>a, <1>11, <2>1, <2>2, <2>3
          DEF SyncInv, TypeOK, RowsInOrder, RecomputePublish, RecomputeType,
              RefreshType, SampleType
<1>12. CASE RecomputeGivesUp
  <2>1. refresh' \in RefreshType
    BY <1>b, <1>12 DEF RecomputeGivesUp, RefreshType
  <2>2. recompute' \in RecomputeType
    BY Starts, <1>12 DEF RecomputeGivesUp, RecomputeType
  <2> QED BY <1>a, <1>12, <2>1, <2>2
          DEF SyncInv, TypeOK, RowsInOrder, RecomputeGivesUp, RecomputeType, RefreshType
<1>13. CASE RecomputeExit
  <2>1. recompute' \in RecomputeType
    BY Starts, <1>13 DEF RecomputeExit
  <2> QED BY <1>a, <1>13, <2>1 DEF SyncInv, TypeOK, RowsInOrder, RecomputeExit, RecomputeType
<1>14. CASE RefreshBegin
  <2>1. ForceFull \in BOOLEAN /\ week \in 0..MaxWeeks /\ listed \in SUBSET Execs
    BY <1>a DEF TypeOK, ForceFull
  <2>2. refresh' \in RefreshType
    BY Starts, <1>14, <2>1 DEF RefreshBegin, RefreshType
  <2> QED BY <1>a, <1>14, <2>2 DEF SyncInv, TypeOK, RowsInOrder, RefreshBegin, RefreshType
<1>15. CASE FetchSucceeds
  <2>1. recompute' \in RecomputeType
    BY <1>b, <1>15 DEF FetchSucceeds, CacheChanges, RecomputeType
  <2>2. refresh' \in RefreshType
    BY <1>a, <1>b, <1>15 DEF FetchSucceeds, RefreshType
  <2>3. cache' \in SUBSET Execs
    BY <1>a, <1>15, FetchedExecs DEF FetchSucceeds
  <2>4. cacheWeek' \in -1..MaxWeeks
    BY <1>a, <1>b, <1>15 DEF FetchSucceeds, RefreshType
  <2> QED BY <1>a, <1>15, <2>1, <2>2, <2>3, <2>4
          DEF SyncInv, TypeOK, RowsInOrder, FetchSucceeds, RecomputeType, RefreshType
<1>16. CASE FetchFails
  <2>1. recompute' \in RecomputeType
    BY <1>b, <1>16 DEF FetchFails, CacheChanges, RecomputeType
  <2>2. refresh' \in RefreshType
    <3>1. [refresh EXCEPT !.at = "orders", !.seen = {}, !.week = 0, !.full = FALSE]
            \in RefreshType
      BY <1>a, <1>b DEF RefreshType
    <3>2. \/ refresh' = [refresh EXCEPT !.at = "orders", !.seen = {}, !.week = 0,
                                       !.full = FALSE]
          \/ refresh' = NoRefresh
      BY <1>16 DEF FetchFails
    <3> QED BY <3>1, <3>2, Starts
  <2>3. PICK feed \in Feeds : \E answer \in Answers(feed), j \in 0..Len(Terms) :
          LET rows == {k \in answer : k <= j} IN
          /\ cache' = IF rows = {} THEN cache ELSE Stored(rows)
          /\ cacheWeek' = IF rows = {} THEN cacheWeek ELSE refresh.week
          /\ cut' = (cut \/ (refresh.full /\ rows # {}))
    BY <1>16 DEF FetchFails
  <2>4. PICK answer \in Answers(feed), j \in 0..Len(Terms) :
          LET rows == {k \in answer : k <= j} IN
          /\ cache' = IF rows = {} THEN cache ELSE Stored(rows)
          /\ cacheWeek' = IF rows = {} THEN cacheWeek ELSE refresh.week
          /\ cut' = (cut \/ (refresh.full /\ rows # {}))
    BY <2>3
  <2>7. answer \in SUBSET Execs
    BY <1>a, AnswerExecs
  <2>5. cache' \in SUBSET Execs
    BY <1>c, <2>4, <2>7 DEF Stored
  <2>6. cacheWeek' \in -1..MaxWeeks /\ cut' \in BOOLEAN
    BY <1>a, <1>b, <2>4 DEF TypeOK, RefreshType
  <2> QED BY <1>a, <1>16, <2>1, <2>2, <2>5, <2>6
          DEF SyncInv, TypeOK, RowsInOrder, FetchFails, RecomputeType, RefreshType
<1>17. CASE RefreshMerge
  <2>1. Merged(cache, wsFills) \in Rows /\ noted \cup cache \in SUBSET Execs
    BY <1>a, <1>c, MergedIs DEF TypeOK
  <2>2. refresh' \in RefreshType
    BY <1>b, <1>17, <2>1 DEF RefreshMerge, RefreshType
  <2> QED BY <1>a, <1>17, <2>2 DEF SyncInv, TypeOK, RowsInOrder, RefreshMerge, RefreshType
<1>18. CASE RefreshPublish
  <2>1. sample' \in SampleType
    BY <1>b, <1>18, PublishTypes DEF RefreshPublish, RefreshType, Sources
  <2>2. recompute' \in RecomputeType
    BY <1>b, <1>18 DEF RefreshPublish, Outdates, RecomputeType, InFlight
  <2>3. refresh' \in RefreshType
    BY Starts, <1>18 DEF RefreshPublish
  <2>4. /\ wsFills' \in Seq(Execs) /\ Ascending(wsFills')
        /\ \A k : Has(wsFills', k) => Has(wsFills, k)
    BY <1>c, <1>18, PrunedIs DEF RefreshPublish
  <2>5. Len(wsFills') <= Len(Terms)
    BY <2>4, AscendingFits
  <2>6. RowsInOrder'
    <3>1. \A x \in 1..Len(wsFills') : wsFills'[x] <= heard
      BY <1>a, <2>4 DEF Has, RowsInOrder
    <3> QED BY <1>18, <2>4, <3>1 DEF RowsInOrder, RefreshPublish, Ascending
  <2>7. TypeOK'
    BY <1>a, <1>18, <2>1, <2>2, <2>3, <2>4, <2>5
    DEF TypeOK, RefreshPublish, RecomputeType, RefreshType, SampleType
  <2> QED BY <2>6, <2>7 DEF SyncInv
<1>19. CASE RefreshGivesUp
  <2>1. refresh' \in RefreshType
    BY Starts, <1>19 DEF RefreshGivesUp
  <2> QED BY <1>a, <1>19, <2>1 DEF SyncInv, TypeOK, RowsInOrder, RefreshGivesUp, RefreshType
<1>20. CASE OrdersPublish
  <2>1. sample' \in SampleType
    <3>1. PICK found \in SUBSET Execs :
            Publish("orders", [refresh EXCEPT !.rows =
                                 [k \in Execs |-> IF k \in found THEN 1 ELSE 0]])
      BY <1>20 DEF OrdersPublish
    <3> DEFINE rows == [k \in Execs |-> IF k \in found THEN 1 ELSE 0]
               job == [refresh EXCEPT !.rows = rows]
    <3>2. rows \in Rows
      BY DEF Rows
    <3> HIDE DEF rows
    <3>3. job.rows = rows
      BY <1>b DEF RefreshType
    <3>4. Publish("orders", job)
      BY <3>1 DEF rows
    <3> HIDE DEF job
    <3> QED BY <1>b, <3>2, <3>3, <3>4, PublishTypes DEF Sources
  <2>2. recompute' \in RecomputeType
    BY <1>b, <1>20 DEF OrdersPublish, Outdates, RecomputeType, InFlight
  <2>3. refresh' \in RefreshType
    BY Starts, <1>20 DEF OrdersPublish
  <2> QED BY <1>a, <1>20, <2>1, <2>2, <2>3
          DEF SyncInv, TypeOK, RowsInOrder, OrdersPublish, RecomputeType,
              RefreshType, SampleType
<1> QED BY <1>1, <1>2, <1>3, <1>4, <1>5, <1>6, <1>7, <1>8, <1>9, <1>10, <1>11,
           <1>12, <1>13, <1>14, <1>15, <1>16, <1>17, <1>18, <1>19, <1>20
        DEF Next, RefreshStep

LEMMA SpecSync == Spec => []SyncInv
<1>1. Init => SyncInv
  BY InitSync
<1>2. SyncInv /\ [Next]_vars => SyncInv'
  BY NextSync
<1> QED BY <1>1, <1>2, PTL DEF Spec

\* Type correctness.  In particular the provisional rows of ApplyUpdate stay
\* ordered and never outnumber the executions, however often they are pruned.
THEOREM TypeCorrect == Spec => []TypeOK
<1>1. SyncInv => TypeOK
  BY DEF SyncInv
<1> QED BY <1>1, SpecSync, PTL
-----------------------------------------------------------------------------
(* The recompute worker. *)

LEMMA NextKeepsUp ==
  ASSUME SyncInv, RecomputeKeepsUp, [Next]_vars
  PROVE  RecomputeKeepsUp'
<1> USE DEF feedVars, cacheVars, recomputeVars, RecomputeKeepsUp
<1>a. recompute \in RecomputeType
  BY DEF SyncInv, TypeOK, RecomputeType
<1>1. CASE UNCHANGED vars
  BY <1>1 DEF vars
<1>2. ASSUME NEW k \in Execs, List(k) PROVE RecomputeKeepsUp'
  BY <1>2 DEF List
<1>3. CASE WeekPasses \/ WalkAges \/ SampleAges \/ Lose
  BY <1>3 DEF WeekPasses, WalkAges, SampleAges, Lose
<1>4. CASE Note
  BY <1>4 DEF Note
<1>5. CASE Schedule
  <2>1. need' = TRUE /\ recompute'.at # "off"
    BY <1>a, <1>5 DEF Schedule, RecomputeType
  <2> QED BY <2>1
<1>6. CASE RecomputeBegin
  <2>1. recompute'.at = "started" /\ need' = FALSE
    BY <1>a, <1>6 DEF RecomputeBegin, RecomputeType
  <2> QED BY <2>1
<1>7. CASE RecomputeRead
  <2>1. unseen' = FALSE /\ recompute'.at = "read"
    BY <1>a, <1>7 DEF RecomputeRead, RecomputeType
  <2> QED BY <2>1
<1>8. CASE RecomputePublish \/ RecomputeGivesUp
  <2>1. /\ recompute'.at = "top" /\ recompute.at = "read"
        /\ UNCHANGED <<callback, need, unseen>>
    BY <1>8 DEF RecomputePublish, RecomputeGivesUp, NoRecompute
  <2> QED BY <2>1
<1>9. CASE RecomputeExit
  BY <1>9 DEF RecomputeExit
<1>10. CASE RefreshBegin \/ RefreshMerge \/ RefreshGivesUp
  BY <1>10 DEF RefreshBegin, RefreshMerge, RefreshGivesUp
<1>11. CASE FetchSucceeds \/ FetchFails \/ RefreshPublish \/ OrdersPublish
  <2>1. recompute'.at = recompute.at /\ UNCHANGED <<callback, need, unseen>>
    BY <1>a, <1>11 DEF FetchSucceeds, FetchFails, RefreshPublish, OrdersPublish,
                       CacheChanges, Outdates, RecomputeType
  <2> QED BY <2>1
<1> QED BY <1>1, <1>2, <1>3, <1>4, <1>5, <1>6, <1>7, <1>8, <1>9, <1>10, <1>11
        DEF Next, RefreshStep

\* A stored fill always has a callback, a need or a worker that will read it.
THEOREM KeepsUp == Spec => []RecomputeKeepsUp
<1>1. Init => RecomputeKeepsUp
  BY DEF Init, RecomputeKeepsUp
<1>2. SyncInv /\ RecomputeKeepsUp /\ [Next]_vars => RecomputeKeepsUp'
  BY NextKeepsUp
<1> QED BY <1>1, <1>2, SpecSync, PTL DEF Spec
-----------------------------------------------------------------------------
(* No execution is counted twice. *)

Single(rows) == \A k \in Execs : rows[k] <= 1

LEMMA CountedIs ==
  CountedOnce <=> Single(sample.rows) /\ Single(refresh.rows) /\ Single(recompute.rows)
BY Zenon DEF CountedOnce, Single

LEMMA NoRowsSingle == Single(NoSample.rows)
BY DEF NoSample, Single

LEMMA NextOnce ==
  ASSUME TellApart, SyncInv, CountedOnce, [Next]_vars
  PROVE  CountedOnce'
<1> USE DEF feedVars, cacheVars, recomputeVars
<1>a. /\ Single(sample.rows) /\ Single(refresh.rows) /\ Single(recompute.rows)
  BY CountedIs
<1>b. /\ cache \in SUBSET Execs /\ wsFills \in Seq(Execs) /\ Ascending(wsFills)
      /\ sample \in SampleType /\ refresh \in RefreshType
      /\ recompute \in RecomputeType
  BY DEF SyncInv, TypeOK, RowsInOrder, SampleType, RefreshType, RecomputeType
<1>c. Single(Merged(cache, wsFills))
  BY <1>b, MergedOnce DEF Single
<1>d. /\ NoSample.rows = NoRefresh.rows /\ NoSample.rows = NoRecompute.rows
      /\ Single(NoRefresh.rows) /\ Single(NoRecompute.rows)
  BY NoRowsSingle DEF NoRefresh, NoRecompute
<1>1. Single(sample'.rows)
  <2>1. CASE UNCHANGED sample
    BY <1>a, <2>1
  <2>2. CASE SampleAges
    <3>1. sample'.rows = sample.rows
      BY <1>b, <2>2 DEF SampleAges, SampleType
    <3> QED BY <1>a, <3>1
  <2>3. CASE RecomputePublish
    <3>1. sample'.rows = sample.rows \/ sample'.rows = recompute.rows
      BY <2>3 DEF RecomputePublish, Publish
    <3> QED BY <1>a, <3>1
  <2>4. CASE RefreshPublish
    <3>1. sample'.rows = sample.rows \/ sample'.rows = refresh.rows
      BY <2>4 DEF RefreshPublish, Publish
    <3> QED BY <1>a, <3>1
  <2>5. CASE OrdersPublish
    <3>1. PICK found \in SUBSET Execs :
            Publish("orders", [refresh EXCEPT !.rows =
                                 [k \in Execs |-> IF k \in found THEN 1 ELSE 0]])
      BY <2>5 DEF OrdersPublish
    <3> DEFINE rows == [k \in Execs |-> IF k \in found THEN 1 ELSE 0]
    <3>2. Single(rows)
      BY DEF Single
    <3>3. sample'.rows = sample.rows \/ sample'.rows = rows
      <4> HIDE DEF rows
      <4>1. [refresh EXCEPT !.rows = rows].rows = rows
        BY <1>b DEF RefreshType
      <4>2. Publish("orders", [refresh EXCEPT !.rows = rows])
        BY <3>1 DEF rows
      <4> QED BY <4>1, <4>2 DEF Publish
    <3> HIDE DEF rows
    <3> QED BY <1>a, <3>2, <3>3
  <2>6. \/ UNCHANGED sample \/ SampleAges \/ RecomputePublish \/ RefreshPublish
        \/ OrdersPublish
    BY DEF Next, RefreshStep, vars, List, WeekPasses, WalkAges, Note, Lose, Schedule,
           RecomputeBegin, RecomputeRead, RecomputeGivesUp, RecomputeExit,
           RefreshBegin, FetchSucceeds, FetchFails, RefreshMerge, RefreshGivesUp
  <2> QED BY <2>1, <2>2, <2>3, <2>4, <2>5, <2>6
<1>2. Single(refresh'.rows)
  <2>1. \/ refresh'.rows = refresh.rows \/ refresh'.rows = NoRefresh.rows
        \/ refresh'.rows = Merged(cache, wsFills)
    <3>1. CASE UNCHANGED refresh
      BY <3>1
    <3>2. CASE RecomputeBegin \/ RecomputePublish \/ RecomputeGivesUp \/ FetchSucceeds
      BY <1>b, <3>2 DEF RecomputeBegin, RecomputePublish, RecomputeGivesUp,
                        FetchSucceeds, RefreshType
    <3>3. CASE FetchFails
      <4>1. [refresh EXCEPT !.at = "orders", !.seen = {}, !.week = 0,
                            !.full = FALSE].rows = refresh.rows
        BY <1>b DEF RefreshType
      <4> QED BY <3>3, <4>1 DEF FetchFails
    <3>4. CASE RefreshBegin
      <4>1. refresh'.rows = NoRefresh.rows
        BY <3>4, Starts DEF RefreshBegin, RefreshType
      <4> QED BY <4>1
    <3>5. CASE RefreshMerge
      BY <1>b, <3>5 DEF RefreshMerge, RefreshType
    <3>6. CASE RefreshPublish \/ RefreshGivesUp \/ OrdersPublish
      BY <3>6 DEF RefreshPublish, RefreshGivesUp, OrdersPublish
    <3>7. \/ UNCHANGED refresh \/ RecomputeBegin \/ RecomputePublish
          \/ RecomputeGivesUp \/ FetchSucceeds \/ FetchFails \/ RefreshBegin
          \/ RefreshMerge \/ RefreshPublish \/ RefreshGivesUp \/ OrdersPublish
      BY DEF Next, RefreshStep, vars, List, WeekPasses, WalkAges, SampleAges, Note,
             Lose, Schedule, RecomputeRead, RecomputeExit
    <3> QED BY <3>1, <3>2, <3>3, <3>4, <3>5, <3>6, <3>7
  <2> QED BY <1>a, <1>c, <1>d, <2>1
<1>3. Single(recompute'.rows)
  <2>1. \/ recompute'.rows = recompute.rows \/ recompute'.rows = NoRecompute.rows
        \/ recompute'.rows = Merged(cache, wsFills)
    <3>1. CASE UNCHANGED recompute
      BY <3>1
    <3>2. CASE Schedule \/ RecomputeBegin \/ FetchSucceeds \/ FetchFails
      BY <1>b, <3>2 DEF Schedule, RecomputeBegin, FetchSucceeds, FetchFails,
                        CacheChanges, RecomputeType
    <3>3. CASE RefreshPublish \/ OrdersPublish
      BY <1>b, <3>3 DEF RefreshPublish, OrdersPublish, Outdates, RecomputeType
    <3>4. CASE RecomputeRead
      BY <1>b, <3>4 DEF RecomputeRead, RecomputeType
    <3>5. CASE RecomputePublish \/ RecomputeGivesUp \/ RecomputeExit
      <4>1. [NoRecompute EXCEPT !.at = "top"].rows = NoRecompute.rows
        BY Starts DEF RecomputeType
      <4> QED BY <3>5, <4>1 DEF RecomputePublish, RecomputeGivesUp, RecomputeExit
    <3>6. \/ UNCHANGED recompute \/ Schedule \/ RecomputeBegin \/ FetchSucceeds
          \/ FetchFails \/ RefreshPublish \/ OrdersPublish \/ RecomputeRead
          \/ RecomputePublish \/ RecomputeGivesUp \/ RecomputeExit
      BY DEF Next, RefreshStep, vars, List, WeekPasses, WalkAges, SampleAges, Note,
             Lose, RefreshBegin, RefreshMerge, RefreshGivesUp
    <3> QED BY <3>1, <3>2, <3>3, <3>4, <3>5, <3>6
  <2> QED BY <1>a, <1>c, <1>d, <2>1
<1>4. Single(sample.rows)' /\ Single(refresh.rows)' /\ Single(recompute.rows)'
  BY <1>1, <1>2, <1>3 DEF Single
<1> QED BY <1>4, Zenon DEF CountedOnce, Single

\* The figures count no execution twice, for every history whose executions
\* without an order id can be told from the others by size and price.
THEOREM CountsOnce == TellApart => (Spec => []CountedOnce)
<1> SUFFICES ASSUME TellApart PROVE Spec => []CountedOnce
  OBVIOUS
<1>1. Init => CountedOnce
  <2> SUFFICES ASSUME Init PROVE CountedOnce
    OBVIOUS
  <2>1. /\ sample.rows = NoSample.rows /\ refresh.rows = NoSample.rows
        /\ recompute.rows = NoSample.rows
    BY DEF Init, NoRefresh, NoRecompute
  <2> QED BY <2>1, NoRowsSingle, CountedIs
<1>2. SyncInv /\ CountedOnce /\ [Next]_vars => CountedOnce'
  BY NextOnce
<1> QED BY <1>1, <1>2, SpecSync, PTL DEF Spec
-----------------------------------------------------------------------------
(* What was told, or counted once, is not lost to the next refresh. *)

\* The executions of Q that nothing may be taken for and whose row is no longer
\* held are in the feed, and the cache has them or the next walk finds them.
Kept(Q) ==
  LET lost == (Q \cap Clear) \ ToSet(wsFills) IN
  /\ \A k \in lost : k \in listed /\ cache # {} /\ (k \in cache \/ \A c \in cache : c < k)
  /\ refresh.at = "fetching" => lost \subseteq refresh.seen
  /\ refresh.at \in {"fetched", "merged"} \/ ~cut => lost \subseteq cache

FeedBase ==
  /\ cache \subseteq listed /\ refresh.seen \subseteq listed
  /\ refresh.at = "fetching" => cache \subseteq refresh.seen

LEMMA MaxIs ==
  ASSUME NEW S \in SUBSET Execs, S # {}
  PROVE  Max(S) \in S /\ \A k \in S : k <= Max(S)
<1> DEFINE N == Len(Terms)
           B == {n \in 0..N : N - n \in S}
<1>1. N \in Nat /\ S \subseteq 1..N
  BY TermsAre
<1>2. B \in SUBSET Nat /\ B # {}
  <2>1. PICK k \in S : TRUE
    OBVIOUS
  <2>2. k \in 1..N /\ N - k \in 0..N /\ N - (N - k) = k
    BY <1>1
  <2>3. N - k \in B
    BY <2>2
  <2>4. B \subseteq 0..N /\ 0..N \subseteq Nat
    BY <1>1
  <2> HIDE DEF B
  <2> QED BY <2>3, <2>4
<1>3. PICK m \in B : \A n \in B : <<n, m>> \notin OpToRel(<, Nat)
  <2> HIDE DEF B
  <2> QED BY <1>2, WFMin, NatLessThanWellFounded, Zenon
<1>4. \A n \in B : ~(n < m)
  <2> HIDE DEF B
  <2> QED BY <1>2, <1>3 DEF OpToRel
<1>5. N - m \in S
  BY <1>3
<1>6. \A k \in S : k <= N - m
  <2>1. ASSUME NEW k \in S PROVE k <= N - m
    <3>1. k \in 1..N /\ N - k \in 0..N /\ N - (N - k) = k /\ m \in 0..N
      BY <1>1
    <3>2. N - k \in B
      BY <3>1
    <3>3. ~(N - k < m)
      <4> HIDE DEF B
      <4> QED BY <1>4, <3>2
    <3> QED BY <1>1, <3>1, <3>3
  <2> QED BY <2>1
<1>7. \E x \in S : \A k \in S : x >= k
  <2>1. \A k \in S : N - m >= k
    BY <1>1, <1>6
  <2> QED BY <1>5, <2>1
<1>8. Max(S) \in S /\ \A k \in S : Max(S) >= k
  BY <1>7, Zenon DEF Max
<1> QED BY <1>1, <1>8

\* What is lost is in the cache or in what a walk answers.
LEMMA WalkFinds ==
  ASSUME TypeOK, refresh.at = "fetching", NEW Q \in SUBSET Execs, Kept(Q),
         NEW feed \in Feeds, NEW answer \in Answers(feed),
         NEW k \in Q \cap Clear, k \notin ToSet(wsFills)
  PROVE  k \in answer \/ (k \in cache /\ ~refresh.full)
<1>1. /\ k \in refresh.seen /\ refresh.seen \subseteq feed
      /\ cache # {} /\ (k \in cache \/ \A c \in cache : c < k)
  BY DEF Kept, Feeds
<1>2. k \in feed /\ k \in Execs /\ cache \subseteq Execs
  BY <1>1 DEF TypeOK
<1>3. CASE refresh.full
  BY <1>2, <1>3 DEF Answers
<1>4. CASE ~refresh.full
  <2>1. answer = {x \in feed : Terms[x].at > Terms[Max(cache)].at - Overlap}
    BY <1>1, <1>4 DEF Answers
  <2>2. CASE \A c \in cache : c < k
    <3>1. Max(cache) \in cache
      BY <1>1, <1>2, MaxIs
    <3>2. Max(cache) \in Execs /\ Max(cache) < k
      BY <1>2, <2>2, <3>1
    <3>3. Terms[Max(cache)].at <= Terms[k].at
      BY <1>2, <3>2, SyncAssumption DEF Execs
    <3>4. /\ Terms[Max(cache)].at \in Nat /\ Terms[k].at \in Nat
          /\ Overlap \in Nat \ {0}
      BY <1>2, <3>2, TermTimes, SyncAssumption
    <3>5. Terms[k].at > Terms[Max(cache)].at - Overlap
      BY <3>3, <3>4
    <3> QED BY <1>2, <2>1, <3>5
  <2> QED BY <1>1, <1>4, <2>2
<1> QED BY <1>3, <1>4

\* What the cache and the rows show now.
LEMMA KeptNow ==
  ASSUME FeedBase, NEW Q, Q \subseteq cache \cup ToSet(wsFills)
  PROVE  Kept(Q)
BY DEF Kept, FeedBase

LEMMA KeptSame ==
  ASSUME NEW Q, Kept(Q), UNCHANGED <<listed, cache, cut, wsFills>>,
         \/ refresh'.at = refresh.at \/ refresh'.at = "idle"
         \/ (refresh.at = "fetched" /\ refresh'.at = "merged"),
         refresh'.seen = refresh.seen \/ refresh'.at # "fetching"
  PROVE  Kept(Q)'
<1>1. /\ refresh'.at = "fetching" => refresh.at = "fetching" /\ refresh'.seen = refresh.seen
      /\ refresh'.at \in {"fetched", "merged"} => refresh.at \in {"fetched", "merged"}
  OBVIOUS
<1>2. \A k \in (Q \cap Clear) \ ToSet(wsFills) :
        k \in listed /\ cache # {} /\ (k \in cache \/ \A c \in cache : c < k)
  BY DEF Kept
<1>3. Clear' = Clear
  BY ClearSame
<1> QED BY <1>1, <1>2, <1>3 DEF Kept

\* Note appends the next execution unless a row has its id, as none has if it
\* filled its order at once.
LEMMA NoteAppends ==
  ASSUME SyncInv, Note
  PROVE  /\ heard + 1 \in Execs /\ noted' = noted \cup {heard + 1}
         /\ ToSet(wsFills) \subseteq ToSet(wsFills')
         /\ heard + 1 \in Whole => heard + 1 \in ToSet(wsFills')
         /\ callback' = "schedule" \/ UNCHANGED <<callback, wsFills>>
<1>1. heard + 1 \in Execs /\ heard \in Nat /\ wsFills \in Seq(Execs)
  BY TermsAre DEF Note, SyncInv, TypeOK
<1>2. \A k \in ToSet(wsFills) : k # heard + 1
  <2>1. \A k \in ToSet(wsFills) : k <= heard /\ k \in Execs
    BY <1>1, ToSetIs, ToSetExecs DEF SyncInv, RowsInOrder, Has
  <2>2. \A k \in Execs : k \in Nat
    BY TermsAre
  <2> QED BY <1>1, <2>1, <2>2
<1>3. noted' = noted \cup {heard + 1}
  BY DEF Note
<1>4. CASE \E k \in ToSet(wsFills) : RowId(k) = RowId(heard + 1)
  <2>1. PICK k \in ToSet(wsFills) : RowId(k) = RowId(heard + 1)
    BY <1>4
  <2>2. Terms[k].order = Terms[heard + 1].order /\ k # heard + 1 /\ k \in Execs
    BY <1>1, <1>2, <2>1, ToSetExecs DEF RowId
  <2>3. heard + 1 \notin Whole
    BY <2>2 DEF Whole
  <2>4. UNCHANGED <<callback, wsFills>>
    BY <1>4 DEF Note
  <2> QED BY <1>1, <1>3, <2>3, <2>4
<1>5. CASE ~\E k \in ToSet(wsFills) : RowId(k) = RowId(heard + 1)
  <2>0. wsFills' = Append(wsFills, heard + 1) /\ callback' = "schedule"
    BY <1>5 DEF Note
  <2>1. \A k : Has(wsFills', k) <=> Has(wsFills, k) \/ k = heard + 1
    BY <1>1, <2>0, AppendHas
  <2>2. wsFills' \in Seq(Execs)
    BY <1>1, <2>0, AppendIs
  <2>3. \A k : k \in ToSet(wsFills') <=> Has(wsFills', k)
    BY <2>2, ToSetIs
  <2>4. \A k : k \in ToSet(wsFills) <=> Has(wsFills, k)
    BY <1>1, ToSetIs
  <2> QED BY <1>1, <1>3, <2>0, <2>1, <2>3, <2>4
<1> QED BY <1>4, <1>5

\* The steps that touch neither the cache nor the rows nor the feed.
Aside ==
  \/ WeekPasses \/ WalkAges \/ SampleAges \/ Lose \/ Schedule
  \/ RecomputeBegin \/ RecomputeRead \/ RecomputePublish \/ RecomputeGivesUp
  \/ RecomputeExit \/ RefreshMerge \/ RefreshGivesUp \/ OrdersPublish

LEMMA AsideIs ==
  ASSUME SyncInv, Aside
  PROVE  /\ UNCHANGED <<listed, cache, cut, wsFills, noted>>
         /\ \/ refresh'.at = refresh.at
            \/ refresh'.at = "idle"
            \/ refresh.at = "fetched" /\ refresh'.at = "merged"
         /\ \/ refresh'.seen = refresh.seen
            \/ refresh'.seen = {} /\ refresh'.at = "idle"
<1> USE DEF feedVars, cacheVars, recomputeVars
<1>1. refresh \in RefreshType
  BY DEF SyncInv, TypeOK, RefreshType
<1>2. CASE \/ WeekPasses \/ WalkAges \/ SampleAges \/ Lose \/ Schedule
           \/ RecomputeRead \/ RecomputeExit
  BY <1>2 DEF WeekPasses, WalkAges, SampleAges, Lose, Schedule, RecomputeRead,
              RecomputeExit
<1>3. CASE RecomputeBegin \/ RecomputePublish \/ RecomputeGivesUp
  <2>1. refresh'.at = refresh.at /\ refresh'.seen = refresh.seen
    BY <1>1, <1>3 DEF RecomputeBegin, RecomputePublish, RecomputeGivesUp, RefreshType
  <2> QED BY <1>3, <2>1 DEF RecomputeBegin, RecomputePublish, RecomputeGivesUp
<1>4. CASE RefreshMerge
  <2>1. refresh'.at = "merged" /\ refresh'.seen = refresh.seen
    BY <1>1, <1>4 DEF RefreshMerge, RefreshType
  <2> QED BY <1>4, <2>1 DEF RefreshMerge
<1>5. CASE RefreshGivesUp \/ OrdersPublish
  <2>1. refresh'.at = "idle" /\ refresh'.seen = {}
    BY <1>5 DEF RefreshGivesUp, OrdersPublish, NoRefresh
  <2> QED BY <1>5, <2>1 DEF RefreshGivesUp, OrdersPublish
<1> QED BY <1>2, <1>3, <1>4, <1>5 DEF Aside

\* The steps that end a fetch.
LEMMA FetchIs ==
  ASSUME SyncInv, FetchSucceeds \/ FetchFails
  PROVE  /\ refresh.at = "fetching" /\ UNCHANGED <<listed, wsFills, noted, sample>>
         /\ refresh'.seen = {} /\ refresh'.at \in {"fetched", "orders", "idle"}
         /\ FetchFails => refresh'.at # "fetched"
<1> USE DEF feedVars
<1>1. refresh \in RefreshType
  BY DEF SyncInv, TypeOK, RefreshType
<1>2. CASE FetchSucceeds
  <2>1. refresh'.seen = {} /\ refresh'.at = "fetched"
    BY <1>1, <1>2 DEF FetchSucceeds, RefreshType
  <2>2. ~FetchFails
    <3>1. [refresh EXCEPT !.at = "orders", !.seen = {}, !.week = 0, !.full = FALSE].at
            = "orders"
      BY <1>1 DEF RefreshType
    <3>2. NoRefresh.at = "idle"
      BY DEF NoRefresh
    <3> QED BY <2>1, <3>1, <3>2 DEF FetchFails
  <2> QED BY <1>2, <2>1, <2>2 DEF FetchSucceeds
<1>3. CASE FetchFails
  <2>1. [refresh EXCEPT !.at = "orders", !.seen = {}, !.week = 0, !.full = FALSE].at
          = "orders"
    BY <1>1 DEF RefreshType
  <2>2. [refresh EXCEPT !.at = "orders", !.seen = {}, !.week = 0, !.full = FALSE].seen
          = {}
    BY <1>1 DEF RefreshType
  <2>3. NoRefresh.at = "idle" /\ NoRefresh.seen = {}
    BY DEF NoRefresh
  <2> QED BY <1>3, <2>1, <2>2, <2>3 DEF FetchFails
<1> QED BY <1>2, <1>3

LEMMA FetchStores ==
  ASSUME SyncInv, FeedBase, NEW feed \in Feeds, NEW rows \in Answers(feed)
  PROVE  rows \subseteq listed /\ Stored(rows) \subseteq listed
<1>1. rows \subseteq feed /\ feed \subseteq listed
  BY DEF Answers, Feeds
<1> QED BY <1>1 DEF Stored, FeedBase

LEMMA NextBase ==
  ASSUME SyncInv, FeedBase, [Next]_vars
  PROVE  FeedBase'
<1> USE DEF feedVars, cacheVars, recomputeVars
<1>1. CASE UNCHANGED vars
  BY <1>1 DEF FeedBase, vars
<1>2. ASSUME NEW k \in Execs, List(k) PROVE FeedBase'
  BY <1>2 DEF FeedBase, List
<1>3. CASE Note
  BY <1>3 DEF FeedBase, Note
<1>4. CASE Aside
  BY <1>4, AsideIs DEF FeedBase
<1>5. CASE RefreshBegin
  <2>1. refresh'.seen = listed
    BY <1>5, Starts DEF RefreshBegin, RefreshType
  <2> QED BY <1>5, <2>1 DEF FeedBase, RefreshBegin
<1>6. CASE FetchSucceeds \/ FetchFails
  <2>1. cache' \subseteq listed
    <3>1. CASE FetchSucceeds
      <4>1. PICK feed \in Feeds : \E rows \in Answers(feed) : cache' = Stored(rows)
        BY <3>1 DEF FetchSucceeds
      <4> QED BY <4>1, FetchStores
    <3>2. CASE FetchFails
      <4>1. PICK feed \in Feeds : \E answer \in Answers(feed), j \in 0..Len(Terms) :
              LET rows == {k \in answer : k <= j} IN
              cache' = IF rows = {} THEN cache ELSE Stored(rows)
        BY <3>2 DEF FetchFails
      <4>2. PICK answer \in Answers(feed), j \in 0..Len(Terms) :
              LET rows == {k \in answer : k <= j} IN
              cache' = IF rows = {} THEN cache ELSE Stored(rows)
        BY <4>1
      <4>3. answer \subseteq listed /\ cache \subseteq listed
        BY FetchStores DEF FeedBase
      <4> QED BY <4>2, <4>3 DEF Stored
    <3> QED BY <1>6, <3>1, <3>2
  <2>2. refresh'.seen = {} /\ refresh'.at # "fetching" /\ listed' = listed
    BY <1>6, FetchIs
  <2> QED BY <2>1, <2>2 DEF FeedBase
<1>7. CASE RefreshPublish
  BY <1>7 DEF FeedBase, RefreshPublish, NoRefresh
<1> QED BY <1>1, <1>2, <1>3, <1>4, <1>5, <1>6, <1>7 DEF Next, RefreshStep, Aside

\* The feed only grows.
LEMMA ClearShrinks == ASSUME SyncInv, [Next]_vars PROVE Clear' \subseteq Clear
<1> USE DEF feedVars, cacheVars, recomputeVars
<1>1. listed \subseteq listed'
  <2>1. ASSUME NEW k \in Execs, List(k) PROVE listed \subseteq listed'
    BY <2>1 DEF List
  <2>2. CASE UNCHANGED listed
    BY <2>2
  <2>3. (\E k \in Execs : List(k)) \/ UNCHANGED listed
    BY DEF Next, RefreshStep, vars, WeekPasses, WalkAges, SampleAges, Note, Lose,
           Schedule, RecomputeBegin, RecomputeRead, RecomputePublish,
           RecomputeGivesUp, RecomputeExit, RefreshBegin, FetchSucceeds,
           FetchFails, RefreshMerge, RefreshPublish, RefreshGivesUp, OrdersPublish
  <2> QED BY <2>1, <2>2, <2>3
<1> QED BY <1>1 DEF Clear, Shadowed

LEMMA NextKept ==
  ASSUME SyncInv, FeedBase, NEW Q \in SUBSET Execs, Kept(Q),
         [Next]_vars
  PROVE  Kept(Q)'
<1> USE DEF feedVars, cacheVars, recomputeVars
<1>a. /\ cache \in SUBSET Execs /\ wsFills \in Seq(Execs) /\ Ascending(wsFills)
      /\ TypeOK /\ listed \subseteq Execs
  BY DEF SyncInv, TypeOK, RowsInOrder
<1>c. Clear' \subseteq Clear
  BY ClearShrinks
<1> DEFINE lost == (Q \cap Clear) \ ToSet(wsFills)
<1>b. \A k \in lost :
        k \in listed /\ cache # {} /\ (k \in cache \/ \A c \in cache : c < k)
  BY DEF Kept
<1>1. CASE UNCHANGED vars
  BY <1>1, KeptSame DEF vars
<1>2. ASSUME NEW k \in Execs, List(k) PROVE Kept(Q)'
  BY <1>2, <1>c DEF Kept, List
<1>3. CASE Note
  <2>1. ToSet(wsFills) \subseteq ToSet(wsFills')
    BY <1>3, NoteAppends
  <2>2. UNCHANGED <<listed, cache, cut, refresh>>
    BY <1>3 DEF Note
  <2> QED BY <1>c, <2>1, <2>2 DEF Kept
<1>4. CASE Aside
  BY <1>4, AsideIs, KeptSame
<1>5. CASE RefreshBegin
  <2>1. refresh'.at = "fetching" /\ refresh'.seen = listed
    BY <1>5, Starts DEF RefreshBegin, RefreshType
  <2>2. UNCHANGED <<listed, cache, cut, wsFills>>
    BY <1>5 DEF RefreshBegin
  <2> QED BY <1>c, <2>1, <2>2 DEF Kept
<1>6. CASE FetchSucceeds
  <2>1. /\ refresh.at = "fetching" /\ UNCHANGED <<listed, wsFills>>
        /\ refresh'.at \in {"fetched", "orders", "idle"}
    BY <1>6, FetchIs
  <2>2. PICK feed \in Feeds : \E rows \in Answers(feed) : cache' = Stored(rows)
    BY <1>6 DEF FetchSucceeds
  <2>3. PICK rows \in Answers(feed) : cache' = Stored(rows)
    BY <2>2
  <2>4. lost \subseteq cache'
    <3>1. \A k \in lost : k \in rows \/ (k \in cache /\ ~refresh.full)
      BY <1>a, <2>1, WalkFinds
    <3> QED BY <2>3, <3>1 DEF Stored
  <2> QED BY <1>b, <1>c, <2>1, <2>4 DEF Kept
<1>7. CASE FetchFails
  <2>1. /\ refresh.at = "fetching" /\ UNCHANGED <<listed, wsFills>>
        /\ refresh'.at \in {"orders", "idle"}
    BY <1>7, FetchIs
  <2>2. PICK feed \in Feeds : \E answer \in Answers(feed), j \in 0..Len(Terms) :
          LET rows == {k \in answer : k <= j} IN
          /\ cache' = IF rows = {} THEN cache ELSE Stored(rows)
          /\ cut' = (cut \/ (refresh.full /\ rows # {}))
    BY <1>7 DEF FetchFails
  <2>3. PICK answer \in Answers(feed), j \in 0..Len(Terms) :
          LET rows == {k \in answer : k <= j} IN
          /\ cache' = IF rows = {} THEN cache ELSE Stored(rows)
          /\ cut' = (cut \/ (refresh.full /\ rows # {}))
    BY <2>2
  <2> DEFINE rows == {k \in answer : k <= j}
  <2>4. answer \subseteq Execs /\ j \in Int
    BY <1>a, AnswerExecs, TermsAre
  <2>5. CASE rows = {}
    <3>1. cache' = cache /\ (cut' <=> cut)
      BY <2>3, <2>5
    <3> QED BY <1>b, <1>c, <2>1, <3>1 DEF Kept
  <2>6. CASE rows # {}
    <3>1. cache' = Stored(rows) /\ cache' # {} /\ (~cut' => ~cut /\ ~refresh.full)
      BY <2>3, <2>6 DEF Stored
    <3>2. ASSUME NEW k \in lost
          PROVE  k \in cache' \/ \A c \in cache' : c < k
      <4>1. k \in Execs /\ (k \in cache \/ \A c \in cache : c < k)
        BY <1>b
      <4>2. k \in answer \/ (k \in cache /\ ~refresh.full)
        BY <1>a, <2>1, <3>2, WalkFinds
      <4>3. CASE k \in answer /\ k <= j
        BY <3>1, <4>1, <4>3 DEF Stored
      <4>4. CASE k \in answer /\ ~(k <= j)
        <5>1. \A c \in rows : c < k
          BY <2>4, <4>1, <4>4, TermsAre
        <5> HIDE DEF rows
        <5> QED BY <3>1, <4>1, <5>1 DEF Stored
      <4>5. CASE k \in cache /\ ~refresh.full
        BY <3>1, <4>1, <4>5 DEF Stored
      <4> QED BY <4>2, <4>3, <4>4, <4>5
    <3>3. ~cut' => lost \subseteq cache'
      BY <3>1 DEF Kept, Stored
    <3> HIDE DEF rows
    <3> QED BY <1>b, <1>c, <2>1, <3>1, <3>2, <3>3 DEF Kept
  <2> QED BY <2>5, <2>6
<1>8. CASE RefreshPublish
  <2>1. /\ refresh.at = "merged" /\ refresh' = NoRefresh
        /\ wsFills' = Pruned(wsFills, cache) /\ UNCHANGED <<listed, cache, cut>>
    BY <1>8 DEF RefreshPublish
  <2>2. (Q \cap Clear) \ ToSet(wsFills') \subseteq cache
    <3>1. \A k \in ToSet(wsFills) \cap Clear :
            k \in cache \/ k \in ToSet(Pruned(wsFills, cache))
      BY <1>a, PrunedKeeps DEF FeedBase
    <3>2. lost \subseteq cache
      BY <2>1 DEF Kept
    <3> QED BY <2>1, <3>1, <3>2
  <2> QED BY <1>c, <2>1, <2>2 DEF Kept, FeedBase, NoRefresh
<1> QED BY <1>1, <1>2, <1>3, <1>4, <1>5, <1>6, <1>7, <1>8 DEF Next, RefreshStep, Aside

\* What a merge counts is in one of the channels, and it counts at least what it
\* can tell.
LEMMA MergedCounts ==
  ASSUME NEW rest \in SUBSET Execs, rest \subseteq listed, NEW ws \in Seq(Execs),
         Ascending(ws)
  PROVE  /\ Counted(Merged(rest, ws)) \subseteq rest \cup ToSet(ws)
         /\ rest \cap Whole \subseteq Counted(Merged(rest, ws))
         /\ ToSet(ws) \cap Clear \subseteq Counted(Merged(rest, ws))
<1>1. ASSUME NEW k \in Execs, Merged(rest, ws)[k] > 0
      PROVE  k \in rest \cup ToSet(ws)
  <2>1. FromRest(rest, ws, k) \/ FromWs(rest, ws, k)
    BY <1>1, MergedIs
  <2>2. Has(Unmatched(rest, ws, Open(rest, ws)), k) => k \in ToSet(ws)
    BY UnmatchedRows, ToSetIs
  <2> QED BY <2>1, <2>2 DEF FromRest, FromWs
<1>2. ASSUME NEW k \in Whole, k \in rest \/ k \in ToSet(ws) \cap Clear
      PROVE  k \in Counted(Merged(rest, ws))
  <2>1. k \in Execs
    BY WholeIs
  <2>2. Merged(rest, ws)[k] > 0
    BY <1>2, MergedAll
  <2> QED BY <2>1, <2>2 DEF Counted
<1>3. \A k \in Clear : k \in Whole
  BY ClearIs
<1> QED BY <1>1, <1>2, <1>3 DEF Counted

\* Where the rows of a refresh that has merged come from.
LEMMA RefreshFrom ==
  ASSUME SyncInv, [Next]_vars, refresh'.at = "merged"
  PROVE  \/ /\ RefreshMerge /\ refresh'.rows = Merged(cache, wsFills)
            /\ refresh'.due = noted \cup cache
         \/ /\ refresh.at = "merged" /\ refresh'.rows = refresh.rows
            /\ refresh'.due = refresh.due /\ cache' = cache
<1> USE DEF feedVars, cacheVars, recomputeVars
<1>1. refresh \in RefreshType
  BY DEF SyncInv, TypeOK, RefreshType
<1>c. cache' = cache
  <2>1. CASE FetchSucceeds \/ FetchFails
    BY <2>1, FetchIs
  <2>2. CASE ~(FetchSucceeds \/ FetchFails)
    BY <2>2 DEF Next, RefreshStep, vars, List, WeekPasses, WalkAges, SampleAges,
                Note, Lose, Schedule, RecomputeBegin, RecomputeRead,
                RecomputePublish, RecomputeGivesUp, RecomputeExit, RefreshBegin,
                RefreshMerge, RefreshPublish, RefreshGivesUp, OrdersPublish
  <2> QED BY <2>1, <2>2
<1>2. CASE UNCHANGED refresh
  BY <1>2, <1>c
<1>3. CASE RecomputeBegin \/ RecomputePublish \/ RecomputeGivesUp
  BY <1>1, <1>3, <1>c DEF RecomputeBegin, RecomputePublish, RecomputeGivesUp, RefreshType
<1>4. CASE RefreshMerge
  BY <1>1, <1>4 DEF RefreshMerge, RefreshType
<1>5. CASE RefreshPublish \/ RefreshGivesUp \/ OrdersPublish
  BY <1>5 DEF RefreshPublish, RefreshGivesUp, OrdersPublish, NoRefresh
<1>6. CASE RefreshBegin
  <2>1. refresh'.at = "fetching"
    BY <1>6, Starts DEF RefreshBegin, RefreshType
  <2> QED BY <2>1
<1>7. CASE FetchSucceeds \/ FetchFails
  BY <1>7, FetchIs
<1>8. \/ UNCHANGED refresh \/ RecomputeBegin \/ RecomputePublish
      \/ RecomputeGivesUp \/ FetchSucceeds \/ FetchFails \/ RefreshBegin
      \/ RefreshMerge \/ RefreshPublish \/ RefreshGivesUp \/ OrdersPublish
  BY DEF Next, RefreshStep, vars, List, WeekPasses, WalkAges, SampleAges, Note,
         Lose, Schedule, RecomputeRead, RecomputeExit
<1> QED BY <1>2, <1>3, <1>4, <1>5, <1>6, <1>7, <1>8

\* Where the rows of a recompute come from.
LEMMA RecomputeFrom ==
  ASSUME SyncInv, [Next]_vars, recompute'.at = "read"
  PROVE  \/ RecomputeRead /\ recompute'.rows = Merged(cache, wsFills)
         \/ recompute.at = "read" /\ recompute'.rows = recompute.rows
<1> USE DEF feedVars, cacheVars, recomputeVars
<1>1. recompute \in RecomputeType
  BY DEF SyncInv, TypeOK, RecomputeType
<1>2. CASE UNCHANGED recompute
  BY <1>2
<1>3. CASE Schedule \/ RecomputeBegin \/ FetchSucceeds \/ FetchFails
  BY <1>1, <1>3 DEF Schedule, RecomputeBegin, FetchSucceeds, FetchFails,
                    CacheChanges, RecomputeType
<1>4. CASE RefreshPublish \/ OrdersPublish
  BY <1>1, <1>4 DEF RefreshPublish, OrdersPublish, Outdates, RecomputeType
<1>5. CASE RecomputeRead
  BY <1>1, <1>5 DEF RecomputeRead, RecomputeType
<1>6. CASE RecomputePublish \/ RecomputeGivesUp \/ RecomputeExit
  <2>1. [NoRecompute EXCEPT !.at = "top"].at = "top" /\ NoRecompute.at = "off"
    BY DEF NoRecompute
  <2> QED BY <1>6, <2>1 DEF RecomputePublish, RecomputeGivesUp, RecomputeExit
<1>7. \/ UNCHANGED recompute \/ Schedule \/ RecomputeBegin \/ FetchSucceeds
      \/ FetchFails \/ RefreshPublish \/ OrdersPublish \/ RecomputeRead
      \/ RecomputePublish \/ RecomputeGivesUp \/ RecomputeExit
  BY DEF Next, RefreshStep, vars, List, WeekPasses, WalkAges, SampleAges, Note,
         Lose, RefreshBegin, RefreshMerge, RefreshGivesUp
<1> QED BY <1>2, <1>3, <1>4, <1>5, <1>6, <1>7

\* Where a sample comes from.
LEMMA SampleFrom ==
  ASSUME SyncInv, [Next]_vars
  PROVE  \/ sample'.rows = sample.rows /\ sample'.by = sample.by
         \/ OrdersPublish /\ sample'.by = "orders"
         \/ /\ RecomputePublish /\ ~recompute.late
            /\ sample'.rows = recompute.rows /\ sample'.by = "recompute"
         \/ /\ RefreshPublish /\ ~refresh.late
            /\ sample'.rows = refresh.rows /\ sample'.by = "refresh"
<1> USE DEF feedVars, cacheVars, recomputeVars
<1>1. sample \in SampleType
  BY DEF SyncInv, TypeOK, SampleType
<1>2. CASE UNCHANGED sample
  BY <1>2
<1>3. CASE SampleAges
  BY <1>1, <1>3 DEF SampleAges, SampleType
<1>4. CASE RecomputePublish
  BY <1>4 DEF RecomputePublish, Publish
<1>5. CASE RefreshPublish
  BY <1>5 DEF RefreshPublish, Publish
<1>6. CASE OrdersPublish
  <2>1. sample' = sample \/ sample'.by = "orders"
    <3>1. PICK found \in SUBSET Execs :
            Publish("orders", [refresh EXCEPT !.rows =
                                 [k \in Execs |-> IF k \in found THEN 1 ELSE 0]])
      BY <1>6 DEF OrdersPublish
    <3> DEFINE job == [refresh EXCEPT !.rows =
                         [k \in Execs |-> IF k \in found THEN 1 ELSE 0]]
    <3>2. Publish("orders", job)
      BY <3>1
    <3> HIDE DEF job
    <3> QED BY <3>2 DEF Publish
  <2> QED BY <1>6, <2>1
<1>7. \/ UNCHANGED sample \/ SampleAges \/ RecomputePublish \/ RefreshPublish
      \/ OrdersPublish
  BY DEF Next, RefreshStep, vars, List, WeekPasses, WalkAges, Note, Lose, Schedule,
         RecomputeBegin, RecomputeRead, RecomputeGivesUp, RecomputeExit,
         RefreshBegin, FetchSucceeds, FetchFails, RefreshMerge, RefreshGivesUp
<1> QED BY <1>2, <1>3, <1>4, <1>5, <1>6, <1>7

\* Nothing that was told or counted is lost, and the merged figures have what
\* can be told.
FeedInv ==
  /\ FeedBase /\ Kept(noted) /\ SureFillsCounted
  /\ sample.by # "orders" => Kept(Counted(sample.rows))
  /\ refresh.at = "merged" => Kept(Counted(refresh.rows))
  /\ recompute.at = "read" => Kept(Counted(recompute.rows))

LEMMA NextFeed ==
  ASSUME SyncInv, FeedInv, [Next]_vars
  PROVE  FeedInv'
<1>a. /\ cache \in SUBSET Execs /\ wsFills \in Seq(Execs) /\ Ascending(wsFills)
      /\ noted \in SUBSET Execs /\ FeedBase
  BY DEF SyncInv, TypeOK, RowsInOrder, FeedInv
<1>b. ASSUME NEW Q \in SUBSET Execs, Kept(Q) PROVE Kept(Q)'
  BY <1>a, <1>b, NextKept
<1>c. /\ Counted(sample.rows) \in SUBSET Execs /\ Counted(refresh.rows) \in SUBSET Execs
      /\ Counted(recompute.rows) \in SUBSET Execs
  BY DEF Counted
<1>d. /\ Counted(Merged(cache, wsFills)) \subseteq cache \cup ToSet(wsFills)
      /\ cache \cap Whole \subseteq Counted(Merged(cache, wsFills))
      /\ ToSet(wsFills) \cap Clear \subseteq Counted(Merged(cache, wsFills))
  BY <1>a, MergedCounts DEF FeedBase
<1>1. FeedBase'
  BY <1>a, NextBase
<1>2. Kept(noted)'
  <2>1. PICK Q \in SUBSET Execs : Q = noted
    BY <1>a
  <2>2. Kept(Q)'
    BY <1>b, <2>1 DEF FeedInv
  <2>3. (noted' \cap Clear') \ ToSet(wsFills') \subseteq (Q \cap Clear') \ ToSet(wsFills')
    <3>1. CASE Note
      <4>1. Clear' \subseteq Whole
        BY ClearShrinks, ClearIs
      <4> QED BY <2>1, <3>1, <4>1, NoteAppends
    <3>2. CASE noted' = noted
      BY <2>1, <3>2
    <3>3. Note \/ noted' = noted
      BY DEF Next, RefreshStep, vars, List, WeekPasses, WalkAges, SampleAges, Lose,
             Schedule, RecomputeBegin, RecomputeRead, RecomputePublish,
             RecomputeGivesUp, RecomputeExit, RefreshBegin, FetchSucceeds,
             FetchFails, RefreshMerge, RefreshPublish, RefreshGivesUp, OrdersPublish
    <3> QED BY <3>1, <3>2, <3>3
  <2> QED BY <2>2, <2>3 DEF Kept
<1>3. ASSUME refresh'.at = "merged"
      PROVE  /\ Kept(Counted(refresh.rows))'
             /\ refresh'.due \cap Sure' \subseteq Counted(refresh'.rows)
  <2>1. CASE RefreshMerge /\ refresh'.rows = Merged(cache, wsFills)
             /\ refresh'.due = noted \cup cache
    <3>1. refresh.at = "fetched" /\ UNCHANGED <<listed, cache, cut, wsFills, noted>>
      BY <2>1 DEF RefreshMerge, feedVars, cacheVars
    <3>2. noted \cap Clear \subseteq cache \cup ToSet(wsFills)
      BY <3>1 DEF FeedInv, Kept
    <3>3. Counted(refresh'.rows) \subseteq cache' \cup ToSet(wsFills')
      BY <1>d, <2>1, <3>1
    <3>5. refresh'.due \cap Sure' \subseteq Counted(refresh'.rows)
      <4>1. Sure' = Sure
        BY <3>1 DEF Sure, Shadowed
      <4> QED BY <1>d, <2>1, <3>2, <4>1, SureIs
    <3>4. Kept(Counted(refresh.rows))'
      <4>1. cache' \subseteq listed' /\ (refresh'.at = "fetching" => cache' \subseteq refresh'.seen)
        BY <1>1 DEF FeedBase
      <4> QED BY <3>3, <4>1 DEF Kept, Counted
    <3> QED BY <3>4, <3>5
  <2>2. CASE refresh.at = "merged" /\ refresh'.rows = refresh.rows
             /\ refresh'.due = refresh.due /\ cache' = cache
    <3>1. PICK Q \in SUBSET Execs : Q = Counted(refresh.rows)
      BY <1>c
    <3>2. Kept(Q)' /\ Q = Counted(refresh'.rows)
      BY <1>b, <2>2, <3>1 DEF FeedInv
    <3>3. Kept(Counted(refresh.rows))'
      BY <3>2 DEF Kept, Counted
    <3>4. Sure' \subseteq Sure
      <4>1. Clear' \subseteq Clear
        BY ClearShrinks
      <4>2. \A k : k \in Clear' <=> k \in Whole /\ ~Shadowed(k)'
        BY DEF Clear
      <4>3. \A k : k \in Clear <=> k \in Whole /\ ~Shadowed(k)
        BY DEF Clear
      <4> QED BY <2>2, <4>1, <4>2, <4>3 DEF Sure
    <3> QED BY <2>2, <3>1, <3>3, <3>4 DEF FeedInv, SureFillsCounted
  <2> QED BY <1>3, <2>1, <2>2, RefreshFrom
<1>4. ASSUME recompute'.at = "read" PROVE Kept(Counted(recompute.rows))'
  <2>1. CASE RecomputeRead /\ recompute'.rows = Merged(cache, wsFills)
    <3>1. UNCHANGED <<listed, cache, wsFills>>
      BY <2>1 DEF RecomputeRead, feedVars, cacheVars
    <3>2. Counted(recompute'.rows) \subseteq cache' \cup ToSet(wsFills')
      BY <1>d, <2>1, <3>1
    <3>3. cache' \subseteq listed' /\ (refresh'.at = "fetching" => cache' \subseteq refresh'.seen)
      BY <1>1 DEF FeedBase
    <3> QED BY <3>2, <3>3 DEF Kept, Counted
  <2>2. CASE recompute.at = "read" /\ recompute'.rows = recompute.rows
    <3>1. PICK Q \in SUBSET Execs : Q = Counted(recompute.rows)
      BY <1>c
    <3>2. Kept(Q)' /\ Q = Counted(recompute'.rows)
      BY <1>b, <2>2, <3>1 DEF FeedInv
    <3> QED BY <3>2 DEF Kept, Counted
  <2> QED BY <1>4, <2>1, <2>2, RecomputeFrom
<1>5. ASSUME sample'.by # "orders" PROVE Kept(Counted(sample.rows))'
  <2>1. CASE sample'.rows = sample.rows /\ sample'.by = sample.by
    <3>1. PICK Q \in SUBSET Execs : Q = Counted(sample.rows)
      BY <1>c
    <3>2. Kept(Q)' /\ Q = Counted(sample'.rows)
      BY <1>b, <1>5, <2>1, <3>1 DEF FeedInv
    <3> QED BY <3>2 DEF Kept, Counted
  <2>2. CASE RecomputePublish /\ sample'.rows = recompute.rows
    <3>1. PICK Q \in SUBSET Execs : Q = Counted(recompute.rows)
      BY <1>c
    <3>2. Kept(Q)' /\ Q = Counted(sample'.rows)
      BY <1>b, <2>2, <3>1 DEF FeedInv, RecomputePublish
    <3> QED BY <3>2 DEF Kept, Counted
  <2>3. CASE RefreshPublish /\ sample'.rows = refresh.rows
    <3>1. PICK Q \in SUBSET Execs : Q = Counted(refresh.rows)
      BY <1>c
    <3>2. Kept(Q)' /\ Q = Counted(sample'.rows)
      BY <1>b, <2>3, <3>1 DEF FeedInv, RefreshPublish
    <3> QED BY <3>2 DEF Kept, Counted
  <2> QED BY <1>5, <2>1, <2>2, <2>3, SampleFrom
<1>6. SureFillsCounted'
  BY <1>3 DEF SureFillsCounted, Counted
<1>7. sample'.by # "orders" => Kept(Counted(sample.rows))'
  BY <1>5
<1>8. refresh'.at = "merged" => Kept(Counted(refresh.rows))'
  BY <1>3
<1>9. recompute'.at = "read" => Kept(Counted(recompute.rows))'
  BY <1>4
<1> QED BY <1>1, <1>2, <1>6, <1>7, <1>8, <1>9 DEF FeedInv

LEMMA InitFeed == Init => FeedInv
<1> SUFFICES ASSUME Init PROVE FeedInv
  OBVIOUS
<1>1. /\ noted = {} /\ cache = {} /\ listed = {} /\ refresh.at = "idle"
      /\ refresh.seen = {} /\ sample.rows = NoSample.rows /\ recompute.at = "off"
  BY DEF Init, NoRefresh, NoRecompute
<1>2. Counted(sample.rows) = {}
  BY <1>1 DEF NoSample, Counted
<1>3. FeedBase
  BY <1>1 DEF FeedBase
<1>4. Kept(noted) /\ Kept(Counted(sample.rows))
  BY <1>1, <1>2, <1>3, KeptNow
<1> QED BY <1>1, <1>3, <1>4 DEF FeedInv, SureFillsCounted

\* For every history of executions, orders filled in parts, activities without
\* order id and executions of equal terms among them: the figures of a refresh
\* leave out an execution the terminal was told of only if its order was filled
\* in parts, or if its activity is not in the cache and a listed one without
\* order id may be taken for it.  A row of any other is pruned only once the
\* cache has its execution, and what a failed walk drops from the cache the next
\* one finds.
THEOREM CountsAll == Spec => []SureFillsCounted
<1>1. Init => FeedInv
  BY InitFeed
<1>2. SyncInv /\ FeedInv /\ [Next]_vars => FeedInv'
  BY NextFeed
<1>3. FeedInv => SureFillsCounted
  BY DEF FeedInv
<1> QED BY <1>1, <1>2, <1>3, SpecSync, PTL DEF Spec
-----------------------------------------------------------------------------
(* The published figures take nothing back unnoticed. *)

\* The worker has been, or is about to be, told of a fill.
Pending == need \/ callback = "schedule"

\* Rows that were read from a whole cache, which has not changed, have all of it
\* but orders filled in parts.
ReadWhole ==
  recompute.at = "read" /\ ~recompute.behind =>
    ~cut /\ cache \cap Whole \subseteq Counted(recompute.rows)

\* They have every provisional row that nothing may be taken for, unless one is
\* pending.
ReadRows ==
  recompute.at = "read" /\ ~Pending =>
    ToSet(wsFills) \cap Clear \subseteq Counted(recompute.rows)

\* realizedRefreshMu's holder is older only than a recompute that is running.
FirstRuns ==
  refresh.first => InFlight(recompute) /\ ~recompute.late /\ InFlight(refresh)

\* A refresh that has merged counts the cache; the rows that are new since then
\* are pending for a recompute that began before the refresh.
MergedWhole ==
  refresh.at = "merged" => cache \cap Whole \subseteq Counted(refresh.rows)
MergedRows ==
  refresh.at = "merged" /\ InFlight(recompute) /\ ~refresh.first /\ ~Pending =>
    ToSet(wsFills) \cap Clear \subseteq Counted(refresh.rows)

\* If a sample counts such a row, a recompute is due, runs or has failed.
NewsFollows ==
  refresh.at = "merged" /\ ~refresh.late /\ sample.by # "orders"
      /\ ~Pending /\ ~stuck /\ ~refresh.first =>
    Counted(sample.rows) \cap ToSet(wsFills) \cap Clear \subseteq Counted(refresh.rows)

PublishInv ==
  ReadWhole /\ ReadRows /\ FirstRuns /\ MergedWhole /\ MergedRows /\ NewsFollows

LEMMA NextPublish ==
  ASSUME SyncInv, FeedInv, PublishInv, [Next]_vars
  PROVE  PublishInv'
<1> USE DEF feedVars, cacheVars, recomputeVars
<1>a. /\ cache \in SUBSET Execs /\ wsFills \in Seq(Execs) /\ Ascending(wsFills)
      /\ refresh \in RefreshType /\ recompute \in RecomputeType
      /\ sample \in SampleType
  BY DEF SyncInv, TypeOK, RowsInOrder, RefreshType, RecomputeType, SampleType
<1>b. /\ ReadWhole /\ ReadRows /\ FirstRuns /\ MergedWhole /\ MergedRows /\ NewsFollows
      /\ Clear' \subseteq Clear
  BY ClearShrinks DEF PublishInv
<1>c. /\ Counted(Merged(cache, wsFills)) \subseteq cache \cup ToSet(wsFills)
      /\ cache \cap Whole \subseteq Counted(Merged(cache, wsFills))
      /\ ToSet(wsFills) \cap Clear \subseteq Counted(Merged(cache, wsFills))
  BY <1>a, MergedCounts DEF FeedInv, FeedBase
<1> USE DEF PublishInv, ReadWhole, ReadRows, FirstRuns, MergedWhole, MergedRows,
            NewsFollows, Pending
<1>1. CASE /\ UNCHANGED <<callback, need, stuck, cut, cache, wsFills, refresh, recompute>>
           /\ sample'.rows = sample.rows /\ sample'.by = sample.by
  BY <1>b, <1>1 DEF Counted, InFlight
<1>2. CASE UNCHANGED vars
  BY <1>1, <1>2 DEF vars
<1>3. ASSUME NEW k \in Execs, List(k) PROVE PublishInv'
  BY <1>1, <1>3 DEF List
<1>4. CASE WeekPasses \/ WalkAges \/ Lose
  BY <1>1, <1>4 DEF WeekPasses, WalkAges, Lose
<1>5. CASE SampleAges
  <2>1. sample'.rows = sample.rows /\ sample'.by = sample.by
    BY <1>a, <1>5 DEF SampleAges, SampleType
  <2> QED BY <1>1, <1>5, <2>1 DEF SampleAges
<1>6. CASE Note
  <2>1. /\ callback' = "schedule" \/ UNCHANGED <<callback, wsFills>>
        /\ UNCHANGED <<cut, cache, refresh, recompute, need, stuck, sample>>
    BY <1>6, NoteAppends DEF Note
  <2>2. CASE callback' = "schedule"
    BY <1>b, <2>1, <2>2 DEF Counted, InFlight
  <2>3. CASE UNCHANGED <<callback, wsFills>>
    BY <1>1, <2>1, <2>3
  <2> QED BY <2>1, <2>2, <2>3
<1>7. CASE Schedule
  <2>1. need' = TRUE /\ UNCHANGED <<cut, cache, refresh>>
    BY <1>7 DEF Schedule
  <2>2. /\ recompute'.rows = recompute.rows /\ recompute'.behind = recompute.behind
        /\ recompute'.late = recompute.late
        /\ recompute'.at = IF recompute.at = "off" THEN "top" ELSE recompute.at
    BY <1>a, <1>7 DEF Schedule, RecomputeType
  <2> QED BY <1>b, <2>1, <2>2 DEF Counted, InFlight
<1>8. CASE RecomputeBegin
  <2>1. recompute'.at = "started" /\ recompute'.late = FALSE
    BY <1>a, <1>8 DEF RecomputeBegin, RecomputeType
  <2>2. /\ refresh'.first = InFlight(refresh) /\ refresh'.at = refresh.at
        /\ refresh'.rows = refresh.rows
    BY <1>a, <1>8 DEF RecomputeBegin, RefreshType
  <2>3. cache' = cache /\ (refresh.at = "merged" => InFlight(refresh))
    BY <1>8 DEF RecomputeBegin, InFlight
  <2>4. MergedWhole'
    BY <1>b, <2>2, <2>3 DEF Counted
  <2>5. FirstRuns'
    BY <2>1, <2>2 DEF InFlight
  <2> QED BY <2>1, <2>2, <2>3, <2>4, <2>5
<1>9. CASE RecomputeRead
  <2>1. /\ recompute.at = "started" /\ recompute'.at = "read"
        /\ recompute'.rows = Merged(cache, wsFills) /\ (recompute'.behind <=> cut)
        /\ recompute'.late = recompute.late
    BY <1>a, <1>9 DEF RecomputeRead, RecomputeType
  <2>2. UNCHANGED <<callback, need, stuck, cut, cache, wsFills, refresh, sample>>
    BY <1>9 DEF RecomputeRead
  <2>3. /\ cache \cap Whole \subseteq Counted(recompute.rows)'
        /\ ToSet(wsFills) \cap Clear \subseteq Counted(recompute.rows)'
    BY <1>c, <2>1 DEF Counted
  <2>4. ReadWhole' /\ ReadRows'
    BY <1>b, <2>1, <2>2, <2>3
  <2>5. FirstRuns' /\ MergedWhole' /\ MergedRows' /\ NewsFollows'
    BY <1>b, <2>1, <2>2 DEF Counted, InFlight
  <2> QED BY <2>4, <2>5
<1>10. CASE RecomputePublish
  <2>1. recompute'.at = "top" /\ recompute.at = "read"
    BY <1>10 DEF RecomputePublish, NoRecompute
  <2>2. /\ refresh'.first = FALSE /\ refresh'.at = refresh.at
        /\ refresh'.rows = refresh.rows
        /\ refresh'.late = (refresh.late \/ (~recompute.late /\ refresh.first))
    BY <1>a, <1>10 DEF RecomputePublish, RefreshType
  <2>3. UNCHANGED <<callback, need, cut, cache, wsFills>>
    BY <1>10 DEF RecomputePublish
  <2>4. ReadWhole' /\ ReadRows' /\ FirstRuns' /\ MergedRows'
    BY <2>1, <2>2 DEF InFlight
  <2>5. MergedWhole'
    BY <1>b, <2>2, <2>3 DEF Counted
  <2>6. NewsFollows'
    <3>1. SUFFICES ASSUME refresh'.at = "merged", ~refresh'.late, ~Pending'
                   PROVE  ToSet(wsFills') \cap Clear' \subseteq Counted(refresh.rows)'
      OBVIOUS
    <3>2. ~refresh.first
      BY <1>b, <2>2, <3>1
    <3>3. InFlight(recompute)
      BY <2>1 DEF InFlight
    <3>4. ToSet(wsFills) \cap Clear \subseteq Counted(refresh.rows)
      BY <1>b, <2>2, <2>3, <3>1, <3>2, <3>3
    <3> QED BY <1>b, <2>2, <2>3, <3>4 DEF Counted
  <2> QED BY <2>4, <2>5, <2>6
<1>11. CASE RecomputeGivesUp
  <2>1. recompute'.at = "top" /\ stuck' = TRUE
    BY <1>11 DEF RecomputeGivesUp, NoRecompute
  <2>2. /\ refresh'.first = FALSE /\ refresh'.at = refresh.at
        /\ refresh'.rows = refresh.rows /\ cache' = cache
    BY <1>a, <1>11 DEF RecomputeGivesUp, RefreshType
  <2>3. MergedWhole'
    BY <1>b, <2>2 DEF Counted
  <2> QED BY <2>1, <2>2, <2>3 DEF InFlight
<1>12. CASE RecomputeExit
  <2>1. recompute'.at = "off" /\ recompute.at = "top"
    BY <1>12 DEF RecomputeExit, NoRecompute
  <2>2. UNCHANGED <<callback, need, stuck, cut, cache, wsFills, refresh, sample>>
    BY <1>12 DEF RecomputeExit
  <2>3. ~refresh.first
    BY <1>b, <2>1 DEF InFlight
  <2> QED BY <1>b, <2>1, <2>2, <2>3 DEF Counted, InFlight
<1>13. CASE RefreshBegin
  <2>1. refresh'.at = "fetching" /\ refresh'.first = FALSE
    BY <1>13, Starts DEF RefreshBegin, RefreshType, NoRefresh
  <2>2. UNCHANGED <<callback, need, cut, cache, wsFills, recompute>>
    BY <1>13 DEF RefreshBegin
  <2> QED BY <1>b, <2>1, <2>2 DEF Counted
<1>14. CASE FetchSucceeds \/ FetchFails
  <2>1. refresh'.at # "merged"
    BY <1>14, FetchIs
  <2>2. /\ recompute'.at = recompute.at /\ recompute'.rows = recompute.rows
        /\ recompute'.late = recompute.late
        /\ recompute.at = "read" => recompute'.behind
    BY <1>a, <1>14 DEF FetchSucceeds, FetchFails, CacheChanges, RecomputeType
  <2>3. UNCHANGED <<callback, need, wsFills>>
    BY <1>14 DEF FetchSucceeds, FetchFails
  <2>4. refresh'.first => refresh.first /\ refresh'.at \in {"fetched", "orders"}
    <3>1. CASE FetchSucceeds
      BY <1>a, <3>1 DEF FetchSucceeds, RefreshType
    <3>2. CASE FetchFails
      <4>1. [refresh EXCEPT !.at = "orders", !.seen = {}, !.week = 0, !.full = FALSE].first
              = refresh.first
        BY <1>a DEF RefreshType
      <4>2. [refresh EXCEPT !.at = "orders", !.seen = {}, !.week = 0, !.full = FALSE].at
              = "orders"
        BY <1>a DEF RefreshType
      <4>3. NoRefresh.first = FALSE
        BY DEF NoRefresh
      <4> QED BY <3>2, <4>1, <4>2, <4>3 DEF FetchFails
    <3> QED BY <1>14, <3>1, <3>2
  <2>5. ReadWhole' /\ ReadRows'
    BY <1>b, <2>2, <2>3 DEF Counted
  <2>6. FirstRuns'
    BY <1>b, <2>2, <2>4 DEF InFlight
  <2> QED BY <2>1, <2>5, <2>6
<1>15. CASE RefreshMerge
  <2>1. /\ refresh.at = "fetched" /\ refresh'.at = "merged"
        /\ refresh'.rows = Merged(cache, wsFills) /\ refresh'.first = refresh.first
    BY <1>a, <1>15 DEF RefreshMerge, RefreshType
  <2>2. UNCHANGED <<callback, need, cut, cache, wsFills, recompute>>
    BY <1>15 DEF RefreshMerge
  <2>3. /\ cache \cap Whole \subseteq Counted(refresh.rows)'
        /\ ToSet(wsFills) \cap Clear \subseteq Counted(refresh.rows)'
    BY <1>c, <2>1 DEF Counted
  <2>4. ReadWhole' /\ ReadRows' /\ FirstRuns'
    BY <1>b, <2>1, <2>2 DEF Counted, InFlight
  <2> QED BY <1>b, <2>2, <2>3, <2>4
<1>16. CASE RefreshPublish \/ RefreshGivesUp \/ OrdersPublish
  <2>1. refresh'.at = "idle" /\ refresh'.first = FALSE
    BY <1>16 DEF RefreshPublish, RefreshGivesUp, OrdersPublish, NoRefresh
  <2>2. UNCHANGED <<callback, need, cut, cache>>
    BY <1>16 DEF RefreshPublish, RefreshGivesUp, OrdersPublish
  <2>3. /\ recompute'.at = recompute.at /\ recompute'.rows = recompute.rows
        /\ recompute'.behind = recompute.behind
    BY <1>a, <1>16 DEF RefreshPublish, RefreshGivesUp, OrdersPublish, Outdates,
                       RecomputeType
  <2>4. ToSet(wsFills') \subseteq ToSet(wsFills)
    <3>1. CASE RefreshPublish
      BY <1>a, <3>1, PrunedIs, ToSetIs DEF RefreshPublish
    <3>2. CASE RefreshGivesUp \/ OrdersPublish
      BY <3>2 DEF RefreshGivesUp, OrdersPublish
    <3> QED BY <1>16, <3>1, <3>2
  <2>5. ReadWhole' /\ ReadRows'
    BY <1>b, <2>2, <2>3, <2>4 DEF Counted
  <2> QED BY <2>1, <2>5
<1> QED BY <1>2, <1>3, <1>4, <1>5, <1>6, <1>7, <1>8, <1>9, <1>10, <1>11, <1>12,
           <1>13, <1>14, <1>15, <1>16
        DEF Next, RefreshStep

\* An execution that figures counted is taken back only in the stated states.
SampleStep ==
  sample' # sample /\ sample.by # "orders" =>
    \/ Counted(sample.rows) \cap Sure \subseteq Counted(sample'.rows)
    \/ sample'.by = "orders"
    \/ (need \/ callback = "schedule" \/ Recomputing \/ stuck)'
    \/ sample'.by = "recompute" /\ recompute.behind

LEMMA StepKeeps ==
  ASSUME SyncInv, FeedInv, PublishInv, [Next]_vars
  PROVE  SampleStep
<1> USE DEF feedVars, cacheVars, recomputeVars
<1>a. /\ recompute \in RecomputeType /\ refresh \in RefreshType
      /\ ReadWhole /\ ReadRows /\ MergedWhole /\ NewsFollows /\ FirstRuns
  BY DEF PublishInv, SyncInv, TypeOK, RecomputeType, RefreshType
<1>1. CASE sample'.rows = sample.rows
  BY <1>1 DEF SampleStep, Counted
<1>2. CASE sample'.by = "orders"
  BY <1>2 DEF SampleStep
<1>3. CASE RecomputePublish /\ sample'.rows = recompute.rows /\ sample'.by = "recompute"
  <2>1. SUFFICES ASSUME sample.by # "orders", ~Pending, ~recompute.behind
                 PROVE  Counted(sample.rows) \cap Sure \subseteq Counted(sample'.rows)
    <3>1. UNCHANGED <<need, callback>>
      BY <1>3 DEF RecomputePublish
    <3> QED BY <1>3, <3>1 DEF SampleStep, Pending
  <2>2. recompute.at = "read"
    BY <1>3 DEF RecomputePublish
  <2>3. /\ ~cut /\ cache \cap Whole \subseteq Counted(recompute.rows)
        /\ ToSet(wsFills) \cap Clear \subseteq Counted(recompute.rows)
    BY <1>a, <2>1, <2>2 DEF ReadWhole, ReadRows
  <2>4. Counted(sample.rows) \cap Clear \subseteq cache \cup ToSet(wsFills)
    BY <2>1, <2>3 DEF FeedInv, Kept
  <2> QED BY <1>3, <2>3, <2>4, SureIs
<1>4. CASE RefreshPublish /\ ~refresh.late /\ sample'.rows = refresh.rows
  <2>1. /\ refresh.at = "merged" /\ UNCHANGED <<need, callback, stuck>>
    BY <1>4 DEF RefreshPublish
  <2>2. SUFFICES ASSUME sample.by # "orders", ~Pending, ~stuck, ~Recomputing'
                 PROVE  Counted(sample.rows) \cap Sure \subseteq Counted(sample'.rows)
    BY <2>1 DEF SampleStep, Pending
  <2>3. ~refresh.first
    <3>1. SUFFICES ASSUME refresh.first PROVE FALSE
      OBVIOUS
    <3>2. InFlight(recompute) /\ ~recompute.late
      BY <1>a, <3>1 DEF FirstRuns
    <3>3. recompute'.at = recompute.at /\ (recompute'.late <=> recompute.late)
      BY <1>a, <1>4, <3>1 DEF RefreshPublish, Outdates, RecomputeType
    <3>4. Recomputing'
      BY <3>2, <3>3 DEF Recomputing, InFlight
    <3> QED BY <2>2, <3>4
  <2>4. Counted(sample.rows) \cap ToSet(wsFills) \cap Clear \subseteq Counted(refresh.rows)
    BY <1>a, <1>4, <2>1, <2>2, <2>3 DEF NewsFollows
  <2>5. /\ cache \cap Whole \subseteq Counted(refresh.rows)
        /\ (Counted(sample.rows) \cap Clear) \ ToSet(wsFills) \subseteq cache
    BY <1>a, <2>1, <2>2 DEF MergedWhole, FeedInv, Kept
  <2> QED BY <1>4, <2>4, <2>5, SureIs
<1> QED BY <1>1, <1>2, <1>3, <1>4, SampleFrom

\* What a publication may take back, for every history of executions: of those
\* whose order was filled at once and that the cache has or nothing listed may
\* be taken for, only a recompute that is due, runs or failed, or that walked a
\* cache cut or changed under it, excuses a loss.
THEOREM KeepsSample == Spec => SampleKeeps
<1>1. Init => FeedInv /\ PublishInv
  BY InitFeed DEF Init, PublishInv, ReadWhole, ReadRows, FirstRuns, MergedWhole,
                  MergedRows, NewsFollows, NoRefresh, NoRecompute
<1>2. SyncInv /\ (FeedInv /\ PublishInv) /\ [Next]_vars => (FeedInv /\ PublishInv)'
  BY NextFeed, NextPublish
<1>3. SyncInv /\ (FeedInv /\ PublishInv) /\ [Next]_vars => [SampleStep]_vars
  BY StepKeeps
<1>4. [SampleStep]_vars
        <=> [sample' # sample /\ sample.by # "orders" =>
               \/ Counted(sample.rows) \cap Sure \subseteq Counted(sample'.rows)
               \/ sample'.by = "orders"
               \/ (need \/ callback = "schedule" \/ Recomputing \/ stuck)'
               \/ sample'.by = "recompute" /\ recompute.behind]_vars
  BY DEF SampleStep
<1>5. Spec => [][SampleStep]_vars
  BY <1>1, <1>2, <1>3, SpecSync, PTL DEF Spec
<1> QED BY <1>4, <1>5, PTL DEF SampleKeeps
=============================================================================
