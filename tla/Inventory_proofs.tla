--------------------------- MODULE Inventory_proofs ---------------------------
(***************************************************************************)
(* Theorems about Inventory, for every account, lookback and sequence of   *)
(* executions, listings, snapshots and days: types, and that the figures   *)
(* are exact where the walk knows enough.                                  *)
(***************************************************************************)
EXTENDS Inventory, SequenceTheorems, NaturalsInduction, WellFoundedInduction,
        TLAPS
-----------------------------------------------------------------------------
(* Induction and recursion up to a bound, over sets and functions. *)

LEMMA Induction ==
  ASSUME NEW n \in Nat, NEW G, 0 \in G,
         \A m \in 0..n : m < n /\ m \in G => m + 1 \in G
  PROVE  \A m \in 0..n : m \in G
<1> DEFINE B == {m \in 0..n : m \notin G}
<1>1. SUFFICES ASSUME B # {} PROVE FALSE
  OBVIOUS
<1>2. B \in SUBSET Nat
  OBVIOUS
<1>3. PICK m \in B : \A k \in B : <<k, m>> \notin OpToRel(<, Nat)
  <2> HIDE DEF B
  <2> QED BY <1>1, <1>2, WFMin, NatLessThanWellFounded, Zenon
<1>4. \A k \in B : ~(k < m)
  <2> HIDE DEF B
  <2> QED BY <1>2, <1>3 DEF OpToRel
<1>5. m \in 0..n /\ m \notin G /\ m # 0
  BY <1>3
<1>6. m - 1 \in 0..n /\ m - 1 < m /\ (m - 1) + 1 = m
  BY <1>5
<1>7. m - 1 \in G
  BY <1>4, <1>6
<1> QED BY <1>5, <1>6, <1>7

\* A function is defined by its start and its steps.
Runs(f, n, A, b, step) ==
  f \in [0..n -> A] /\ f[0] = b /\ \A i \in 1..n : f[i] = step[i][f[i - 1]]

LEMMA RecursionExists ==
  ASSUME NEW A, NEW n \in Nat, NEW b \in A, NEW step,
         \A i \in 1..n, a \in A : step[i][a] \in A
  PROVE  \E f : Runs(f, n, A, b, step)
<1> DEFINE Fits(f, m) == f[0] = b /\ \A i \in 1..m : f[i] = step[i][f[i - 1]]
           G == {m \in 0..n : \E f \in [0..m -> A] : Fits(f, m)}
<1>1. 0 \in G
  <2> DEFINE f == [i \in 0..0 |-> b]
  <2>1. f \in [0..0 -> A] /\ Fits(f, 0) /\ 0 \in 0..n
    OBVIOUS
  <2> HIDE DEF f, Fits
  <2> QED BY <2>1
<1>2. ASSUME NEW m \in 0..n, m < n, m \in G
      PROVE  m + 1 \in G
  <2>1. PICK f \in [0..m -> A] : Fits(f, m)
    BY <1>2
  <2> DEFINE g == [i \in 0..(m + 1) |-> IF i = m + 1 THEN step[m + 1][f[m]] ELSE f[i]]
  <2>2. m + 1 \in 1..n /\ m + 1 \in 0..n /\ m \in 0..m /\ m \in Int
    BY <1>2
  <2>3. f[m] \in A /\ step[m + 1][f[m]] \in A
    BY <2>2
  <2>4. g \in [0..(m + 1) -> A]
    BY <2>2, <2>3
  <2>5. \A i \in 0..m : g[i] = f[i]
    BY <2>2
  <2>6. g[m + 1] = step[m + 1][f[m]]
    BY <2>2
  <2>7. Fits(g, m + 1)
    <3>1. g[0] = b
      BY <2>1, <2>2, <2>5
    <3>2. ASSUME NEW i \in 1..(m + 1) PROVE g[i] = step[i][g[i - 1]]
      <4> HIDE DEF g
      <4>1. i - 1 \in 0..m
        BY <2>2
      <4>2. CASE i = m + 1
        BY <2>2, <2>5, <2>6, <4>1, <4>2
      <4>3. CASE i # m + 1
        <5>1. i \in 1..m /\ i \in 0..m
          BY <2>2, <4>3
        <5> QED BY <2>1, <2>5, <4>1, <5>1
      <4> QED BY <4>2, <4>3
    <3> QED BY <3>1, <3>2
  <2> HIDE DEF g, Fits
  <2> QED BY <2>2, <2>4, <2>7
<1>3. n \in G
  <2> HIDE DEF G
  <2>1. \A m \in 0..n : m \in G
    BY <1>1, <1>2, Induction
  <2> QED BY <2>1
<1> QED BY <1>3 DEF Runs
-----------------------------------------------------------------------------
(* Walks. *)

Positions == [qty: Int, avg: Nat]
Books == [Symbols -> Positions]
Fills == [symbol: Symbols, qty: Int, px: Nat, period: Periods]
Walks == [book: Books, day: Int, week: Int]
Start(book) == [book |-> book, day |-> 0, week |-> 0]
Visit(w, f, kept) == IF f.symbol \in kept THEN Applied(w, f) ELSE w

\* u[n] is the walk after n fills.
Walked(u, book, fills, kept) ==
  /\ u \in [0..Len(fills) -> Walks]
  /\ u[0] = Start(book)
  /\ \A n \in 1..Len(fills) : u[n] = Visit(u[n - 1], fills[n], kept)

\* A weighted average of prices is a price.
LEMMA AverageType ==
  ASSUME NEW a \in Nat, NEW p \in Nat, NEW m \in Int, NEW n \in Int, m * n > 0
  PROVE  (a * Size(m) + p * Size(n)) \div Size(m + n) \in Nat
<1>1. Size(m) \in Nat /\ Size(n) \in Nat /\ Size(m + n) \in Nat
  BY DEF Size
<1>2. Size(m + n) # 0
  <2>1. m + n = 0 => m = -n
    OBVIOUS
  <2>2. m = -n => m * n <= 0
    OBVIOUS
  <2> QED BY <2>1, <2>2 DEF Size
<1>3. \A k, l \in Nat : k * l \in Nat
  OBVIOUS
<1>4. a * Size(m) + p * Size(n) \in Nat
  BY <1>1, <1>3
<1>5. \A k \in Nat, l \in Nat \ {0} : k \div l \in Nat
  OBVIOUS
<1>6. Size(m + n) \in Nat \ {0}
  BY <1>1, <1>2
<1> QED BY <1>4, <1>5, <1>6

\* A fill moves the position by its quantity, and keeps the types.
LEMMA FillMoves ==
  ASSUME NEW st \in Positions, NEW n \in Int, NEW px \in Nat
  PROVE  /\ applyFill(st, n, px).inv \in Positions
         /\ applyFill(st, n, px).inv.qty = st.qty + n
         /\ applyFill(st, n, px).realized \in Int
<1>1. st.qty \in Int /\ st.avg \in Nat /\ st = [qty |-> st.qty, avg |-> st.avg]
  BY DEF Positions
<1> DEFINE q == st.qty
           avg == (st.avg * Size(q) + px * Size(n)) \div Size(q + n)
<1>2. \A a, b \in Int : a * b \in Int
  OBVIOUS
<1>3. CASE q = 0
  <2>1. applyFill(st, n, px) = [inv |-> [qty |-> n, avg |-> px], realized |-> 0]
    <3>1. ~(q * n > 0) /\ ~(q * n < 0)
      BY <1>3
    <3> QED BY <1>3, <3>1, Zenon DEF applyFill
  <2> QED BY <1>1, <1>3, <2>1 DEF Positions
<1>4. CASE q # 0 /\ q * n > 0
  <2>1. avg \in Nat
    BY <1>1, <1>4, AverageType
  <2>2. applyFill(st, n, px) = [inv |-> [qty |-> q + n, avg |-> avg], realized |-> 0]
    <3>1. ~(q * n < 0)
      BY <1>1, <1>2, <1>4
    <3> QED BY <1>4, <3>1, Zenon DEF applyFill
  <2> HIDE DEF avg
  <2> QED BY <1>1, <2>1, <2>2 DEF Positions
<1>5. CASE q # 0 /\ ~(q * n > 0) /\ q * n < 0 /\ Size(n) < Size(q)
  <2>1. applyFill(st, n, px) =
          [inv |-> [st EXCEPT !.qty = @ + n], realized |-> (st.avg - px) * n]
    BY <1>5 DEF applyFill
  <2>2. [st EXCEPT !.qty = @ + n] = [qty |-> q + n, avg |-> st.avg]
    BY <1>1
  <2>3. (st.avg - px) * n \in Int
    BY <1>1, <1>2
  <2> QED BY <1>1, <2>1, <2>2, <2>3 DEF Positions
<1>6. CASE q # 0 /\ ~(q * n > 0) /\ ~(q * n < 0 /\ Size(n) < Size(q))
  <2>1. applyFill(st, n, px) =
          [inv |-> IF n = -q THEN Flat ELSE [qty |-> q + n, avg |-> px],
           realized |-> (px - st.avg) * q]
    BY <1>6 DEF applyFill
  <2>2. (px - st.avg) * q \in Int
    BY <1>1, <1>2
  <2> QED BY <1>1, <2>1, <2>2 DEF Positions, Flat
<1> QED BY <1>3, <1>4, <1>5, <1>6

LEMMA VisitMoves ==
  ASSUME NEW w \in Walks, NEW f \in Fills, NEW kept
  PROVE  /\ Visit(w, f, kept) \in Walks
         /\ \A s \in Symbols : Visit(w, f, kept).book[s].qty =
              w.book[s].qty + IF s = f.symbol /\ s \in kept THEN f.qty ELSE 0
<1>1. /\ f.symbol \in Symbols /\ f.qty \in Int /\ f.px \in Nat
      /\ w.book \in Books /\ w.day \in Int /\ w.week \in Int
      /\ \A s \in Symbols : w.book[s] \in Positions
  BY DEF Fills, Walks, Books
<1>2. \A s \in Symbols : w.book[s].qty \in Int
  BY <1>1 DEF Positions
<1> DEFINE done == applyFill(w.book[f.symbol], f.qty, f.px)
<1>3. /\ done.inv \in Positions /\ done.realized \in Int
      /\ done.inv.qty = w.book[f.symbol].qty + f.qty
  BY <1>1, FillMoves
<1> DEFINE day == w.day + IF f.period \in {period} THEN done.realized ELSE 0
           week == w.week + IF f.period \in IF period = 0 THEN {0} ELSE {1, 2}
                              THEN done.realized ELSE 0
<1>4. Applied(w, f) = [book |-> [w.book EXCEPT ![f.symbol] = done.inv],
                       day |-> day, week |-> week]
  BY DEF Applied
<1> HIDE DEF done
<1>5. day \in Int /\ week \in Int
  BY <1>1, <1>3
<1>6. [w.book EXCEPT ![f.symbol] = done.inv] \in Books
  BY <1>1, <1>3 DEF Books
<1> HIDE DEF day, week
<1>7. Applied(w, f) \in Walks
  BY <1>4, <1>5, <1>6 DEF Walks
<1>8. \A s \in Symbols :
        Applied(w, f).book[s].qty = w.book[s].qty + IF s = f.symbol THEN f.qty ELSE 0
  <2> SUFFICES ASSUME NEW s \in Symbols
               PROVE  Applied(w, f).book[s].qty =
                        w.book[s].qty + IF s = f.symbol THEN f.qty ELSE 0
    OBVIOUS
  <2>1. Applied(w, f).book[s] = IF s = f.symbol THEN done.inv ELSE w.book[s]
    BY <1>1, <1>4 DEF Books
  <2> QED BY <1>2, <1>3, <2>1
<1> QED BY <1>2, <1>7, <1>8 DEF Visit

LEMMA WalkIs ==
  ASSUME NEW book \in Books, NEW fills \in Seq(Fills), NEW kept
  PROVE  \E u : Walked(u, book, fills, kept) /\ WalkFrom(book, fills, kept) = u[Len(fills)]
<1> DEFINE N == Len(fills)
           Goes(g) == [n \in 0..N |->
                         IF n = 0 THEN [book |-> book, day |-> 0, week |-> 0]
                         ELSE IF fills[n].symbol \in kept
                                THEN Applied(g[n - 1], fills[n])
                         ELSE g[n - 1]]
           u == CHOOSE g : g = Goes(g)
<1>1. WalkFrom(book, fills, kept) = u[N]
  BY Zenon DEF WalkFrom
<1>2. N \in Nat /\ \A n \in 1..N : fills[n] \in Fills
  BY LenProperties, ElementOfSeq
<1> DEFINE step == [n \in 1..N |-> [w \in Walks |-> Visit(w, fills[n], kept)]]
<1> HIDE DEF N
<1>3. \A n \in 1..N, w \in Walks : step[n][w] \in Walks
  BY <1>2, VisitMoves
<1>4. Start(book) \in Walks
  BY DEF Start, Walks
<1>5. PICK f : Runs(f, N, Walks, Start(book), step)
  <2> HIDE DEF step
  <2> QED BY <1>2, <1>3, <1>4, RecursionExists
<1>6. /\ f \in [0..N -> Walks] /\ f[0] = Start(book)
      /\ \A n \in 1..N : f[n] = Visit(f[n - 1], fills[n], kept)
  <2>1. f \in [0..N -> Walks] /\ f[0] = Start(book)
        /\ \A n \in 1..N : f[n] = step[n][f[n - 1]]
    <3> HIDE DEF step
    <3> QED BY <1>5 DEF Runs
  <2>2. ASSUME NEW n \in 1..N PROVE f[n] = Visit(f[n - 1], fills[n], kept)
    <3>1. n - 1 \in 0..N
      BY <1>2
    <3>2. f[n - 1] \in Walks
      BY <2>1, <3>1
    <3> QED BY <2>1, <3>2
  <2> QED BY <2>1, <2>2
<1>7. f = Goes(f)
  <2>1. \A n \in 0..N : n = 0 \/ n \in 1..N
    BY <1>2
  <2>2. \A n \in 0..N : f[n] = Goes(f)[n]
    BY <1>6, <2>1 DEF Start, Visit
  <2> QED BY <1>6, <2>2
<1>8. u = Goes(u)
  <2> HIDE DEF Goes
  <2> QED BY <1>7
<1>9. /\ u[0] = Start(book)
      /\ \A n \in 1..N : u[n] = Visit(u[n - 1], fills[n], kept)
  <2>1. \A n \in 0..N : u[n] = Goes(u)[n]
    BY <1>8
  <2>2. 0 \in 0..N /\ \A n \in 1..N : n \in 0..N /\ n # 0
    BY <1>2
  <2> HIDE DEF u
  <2> QED BY <2>1, <2>2 DEF Start, Visit
<1>10. u = [n \in 0..N |-> u[n]]
  <2>1. u = Goes(u)
    BY <1>8
  <2> QED BY <2>1, Zenon
<1> HIDE DEF u, Goes
<1>11. \A m \in 0..N : u[m] \in Walks
  <2> DEFINE G == {m \in 0..N : u[m] \in Walks}
  <2>1. 0 \in G
    BY <1>2, <1>4, <1>9
  <2>2. \A m \in 0..N : m < N /\ m \in G => m + 1 \in G
    <3>1. ASSUME NEW m \in 0..N, m < N, u[m] \in Walks PROVE u[m + 1] \in Walks
      <4>1. m + 1 \in 1..N /\ (m + 1) - 1 = m
        BY <1>2, <3>1
      <4> QED BY <1>2, <1>9, <3>1, <4>1, VisitMoves
    <3>2. \A m \in 0..N : m < N => m + 1 \in 0..N
      BY <1>2
    <3> QED BY <3>1, <3>2
  <2>3. \A m \in 0..N : m \in G
    <3> HIDE DEF G
    <3> QED BY <1>2, <2>1, <2>2, Induction
  <2> QED BY <2>3
<1>12. Walked(u, book, fills, kept)
  BY <1>9, <1>10, <1>11 DEF Walked, N
<1> QED BY <1>1, <1>12 DEF N

LEMMA WalkType ==
  ASSUME NEW book \in Books, NEW fills \in Seq(Fills), NEW kept
  PROVE  WalkFrom(book, fills, kept) \in Walks
<1>1. PICK u : Walked(u, book, fills, kept)
                 /\ WalkFrom(book, fills, kept) = u[Len(fills)]
  BY WalkIs
<1>2. Len(fills) \in 0..Len(fills)
  BY LenProperties
<1> QED BY <1>1, <1>2 DEF Walked

\* The walk of the first n fills is where the whole walk is after n fills.
LEMMA WalkOfPart ==
  ASSUME NEW book \in Books, NEW fills \in Seq(Fills), NEW kept,
         NEW u, Walked(u, book, fills, kept), NEW n \in 0..Len(fills)
  PROVE  WalkFrom(book, SubSeq(fills, 1, n), kept) = u[n]
<1> DEFINE part == SubSeq(fills, 1, n)
<1>1. Len(fills) \in Nat /\ n \in Nat
  BY LenProperties
<1>2. /\ part \in Seq(Fills) /\ Len(part) = n
      /\ \A i \in 1..n : part[i] = fills[i]
  BY <1>1, SubSeqProperties
<1> HIDE DEF part
<1>3. PICK v : Walked(v, book, part, kept) /\ WalkFrom(book, part, kept) = v[n]
  BY <1>2, WalkIs
<1> DEFINE G == {m \in 0..n : v[m] = u[m]}
<1>4. 0 \in G
  BY <1>1, <1>3 DEF Walked
<1>5. \A m \in 0..n : m < n /\ m \in G => m + 1 \in G
  <2>1. ASSUME NEW m \in 0..n, m < n, v[m] = u[m] PROVE v[m + 1] = u[m + 1]
    <3>1. m + 1 \in 1..n /\ m + 1 \in 1..Len(fills) /\ (m + 1) - 1 = m
      BY <1>1, <2>1
    <3>2. /\ v[m + 1] = Visit(v[m], part[m + 1], kept)
          /\ u[m + 1] = Visit(u[m], fills[m + 1], kept)
      BY <1>2, <1>3, <3>1 DEF Walked
    <3> QED BY <1>2, <2>1, <3>1, <3>2
  <2>2. \A m \in 0..n : m < n => m + 1 \in 0..n
    BY <1>1
  <2> QED BY <2>1, <2>2
<1>6. \A m \in 0..n : m \in G
  <2> HIDE DEF G
  <2> QED BY <1>1, <1>4, <1>5, Induction
<1> QED BY <1>1, <1>3, <1>6 DEF part

\* Two walks that both count a symbol move it by the same.
LEMMA WalksApart ==
  ASSUME NEW b \in Books, NEW c \in Books, NEW fills \in Seq(Fills),
         NEW k, NEW l, NEW u, NEW v,
         Walked(u, b, fills, k), Walked(v, c, fills, l),
         NEW s \in Symbols, s \in k, s \in l
  PROVE  \A n \in 0..Len(fills) :
           u[n].book[s].qty - v[n].book[s].qty = b[s].qty - c[s].qty
<1> DEFINE N == Len(fills)
           G == {n \in 0..N :
                   u[n].book[s].qty - v[n].book[s].qty = b[s].qty - c[s].qty}
<1>1. N \in Nat /\ \A n \in 1..N : fills[n] \in Fills /\ fills[n].qty \in Int
  <2>1. N \in Nat /\ \A n \in 1..N : fills[n] \in Fills
    BY LenProperties, ElementOfSeq
  <2>2. \A f \in Fills : f.qty \in Int
    BY DEF Fills
  <2> QED BY <2>1, <2>2
<1> HIDE DEF N
<1>2. 0 \in G
  BY <1>1 DEF Walked, Start
<1>3. \A n \in 0..N : n < N /\ n \in G => n + 1 \in G
  <2>1. ASSUME NEW n \in 0..N, n < N,
               u[n].book[s].qty - v[n].book[s].qty = b[s].qty - c[s].qty
        PROVE  u[n + 1].book[s].qty - v[n + 1].book[s].qty = b[s].qty - c[s].qty
    <3>1. n + 1 \in 1..N /\ (n + 1) - 1 = n
      BY <1>1, <2>1
    <3>2. u[n] \in Walks /\ v[n] \in Walks
      BY <1>1, <2>1 DEF Walked, N
    <3>3. u[n].book[s].qty \in Int /\ v[n].book[s].qty \in Int
      BY <3>2 DEF Walks, Books, Positions
    <3> DEFINE q == IF s = fills[n + 1].symbol THEN fills[n + 1].qty ELSE 0
    <3>4. q \in Int
      BY <1>1, <3>1
    <3>5. /\ u[n + 1] = Visit(u[n], fills[n + 1], k)
          /\ v[n + 1] = Visit(v[n], fills[n + 1], l)
      BY <3>1 DEF Walked, N
    <3>6. u[n + 1].book[s].qty = u[n].book[s].qty + q
      BY <1>1, <3>1, <3>2, <3>5, VisitMoves
    <3>7. v[n + 1].book[s].qty = v[n].book[s].qty + q
      BY <1>1, <3>1, <3>2, <3>5, VisitMoves
    <3> HIDE DEF q
    <3> QED BY <2>1, <3>3, <3>4, <3>6, <3>7
  <2>2. \A n \in 0..N : n < N => n + 1 \in 0..N
    BY <1>1
  <2> QED BY <2>1, <2>2
<1>4. \A n \in 0..N : n \in G
  <2> HIDE DEF G
  <2> QED BY <1>1, <1>2, <1>3, Induction
<1> QED BY <1>4 DEF N

\* A flat position has no average that counts.
Alike(p, q) == p.qty = q.qty /\ (p.qty # 0 => p.avg = q.avg)

LEMMA FillAlike ==
  ASSUME NEW p \in Positions, NEW q \in Positions, Alike(p, q),
         NEW n \in Int, NEW px \in Nat
  PROVE  /\ Alike(applyFill(p, n, px).inv, applyFill(q, n, px).inv)
         /\ applyFill(p, n, px).realized = applyFill(q, n, px).realized
<1>1. CASE p.qty # 0
  <2>1. p = q
    BY <1>1 DEF Positions, Alike
  <2> QED BY <2>1 DEF Alike
<1>2. CASE p.qty = 0
  <2>1. p.qty = 0 /\ q.qty = 0
    BY <1>2 DEF Alike
  <2>2. p.qty * n = 0 /\ q.qty * n = 0
    BY <2>1
  <2>3. ~(p.qty * n > 0) /\ ~(q.qty * n > 0) /\ ~(p.qty * n < 0) /\ ~(q.qty * n < 0)
    BY <2>2
  <2>4. applyFill(p, n, px) = [inv |-> [qty |-> n, avg |-> px], realized |-> 0]
    BY <2>1, <2>3, Zenon DEF applyFill
  <2>5. applyFill(q, n, px) = [inv |-> [qty |-> n, avg |-> px], realized |-> 0]
    BY <2>1, <2>3, Zenon DEF applyFill
  <2> QED BY <2>4, <2>5 DEF Alike
<1> QED BY <1>1, <1>2

\* Walks over the same symbols from books that are alike in them realize the
\* same and stay alike.
LEMMA WalksAlike ==
  ASSUME NEW b \in Books, NEW c \in Books, NEW fills \in Seq(Fills), NEW kept,
         \A s \in Symbols : s \in kept => Alike(b[s], c[s])
  PROVE  /\ WalkFrom(b, fills, kept).day = WalkFrom(c, fills, kept).day
         /\ WalkFrom(b, fills, kept).week = WalkFrom(c, fills, kept).week
<1> DEFINE N == Len(fills)
           Same(w, x) == /\ w.day = x.day /\ w.week = x.week
                         /\ \A s \in Symbols : s \in kept => Alike(w.book[s], x.book[s])
<1>1. N \in Nat /\ \A n \in 1..N : fills[n] \in Fills
  BY LenProperties, ElementOfSeq
<1>2. PICK u : Walked(u, b, fills, kept) /\ WalkFrom(b, fills, kept) = u[N]
  BY WalkIs
<1>3. PICK v : Walked(v, c, fills, kept) /\ WalkFrom(c, fills, kept) = v[N]
  BY WalkIs
<1>4. ASSUME NEW w \in Walks, NEW x \in Walks, Same(w, x), NEW f \in Fills
      PROVE  Same(Visit(w, f, kept), Visit(x, f, kept))
  <2>1. CASE f.symbol \notin kept
    BY <1>4, <2>1 DEF Visit
  <2>2. CASE f.symbol \in kept
    <3> DEFINE t == f.symbol
               d == applyFill(w.book[t], f.qty, f.px)
               e == applyFill(x.book[t], f.qty, f.px)
               day(r) == IF f.period \in {period} THEN r ELSE 0
               week(r) == IF f.period \in IF period = 0 THEN {0} ELSE {1, 2} THEN r ELSE 0
    <3>1. /\ t \in Symbols /\ f.qty \in Int /\ f.px \in Nat
          /\ w.book \in Books /\ x.book \in Books
          /\ w.book[t] \in Positions /\ x.book[t] \in Positions
      BY DEF Fills, Walks, Books
    <3>2. Alike(w.book[t], x.book[t])
      BY <1>4, <2>2, <3>1
    <3>3. Alike(d.inv, e.inv) /\ d.realized = e.realized
      BY <3>1, <3>2, FillAlike
    <3>4. Visit(w, f, kept) = [book |-> [w.book EXCEPT ![t] = d.inv],
                               day |-> w.day + day(d.realized),
                               week |-> w.week + week(d.realized)]
      BY <2>2 DEF Visit, Applied
    <3>5. Visit(x, f, kept) = [book |-> [x.book EXCEPT ![t] = e.inv],
                               day |-> x.day + day(e.realized),
                               week |-> x.week + week(e.realized)]
      BY <2>2 DEF Visit, Applied
    <3> HIDE DEF d, e, day, week
    <3>6. ASSUME NEW s \in Symbols, s \in kept
          PROVE  Alike(Visit(w, f, kept).book[s], Visit(x, f, kept).book[s])
      <4>1. /\ Visit(w, f, kept).book[s] = IF s = t THEN d.inv ELSE w.book[s]
            /\ Visit(x, f, kept).book[s] = IF s = t THEN e.inv ELSE x.book[s]
        BY <3>1, <3>4, <3>5 DEF Books
      <4>2. Alike(w.book[s], x.book[s])
        BY <1>4, <3>6
      <4> QED BY <3>3, <4>1, <4>2
    <3>7. /\ Visit(w, f, kept).day = Visit(x, f, kept).day
          /\ Visit(w, f, kept).week = Visit(x, f, kept).week
      BY <1>4, <3>3, <3>4, <3>5
    <3> QED BY <3>6, <3>7
  <2> QED BY <2>1, <2>2
<1> HIDE DEF N
<1> DEFINE G == {n \in 0..N : Same(u[n], v[n])}
<1>5. 0 \in G
  BY <1>1, <1>2, <1>3 DEF Walked, Start
<1>6. \A n \in 0..N : n < N /\ n \in G => n + 1 \in G
  <2>1. ASSUME NEW n \in 0..N, n < N, Same(u[n], v[n]) PROVE Same(u[n + 1], v[n + 1])
    <3>1. n + 1 \in 1..N /\ (n + 1) - 1 = n
      BY <1>1, <2>1
    <3>2. u[n] \in Walks /\ v[n] \in Walks
      BY <1>2, <1>3, <2>1 DEF Walked, N
    <3>3. /\ u[n + 1] = Visit(u[n], fills[n + 1], kept)
          /\ v[n + 1] = Visit(v[n], fills[n + 1], kept)
      BY <1>2, <1>3, <3>1 DEF Walked, N
    <3> HIDE DEF Same
    <3> QED BY <1>1, <1>4, <2>1, <3>1, <3>2, <3>3
  <2>2. \A n \in 0..N : n < N => n + 1 \in 0..N
    BY <1>1
  <2> HIDE DEF Same
  <2> QED BY <2>1, <2>2
<1>7. Same(u[N], v[N])
  <2>1. \A n \in 0..N : n \in G
    <3> HIDE DEF G
    <3> QED BY <1>1, <1>5, <1>6, Induction
  <2> QED BY <1>1, <2>1
<1> QED BY <1>2, <1>3, <1>7
-----------------------------------------------------------------------------
(* Types. *)

LEMMA OldIs == /\ Old \subseteq Books
               /\ \A b \in Old, s \in Symbols : b[s].qty # 0 => b[s].avg > 0
BY InventoryAssumption DEF Books, Positions

LEMMA TypeIs ==
  TypeOK <=> /\ old \in Old /\ listed \in 0..Len(trades)
             /\ trades \in Seq(Fills) /\ rest \in Books
             /\ retained \in [Symbols -> Nat] /\ period \in Periods
BY DEF TypeOK, Fills, Books, Positions

LEMMA BookType ==
  ASSUME TypeOK, NEW n \in 0..Len(trades)
  PROVE  BookAfter(n) \in Books
<1>1. Len(trades) \in Nat /\ n \in Nat
  BY TypeIs, LenProperties
<1>2. SubSeq(trades, 1, n) \in Seq(Fills)
  BY <1>1, TypeIs, SubSeqProperties
<1>3. WalkFrom(old, SubSeq(trades, 1, n), Symbols) \in Walks
  BY <1>2, TypeIs, OldIs, WalkType
<1> QED BY <1>3 DEF BookAfter, Walks

LEMMA TypeStep == TypeOK /\ [Next]_vars => TypeOK'
<1> SUFFICES ASSUME TypeOK, [Next]_vars PROVE TypeOK'
  OBVIOUS
<1>1. /\ old \in Old /\ listed \in 0..Len(trades)
      /\ trades \in Seq(Fills) /\ rest \in Books
      /\ retained \in [Symbols -> Nat] /\ period \in Periods /\ Len(trades) \in Nat
  BY TypeIs, LenProperties
<1> SUFFICES /\ old' \in Old /\ listed' \in 0..Len(trades')
             /\ trades' \in Seq(Fills) /\ rest' \in Books
             /\ retained' \in [Symbols -> Nat] /\ period' \in Periods
  BY DEF TypeOK, Fills, Books, Positions
<1>2. ASSUME NEW t \in Trades, Execute(t)
      PROVE  /\ old' \in Old /\ listed' \in 0..Len(trades')
             /\ trades' \in Seq(Fills) /\ rest' \in Books
             /\ retained' \in [Symbols -> Nat] /\ period' \in Periods
  <2> DEFINE f == [symbol |-> t.symbol, qty |-> t.qty, px |-> t.px, period |-> period]
  <2>1. t \in [symbol: Symbols, qty: Int \ {0}, px: Nat \ {0}]
    BY InventoryAssumption
  <2>2. f \in Fills
    BY <1>1, <2>1 DEF Fills
  <2>3. trades' = Append(trades, f)
    BY <1>2 DEF Execute
  <2> HIDE DEF f
  <2>4. trades' \in Seq(Fills) /\ Len(trades') = Len(trades) + 1
    BY <1>1, <2>2, <2>3, AppendProperties
  <2> QED BY <1>1, <1>2, <2>4 DEF Execute
<1>3. CASE Lists
  BY <1>1, <1>3 DEF Lists
<1>4. ASSUME NEW omitted \in SUBSET Omits, Reconcile(omitted)
      PROVE  /\ old' \in Old /\ listed' \in 0..Len(trades')
             /\ trades' \in Seq(Fills) /\ rest' \in Books
             /\ retained' \in [Symbols -> Nat] /\ period' \in Periods
  <2> DEFINE book == BookAfter(Len(trades))
             snapshot == [s \in Symbols |-> IF s \in omitted
                                              THEN [book[s] EXCEPT !.avg = 0] ELSE book[s]]
  <2>1. book \in Books
    BY <1>1, BookType
  <2>2. \A s \in Symbols : book[s] \in Positions
    BY <2>1 DEF Books
  <2> HIDE DEF book
  <2>3. \A s \in Symbols : [book[s] EXCEPT !.avg = 0] \in Positions
    BY <2>2 DEF Positions
  <2>4. snapshot \in Books
    BY <2>2, <2>3 DEF Books
  <2>5. rest' = snapshot /\ retained' = Retained(snapshot)
    BY <1>4 DEF Reconcile, book
  <2> HIDE DEF snapshot
  <2>6. \A s \in Symbols : snapshot[s].avg \in Nat
    BY <2>4 DEF Books, Positions
  <2>7. Retained(snapshot) \in [Symbols -> Nat]
    BY <1>1, <2>6 DEF Retained
  <2> QED BY <1>1, <1>4, <2>4, <2>5, <2>7 DEF Reconcile
<1>5. CASE DayStarts
  BY <1>1, <1>5 DEF DayStarts, Periods
<1>6. CASE UNCHANGED vars
  BY <1>1, <1>6 DEF vars
<1> QED BY <1>2, <1>3, <1>4, <1>5, <1>6 DEF Next

LEMMA InitType == Init => TypeOK
<1> SUFFICES ASSUME Init PROVE TypeOK
  OBVIOUS
<1>1. old \in Books
  BY OldIs DEF Init
<1>2. \A s \in Symbols : old[s].avg \in Nat
  BY <1>1 DEF Books, Positions
<1>3. /\ listed \in 0..Len(trades) /\ trades \in Seq(Fills)
      /\ retained \in [Symbols -> Nat] /\ period \in Periods
  BY <1>2 DEF Init, Periods
<1> QED BY <1>1, <1>3, TypeIs DEF Init

\* Type correctness: whatever is executed, averaged and snapshot, quantities
\* stay whole and averages do not become negative (applyFill).
THEOREM TypeCorrect == Spec => []TypeOK
<1> QED BY InitType, TypeStep, PTL DEF Spec
-----------------------------------------------------------------------------
(* The figures.  Held is the account's book, End that of the fills alone, and *)
(* the walk that counts starts from Opens.                                    *)

Listed == SubSeq(trades, 1, listed)
Held == BookAfter(listed)
End == walkFills(Listed).book
Hints == [s \in Symbols |-> Hint(s, rest, retained)]
Opens == Opened(End, rest, Hints)
Bad == {s \in Symbols : Unreliable(s, End, rest, Hints)}
Lag == {s \in Symbols : SeedLag(s, End, rest, Hints)}
Good == {s \in Symbols \ (Lag \cup Bad) : Seeded(s, rest)}
Out == WalkFrom(Opens, Listed, Symbols \ Bad)

LEMMA FiguresAre ==
  Figures = [ok |-> /\ \A s \in Symbols \ Lag :
                         Out.book[s].qty = IF s \in Good THEN rest[s].qty ELSE 0
                    /\ ~(/\ Bad # {} /\ Good = {} /\ Lag = {}
                         /\ \A f \in ToSet(Listed) : f.symbol \in Bad),
             excluded |-> Bad, day |-> Out.day, week |-> Out.week]
BY Zenon DEF Figures, RealizedFromFillsWithHints, Listed, End, Hints, Opens, Bad, Lag,
             Good, Out

LEMMA BooksAre ==
  ASSUME TypeOK
  PROVE  /\ Listed \in Seq(Fills) /\ Len(Listed) = listed /\ listed \in Nat
         /\ Held \in Books /\ End \in Books /\ Opens \in Books
         /\ Zero \in Books /\ old \in Books /\ rest \in Books
         /\ \A s \in Symbols : Hints[s] \in Nat
<1>1. /\ old \in Books /\ rest \in Books /\ trades \in Seq(Fills)
      /\ listed \in 0..Len(trades) /\ Len(trades) \in Nat
      /\ retained \in [Symbols -> Nat]
  BY TypeIs, OldIs, LenProperties
<1>2. Listed \in Seq(Fills) /\ Len(Listed) = listed
  BY <1>1, SubSeqProperties DEF Listed
<1>3. Zero \in Books
  BY DEF Zero, Flat, Books, Positions
<1>4. Held \in Books
  BY <1>1, BookType DEF Held
<1>5. walkFills(Listed) \in Walks
  BY <1>2, <1>3, WalkType DEF walkFills
<1>6. End \in Books
  BY <1>5 DEF End, Walks
<1>7. \A s \in Symbols : Hints[s] \in Nat
  BY <1>1 DEF Hints, Hint
<1>8. ASSUME NEW s \in Symbols
      PROVE  (IF Bridged(s, End, rest, Hints)
                THEN [qty |-> rest[s].qty - End[s].qty,
                      avg |-> IF Seeded(s, rest) THEN rest[s].avg ELSE Hints[s]]
                ELSE Flat) \in Positions
  <2>1. /\ rest[s].qty \in Int /\ rest[s].avg \in Nat /\ End[s].qty \in Int
    BY <1>1, <1>6 DEF Books, Positions
  <2>2. rest[s].qty - End[s].qty \in Int
    BY <2>1
  <2> QED BY <1>7, <2>1, <2>2 DEF Positions, Flat
<1>9. Opens \in Books
  BY <1>8 DEF Opens, Opened, Books
<1> QED BY <1>1, <1>2, <1>3, <1>4, <1>6, <1>7, <1>9

LEMMA SameSide ==
  ASSUME NEW a \in Int, NEW b \in Int, NEW c \in Int, a * b > 0, b * c > 0
  PROVE  a * c > 0
<1>1. \A x, y \in Int : x * y > 0 <=> (x > 0 /\ y > 0) \/ (x < 0 /\ y < 0)
  <2> TAKE x \in Int, y \in Int
  <2>1. CASE x = 0
    BY <2>1
  <2>2. CASE y = 0
    BY <2>2
  <2>3. CASE x > 0 /\ y > 0
    BY <2>3
  <2>4. CASE x < 0 /\ y < 0
    BY <2>4
  <2>5. CASE x > 0 /\ y < 0
    BY <2>5
  <2>6. CASE x < 0 /\ y > 0
    BY <2>6
  <2> QED BY <2>1, <2>2, <2>3, <2>4, <2>5, <2>6
<1> QED BY <1>1

\* The account is ahead of the fills by what it held before the lookback.
LEMMA EndIs ==
  ASSUME TypeOK, NEW s \in Symbols
  PROVE  Held[s].qty - End[s].qty = old[s].qty
<1>1. /\ Listed \in Seq(Fills) /\ Len(Listed) \in Nat /\ Zero \in Books /\ old \in Books
  BY BooksAre
<1>2. PICK h : Walked(h, old, Listed, Symbols)
                 /\ WalkFrom(old, Listed, Symbols) = h[Len(Listed)]
  BY <1>1, WalkIs
<1>3. PICK e : Walked(e, Zero, Listed, Symbols)
                 /\ WalkFrom(Zero, Listed, Symbols) = e[Len(Listed)]
  BY <1>1, WalkIs
<1>4. h[Len(Listed)].book[s].qty - e[Len(Listed)].book[s].qty = old[s].qty - Zero[s].qty
  BY <1>1, <1>2, <1>3, WalksApart
<1>5. Zero[s].qty = 0 /\ old[s].qty \in Int
  BY <1>1 DEF Zero, Flat, Books, Positions
<1>6. Held = h[Len(Listed)].book /\ End = e[Len(Listed)].book
  BY <1>2, <1>3 DEF Held, BookAfter, End, walkFills, Listed
<1> QED BY <1>4, <1>5, <1>6

\* An old position that was only reduced is on its side at its average, or flat.
LEMMA ReducedIs ==
  ASSUME TypeOK, NEW s \in Symbols, old[s].qty # 0, OnlyReduced(s)
  PROVE  Held[s] = Flat \/ (Held[s].qty * old[s].qty > 0 /\ Held[s].avg = old[s].avg)
<1> DEFINE Stays(p) == p = Flat \/ (p.qty * old[s].qty > 0 /\ p.avg = old[s].avg)
           G == {n \in 0..listed : Stays(BookAfter(n)[s])}
<1>1. /\ listed \in Nat /\ listed \in 0..Len(trades) /\ Len(trades) \in Nat
      /\ old \in Books /\ trades \in Seq(Fills)
  BY BooksAre, TypeIs, LenProperties
<1>2. old[s].qty \in Int
  BY <1>1 DEF Books, Positions
<1>3. BookAfter(0) = old
  <2>1. PICK u : Walked(u, old, trades, Symbols)
    BY <1>1, WalkIs
  <2>2. WalkFrom(old, SubSeq(trades, 1, 0), Symbols) = u[0]
    BY <1>1, <2>1, WalkOfPart
  <2> QED BY <2>1, <2>2 DEF BookAfter, Walked, Start
<1>4. 0 \in G
  <2>1. old[s].qty * old[s].qty > 0
    BY <1>2
  <2> QED BY <1>1, <1>3, <2>1
<1>5. \A n \in 0..listed : n < listed /\ n \in G => n + 1 \in G
  <2>1. ASSUME NEW n \in 0..listed, n < listed, Stays(BookAfter(n)[s])
        PROVE  Stays(BookAfter(n + 1)[s])
    <3> DEFINE before == BookAfter(n)[s]
               after == BookAfter(n + 1)[s]
    <3>1. n + 1 \in 1..listed /\ (n + 1) - 1 = n
          /\ n \in 0..Len(trades) /\ n + 1 \in 0..Len(trades)
      BY <1>1, <2>1
    <3>2. before.qty \in Int /\ after.qty \in Int
      BY <3>1, BookType DEF Books, Positions
    <3>3. after \notin {before, Flat} => after.avg = before.avg /\ after.qty * before.qty > 0
      BY <3>1 DEF OnlyReduced
    <3> HIDE DEF before, after
    <3>4. CASE after \in {before, Flat}
      BY <2>1, <3>4 DEF before, after
    <3>5. CASE after \notin {before, Flat}
      <4>1. before # Flat
        <5>1. before = Flat => after.qty * before.qty = 0
          BY <3>2 DEF Flat
        <5> QED BY <3>2, <3>3, <3>5, <5>1
      <4>2. before.qty * old[s].qty > 0 /\ before.avg = old[s].avg
        BY <2>1, <4>1 DEF before
      <4>3. after.qty * old[s].qty > 0
        BY <1>2, <3>2, <3>3, <3>5, <4>2, SameSide
      <4>4. Stays(after)
        BY <3>3, <3>5, <4>2, <4>3
      <4> QED BY <4>4 DEF after
    <3> QED BY <3>4, <3>5
  <2>2. \A n \in 0..listed : n < listed => n + 1 \in 0..listed
    BY <1>1
  <2> HIDE DEF Stays
  <2> QED BY <2>1, <2>2
<1>6. listed \in G
  <2>1. \A n \in 0..listed : n \in G
    <3> HIDE DEF G
    <3> QED BY <1>1, <1>4, <1>5, Induction
  <2> HIDE DEF G
  <2> QED BY <1>1, <2>1
<1> QED BY <1>6 DEF Held

\* What the walk knows enough of it counts, from the book the account had.
LEMMA KnownCounts ==
  ASSUME TypeOK, NEW s \in Symbols, Known(s)
  PROVE  s \notin Bad /\ Alike(Opens[s], old[s])
<1> DEFINE o == old[s]
           h == Held[s]
           r == rest[s]
           e == End[s].qty
<1>1. /\ o \in Positions /\ h \in Positions /\ r \in Positions /\ e \in Int
      /\ o.qty \in Int /\ h.qty \in Int /\ r.qty \in Int /\ o.avg \in Nat
  BY BooksAre DEF Books, Positions
<1>2. h.qty - e = o.qty
  BY EndIs
<1>3. Bridged(s, End, rest, Hints) <=>
        IF r.qty # 0 THEN r.avg > 0 /\ (r.qty - e) * r.qty > 0
                     ELSE e # 0 /\ Hints[s] > 0
  BY DEF Bridged, Seeded
<1>4. Opens[s] = IF Bridged(s, End, rest, Hints)
                   THEN [qty |-> r.qty - e, avg |-> IF r.qty # 0 THEN r.avg ELSE Hints[s]]
                   ELSE Flat
  BY DEF Opens, Opened, Seeded
<1>5. s \in Bad => /\ e # r.qty /\ ~Bridged(s, End, rest, Hints)
                   /\ ~SeedLag(s, End, rest, Hints)
  BY DEF Bad, Unreliable
<1>6. Known(s) <=> IF o.qty = 0
                     THEN r.qty = h.qty \/ (r.qty * h.qty > 0 /\ Size(r.qty) < Size(h.qty))
                     ELSE /\ r = h /\ OnlyReduced(s)
                          /\ h.qty = 0 => retained[s] = o.avg
  BY DEF Known, Held
<1>7. r.qty # 0 /\ e # r.qty /\ ~Bridged(s, End, rest, Hints) /\ e * r.qty > 0 =>
        SeedLag(s, End, rest, Hints)
  BY DEF SeedLag, Seeded
<1>8. Hints[s] = IF r.qty # 0 THEN 0 ELSE retained[s]
  BY DEF Hints, Hint, Seeded
<1>9. o.qty # 0 => o.avg > 0
  BY OldIs DEF TypeOK
<1>10. o.qty # 0 /\ OnlyReduced(s) => h = Flat \/ (h.qty * o.qty > 0 /\ h.avg = o.avg)
  BY ReducedIs
<1> HIDE DEF o, h, r, e
<1>11. CASE o.qty = 0 /\ r.qty = h.qty
  <2>1. e = r.qty
    BY <1>1, <1>2, <1>11
  <2>2. (r.qty - e) * r.qty = 0
    BY <1>1, <2>1
  <2>3. ~Bridged(s, End, rest, Hints)
    BY <1>3, <2>1, <2>2
  <2> QED BY <1>4, <1>5, <1>11, <2>1, <2>3 DEF Alike, Flat, o
<1>12. CASE o.qty = 0 /\ r.qty * h.qty > 0 /\ Size(r.qty) < Size(h.qty)
  <2>1. e = h.qty
    BY <1>1, <1>2, <1>12
  <2>2. r.qty # 0
    <3>1. r.qty = 0 => r.qty * h.qty = 0
      BY <1>1
    <3> QED BY <1>1, <1>12, <3>1
  <2>3. e # r.qty
    BY <1>1, <1>12, <2>1 DEF Size
  <2>4. e * r.qty > 0
    BY <1>1, <1>12, <2>1
  <2>5. ~((r.qty - e) * r.qty > 0)
    <3>1. CASE r.qty > 0
      <4>1. h.qty > 0
        <5>1. ~(h.qty > 0) => r.qty * h.qty <= 0
          BY <1>1, <3>1
        <5> QED BY <1>1, <1>12, <5>1
      <4>2. r.qty - e < 0
        BY <1>1, <1>12, <2>1, <3>1, <4>1 DEF Size
      <4> QED BY <1>1, <3>1, <4>2
    <3>2. CASE r.qty < 0
      <4>1. h.qty < 0
        <5>1. ~(h.qty < 0) => r.qty * h.qty <= 0
          BY <1>1, <3>2
        <5> QED BY <1>1, <1>12, <5>1
      <4>2. r.qty - e > 0
        BY <1>1, <1>12, <2>1, <3>2, <4>1 DEF Size
      <4> QED BY <1>1, <3>2, <4>2
    <3> QED BY <1>1, <2>2, <3>1, <3>2
  <2>6. ~Bridged(s, End, rest, Hints)
    BY <1>3, <2>2, <2>5
  <2>7. s \notin Bad
    BY <1>5, <1>7, <2>2, <2>3, <2>4, <2>6
  <2> QED BY <1>4, <1>12, <2>6, <2>7 DEF Alike, Flat, o
<1>13. CASE o.qty # 0
  <2>1. r = h /\ (h = Flat \/ (h.qty * o.qty > 0 /\ h.avg = o.avg))
    BY <1>6, <1>10, <1>13
  <2>2. r.qty - e = o.qty
    BY <1>2, <2>1
  <2>3. CASE h = Flat
    <3>1. r.qty = 0 /\ h.qty = 0
      BY <2>1, <2>3 DEF Flat
    <3>2. Hints[s] = o.avg
      BY <1>6, <1>8, <1>13, <3>1
    <3>3. e # 0
      BY <1>1, <1>13, <2>2, <3>1
    <3>4. Bridged(s, End, rest, Hints)
      BY <1>3, <1>9, <1>13, <3>1, <3>2, <3>3
    <3>5. Opens[s] = [qty |-> o.qty, avg |-> o.avg]
      BY <1>4, <2>2, <3>1, <3>2, <3>4
    <3> QED BY <1>5, <3>4, <3>5 DEF Alike, o
  <2>4. CASE h.qty * o.qty > 0 /\ h.avg = o.avg
    <3>1. r.qty # 0
      <4>1. h.qty = 0 => h.qty * o.qty = 0
        BY <1>1
      <4> QED BY <1>1, <2>1, <2>4, <4>1
    <3>2. (r.qty - e) * r.qty > 0
      <4>1. o.qty * h.qty = h.qty * o.qty
        BY <1>1
      <4> QED BY <2>1, <2>2, <2>4, <4>1
    <3>3. Bridged(s, End, rest, Hints)
      BY <1>3, <1>9, <1>13, <2>1, <2>4, <3>1, <3>2
    <3>4. Opens[s] = [qty |-> o.qty, avg |-> o.avg]
      BY <1>4, <2>1, <2>2, <2>4, <3>1, <3>3
    <3> QED BY <1>5, <3>3, <3>4 DEF Alike, o
  <2> QED BY <2>1, <2>3, <2>4
<1> QED BY <1>6, <1>11, <1>12, <1>13

\* The walk that counts ends at the snapshot, but where it lags the fills.
LEMMA EndsAtSnapshot ==
  ASSUME TypeOK, NEW s \in Symbols \ Lag, s \notin Bad
  PROVE  Out.book[s].qty = IF s \in Good THEN rest[s].qty ELSE 0
<1> DEFINE N == Len(Listed)
<1>1. /\ Listed \in Seq(Fills) /\ N \in Nat /\ Zero \in Books /\ Opens \in Books
      /\ End \in Books /\ rest \in Books
  BY BooksAre
<1>2. PICK u : Walked(u, Opens, Listed, Symbols \ Bad) /\ Out = u[N]
  BY <1>1, WalkIs DEF Out
<1>3. PICK e : Walked(e, Zero, Listed, Symbols)
                 /\ WalkFrom(Zero, Listed, Symbols) = e[N]
  BY <1>1, WalkIs
<1>4. u[N].book[s].qty - e[N].book[s].qty = Opens[s].qty - Zero[s].qty
  BY <1>1, <1>2, <1>3, WalksApart
<1>5. End = e[N].book
  BY <1>3 DEF End, walkFills
<1>6. Out.book[s].qty \in Int
  <2>1. Out \in Walks
    BY <1>1, WalkType DEF Out
  <2> QED BY <2>1 DEF Walks, Books, Positions
<1>7. /\ End[s].qty \in Int /\ rest[s].qty \in Int /\ Zero[s].qty = 0
      /\ Opens[s].qty \in Int
  BY <1>1 DEF Books, Positions, Zero, Flat
<1>8. Out.book[s].qty = Opens[s].qty + End[s].qty
  BY <1>2, <1>4, <1>5, <1>6, <1>7
<1>9. s \in Good <=> rest[s].qty # 0
  BY DEF Good, Seeded
<1>10. CASE Bridged(s, End, rest, Hints)
  <2>1. Opens[s].qty = rest[s].qty - End[s].qty
    BY <1>10 DEF Opens, Opened
  <2> QED BY <1>7, <1>8, <1>9, <2>1
<1>11. CASE ~Bridged(s, End, rest, Hints)
  <2>1. Opens[s].qty = 0
    BY <1>11 DEF Opens, Opened, Flat
  <2>2. ~SeedLag(s, End, rest, Hints) /\ ~Unreliable(s, End, rest, Hints)
    BY DEF Lag, Bad
  <2>3. End[s].qty = rest[s].qty
    BY <1>11, <2>2 DEF Unreliable
  <2> QED BY <1>7, <1>8, <1>9, <2>1, <2>3
<1> QED BY <1>10, <1>11

\* The figures are the account's, for every history of the account: the walk
\* counts each symbol it knows enough of, from the book it had before the
\* lookback, and what it lacks of one symbol does not touch the others
\* (RealizedFromFillsWithHints).
THEOREM FiguresExact == Spec => []RealizedExact
<1>1. TypeOK => RealizedExact
  <2> SUFFICES ASSUME TypeOK PROVE RealizedExact
    OBVIOUS
  <2> DEFINE true == WalkFrom(old, Listed, Symbols \ Bad)
  <2>1. \A s \in Symbols : Known(s) => s \in Symbols \ Bad
    BY KnownCounts
  <2>2. (\A s \in Symbols : Known(s)) => Figures.ok
    <3> SUFFICES ASSUME \A s \in Symbols : Known(s) PROVE Figures.ok
      OBVIOUS
    <3>1. Bad = {}
      <4>1. Bad \subseteq Symbols
        BY DEF Bad
      <4> QED BY <2>1, <4>1
    <3>2. \A s \in Symbols \ Lag :
            Out.book[s].qty = IF s \in Good THEN rest[s].qty ELSE 0
      BY <3>1, EndsAtSnapshot
    <3> QED BY <3>1, <3>2, FiguresAre
  <2>3. (\A s \in Symbols \ Bad : Known(s)) => Out.day = true.day /\ Out.week = true.week
    <3> SUFFICES ASSUME \A s \in Symbols \ Bad : Known(s)
                 PROVE  Out.day = true.day /\ Out.week = true.week
      OBVIOUS
    <3>1. \A s \in Symbols : s \in Symbols \ Bad => Alike(Opens[s], old[s])
      BY KnownCounts
    <3>2. Listed \in Seq(Fills) /\ Opens \in Books /\ old \in Books
      BY BooksAre
    <3> QED BY <3>1, <3>2, WalksAlike DEF Out
  <2>4. Figures.excluded = Bad /\ Figures.day = Out.day /\ Figures.week = Out.week
    BY FiguresAre
  <2> QED BY <2>1, <2>2, <2>3, <2>4 DEF RealizedExact, Listed
<1> QED BY <1>1, TypeCorrect, PTL
=============================================================================
