------------------------- MODULE ChartView_proofs -------------------------
(***************************************************************************)
(* Theorems about ChartView.                                               *)
(***************************************************************************)
EXTENDS ChartView, FiniteSetTheorems, SequenceTheorems, TLAPS
-----------------------------------------------------------------------------
(* Induction and recursion up to a bound, over sets and functions. *)

LEMMA Induction ==
  ASSUME NEW n \in Nat, NEW G, 0 \in G,
         \A m \in 0..n : m < n /\ m \in G => m + 1 \in G
  PROVE  \A m \in 0..n : m \in G
<1> DEFINE B == {m \in 0..n : m \notin G}
<1>1. SUFFICES ASSUME B # {} PROVE FALSE
  OBVIOUS
<1>2. B \in SUBSET Nat
  OBVIOUS
<1>3. PICK m \in B : \A k \in B : <<k, m>> \notin OpToRel(<, Nat)
  <2> HIDE DEF B
  <2> QED BY <1>1, <1>2, WFMin, NatLessThanWellFounded, Zenon
<1>4. \A k \in B : ~(k < m)
  <2> HIDE DEF B
  <2> QED BY <1>2, <1>3 DEF OpToRel
<1>5. m \in 0..n /\ m \notin G /\ m # 0
  BY <1>3
<1>6. m - 1 \in 0..n /\ m - 1 < m /\ (m - 1) + 1 = m
  BY <1>5
<1>7. m - 1 \in G
  BY <1>4, <1>6
<1> QED BY <1>5, <1>6, <1>7

\* A function is defined by its start and its steps.
Runs(f, n, A, b, step) ==
  f \in [0..n -> A] /\ f[0] = b /\ \A i \in 1..n : f[i] = step[i][f[i - 1]]

LEMMA RecursionExists ==
  ASSUME NEW A, NEW n \in Nat, NEW b \in A, NEW step,
         \A i \in 1..n, a \in A : step[i][a] \in A
  PROVE  \E f : Runs(f, n, A, b, step)
<1> DEFINE Fits(f, m) == f[0] = b /\ \A i \in 1..m : f[i] = step[i][f[i - 1]]
           G == {m \in 0..n : \E f \in [0..m -> A] : Fits(f, m)}
<1>1. 0 \in G
  <2> DEFINE f == [i \in 0..0 |-> b]
  <2>1. f \in [0..0 -> A] /\ Fits(f, 0) /\ 0 \in 0..n
    OBVIOUS
  <2> HIDE DEF f, Fits
  <2> QED BY <2>1
<1>2. ASSUME NEW m \in 0..n, m < n, m \in G
      PROVE  m + 1 \in G
  <2>1. PICK f \in [0..m -> A] : Fits(f, m)
    BY <1>2
  <2> DEFINE g == [i \in 0..(m + 1) |-> IF i = m + 1 THEN step[m + 1][f[m]] ELSE f[i]]
  <2>2. m + 1 \in 1..n /\ m + 1 \in 0..n /\ m \in 0..m /\ m \in Int
    BY <1>2
  <2>3. f[m] \in A /\ step[m + 1][f[m]] \in A
    BY <2>2
  <2>4. g \in [0..(m + 1) -> A]
    BY <2>2, <2>3
  <2>5. \A i \in 0..m : g[i] = f[i]
    BY <2>2
  <2>6. g[m + 1] = step[m + 1][f[m]]
    BY <2>2
  <2>7. Fits(g, m + 1)
    <3>1. g[0] = b
      BY <2>1, <2>2, <2>5
    <3>2. ASSUME NEW i \in 1..(m + 1) PROVE g[i] = step[i][g[i - 1]]
      <4> HIDE DEF g
      <4>1. i - 1 \in 0..m
        BY <2>2
      <4>2. CASE i = m + 1
        BY <2>2, <2>5, <2>6, <4>1, <4>2
      <4>3. CASE i # m + 1
        <5>1. i \in 1..m /\ i \in 0..m
          BY <2>2, <4>3
        <5> QED BY <2>1, <2>5, <4>1, <5>1
      <4> QED BY <4>2, <4>3
    <3> QED BY <3>1, <3>2
  <2> HIDE DEF g, Fits
  <2> QED BY <2>2, <2>4, <2>7
<1>3. n \in G
  <2> HIDE DEF G
  <2>1. \A m \in 0..n : m \in G
    BY <1>1, <1>2, Induction
  <2> QED BY <2>1
<1> QED BY <1>3 DEF Runs
-----------------------------------------------------------------------------
\* A set of naturals has a least element.
LEMMA LeastOf ==
  ASSUME NEW S \in SUBSET Nat, S # {}
  PROVE  \E n \in S : \A m \in S : n <= m
<1>1. \E n \in S : \A m \in S : <<m, n>> \notin OpToRel(<, Nat)
  BY WFMin, NatLessThanWellFounded, Zenon
<1>2. PICK n \in S : \A m \in S : <<m, n>> \notin OpToRel(<, Nat)
  BY <1>1
<1>3. \A m \in S : ~(m < n)
  BY <1>2 DEF OpToRel
<1> QED BY <1>3

\* And one with an upper bound has a greatest.
LEMMA GreatestOf ==
  ASSUME NEW N \in Nat, NEW S \in SUBSET (0..N), S # {}
  PROVE  \E n \in S : \A m \in S : m <= n
<1> DEFINE T == {N - s : s \in S}
<1>1. T \in SUBSET Nat
  <2> SUFFICES ASSUME NEW s \in S PROVE N - s \in Nat
    OBVIOUS
  <2> QED BY s \in 0..N
<1>2. T # {}
  BY S # {}, Zenon
<1>3. PICK t \in T : \A u \in T : t <= u
  <2> HIDE DEF T
  <2> QED BY <1>1, <1>2, LeastOf
<1>4. PICK n \in S : t = N - n
  BY <1>3
<1>5. \A m \in S : N - n <= N - m
  BY <1>3, <1>4
<1>6. \A m \in S : m <= n
  BY <1>5
<1> QED BY <1>6

-----------------------------------------------------------------------------
LEMMA Uniq ==
  ASSUME NEW c \in Nat \ {0}, NEW q \in Nat, NEW r \in 0..(c - 1)
  PROVE  /\ (c * q + r) % c = r /\ (c * q + r) \div c = q
  OBVIOUS
LEMMA DivMonotone ==
  ASSUME NEW c \in Nat \ {0}, NEW x \in Nat, NEW y \in Nat, x <= y
  PROVE  x \div c <= y \div c
  OBVIOUS
LEMMA DivMod ==
  ASSUME NEW c \in Nat \ {0}, NEW x \in Nat
  PROVE  /\ x % c \in 0..(c - 1) /\ x \div c \in Nat
         /\ x = c * (x \div c) + (x % c)
  OBVIOUS
LEMMA BucketIs ==
  ASSUME NEW c \in Nat \ {0}, NEW x \in Nat
  PROVE  /\ Bucket(c, x) \in 0..x /\ x - Bucket(c, x) < c
         /\ Bucket(c, x) = c * (x \div c)
  BY DEF Bucket
LEMMA TimesMonotone ==
  ASSUME NEW c \in Nat, NEW p \in Nat, NEW q \in Nat, p <= q
  PROVE  c * p <= c * q
  OBVIOUS
LEMMA BucketMonotone ==
  ASSUME NEW c \in Nat \ {0}, NEW x \in Nat, NEW y \in Nat, x <= y
  PROVE  Bucket(c, x) <= Bucket(c, y)
<1>1. x \div c \in Nat /\ y \div c \in Nat /\ x \div c <= y \div c
  BY DivMonotone, DivMod
<1> QED BY <1>1, TimesMonotone, BucketIs
LEMMA BucketNested ==
  ASSUME NEW c \in Nat \ {0}, NEW m \in Nat \ {0}, NEW x \in Nat, c % m = 0
  PROVE  Bucket(c, Bucket(m, x)) = Bucket(c, x)
<1> DEFINE k == c \div m
           q == x \div c
           y == Bucket(m, x)
<1>1. k \in Nat /\ q \in Nat /\ c = m * k
  BY DivMod
<1>2. c * q <= x /\ x - c * q < c
  BY DivMod
<1>3. y \in 0..x /\ y = m * (x \div m) /\ x \div m \in Nat
  BY BucketIs, DivMod
<1>4. Bucket(c, x) = c * q
  BY BucketIs
<1> HIDE DEF k, q, y
<1>5. c * q = m * (k * q) /\ k * q \in Nat
  BY <1>1
<1>6. (m * (k * q)) \div m = k * q
  BY <1>5, Uniq, m * (k * q) = m * (k * q) + 0
<1>7. k * q <= x \div m
  BY <1>2, <1>5, <1>6, DivMonotone
<1>8. c * q <= y
  BY <1>3, <1>5, <1>7, TimesMonotone
<1>9. y \div c = q
  <2>1. y - c * q \in 0..(c - 1) /\ c * q \in Nat
    BY <1>1, <1>2, <1>3, <1>8
  <2>2. (c * q + (y - c * q)) \div c = q
    BY <2>1, <1>1, Uniq
  <2>3. c * q + (y - c * q) = y
    BY <2>1, <1>3
  <2> QED BY <2>2, <2>3
<1>10. Bucket(c, y) = c * (y \div c)
  <2>1. y \in Nat
    BY <1>3
  <2> QED BY <2>1, BucketIs
<1> QED BY <1>4, <1>9, <1>10 DEF y

LEMMA ModSmall ==
  ASSUME NEW c \in Nat \ {0}, NEW s \in 0..(c - 1), NEW k \in 0..c
  PROVE  (s + k) % c = IF s + k < c THEN s + k ELSE s + k - c
  OBVIOUS

Cell(r, k) == r.slots[At(r, k)]
Rings(E) ==
  {r \in [slots: [Slots -> E \cup {NoCandle}], start: Slots, count: 0..RingCap] :
     \A k \in 0..(r.count - 1) : Cell(r, k) \in E}

LEMMA AtIs ==
  ASSUME NEW r, r.start \in Slots, NEW k \in 0..RingCap
  PROVE  /\ At(r, k) \in Slots
         /\ At(r, k) = IF r.start + k < RingCap THEN r.start + k
                                                ELSE r.start + k - RingCap
<1>1. RingCap \in Nat \ {0} /\ r.start \in 0..(RingCap - 1)
  BY RingAssumption DEF Slots
<1>2. At(r, k) = IF r.start + k < RingCap THEN r.start + k
                                          ELSE r.start + k - RingCap
  BY <1>1, ModSmall DEF At
<1> QED BY <1>1, <1>2 DEF Slots

LEMMA PushIs ==
  ASSUME NEW E, NoCandle \notin E, NEW r \in Rings(E), NEW e \in E
  PROVE  LET q == Push(r, e) IN
         /\ q \in Rings(E)
         /\ r.count < RingCap =>
              /\ q.count = r.count + 1
              /\ \A k \in 0..(r.count - 1) : Cell(q, k) = Cell(r, k)
              /\ Cell(q, r.count) = e
         /\ ~(r.count < RingCap) =>
              /\ q.count = r.count
              /\ \A k \in 0..(r.count - 2) : Cell(q, k) = Cell(r, k + 1)
              /\ Cell(q, r.count - 1) = e
<1> DEFINE q == Push(r, e)
<1>1. /\ r \in [slots: [Slots -> E \cup {NoCandle}], start: Slots, count: 0..RingCap]
      /\ \A k \in 0..(r.count - 1) : Cell(r, k) \in E
  BY DEF Rings
<1>2. RingCap \in Nat \ {0} /\ r.count \in 0..RingCap /\ r.start \in Slots
  BY <1>1, RingAssumption
<1>3. \A k \in 0..RingCap :
        /\ At(r, k) \in Slots
        /\ At(r, k) = IF r.start + k < RingCap THEN r.start + k
                                               ELSE r.start + k - RingCap
  BY <1>2, AtIs
<1>4. CASE r.count < RingCap
  <2>1. q = [r EXCEPT !.slots[At(r, r.count)] = e, !.count = @ + 1]
    BY <1>4 DEF Push
  <2>3. /\ q.start = r.start /\ q.count = r.count + 1
        /\ q.slots = [r.slots EXCEPT ![At(r, r.count)] = e]
        /\ q = [slots |-> q.slots, start |-> q.start, count |-> q.count]
    BY <2>1, <1>1
  <2>2. q \in [slots: [Slots -> E \cup {NoCandle}], start: Slots, count: 0..RingCap]
    <3>1. q.slots \in [Slots -> E \cup {NoCandle}]
      BY <2>3, <1>1
    <3>2. q.count \in 0..RingCap
      BY <2>3, <1>2, <1>4
    <3> HIDE DEF q
    <3> QED BY <2>3, <3>1, <3>2, <1>2
  <2>4. \A k \in 0..RingCap : At(q, k) = At(r, k)
    BY <2>3 DEF At
  <2>5. \A k \in 0..(r.count - 1) : At(r, k) # At(r, r.count)
    <3> SUFFICES ASSUME NEW k \in 0..(r.count - 1) PROVE At(r, k) # At(r, r.count)
      OBVIOUS
    <3>1. k \in 0..RingCap /\ r.count \in 0..RingCap /\ k < r.count
      BY <1>2
    <3>2. /\ At(r, k) = IF r.start + k < RingCap THEN r.start + k
                                                 ELSE r.start + k - RingCap
          /\ At(r, r.count) = IF r.start + r.count < RingCap THEN r.start + r.count
                                                 ELSE r.start + r.count - RingCap
      BY <3>1, <1>3
    <3> QED BY <3>1, <3>2, <1>2, <1>4 DEF Slots
  <2>6. \A k \in 0..(r.count - 1) : Cell(q, k) = Cell(r, k)
    BY <2>3, <2>4, <2>5, <1>1, <1>2, <1>3 DEF Cell
  <2>7. Cell(q, r.count) = e
    BY <2>3, <2>4, <1>1, <1>2, <1>3 DEF Cell
  <2>8. \A k \in 0..(q.count - 1) : Cell(q, k) \in E
    BY <2>3, <2>6, <2>7, <1>1, <1>2
  <2> QED BY <1>4, <2>2, <2>3, <2>6, <2>7, <2>8 DEF Rings
<1>5. CASE ~(r.count < RingCap)
  <2>1. q = [r EXCEPT !.slots[r.start] = e, !.start = At(r, 1)] /\ r.count = RingCap
    BY <1>2, <1>5 DEF Push
  <2>3. /\ q.start = At(r, 1) /\ q.count = r.count
        /\ q.slots = [r.slots EXCEPT ![r.start] = e]
        /\ q = [slots |-> q.slots, start |-> q.start, count |-> q.count]
    BY <2>1, <1>1
  <2>2. q \in [slots: [Slots -> E \cup {NoCandle}], start: Slots, count: 0..RingCap]
    <3>1. q.slots \in [Slots -> E \cup {NoCandle}]
      BY <2>3, <1>1
    <3>2. 1 \in 0..RingCap
      BY <1>2
    <3>3. q.start \in Slots
      BY <2>3, <3>2, <1>3
    <3> HIDE DEF q
    <3> QED BY <2>3, <3>1, <3>3, <1>2
  <2>4. \A k \in 0..(RingCap - 1) : At(q, k) = At(r, k + 1)
    <3>1. q.start \in Slots
      BY <2>2
    <3>2. \A k \in 0..RingCap :
            At(q, k) = IF q.start + k < RingCap THEN q.start + k
                                                ELSE q.start + k - RingCap
      BY <3>1, AtIs
    <3>3. \A k \in 0..(RingCap - 1) : k + 1 \in 0..RingCap /\ k \in 0..RingCap
      BY <1>2
    <3>4. q.start = IF r.start + 1 < RingCap THEN r.start + 1
                                             ELSE r.start + 1 - RingCap
      BY <1>2, <1>3, <2>3
    <3> SUFFICES ASSUME NEW k \in 0..(RingCap - 1) PROVE At(q, k) = At(r, k + 1)
      OBVIOUS
    <3>5. At(q, k) = IF q.start + k < RingCap THEN q.start + k
                                              ELSE q.start + k - RingCap
      BY <3>2, <3>3
    <3>6. At(r, k + 1) = IF r.start + (k + 1) < RingCap THEN r.start + (k + 1)
                                                    ELSE r.start + (k + 1) - RingCap
      BY <3>3, <1>3
    <3> HIDE DEF q
    <3> QED BY <3>4, <3>5, <3>6, <1>2 DEF Slots
  <2>5. At(r, RingCap) = r.start /\ \A k \in 1..(RingCap - 1) : At(r, k) # r.start
    BY <1>2, <1>3 DEF Slots
  <2>6. \A k \in 0..(RingCap - 2) : Cell(q, k) = Cell(r, k + 1)
    <3>1. \A k \in 0..(RingCap - 2) : k + 1 \in 1..(RingCap - 1) /\ k \in 0..(RingCap - 1)
                                      /\ k + 1 \in 0..RingCap
      BY <1>2
    <3> QED BY <3>1, <2>3, <2>4, <2>5, <1>1, <1>2, <1>3 DEF Cell
  <2>7. Cell(q, RingCap - 1) = e
    BY <2>3, <2>4, <2>5, <1>1, <1>2, <1>3 DEF Cell
  <2>8. \A k \in 0..(q.count - 1) : Cell(q, k) \in E
    <3>1. \A k \in 0..(RingCap - 1) :
            k = RingCap - 1 \/ (k \in 0..(RingCap - 2) /\ k + 1 \in 0..(RingCap - 1))
      BY <1>2
    <3> QED BY <3>1, <2>1, <2>3, <2>6, <2>7, <1>1, <1>2
  <2> QED BY <1>5, <2>1, <2>2, <2>3, <2>6, <2>7, <2>8 DEF Rings
<1> QED BY <1>4, <1>5

LEMMA PopIs ==
  ASSUME NEW E, NEW r \in Rings(E), r.count > 0
  PROVE  LET q == PopLast(r) IN
         /\ q \in Rings(E) /\ q.count = r.count - 1
         /\ \A k \in 0..(r.count - 1) : Cell(q, k) = Cell(r, k)
<1> DEFINE q == PopLast(r)
<1>1. /\ r \in [slots: [Slots -> E \cup {NoCandle}], start: Slots, count: 0..RingCap]
      /\ \A k \in 0..(r.count - 1) : Cell(r, k) \in E
  BY DEF Rings
<1>2. RingCap \in Nat /\ r.count \in 1..RingCap
  BY <1>1, RingAssumption
<1>3. /\ q \in [slots: [Slots -> E \cup {NoCandle}], start: Slots, count: 0..RingCap]
      /\ q.start = r.start /\ q.slots = r.slots /\ q.count = r.count - 1
  BY <1>1, <1>2 DEF PopLast
<1>4. \A k : Cell(q, k) = Cell(r, k)
  BY <1>3 DEF Cell, At
<1>5. \A k \in 0..(q.count - 1) : k \in 0..(r.count - 1)
  BY <1>2, <1>3
<1> QED BY <1>1, <1>3, <1>4, <1>5 DEF Rings

Written(r, m, e) == [r EXCEPT !.slots[At(r, m)] = e]

\* A held cell is written: no other held one changes.
LEMMA WriteIs ==
  ASSUME NEW E, NEW r \in Rings(E), NEW m \in 0..(r.count - 1), NEW e \in E
  PROVE  LET q == Written(r, m, e) IN
         /\ q \in Rings(E) /\ q.count = r.count
         /\ \A k \in 0..(r.count - 1) :
              Cell(q, k) = IF k = m THEN e ELSE Cell(r, k)
<1> DEFINE q == Written(r, m, e)
<1>1. /\ r \in [slots: [Slots -> E \cup {NoCandle}], start: Slots, count: 0..RingCap]
      /\ \A k \in 0..(r.count - 1) : Cell(r, k) \in E
  BY DEF Rings
<1>2. RingCap \in Nat \ {0} /\ r.count \in 0..RingCap /\ r.start \in Slots
  BY <1>1, RingAssumption
<1>3. \A k \in 0..RingCap :
        /\ At(r, k) \in Slots
        /\ At(r, k) = IF r.start + k < RingCap THEN r.start + k
                                               ELSE r.start + k - RingCap
  BY <1>2, AtIs
<1>4. /\ q \in [slots: [Slots -> E \cup {NoCandle}], start: Slots, count: 0..RingCap]
      /\ q.start = r.start /\ q.count = r.count
      /\ q.slots = [r.slots EXCEPT ![At(r, m)] = e]
  BY <1>1, <1>2, <1>3 DEF Written
<1>5. \A k \in 0..(r.count - 1) : k # m => At(r, k) # At(r, m)
  BY <1>2, <1>3 DEF Slots
<1>6. \A k \in 0..(r.count - 1) : Cell(q, k) = IF k = m THEN e ELSE Cell(r, k)
  <2>1. \A k : At(q, k) = At(r, k)
    BY <1>4 DEF At
  <2> QED BY <2>1, <1>1, <1>2, <1>3, <1>4, <1>5 DEF Cell
<1> QED BY <1>1, <1>4, <1>6 DEF Rings
-----------------------------------------------------------------------------
(* A series. *)

SeriesOf(T) == [ring: Rings(Entries(T)), forming: Candles(T) \cup {NoCandle},
                fed: Seq(T \cup {NoCandle})]

LEMMA ZeroValue ==
  ASSUME NEW T \in SUBSET Prints
  PROVE  NoCandle \notin Candles(T) /\ NoCandle \notin Entries(T)
<1>1. Candles(T) \subseteq Candles(Prints)
  BY DEF Candles
<1>2. Seq(T \cup {NoCandle}) \subseteq Seq(Prints \cup {NoCandle})
  OBVIOUS
<1>3. Entries(T) \subseteq Entries(Prints)
  BY <1>1, <1>2 DEF Entries
<1> QED BY <1>1, <1>3, NoCandleAssumption

\* More prints, more candles.
LEMMA Wider ==
  ASSUME NEW U, NEW T \in SUBSET U
  PROVE  SeriesOf(T) \subseteq SeriesOf(U)
<1>1. Candles(T) \subseteq Candles(U)
  BY DEF Candles
<1>2. Seq(T \cup {NoCandle}) \subseteq Seq(U \cup {NoCandle})
  OBVIOUS
<1>3. Entries(T) \subseteq Entries(U)
  BY <1>1, <1>2 DEF Entries
<1>4. Rings(Entries(T)) \subseteq Rings(Entries(U))
  <2> DEFINE E == Entries(T)
             F == Entries(U)
  <2>1. E \subseteq F
    BY <1>3
  <2> HIDE DEF E, F
  <2>2. Rings(E) \subseteq Rings(F)
    BY <2>1 DEF Rings
  <2> QED BY <2>2 DEF E, F
<1> QED BY <1>1, <1>2, <1>4 DEF SeriesOf

Size(s) == s.ring.count + IF s.forming = NoCandle THEN 0 ELSE 1

LEMMA BarsAre ==
  ASSUME NEW T \in SUBSET Prints, NEW s \in SeriesOf(T)
  PROVE  /\ s.ring.count \in Nat /\ Size(s) \in Nat
         /\ Bars(s) \in Seq(Candles(T)) /\ Len(Bars(s)) = Size(s)
         /\ \A k \in 1..s.ring.count : Bars(s)[k] = Cell(s.ring, k - 1).bar
         /\ s.forming # NoCandle => Bars(s)[s.ring.count + 1] = s.forming
<1> DEFINE c == s.ring.count
           cells == [k \in 1..c |-> Held(s.ring)[k].bar]
           last == IF s.forming = NoCandle THEN <<>> ELSE <<s.forming>>
<1>1. /\ s.ring \in Rings(Entries(T)) /\ c \in 0..RingCap
      /\ s.forming \in Candles(T) \cup {NoCandle}
      /\ \A k \in 0..(c - 1) : Cell(s.ring, k) \in Entries(T)
  BY DEF SeriesOf, Rings
<1>2. c \in Nat
  BY <1>1, RingAssumption
<1>3. \A k \in 1..c : cells[k] = Cell(s.ring, k - 1).bar /\ cells[k] \in Candles(T)
  <2> SUFFICES ASSUME NEW k \in 1..c
               PROVE  cells[k] = Cell(s.ring, k - 1).bar /\ cells[k] \in Candles(T)
    OBVIOUS
  <2>1. k - 1 \in 0..(c - 1)
    BY <1>2
  <2>2. cells[k] = Cell(s.ring, k - 1).bar
    BY DEF Held, Cell
  <2> QED BY <2>1, <2>2, <1>1 DEF Entries
<1>4. cells \in Seq(Candles(T)) /\ Len(cells) = c
  <2>1. cells \in [1..c -> Candles(T)]
    BY <1>3
  <2> QED BY <2>1, <1>2
<1>5. last \in Seq(Candles(T)) /\ Len(last) = Size(s) - c
      /\ (s.forming # NoCandle => last[1] = s.forming)
  <2> HIDE DEF c
  <2>1. CASE s.forming = NoCandle
    BY <2>1, <1>2 DEF Size, c
  <2>2. CASE s.forming # NoCandle
    BY <2>2, <1>1, <1>2 DEF Size, c
  <2> QED BY <2>1, <2>2
<1>6. Bars(s) = cells \o last
  BY DEF Bars
<1>7. Size(s) \in Nat
  BY <1>2 DEF Size
<1> HIDE DEF cells, last
<1>8. /\ Bars(s) \in Seq(Candles(T)) /\ Len(Bars(s)) = Len(cells) + Len(last)
      /\ \A i \in 1..(Len(cells) + Len(last)) :
           Bars(s)[i] = IF i <= Len(cells) THEN cells[i] ELSE last[i - Len(cells)]
  <2>1. /\ cells \o last \in Seq(Candles(T))
        /\ Len(cells \o last) = Len(cells) + Len(last)
        /\ \A i \in 1..(Len(cells) + Len(last)) :
             (cells \o last)[i] =
               IF i <= Len(cells) THEN cells[i] ELSE last[i - Len(cells)]
    <3>1. cells \in Seq(Candles(T)) /\ last \in Seq(Candles(T))
      BY <1>4, <1>5
    <3> QED BY <3>1, ConcatProperties, Zenon
  <2> QED BY <2>1, <1>6, Zenon
<1>9. /\ Len(Bars(s)) = Size(s) /\ Len(last) \in Nat
      /\ \A k \in 1..c : Bars(s)[k] = cells[k]
  <2>1. Len(last) \in Nat /\ c + Len(last) = Size(s)
    BY <1>2, <1>5, <1>7
  <2>2. \A k \in 1..c : k \in 1..(c + Len(last)) /\ k <= c
    BY <1>2, <2>1
  <2> QED BY <2>1, <2>2, <1>4, <1>8
<1>10. s.forming # NoCandle => Bars(s)[c + 1] = s.forming
  <2> SUFFICES ASSUME s.forming # NoCandle PROVE Bars(s)[c + 1] = s.forming
    OBVIOUS
  <2>1. Len(last) = 1 /\ last[1] = s.forming
    BY <1>2, <1>5 DEF Size
  <2>2. c + 1 \in 1..(c + 1) /\ ~(c + 1 <= c) /\ c + 1 - c = 1
    BY <1>2
  <2> QED BY <2>1, <2>2, <1>4, <1>8
<1> QED BY <1>2, <1>3, <1>7, <1>8, <1>9, <1>10

LEMMA Prefix ==
  ASSUME NEW S, NEW s \in Seq(S), NEW n \in 0..Len(s)
  PROVE  /\ SubSeq(s, 1, n) \in Seq(S) /\ Len(SubSeq(s, 1, n)) = n
         /\ \A i \in 1..n : SubSeq(s, 1, n)[i] = s[i]
<1>1. n \in Int /\ 1 \in Int /\ n \in Nat /\ n - 1 + 1 = n
  BY LenProperties
<1>2. \A i \in 1..n : s[i] \in S /\ 1 + i - 1 = i
  BY LenProperties, ElementOfSeq
<1>3. /\ SubSeq(s, 1, n) \in Seq(S)
      /\ Len(SubSeq(s, 1, n)) = IF 1 <= n THEN n - 1 + 1 ELSE 0
      /\ \A i \in 1..(n - 1 + 1) : SubSeq(s, 1, n)[i] = s[1 + i - 1]
  <2>1. \A i \in 1..n : s[i] \in S
    BY <1>2
  <2> QED BY <1>1, <2>1, SubSeqProperties
<1> QED BY <1>1, <1>2, <1>3

LEMMA SamePrefix ==
  ASSUME NEW S, NEW s \in Seq(S), NEW t \in Seq(S), NEW n \in 0..Len(s),
         n <= Len(t), \A i \in 1..n : s[i] = t[i]
  PROVE  SubSeq(s, 1, n) = SubSeq(t, 1, n)
<1>1. n \in 0..Len(t)
  BY LenProperties
<1>2. /\ SubSeq(s, 1, n) \in Seq(S) /\ Len(SubSeq(s, 1, n)) = n
      /\ \A i \in 1..n : SubSeq(s, 1, n)[i] = s[i]
  BY Prefix
<1>3. /\ SubSeq(t, 1, n) \in Seq(S) /\ Len(SubSeq(t, 1, n)) = n
      /\ \A i \in 1..n : SubSeq(t, 1, n)[i] = t[i]
  BY <1>1, Prefix
<1> DEFINE p == SubSeq(s, 1, n)
           q == SubSeq(t, 1, n)
<1>4. p \in Seq(S) /\ q \in Seq(S) /\ Len(p) = Len(q) /\ \A i \in 1..Len(p) : p[i] = q[i]
  BY <1>2, <1>3
<1> HIDE DEF p, q
<1>5. p = q
  BY <1>4, SeqEqual
<1> QED BY <1>5 DEF p, q
-----------------------------------------------------------------------------
(* foldTrade. *)

\* How many candles were evicted since the series was made, and EmaOverCloses
\* for one series.
Gone(s) == Len(s.fed) - s.ring.count
Exact(s) ==
  /\ Gone(s) >= 0
  /\ \A k \in 1..s.ring.count :
       /\ Cell(s.ring, k - 1).ema = SubSeq(s.fed, 1, Gone(s) + k)
       /\ s.fed[Gone(s) + k] = Cell(s.ring, k - 1).bar.close

\* A print joins the last candle; it opens one, and the first d are evicted;
\* it joins the m-th, the close apart, or for m = 0 none.
Widened(bar, i) == [bar EXCEPT !.prints = @ \cup {i}]
JoinsLast(B, C, i) ==
  /\ Len(B) > 0 /\ Len(C) = Len(B)
  /\ \A k \in 1..(Len(B) - 1) : C[k] = B[k]
  /\ C[Len(B)] = Added(B[Len(B)], i)
OpensNew(B, C, b, i, d) ==
  /\ Len(C) = Len(B) + 1 - d
  /\ \A k \in 1..(Len(B) - d) : C[k] = B[k + d]
  /\ C[Len(B) + 1 - d] = newBar(b, i)
Amends(B, C, m, i) ==
  /\ Len(C) = Len(B)
  /\ \A k \in 1..Len(B) :
       C[k] = IF k = m THEN Widened(B[k], i) ELSE B[k]

LEMMA CandleKinds ==
  ASSUME NEW T, NEW i \in T
  PROVE  /\ \A b \in 0..MaxTime : newBar(b, i) \in Candles(T)
         /\ \A bar \in Candles(T) :
              /\ Added(bar, i) \in Candles(T)
              /\ Widened(bar, i) \in Candles(T)
  BY DEF newBar, Added, Widened, Candles

LEMMA NewFields ==
  ASSUME NEW b, NEW i
  PROVE  /\ newBar(b, i).start = b /\ newBar(b, i).prints = {i}
         /\ newBar(b, i).close = i
  BY DEF newBar

LEMMA CandleFields ==
  ASSUME NEW T, NEW bar \in Candles(T), NEW i
  PROVE  /\ Added(bar, i).start = bar.start /\ Added(bar, i).close = i
         /\ Added(bar, i).prints = bar.prints \cup {i}
         /\ Widened(bar, i).start = bar.start /\ Widened(bar, i).close = bar.close
         /\ Widened(bar, i).prints = bar.prints \cup {i}
<1>1. /\ Added(bar, i).start = bar.start /\ Added(bar, i).close = i
      /\ Added(bar, i).prints = bar.prints \cup {i}
  BY DEF Added, Candles
<1>2. /\ Widened(bar, i).start = bar.start /\ Widened(bar, i).close = bar.close
      /\ Widened(bar, i).prints = bar.prints \cup {i}
  BY DEF Widened, Candles
<1> QED BY <1>1, <1>2

LEMMA ReopenIs ==
  ASSUME NEW T \in SUBSET Prints, NEW s \in SeriesOf(T), NEW i \in T, NEW b,
         s.forming = NoCandle, EndsAt(s, b)
  PROVE  LET q == Reopened(s, i) IN
         /\ q \in SeriesOf(T) /\ q.forming # NoCandle
         /\ Bars(s)[Len(Bars(s))].start = b
         /\ JoinsLast(Bars(s), Bars(q), i)
         /\ Exact(s) => Exact(q) /\ Gone(q) = Gone(s)
<1> DEFINE bar == Newest(s.ring).bar
           q == Reopened(s, i)
           c == s.ring.count
<1>1. /\ s.ring \in Rings(Entries(T)) /\ s.fed \in Seq(T \cup {NoCandle})
      /\ c \in 0..RingCap /\ c > 0 /\ RingCap \in Nat
  BY RingAssumption DEF SeriesOf, Rings, EndsAt
<1>2. Newest(s.ring) = Cell(s.ring, c - 1) /\ Newest(s.ring) \in Entries(T)
  <2>1. Newest(s.ring) = Cell(s.ring, c - 1)
    BY DEF Newest, Cell
  <2>2. c - 1 \in 0..(c - 1)
    BY <1>1
  <2> QED BY <2>1, <2>2, <1>1 DEF Rings
<1>3. bar \in Candles(T) /\ bar.start = b
  BY <1>2 DEF Entries, EndsAt
<1>4. bar.close \in T
  BY <1>3 DEF Candles
<1>5. /\ PopLast(s.ring) \in Rings(Entries(T)) /\ PopLast(s.ring).count = c - 1
      /\ \A k \in 0..(c - 1) : Cell(PopLast(s.ring), k) = Cell(s.ring, k)
  BY <1>1, PopIs
<1>6. q = [ring |-> PopLast(s.ring), forming |-> Added(bar, i),
           fed |-> Undo(s.fed, bar.close)]
  BY DEF Reopened
<1> HIDE DEF bar
<1>7. Undo(s.fed, bar.close) \in Seq(T \cup {NoCandle})
  <2>1. Append(s.fed, NoCandle) \in Seq(T \cup {NoCandle})
    BY <1>1, AppendProperties
  <2>2. s.fed # <<>> => Front(s.fed) \in Seq(T \cup {NoCandle})
    <3>1. Len(s.fed) \in Nat /\ (s.fed # <<>> => Len(s.fed) - 1 \in 0..Len(s.fed))
      BY <1>1, LenProperties, EmptySeq
    <3> QED BY <3>1, <1>1, Prefix DEF Front
  <2> QED BY <2>1, <2>2, <1>1, Zenon DEF Undo
<1>8. Added(bar, i) \in Candles(T)
  BY <1>3, CandleKinds
<1>9. q \in SeriesOf(T) /\ q.forming = Added(bar, i) /\ q.forming # NoCandle
  <2>1. Added(bar, i) # NoCandle
    BY <1>8, ZeroValue
  <2> QED BY <2>1, <1>5, <1>6, <1>7, <1>8 DEF SeriesOf
<1>10. /\ Len(Bars(s)) = c /\ \A k \in 1..c : Bars(s)[k] = Cell(s.ring, k - 1).bar
  BY BarsAre, <1>1 DEF Size
<1>11. /\ Len(Bars(q)) = c
       /\ \A k \in 1..(c - 1) : Bars(q)[k] = Cell(s.ring, k - 1).bar
       /\ Bars(q)[c] = Added(bar, i)
  <2>1. q.ring = PopLast(s.ring)
    BY <1>6
  <2> HIDE DEF q
  <2>2. /\ Len(Bars(q)) = Size(q) /\ q.ring.count = c - 1
        /\ \A k \in 1..(c - 1) : Bars(q)[k] = Cell(q.ring, k - 1).bar
        /\ Bars(q)[(c - 1) + 1] = q.forming
    BY <2>1, <1>5, <1>9, BarsAre
  <2>3. Size(q) = c
    BY <2>2, <1>1, <1>9 DEF Size
  <2>4. \A k \in 1..(c - 1) : Cell(q.ring, k - 1) = Cell(s.ring, k - 1)
    BY <2>1, <1>1, <1>5
  <2> QED BY <2>2, <2>3, <2>4, <1>1, <1>9
<1>12. Bars(s)[c] = bar /\ c \in 1..c
  BY <1>1, <1>2, <1>10 DEF bar
<1>13. JoinsLast(Bars(s), Bars(q), i)
  <2> HIDE DEF q
  <2> QED BY <1>1, <1>10, <1>11, <1>12 DEF JoinsLast
<1>14. ASSUME Exact(s) PROVE Exact(q) /\ Gone(q) = Gone(s)
  <2> DEFINE f == s.fed
             g == Gone(s)
  <2>1. /\ g >= 0 /\ Len(f) = g + c /\ Len(f) \in Nat /\ g \in Nat
        /\ f[g + c] = bar.close
    <3>1. f[g + c] = bar.close
      BY <1>14, <1>2, <1>12 DEF Exact, bar
    <3>2. Len(f) \in Nat
      BY <1>1, LenProperties
    <3>3. g >= 0
      BY <1>14 DEF Exact
    <3> QED BY <3>1, <3>2, <3>3, <1>1 DEF Gone
  <2>2. Undo(f, bar.close) = SubSeq(f, 1, Len(f) - 1)
    <3>1. f # <<>> /\ Last(f) = bar.close
      BY <2>1, <1>1 DEF Last
    <3> QED BY <3>1, Zenon DEF Undo, Front
  <2>3. /\ q.ring = PopLast(s.ring) /\ q.fed = SubSeq(f, 1, Len(f) - 1)
    BY <1>6, <2>2
  <2> HIDE DEF q, f
  <2>4. /\ q.fed \in Seq(T \cup {NoCandle}) /\ Len(q.fed) = Len(f) - 1
        /\ \A k \in 1..(Len(f) - 1) : q.fed[k] = f[k]
    <3>1. Len(f) - 1 \in 0..Len(f)
      BY <2>1, <1>1
    <3> QED BY <3>1, <2>3, <1>1, Prefix DEF f
  <2>5. Gone(q) = g
    BY <2>1, <2>3, <2>4, <1>1, <1>5 DEF Gone
  <2>6. ASSUME NEW k \in 1..(c - 1)
        PROVE  /\ Cell(q.ring, k - 1).ema = SubSeq(q.fed, 1, g + k)
               /\ q.fed[g + k] = Cell(q.ring, k - 1).bar.close
    <3>1. /\ k \in 1..c /\ g + k \in 1..(Len(f) - 1) /\ g + k \in 0..Len(q.fed)
          /\ g + k <= Len(f) /\ k - 1 \in 0..(c - 1)
      <4>1. Len(q.fed) = Len(f) - 1 /\ Len(f) = g + c /\ g \in Nat /\ c \in Nat
        BY <2>1, <2>4, <1>1
      <4> HIDE DEF g, c
      <4> QED BY <4>1
    <3>2. Cell(q.ring, k - 1) = Cell(s.ring, k - 1)
      BY <3>1, <2>3, <1>5
    <3>3. /\ Cell(s.ring, k - 1).ema = SubSeq(f, 1, g + k)
          /\ f[g + k] = Cell(s.ring, k - 1).bar.close
      BY <3>1, <1>14 DEF Exact, f
    <3>4. SubSeq(q.fed, 1, g + k) = SubSeq(f, 1, g + k)
      <4>1. f \in Seq(T \cup {NoCandle}) /\ \A j \in 1..(g + k) : q.fed[j] = f[j]
        <5>1. \A j \in 1..(g + k) : j \in 1..(Len(f) - 1)
          <6> HIDE DEF g
          <6> QED BY <2>1, <3>1
        <5> QED BY <2>4, <5>1, <1>1 DEF f
      <4> HIDE DEF g
      <4> QED BY <4>1, <2>4, <3>1, SamePrefix
    <3> QED BY <3>1, <3>2, <3>3, <3>4, <2>4
  <2> QED BY <2>1, <2>3, <2>5, <2>6, <1>5 DEF Exact
<1>15. Bars(s)[Len(Bars(s))].start = b
  BY <1>3, <1>10, <1>12
<1> QED BY <1>9, <1>13, <1>14, <1>15

\* Only the forming candle changes.
LEMMA FormsIs ==
  ASSUME NEW T \in SUBSET Prints, NEW s \in SeriesOf(T), NEW bar \in Candles(T)
  PROVE  LET q == [s EXCEPT !.forming = bar] IN
         /\ q \in SeriesOf(T) /\ q.forming = bar /\ q.forming # NoCandle
         /\ Len(Bars(q)) = s.ring.count + 1
         /\ \A k \in 1..s.ring.count : Bars(q)[k] = Bars(s)[k]
         /\ Bars(q)[s.ring.count + 1] = bar
         /\ Gone(q) = Gone(s) /\ (Exact(s) => Exact(q))
<1> DEFINE q == [s EXCEPT !.forming = bar]
<1>1. q \in SeriesOf(T) /\ q.forming = bar /\ q.ring = s.ring /\ q.fed = s.fed
  BY DEF SeriesOf
<1>2. bar # NoCandle
  BY ZeroValue
<1> HIDE DEF q
<1>3. s.ring.count \in Nat /\ Size(q) = s.ring.count + 1
  BY <1>1, <1>2, BarsAre DEF Size
<1>4. /\ Len(Bars(q)) = s.ring.count + 1
      /\ \A k \in 1..s.ring.count : Bars(q)[k] = Cell(s.ring, k - 1).bar
      /\ Bars(q)[s.ring.count + 1] = bar
  BY <1>1, <1>2, <1>3, BarsAre
<1>5. \A k \in 1..s.ring.count : Bars(s)[k] = Cell(s.ring, k - 1).bar
  BY BarsAre
<1>6. Gone(q) = Gone(s) /\ (Exact(s) => Exact(q))
  BY <1>1 DEF Gone, Exact
<1> QED BY <1>1, <1>2, <1>4, <1>5, <1>6 DEF q

LEMMA FirstIs ==
  ASSUME NEW T \in SUBSET Prints, NEW s \in SeriesOf(T), NEW i \in T,
         NEW b \in 0..MaxTime, s.forming = NoCandle
  PROVE  LET q == [s EXCEPT !.forming = newBar(b, i)] IN
         /\ q \in SeriesOf(T) /\ q.forming # NoCandle
         /\ OpensNew(Bars(s), Bars(q), b, i, 0)
         /\ Gone(q) = Gone(s) /\ (Exact(s) => Exact(q))
<1> DEFINE bar == newBar(b, i)
           q == [s EXCEPT !.forming = bar]
<1>1. bar \in Candles(T)
  BY CandleKinds
<1>2. Len(Bars(s)) = s.ring.count /\ s.ring.count \in Nat
  BY BarsAre DEF Size
<1> HIDE DEF bar
<1>3. /\ q \in SeriesOf(T) /\ q.forming = bar /\ q.forming # NoCandle
      /\ Len(Bars(q)) = s.ring.count + 1
      /\ \A k \in 1..s.ring.count : Bars(q)[k] = Bars(s)[k]
      /\ Bars(q)[s.ring.count + 1] = bar
      /\ Gone(q) = Gone(s) /\ (Exact(s) => Exact(q))
  BY <1>1, FormsIs
<1> HIDE DEF q
<1>4. OpensNew(Bars(s), Bars(q), b, i, 0)
  BY <1>2, <1>3 DEF OpensNew, bar
<1> QED BY <1>3, <1>4 DEF q, bar

LEMMA AddIs ==
  ASSUME NEW T \in SUBSET Prints, NEW s \in SeriesOf(T), NEW i \in T,
         s.forming # NoCandle
  PROVE  LET q == [s EXCEPT !.forming = Added(@, i)] IN
         /\ q \in SeriesOf(T) /\ q.forming # NoCandle
         /\ Bars(s)[Len(Bars(s))] = s.forming
         /\ JoinsLast(Bars(s), Bars(q), i)
         /\ Gone(q) = Gone(s) /\ (Exact(s) => Exact(q))
<1> DEFINE bar == Added(s.forming, i)
           q == [s EXCEPT !.forming = bar]
           c == s.ring.count
<1>0. s.forming \in Candles(T)
  BY DEF SeriesOf
<1>1. bar \in Candles(T)
  BY <1>0, CandleKinds
<1>2. Len(Bars(s)) = c + 1 /\ c \in Nat /\ Bars(s)[c + 1] = s.forming
  BY BarsAre DEF Size
<1>3. /\ q \in SeriesOf(T) /\ q.forming = bar /\ q.forming # NoCandle
      /\ Len(Bars(q)) = c + 1
      /\ \A k \in 1..c : Bars(q)[k] = Bars(s)[k]
      /\ Bars(q)[c + 1] = bar
      /\ Gone(q) = Gone(s) /\ (Exact(s) => Exact(q))
  <2> HIDE DEF bar
  <2> QED BY <1>1, FormsIs
<1>4. q = [s EXCEPT !.forming = Added(@, i)]
  OBVIOUS
<1>5. JoinsLast(Bars(s), Bars(q), i)
  <2> HIDE DEF q, c
  <2> QED BY <1>2, <1>3 DEF JoinsLast
<1>6. Bars(s)[Len(Bars(s))] = s.forming
  BY <1>2
<1> HIDE DEF q
<1> QED BY <1>3, <1>4, <1>5, <1>6

LEMMA CloseIs ==
  ASSUME NEW T \in SUBSET Prints, NEW s \in SeriesOf(T), NEW i \in T,
         NEW b \in 0..MaxTime, NEW v \in SUBSET T, s.forming # NoCandle
  PROVE  LET q == [closeFormingBar(s, v) EXCEPT !.forming = newBar(b, i)]
             d == IF s.ring.count < RingCap THEN 0 ELSE 1
         IN
         /\ q \in SeriesOf(T) /\ q.forming # NoCandle
         /\ OpensNew(Bars(s), Bars(q), b, i, d)
         /\ Gone(q) = Gone(s) + d /\ (Exact(s) => Exact(q))
<1> DEFINE q == [closeFormingBar(s, v) EXCEPT !.forming = newBar(b, i)]
           d == IF s.ring.count < RingCap THEN 0 ELSE 1
           c == s.ring.count
           f == s.fed
           fed == Append(s.fed, s.forming.close)
           e == [bar |-> s.forming, ema |-> fed, vwap |-> v]
           r == Push(s.ring, e)
<1>1. /\ s.ring \in Rings(Entries(T)) /\ s.fed \in Seq(T \cup {NoCandle})
      /\ c \in 0..RingCap /\ RingCap \in Nat \ {0} /\ s.forming \in Candles(T)
      /\ c \in Nat
  BY RingAssumption DEF SeriesOf, Rings
<1>2. s.forming.close \in T
  BY <1>1 DEF Candles
<1>3. /\ fed \in Seq(T \cup {NoCandle}) /\ Len(fed) = Len(f) + 1 /\ Len(f) \in Nat
      /\ \A k \in 1..Len(f) : fed[k] = f[k]
      /\ fed[Len(f) + 1] = s.forming.close
  <2>1. s.forming.close \in T \cup {NoCandle}
    BY <1>2
  <2>2. Len(f) \in Nat
    BY <1>1, LenProperties
  <2> DEFINE S == T \cup {NoCandle}
             x == s.forming.close
  <2>3. f \in Seq(S) /\ x \in S
    BY <1>1, <2>1
  <2> HIDE DEF S, x, f
  <2>4. /\ Append(f, x) \in Seq(S) /\ Len(Append(f, x)) = Len(f) + 1
        /\ \A k \in 1..Len(f) : Append(f, x)[k] = f[k]
        /\ Append(f, x)[Len(f) + 1] = x
    BY <2>3, AppendProperties
  <2> QED BY <2>2, <2>4 DEF S, x, f
<1>4. e \in Entries(T)
  <2> HIDE DEF fed
  <2> QED BY <1>1, <1>3 DEF Entries
<1>5. q = [ring |-> r, forming |-> newBar(b, i), fed |-> fed]
  <2>1. closeFormingBar(s, v) = [ring |-> r, forming |-> NoCandle, fed |-> fed]
    BY Zenon DEF closeFormingBar, Update
  <2> HIDE DEF r, fed
  <2> QED BY <2>1
<1>6. newBar(b, i) \in Candles(T) /\ newBar(b, i) # NoCandle
  BY CandleKinds, ZeroValue
<1> HIDE DEF fed
<1>7. /\ r \in Rings(Entries(T))
      /\ c < RingCap =>
           /\ r.count = c + 1
           /\ \A k \in 0..(c - 1) : Cell(r, k) = Cell(s.ring, k)
           /\ Cell(r, c) = e
      /\ ~(c < RingCap) =>
           /\ r.count = c
           /\ \A k \in 0..(c - 2) : Cell(r, k) = Cell(s.ring, k + 1)
           /\ Cell(r, c - 1) = e
  <2> HIDE DEF e
  <2>1. NoCandle \notin Entries(T)
    BY ZeroValue
  <2> QED BY <1>1, <1>4, <2>1, PushIs
<1>8. /\ r.count = c + 1 - d /\ d \in {0, 1} /\ d <= c
      /\ \A k \in 0..(c - 1 - d) : Cell(r, k) = Cell(s.ring, k + d)
      /\ Cell(r, c - d) = e
  <2> HIDE DEF e, r
  <2>1. CASE c < RingCap
    BY <2>1, <1>1, <1>7
  <2>2. CASE ~(c < RingCap)
    BY <2>2, <1>1, <1>7
  <2> QED BY <2>1, <2>2
<1> HIDE DEF e, r, d
<1>9. q \in SeriesOf(T) /\ q.forming = newBar(b, i) /\ q.forming # NoCandle
      /\ q.ring = r /\ q.fed = fed
  <2>1. q \in SeriesOf(T)
    BY <1>3, <1>5, <1>6, <1>7 DEF SeriesOf
  <2> QED BY <2>1, <1>5, <1>6
<1> HIDE DEF q
<1>10. /\ Len(Bars(s)) = c + 1 /\ Bars(s)[c + 1] = s.forming
       /\ \A k \in 1..c : Bars(s)[k] = Cell(s.ring, k - 1).bar
  BY <1>1, BarsAre, ZeroValue DEF Size
<1>11. /\ Len(Bars(q)) = c + 2 - d /\ Bars(q)[c + 2 - d] = newBar(b, i)
       /\ \A k \in 1..(c + 1 - d) : Bars(q)[k] = Cell(r, k - 1).bar
  <2>1. /\ Len(Bars(q)) = Size(q)
        /\ \A k \in 1..q.ring.count : Bars(q)[k] = Cell(q.ring, k - 1).bar
        /\ Bars(q)[q.ring.count + 1] = q.forming
    BY <1>9, BarsAre
  <2>2. Size(q) = c + 2 - d /\ q.ring.count = c + 1 - d /\ q.ring.count + 1 = c + 2 - d
    BY <1>1, <1>8, <1>9 DEF Size
  <2> QED BY <2>1, <2>2, <1>9
<1>12. e.bar = s.forming /\ e.ema = fed
  BY DEF e
<1>13. OpensNew(Bars(s), Bars(q), b, i, d)
  <2>1. ASSUME NEW k \in 1..(c + 1 - d) PROVE Bars(q)[k] = Bars(s)[k + d]
    <3>1. CASE k = c + 1 - d
      <4>1. Bars(q)[k] = Cell(r, c - d).bar /\ k + d = c + 1
        <5>1. k - 1 = c - d /\ k + d = c + 1
          BY <3>1, <1>1, <1>8
        <5> QED BY <5>1, <1>11
      <4> QED BY <4>1, <1>8, <1>10, <1>12
    <3>2. CASE k # c + 1 - d
      <4>1. k - 1 \in 0..(c - 1 - d) /\ k + d \in 1..c /\ (k - 1) + d = (k + d) - 1
        BY <3>2, <1>1, <1>8
      <4>2. Cell(r, k - 1) = Cell(s.ring, (k + d) - 1)
        BY <4>1, <1>8
      <4> QED BY <4>1, <4>2, <1>10, <1>11
    <3> QED BY <3>1, <3>2
  <2>2. Len(Bars(s)) + 1 - d = c + 2 - d /\ Len(Bars(s)) - d = c + 1 - d
    BY <1>1, <1>8, <1>10
  <2> QED BY <2>1, <2>2, <1>11 DEF OpensNew
<1>14. Gone(q) = Gone(s) + d
  <2>1. Gone(q) = Len(fed) - r.count /\ Gone(s) = Len(f) - c
    BY <1>9 DEF Gone
  <2>2. Len(f) \in Nat
    BY <1>1, LenProperties
  <2>3. c \in Nat /\ d \in Nat /\ r.count = c + 1 - d
    BY <1>1, <1>8
  <2>4. Len(fed) = Len(f) + 1
    BY <1>3
  <2> HIDE DEF c, f
  <2> QED BY <2>1, <2>2, <2>3, <2>4
<1>15. ASSUME Exact(s) PROVE Exact(q)
  <2> DEFINE g == Gone(s)
             h == Gone(q)
  <2>1. g \in Nat /\ Len(f) = g + c /\ h = g + d /\ Len(fed) = g + c + 1
    <3>1. Gone(s) = Len(s.fed) - c /\ Gone(s) >= 0
      BY <1>15 DEF Gone, Exact
    <3>2. h = g + d
      BY <1>14
    <3> HIDE DEF h, c
    <3> QED BY <3>1, <3>2, <1>1, <1>3
  <2>2. \A k \in 1..c : /\ Cell(s.ring, k - 1).ema = SubSeq(f, 1, g + k)
                        /\ f[g + k] = Cell(s.ring, k - 1).bar.close
    BY <1>15 DEF Exact
  <2> HIDE DEF g, h, f
  <2>3. ASSUME NEW k \in 1..(c + 1 - d)
        PROVE  /\ Cell(r, k - 1).ema = SubSeq(fed, 1, h + k)
               /\ fed[h + k] = Cell(r, k - 1).bar.close
    <3>1. CASE k = c + 1 - d
      <4>1. k - 1 = c - d /\ h + k = Len(f) + 1 /\ h + k = Len(fed)
        <5> HIDE DEF c
        <5> QED BY <3>1, <2>1, <1>1, <1>8
      <4>2. Cell(r, k - 1) = e
        BY <4>1, <1>8
      <4>3. SubSeq(fed, 1, Len(fed)) = fed
        BY <1>3, SubSeqFull
      <4> QED BY <4>1, <4>2, <4>3, <1>3, <1>12
    <3>2. CASE k # c + 1 - d
      <4> DEFINE L == Len(f)
                 M == Len(fed)
      <4>0. /\ c \in Nat /\ d \in 0..1 /\ d <= c /\ k \in 1..(c + 1 - d) /\ k # c + 1 - d
            /\ g \in Nat /\ L = g + c /\ h = g + d /\ M = g + c + 1
        BY <3>2, <2>1, <1>1, <1>8
      <4>1. /\ k - 1 \in 0..(c - 1 - d) /\ k + d \in 1..c /\ (k - 1) + d = (k + d) - 1
            /\ h + k = g + (k + d) /\ h + k \in 1..L /\ h + k \in 0..L
            /\ h + k <= M
        <5> HIDE DEF c, L, M
        <5>1. /\ k \in Nat /\ k >= 1 /\ k <= c - d /\ d \in Nat
          BY <4>0
        <5>2. h + k = g + (k + d) /\ h + k \in Nat /\ h + k >= 1 /\ h + k <= L /\ h + k <= M
          BY <4>0, <5>1
        <5> QED BY <4>0, <5>1, <5>2
      <4>2. Cell(r, k - 1) = Cell(s.ring, (k + d) - 1)
        BY <4>1, <1>8
      <4>3. \A j \in 1..(h + k) : j \in 1..Len(f)
        BY <4>1, <2>1
      <4>4. SubSeq(f, 1, h + k) = SubSeq(fed, 1, h + k)
        <5>1. f \in Seq(T \cup {NoCandle}) /\ \A j \in 1..(h + k) : f[j] = fed[j]
          BY <4>3, <1>1, <1>3 DEF f
        <5> QED BY <5>1, <4>1, <1>3, SamePrefix
      <4> QED BY <4>1, <4>2, <4>4, <2>2, <1>3
    <3> QED BY <3>1, <3>2
  <2>4. h >= 0
    BY <2>1, <1>8
  <2> QED BY <2>3, <2>4, <1>8, <1>9 DEF Exact, h
<1> QED BY <1>9, <1>13, <1>14, <1>15 DEF q, d

\* The place of a late print of bucket b among the closed candles, from 1, or
\* 0: the newest that does not start after b does not start with it either.
AmendsAt(s, b, m) ==
  IF m > 0 THEN m <= s.ring.count /\ Bars(s)[m].start = b
  ELSE \E g \in 0..s.ring.count :
         /\ \A k \in 1..s.ring.count : Bars(s)[k].start <= b => k <= g
         /\ g > 0 => Bars(s)[g].start < b

LEMMA AmendIs ==
  ASSUME NEW T \in SUBSET Prints, NEW s \in SeriesOf(T), NEW i \in T,
         NEW b \in 0..MaxTime, s.forming # NoCandle
  PROVE  LET q == Amended(s, b, i) IN
         /\ q \in SeriesOf(T) /\ q.forming # NoCandle
         /\ \E m \in Nat : AmendsAt(s, b, m) /\ Amends(Bars(s), Bars(q), m, i)
         /\ Gone(q) = Gone(s) /\ (Exact(s) => Exact(q))
<1> DEFINE Start(k) == s.ring.slots[At(s.ring, k)].bar.start
           c == s.ring.count
           reached == {k \in 0..c - 1 : Start(k) <= b}
           top == CHOOSE k \in reached : \A j \in reached : j <= k
           q == Amended(s, b, i)
<1>1. /\ s.ring \in Rings(Entries(T)) /\ s.fed \in Seq(T \cup {NoCandle})
      /\ c \in 0..RingCap /\ RingCap \in Nat \ {0} /\ s.forming \in Candles(T)
      /\ c \in Nat
      /\ \A k \in 0..(c - 1) : Cell(s.ring, k) \in Entries(T)
  BY RingAssumption DEF SeriesOf, Rings
<1>2. /\ Len(Bars(s)) = c + 1 /\ Bars(s)[c + 1] = s.forming
      /\ \A k \in 1..c : Bars(s)[k] = Cell(s.ring, k - 1).bar
  BY <1>1, BarsAre DEF Size
<1>3. \A k \in 0..(c - 1) : /\ Start(k) = Bars(s)[k + 1].start
                            /\ Start(k) \in 0..MaxTime
  <2> SUFFICES ASSUME NEW k \in 0..(c - 1)
               PROVE  Start(k) = Bars(s)[k + 1].start /\ Start(k) \in 0..MaxTime
    OBVIOUS
  <2>1. k + 1 \in 1..c /\ (k + 1) - 1 = k
    BY <1>1
  <2>2. Start(k) = Cell(s.ring, k).bar.start
    BY DEF Cell
  <2>3. Cell(s.ring, k).bar \in Candles(T)
    BY <1>1 DEF Entries
  <2> QED BY <2>1, <2>2, <2>3, <1>2 DEF Candles
<1>4. reached # {} => top \in reached /\ \A j \in reached : j <= top
  <2> SUFFICES ASSUME reached # {}
               PROVE  \E k \in reached : \A j \in reached : j <= k
    BY Zenon
  <2>1. reached \in SUBSET (0..c)
    <3> HIDE DEF Start
    <3> QED BY <1>1
  <2> HIDE DEF reached, c
  <2> QED BY <2>1, <1>1, GreatestOf
<1>5. CASE ~(reached # {} /\ Start(top) = b)
  <2>1. q = s
    BY <1>5, Zenon DEF Amended
  <2>2. Amends(Bars(s), Bars(q), 0, i)
    BY <2>1, <1>1, <1>2 DEF Amends
  <2>3. AmendsAt(s, b, 0)
    <3>1. \A k \in 1..c : Bars(s)[k].start <= b => k - 1 \in reached
      <4> SUFFICES ASSUME NEW k \in 1..c, Bars(s)[k].start <= b
                   PROVE  k - 1 \in reached
        OBVIOUS
      <4>1. k - 1 \in 0..c - 1 /\ (k - 1) + 1 = k
        BY <1>1
      <4>2. Start(k - 1) <= b
        BY <4>1, <1>3
      <4> QED BY <4>1, <4>2
    <3>2. CASE reached = {}
      <4>1. \A k \in 1..c : ~(Bars(s)[k].start <= b)
        BY <3>1, <3>2, Zenon
      <4>2. 0 \in 0..s.ring.count
        BY <1>1
      <4> QED BY <4>1, <4>2 DEF AmendsAt
    <3>3. CASE reached # {}
      <4>1. top \in 0..c - 1 /\ Start(top) <= b /\ Start(top) # b
        BY <3>3, <1>4, <1>5, Zenon
      <4>2. Start(top) = Bars(s)[top + 1].start /\ Start(top) \in 0..MaxTime
        BY <4>1, <1>3
      <4>3. \A j \in reached : j <= top
        BY <3>3, <1>4
      <4> HIDE DEF Start, top, reached
      <4>4. top + 1 \in 0..s.ring.count
        BY <4>1, <1>1
      <4>5. \A k \in 1..s.ring.count : Bars(s)[k].start <= b => k <= top + 1
        BY <3>1, <4>1, <4>3, <1>1
      <4>6. Bars(s)[top + 1].start < b
        BY <4>1, <4>2
      <4> QED BY <4>4, <4>5, <4>6 DEF AmendsAt
    <3> QED BY <3>2, <3>3
  <2> QED BY <2>1, <2>2, <2>3
<1>6. CASE reached # {} /\ Start(top) = b
  <2> DEFINE x == At(s.ring, top)
             old == Cell(s.ring, top)
             bar == Widened(old.bar, i)
             e == [bar |-> bar, ema |-> old.ema, vwap |-> old.vwap]
             r == [s.ring EXCEPT !.slots[x] = e]
  <2>1. top \in 0..(c - 1) /\ old \in Entries(T)
    BY <1>4, <1>6, <1>1
  <2>2. old.bar \in Candles(T) /\ bar \in Candles(T) /\ e \in Entries(T)
    BY <2>1, CandleKinds DEF Entries
  <2>3. q = [s EXCEPT !.ring = r]
    <3>1. q = [s EXCEPT !.ring.slots[At(s.ring, top)].bar.prints = @ \cup {i}]
      BY <1>6, Zenon DEF Amended
    <3>2. [old EXCEPT !.bar.prints = @ \cup {i}] = e
      <4>1. PICK o \in Candles(T), p \in Seq(T \cup {NoCandle}), w \in SUBSET T :
              old = [bar |-> o, ema |-> p, vwap |-> w]
        BY <2>1 DEF Entries
      <4>2. [old EXCEPT !.bar.prints = @ \cup {i}] = [old EXCEPT !.bar = bar]
        BY DEF Widened
      <4> HIDE DEF old, bar
      <4>3. [[bar |-> o, ema |-> p, vwap |-> w] EXCEPT !.bar = bar]
              = [bar |-> bar, ema |-> p, vwap |-> w]
        OBVIOUS
      <4>4. old.ema = p /\ old.vwap = w
        BY <4>1
      <4>5. [old EXCEPT !.bar = bar] = [bar |-> bar, ema |-> p, vwap |-> w]
        BY <4>1, <4>3, Zenon
      <4> QED BY <4>2, <4>4, <4>5, Zenon
    <3>3. [s EXCEPT !.ring.slots[x].bar.prints = @ \cup {i}] = [s EXCEPT !.ring = r]
      <4>1. [s EXCEPT !.ring.slots[x].bar.prints = @ \cup {i}]
              = [s EXCEPT !.ring.slots[x] = [s.ring.slots[x] EXCEPT !.bar.prints = @ \cup {i}]]
        OBVIOUS
      <4>2. s.ring.slots[x] = old
        BY DEF Cell
      <4>3. [s EXCEPT !.ring.slots[x] = e] = [s EXCEPT !.ring = r]
        <5> HIDE DEF x, e
        <5> QED OBVIOUS
      <4> HIDE DEF old, x, e, r
      <4>4. [s.ring.slots[x] EXCEPT !.bar.prints = @ \cup {i}] = e
        BY <3>2, <4>2
      <4> QED BY <4>1, <4>3, <4>4
    <3> QED BY <3>1, <3>3, Zenon
  <2>4. /\ r \in Rings(Entries(T)) /\ r.count = c
        /\ \A k \in 0..(c - 1) : Cell(r, k) = IF k = top THEN e ELSE Cell(s.ring, k)
    <3> HIDE DEF e, top
    <3>1. top \in 0..(s.ring.count - 1) /\ e \in Entries(T)
      BY <2>1, <2>2
    <3> DEFINE w == Written(s.ring, top, e)
    <3>2. /\ w \in Rings(Entries(T)) /\ w.count = s.ring.count
          /\ \A k \in 0..(s.ring.count - 1) :
               Cell(w, k) = IF k = top THEN e ELSE Cell(s.ring, k)
      BY <3>1, <1>1, WriteIs
    <3>3. w = r
      BY DEF Written
    <3> HIDE DEF w, r
    <3> QED BY <3>2, <3>3
  <2>5. e.bar = bar /\ e.ema = old.ema /\ bar.close = old.bar.close
    <3> HIDE DEF old
    <3> QED BY <2>2, CandleFields
  <2> HIDE DEF e, r, x
  <2>6. q \in SeriesOf(T) /\ q.ring = r /\ q.forming = s.forming /\ q.fed = s.fed
    BY <2>3, <2>4 DEF SeriesOf
  <2> HIDE DEF q
  <2>7. /\ Len(Bars(q)) = c + 1 /\ Bars(q)[c + 1] = s.forming
        /\ \A k \in 1..c : Bars(q)[k] = Cell(r, k - 1).bar
    BY <2>4, <2>6, <1>1, BarsAre DEF Size
  <2>8. Amends(Bars(s), Bars(q), top + 1, i)
    <3> HIDE DEF top
    <3>1. ASSUME NEW k \in 1..(c + 1)
          PROVE  Bars(q)[k] = IF k = top + 1
                                THEN Widened(Bars(s)[k], i)
                                ELSE Bars(s)[k]
      <4>1. CASE k = c + 1
        <5>1. c + 1 # top + 1
          BY <2>1, <1>1
        <5>2. Bars(q)[k] = s.forming /\ Bars(s)[k] = s.forming
          BY <4>1, <2>7, <1>2
        <5> QED BY <4>1, <5>1, <5>2
      <4>2. CASE k # c + 1
        <5>1. k \in 1..c /\ k - 1 \in 0..(c - 1) /\ (k = top + 1 <=> k - 1 = top)
          <6>1. c \in Nat /\ top \in 0..(c - 1)
            BY <2>1, <1>1
          <6> HIDE DEF c
          <6>2. k \in Nat /\ k >= 1 /\ k <= c
            BY <4>2, <6>1
          <6>3. top \in Int
            BY <6>1
          <6> QED BY <6>1, <6>2, <6>3
        <5>2. Bars(q)[k] = Cell(r, k - 1).bar /\ Bars(s)[k] = Cell(s.ring, k - 1).bar
          BY <5>1, <2>7, <1>2
        <5>3. Cell(r, k - 1) = IF k - 1 = top THEN e ELSE Cell(s.ring, k - 1)
          BY <5>1, <2>4
        <5> QED BY <5>1, <5>2, <5>3, <2>5
      <4> QED BY <4>1, <4>2
    <3> QED BY <3>1, <2>7, <1>2 DEF Amends
  <2>9. top + 1 \in Nat /\ AmendsAt(s, b, top + 1)
    <3>1. Start(top) = Bars(s)[top + 1].start
      BY <2>1, <1>3
    <3>2. Bars(s)[top + 1].start = b
      BY <3>1, <1>6, Zenon
    <3> HIDE DEF top
    <3>3. top + 1 > 0 /\ top + 1 <= s.ring.count /\ top + 1 \in Nat
      BY <2>1, <1>1
    <3> QED BY <3>2, <3>3 DEF AmendsAt
  <2>10. Gone(q) = Gone(s)
    BY <2>4, <2>6 DEF Gone
  <2>11. ASSUME Exact(s) PROVE Exact(q)
    <3> HIDE DEF top
    <3>1. ASSUME NEW k \in 1..c
          PROVE  /\ Cell(r, k - 1).ema = Cell(s.ring, k - 1).ema
                 /\ Cell(r, k - 1).bar.close = Cell(s.ring, k - 1).bar.close
      <4>1. k - 1 \in 0..(c - 1)
        BY <1>1
      <4> QED BY <4>1, <2>4, <2>5
    <3> QED BY <3>1, <2>4, <2>6, <2>10, <2>11 DEF Exact
  <2> QED BY <2>6, <2>8, <2>9, <2>10, <2>11 DEF q
<1> QED BY <1>5, <1>6

\* What foldTrade does to the candles B of a series, and to the number of
\* evicted ones.
Folds(s, q, b, i) ==
  LET B == Bars(s)
      C == Bars(q)
      n == Len(B)
  IN \/ /\ JoinsLast(B, C, i) /\ B[n].start = b
        /\ Exact(s) => Gone(q) = Gone(s)
     \/ \E d \in {0, 1} :
          /\ d <= n /\ OpensNew(B, C, b, i, d) /\ Gone(q) = Gone(s) + d
          /\ n = 0 \/ B[n].start < b \/ OpensLate(s, b)
     \/ \E m \in Nat :
          /\ n = s.ring.count + 1 /\ b < B[n].start
          /\ AmendsAt(s, b, m) /\ Amends(B, C, m, i) /\ Gone(q) = Gone(s)

LEMMA FoldIs ==
  ASSUME NEW T \in SUBSET Prints, NEW s \in SeriesOf(T), NEW i \in T,
         NEW b \in 0..MaxTime, NEW v \in SUBSET T
  PROVE  LET q == foldTrade(s, b, i, v) IN
         /\ q \in SeriesOf(T) /\ q.forming # NoCandle
         /\ Exact(s) => Exact(q)
         /\ Folds(s, q, b, i)
<1> DEFINE q == foldTrade(s, b, i, v)
           n == Len(Bars(s))
<1>1. /\ s.ring.count \in Nat /\ n = Size(s)
      /\ \A k \in 1..s.ring.count : Bars(s)[k] = Cell(s.ring, k - 1).bar
      /\ \A k \in 1..n : Bars(s)[k] \in Candles(T) /\ Bars(s)[k].start \in Nat
  <2>1. /\ s.ring.count \in Nat /\ n = Size(s) /\ Bars(s) \in Seq(Candles(T))
        /\ \A k \in 1..s.ring.count : Bars(s)[k] = Cell(s.ring, k - 1).bar
    BY BarsAre
  <2>2. \A k \in 1..n : Bars(s)[k] \in Candles(T)
    BY <2>1, ElementOfSeq
  <2>3. \A k \in 1..n : Bars(s)[k].start \in Nat
    BY <2>2 DEF Candles
  <2> QED BY <2>1, <2>2, <2>3
<1>2. CASE s.forming = NoCandle /\ EndsAt(s, b)
  <2>1. q = Reopened(s, i)
    BY <1>2, Zenon DEF foldTrade
  <2> HIDE DEF q
  <2> QED BY <1>2, <2>1, ReopenIs DEF Folds, q
<1>3. CASE s.forming = NoCandle /\ ~EndsAt(s, b)
  <2>1. q = [s EXCEPT !.forming = newBar(b, i)]
    BY <1>3, Zenon DEF foldTrade
  <2>2. /\ q \in SeriesOf(T) /\ q.forming # NoCandle
        /\ OpensNew(Bars(s), Bars(q), b, i, 0)
        /\ Gone(q) = Gone(s) /\ (Exact(s) => Exact(q))
    BY <1>3, <2>1, FirstIs
  <2>3. n = s.ring.count
    BY <1>1, <1>3 DEF Size
  <2>4. n = 0 \/ Bars(s)[n].start < b \/ OpensLate(s, b)
    <3> SUFFICES ASSUME n # 0 PROVE Bars(s)[n].start < b \/ OpensLate(s, b)
      OBVIOUS
    <3>1. n \in 1..s.ring.count /\ n \in 1..n
      BY <2>3, <1>1
    <3>2. Bars(s)[n] = Newest(s.ring).bar /\ Bars(s)[n].start \in Nat
      BY <3>1, <2>3, <1>1 DEF Newest, Cell
    <3>3. Bars(s)[n].start # b
      BY <3>1, <3>2, <2>3, <1>3, <1>1 DEF EndsAt
    <3>4. b < Bars(s)[n].start => OpensLate(s, b)
      BY <3>1, <3>2, <1>3, <1>1 DEF OpensLate
    <3> HIDE DEF n
    <3> QED BY <3>2, <3>3, <3>4
  <2>5. Gone(q) = Gone(s) + 0
    <3>1. Gone(s) \in Int
      <4>1. s.fed \in Seq(T \cup {NoCandle})
        BY DEF SeriesOf
      <4>2. Len(s.fed) \in Nat
        BY <4>1, LenProperties
      <4> QED BY <4>2, <1>1 DEF Gone
    <3> HIDE DEF q
    <3> QED BY <3>1, <2>2
  <2> HIDE DEF q
  <2>6. 0 <= n /\ 0 \in {0, 1}
    BY <2>3, <1>1
  <2>7. Folds(s, q, b, i)
    BY <2>2, <2>4, <2>5, <2>6 DEF Folds
  <2> QED BY <2>2, <2>7 DEF q
<1>4. CASE s.forming # NoCandle
  <2>1. /\ n = s.ring.count + 1 /\ n \in 1..n /\ Bars(s)[n] = s.forming
        /\ s.forming.start \in Nat
    BY <1>1, <1>4, BarsAre DEF Size
  <2>2. CASE b = s.forming.start
    <3>0. ~(b > s.forming.start)
      BY <2>1, <2>2
    <3>1. q = [s EXCEPT !.forming = Added(@, i)]
      BY <3>0, <1>4, <2>2, Zenon DEF foldTrade
    <3>2. /\ q \in SeriesOf(T) /\ q.forming # NoCandle
          /\ JoinsLast(Bars(s), Bars(q), i)
          /\ Gone(q) = Gone(s) /\ (Exact(s) => Exact(q))
      BY <1>4, <3>1, AddIs
    <3> HIDE DEF q
    <3>3. Folds(s, q, b, i)
      BY <3>2, <2>1, <2>2 DEF Folds
    <3> QED BY <3>2, <3>3 DEF q
  <2>3. CASE b > s.forming.start
    <3>1. b # s.forming.start
      BY <2>1, <2>3
    <3>2. q = [closeFormingBar(s, v) EXCEPT !.forming = newBar(b, i)]
      BY <1>4, <2>3, <3>1, Zenon DEF foldTrade
    <3> DEFINE d == IF s.ring.count < RingCap THEN 0 ELSE 1
    <3>3. /\ q \in SeriesOf(T) /\ q.forming # NoCandle
          /\ OpensNew(Bars(s), Bars(q), b, i, d)
          /\ Gone(q) = Gone(s) + d /\ (Exact(s) => Exact(q))
      BY <1>4, <3>2, CloseIs
    <3>4. d \in {0, 1} /\ d <= n /\ Bars(s)[n].start < b
      BY <1>1, <2>1, <2>3
    <3> HIDE DEF q, d
    <3>5. Folds(s, q, b, i)
      BY <3>3, <3>4 DEF Folds
    <3> QED BY <3>3, <3>5 DEF q
  <2>4. CASE b # s.forming.start /\ ~(b > s.forming.start)
    <3>1. q = Amended(s, b, i)
      BY <1>4, <2>4, Zenon DEF foldTrade
    <3>2. /\ q \in SeriesOf(T) /\ q.forming # NoCandle
          /\ \E m \in Nat : AmendsAt(s, b, m) /\ Amends(Bars(s), Bars(q), m, i)
          /\ Gone(q) = Gone(s) /\ (Exact(s) => Exact(q))
      BY <1>4, <3>1, AmendIs
    <3>3. b < Bars(s)[n].start
      BY <2>1, <2>4
    <3> HIDE DEF q
    <3>4. Folds(s, q, b, i)
      BY <3>2, <3>3, <2>1 DEF Folds
    <3> QED BY <3>2, <3>4 DEF q
  <2> QED BY <2>2, <2>3, <2>4
<1> QED BY <1>2, <1>3, <1>4
-----------------------------------------------------------------------------
(* The candles of a series as a sequence: in order, each print in its own.  *)

Ascends(B) == \A j, k \in 1..Len(B) : j < k => B[j].start < B[k].start

LateIn(T, i) == \E j \in T : j.n < i.n /\ j.ts > i.ts

\* No candle of B is the one of bucket b: the newest is younger, and i is
\* late or its candle was evicted.
Missing(B, g, b, T, i) ==
  /\ Len(B) > 0 /\ b < B[Len(B)].start
  /\ LateIn(T, i) \/ (g > 0 /\ b < B[1].start)

\* The candles B of which g were evicted hold the prints G, by buckets of L.
Filed(B, g, G, L, T) ==
  /\ \A k \in 1..Len(B) : B[k].prints \subseteq G /\ B[k].close \in B[k].prints
  /\ \A i \in G :
       /\ \A k \in 1..Len(B) : i \in B[k].prints <=> B[k].start = Bucket(L, i.ts)
       /\ (\A k \in 1..Len(B) : B[k].start # Bucket(L, i.ts)) =>
             Missing(B, g, Bucket(L, i.ts), T, i)

LEMMA PrintIs ==
  ASSUME NEW i \in Prints
  PROVE  /\ i.ts \in 1..MaxTime /\ i.ts \in Nat /\ i.n \in Nat \ {0}
         /\ \A L \in Nat \ {0} : Bucket(L, i.ts) \in 0..MaxTime
                                /\ Bucket(L, i.ts) \in Nat
<1>1. i.ts \in 1..MaxTime /\ i.ts \in Nat /\ i.n \in Nat \ {0} /\ MaxTime \in Nat
  BY BarsAssumption DEF Prints
<1>2. ASSUME NEW L \in Nat \ {0}
      PROVE  Bucket(L, i.ts) \in 0..MaxTime /\ Bucket(L, i.ts) \in Nat
  <2>1. Bucket(L, i.ts) \in 0..i.ts
    BY <1>1, BucketIs
  <2> QED BY <1>1, <2>1
<1> QED BY <1>1, <1>2

LEMMA CandleSeq ==
  ASSUME NEW T, NEW B \in Seq(Candles(T))
  PROVE  /\ Len(B) \in Nat
         /\ \A k \in 1..Len(B) : /\ B[k] \in Candles(T) /\ B[k].start \in Nat
                                 /\ B[k].prints \in SUBSET T /\ B[k].close \in T
<1>1. Len(B) \in Nat /\ \A k \in 1..Len(B) : B[k] \in Candles(T)
  BY LenProperties, ElementOfSeq
<1>2. \A bar \in Candles(T) : /\ bar.start \in Nat /\ bar.prints \in SUBSET T
                              /\ bar.close \in T
  BY DEF Candles
<1>3. ASSUME NEW k \in 1..Len(B)
      PROVE  /\ B[k] \in Candles(T) /\ B[k].start \in Nat
             /\ B[k].prints \in SUBSET T /\ B[k].close \in T
  <2>1. B[k] \in Candles(T)
    BY <1>1
  <2> QED BY <2>1, <1>2
<1> QED BY <1>1, <1>3

\* A print that joins the newest candle.
LEMMA JoinFiled ==
  ASSUME NEW T \in SUBSET Prints, NEW B \in Seq(Candles(T)), NEW C, NEW i \in T,
         NEW b, NEW g, JoinsLast(B, C, i), B[Len(B)].start = b
  PROVE  /\ Ascends(B) => Ascends(C)
         /\ \A G \in SUBSET T, L \in Nat \ {0} :
              Ascends(B) /\ Filed(B, g, G, L, T) /\ b = Bucket(L, i.ts) =>
                Filed(C, g, G \cup {i}, L, T)
<1> DEFINE n == Len(B)
<1>1. /\ n \in Nat /\ n > 0 /\ Len(C) = n /\ n \in 1..n
      /\ \A k \in 1..n : B[k] \in Candles(T) /\ B[k].start \in Nat
      /\ \A k \in 1..(n - 1) : C[k] = B[k]
      /\ C[n] = Added(B[n], i)
  <2>1. /\ n \in Nat
        /\ \A k \in 1..n : B[k] \in Candles(T) /\ B[k].start \in Nat
    BY CandleSeq
  <2>2. /\ n > 0 /\ Len(C) = n /\ \A k \in 1..(n - 1) : C[k] = B[k]
        /\ C[n] = Added(B[n], i)
    BY DEF JoinsLast
  <2> QED BY <2>1, <2>2
<1> HIDE DEF n
<1>2. /\ C[n].start = B[n].start /\ C[n].prints = B[n].prints \cup {i}
      /\ C[n].close = i
  <2>1. B[n] \in Candles(T)
    BY <1>1
  <2> QED BY <2>1, <1>1, CandleFields
<1>3. \A k \in 1..n : k = n \/ k \in 1..(n - 1)
  BY <1>1
<1>4. \A k \in 1..n : C[k].start = B[k].start
  BY <1>1, <1>2, <1>3
<1>5. Ascends(B) => Ascends(C)
  BY <1>1, <1>4 DEF Ascends, n
<1>6. ASSUME NEW G \in SUBSET T, NEW L \in Nat \ {0},
             Ascends(B), Filed(B, g, G, L, T), b = Bucket(L, i.ts)
      PROVE  Filed(C, g, G \cup {i}, L, T)
  <2>1. /\ \A k \in 1..n : B[k].prints \subseteq G /\ B[k].close \in B[k].prints
        /\ \A j \in G : \A k \in 1..n :
             j \in B[k].prints <=> B[k].start = Bucket(L, j.ts)
        /\ \A j \in G : (\A k \in 1..n : B[k].start # Bucket(L, j.ts)) =>
                          Missing(B, g, Bucket(L, j.ts), T, j)
    BY <1>6 DEF Filed, n
  <2>2. \A k \in 1..(n - 1) : B[k].start # b
    <3>1. \A k \in 1..(n - 1) : k \in 1..n /\ k < n
      BY <1>1
    <3>2. \A k \in 1..(n - 1) : B[k].start < B[n].start
      BY <3>1, <1>1, <1>6 DEF Ascends, n
    <3>3. B[n].start = b /\ \A k \in 1..(n - 1) : B[k].start \in Nat
      BY <3>1, <1>1 DEF n
    <3> QED BY <3>2, <3>3, <1>1
  <2>3. \A k \in 1..n : C[k].prints \subseteq G \cup {i} /\ C[k].close \in C[k].prints
    BY <1>1, <1>2, <1>3, <2>1
  <2>4. ASSUME NEW j \in G \cup {i}, NEW k \in 1..n
        PROVE  j \in C[k].prints <=> C[k].start = Bucket(L, j.ts)
    <3>1. CASE k = n
      <4>1. j = i => Bucket(L, j.ts) = B[n].start
        BY <1>6 DEF n
      <4> QED BY <3>1, <4>1, <1>1, <1>2, <2>1
    <3>2. CASE k \in 1..(n - 1)
      <4>1. CASE j \in G
        BY <3>2, <4>1, <1>1, <2>1
      <4>2. CASE j = i /\ j \notin G
        <5>1. j \notin B[k].prints /\ B[k].start # Bucket(L, j.ts)
          BY <3>2, <4>2, <2>1, <2>2, <1>6
        <5> QED BY <5>1, <3>2, <1>1
      <4> QED BY <4>1, <4>2
    <3> QED BY <3>1, <3>2, <1>3
  <2>5. ASSUME NEW j \in G \cup {i}, \A k \in 1..n : C[k].start # Bucket(L, j.ts)
        PROVE  Missing(C, g, Bucket(L, j.ts), T, j)
    <3>1. j # i
      BY <2>5, <1>1, <1>2, <1>6 DEF n
    <3>2. Missing(B, g, Bucket(L, j.ts), T, j)
      BY <3>1, <2>5, <2>1, <1>4
    <3>3. C[1].start = B[1].start /\ C[Len(C)].start = B[Len(B)].start
      <4>1. 1 \in 1..n
        BY <1>1
      <4> QED BY <4>1, <1>1, <1>4 DEF n
    <3> QED BY <3>2, <3>3, <1>1 DEF Missing, n
  <2> QED BY <2>3, <2>4, <2>5, <1>1 DEF Filed
<1> QED BY <1>5, <1>6

\* A print that opens a candle younger than all.
LEMMA NewFiled ==
  ASSUME NEW T \in SUBSET Prints, NEW B \in Seq(Candles(T)), NEW C, NEW i \in T,
         NEW b \in Nat, NEW d \in 0..1, d <= Len(B), OpensNew(B, C, b, i, d),
         Len(B) = 0 \/ B[Len(B)].start < b
  PROVE  /\ Ascends(B) => Ascends(C)
         /\ \A g \in Nat, G \in SUBSET T, L \in Nat \ {0} :
              Ascends(B) /\ Filed(B, g, G, L, T) /\ b = Bucket(L, i.ts) =>
                Filed(C, g + d, G \cup {i}, L, T)
<1> DEFINE n == Len(B)
           m == n + 1 - d
<1>1. /\ n \in Nat /\ Len(C) = m /\ m \in 1..m /\ m \in Nat /\ m > 0
      /\ \A k \in 1..n : B[k] \in Candles(T) /\ B[k].start \in Nat
      /\ \A k \in 1..(m - 1) : C[k] = B[k + d] /\ k + d \in 1..n
      /\ C[m] = newBar(b, i)
  <2>1. /\ n \in Nat
        /\ \A k \in 1..n : B[k] \in Candles(T) /\ B[k].start \in Nat
    BY CandleSeq
  <2>2. /\ Len(C) = m /\ \A k \in 1..(n - d) : C[k] = B[k + d]
        /\ C[m] = newBar(b, i) /\ d <= n
    BY DEF OpensNew
  <2> HIDE DEF n
  <2>3. m - 1 = n - d /\ m \in 1..m /\ m \in Nat /\ m > 0
        /\ \A k \in 1..(m - 1) : k + d \in 1..n
    BY <2>1, <2>2
  <2> QED BY <2>1, <2>2, <2>3
<1>2. n = 0 \/ B[n].start < b
  OBVIOUS
<1>3. /\ C[m].start = b /\ C[m].prints = {i} /\ C[m].close = i
  BY <1>1, NewFields
<1>4. \A k \in 1..m : k = m \/ k \in 1..(m - 1)
  BY <1>1
<1> HIDE DEF m
<1>5. ASSUME Ascends(B) PROVE \A k \in 1..n : B[k].start < b
  <2> SUFFICES ASSUME NEW k \in 1..n PROVE B[k].start < b
    OBVIOUS
  <2>1. n \in 1..n /\ n # 0
    BY <1>1
  <2>2. k = n \/ B[k].start < B[n].start
    BY <2>1, <1>1, <1>5 DEF Ascends
  <2>3. B[k].start \in Nat /\ B[n].start \in Nat /\ B[n].start < b
    BY <2>1, <1>1, <1>2
  <2> QED BY <2>2, <2>3
<1>6. ASSUME Ascends(B) PROVE Ascends(C)
  <2> SUFFICES ASSUME NEW j \in 1..m, NEW k \in 1..m, j < k
               PROVE  C[j].start < C[k].start
    BY <1>1 DEF Ascends
  <2>1. j \in 1..(m - 1)
    BY <1>1
  <2>2. CASE k = m
    BY <2>1, <2>2, <1>1, <1>3, <1>5, <1>6
  <2>3. CASE k \in 1..(m - 1)
    <3>1. j + d < k + d /\ j + d \in 1..n /\ k + d \in 1..n
      BY <2>1, <2>3, <1>1
    <3>2. B[j + d].start < B[k + d].start
      BY <3>1, <1>6 DEF Ascends
    <3> QED BY <3>2, <2>1, <2>3, <1>1
  <2> QED BY <2>2, <2>3, <1>4
<1>7. ASSUME NEW g \in Nat, NEW G \in SUBSET T, NEW L \in Nat \ {0},
             Ascends(B), Filed(B, g, G, L, T), b = Bucket(L, i.ts)
      PROVE  Filed(C, g + d, G \cup {i}, L, T)
  <2>1. /\ \A k \in 1..n : B[k].prints \subseteq G /\ B[k].close \in B[k].prints
        /\ \A j \in G : \A k \in 1..n :
             j \in B[k].prints <=> B[k].start = Bucket(L, j.ts)
        /\ \A j \in G : (\A k \in 1..n : B[k].start # Bucket(L, j.ts)) =>
                          Missing(B, g, Bucket(L, j.ts), T, j)
    BY <1>7 DEF Filed
  <2>2. /\ \A k \in 1..n : B[k].start < b /\ B[k].start # b /\ i \notin B[k].prints
    <3> SUFFICES ASSUME NEW k \in 1..n
                 PROVE  B[k].start < b /\ B[k].start # b /\ i \notin B[k].prints
      OBVIOUS
    <3>1. B[k].start < b /\ B[k].start # b
      BY <1>1, <1>5, <1>7
    <3>2. i \in B[k].prints => i \in G
      BY <2>1
    <3> QED BY <3>1, <3>2, <2>1, <1>7
  <2>3. ASSUME NEW k \in 1..m
        PROVE  C[k].prints \subseteq G \cup {i} /\ C[k].close \in C[k].prints
    <3>1. CASE k = m
      BY <3>1, <1>3
    <3>2. CASE k \in 1..(m - 1)
      <4>1. C[k] = B[k + d] /\ k + d \in 1..n
        BY <3>2, <1>1
      <4> QED BY <4>1, <2>1
    <3> QED BY <3>1, <3>2, <1>4
  \* No print of the series is in the new candle's bucket.
  <2>4. \A j \in G : Bucket(L, j.ts) # b
    <3> SUFFICES ASSUME NEW j \in G, Bucket(L, j.ts) = b PROVE FALSE
      OBVIOUS
    <3>1. Missing(B, g, b, T, j)
      BY <2>1, <2>2
    <3>2. Len(B) > 0 /\ b < B[Len(B)].start
      BY <3>1 DEF Missing
    <3>3. n \in 1..n /\ B[n].start \in Nat
      BY <3>2, <1>1
    <3> QED BY <3>2, <3>3, <1>1, <1>2
  <2>5. ASSUME NEW j \in G \cup {i}, NEW k \in 1..m
        PROVE  j \in C[k].prints <=> C[k].start = Bucket(L, j.ts)
    <3>1. CASE k = m
      BY <3>1, <2>4, <1>1, <1>3, <1>7
    <3>2. CASE k \in 1..(m - 1)
      <4>1. C[k] = B[k + d] /\ k + d \in 1..n
        BY <3>2, <1>1
      <4>2. CASE j \in G
        BY <4>1, <4>2, <2>1
      <4>3. CASE j = i
        BY <4>1, <4>3, <2>2, <1>7
      <4> QED BY <4>2, <4>3
    <3> QED BY <3>1, <3>2, <1>4
  <2>6. ASSUME NEW j \in G \cup {i}, \A k \in 1..m : C[k].start # Bucket(L, j.ts)
        PROVE  Missing(C, g + d, Bucket(L, j.ts), T, j)
    <3> DEFINE bj == Bucket(L, j.ts)
    <3>1. j # i /\ j \in G
      BY <2>6, <1>1, <1>3, <1>7
    <3>4. bj \in Int
      <4>1. j \in Prints
        BY <3>1
      <4>2. Bucket(L, j.ts) \in Nat
        BY <4>1, PrintIs
      <4> QED BY <4>2
    <3>2. CASE d = 1 /\ B[1].start = bj
      <4>1. 1 \in 1..n /\ B[1].start < b /\ C[m].start = b /\ n > 0
        BY <3>2, <1>1, <1>3, <2>2
      <4>2. bj < C[1].start
        <5>1. CASE m = 1
          BY <5>1, <4>1, <3>2
        <5>2. CASE m # 1
          <6>1. 1 \in 1..(m - 1) /\ 1 + d = 2
            BY <5>2, <3>2, <1>1
          <6>2. C[1] = B[2] /\ 2 \in 1..n
            BY <6>1, <1>1
          <6>3. B[1].start < B[2].start
            BY <6>2, <4>1, <1>7 DEF Ascends
          <6> QED BY <6>2, <6>3, <3>2
        <5> QED BY <5>1, <5>2
      <4>3. bj < C[Len(C)].start
        BY <4>1, <3>2, <1>1
      <4>4. g + d > 0
        BY <3>2
      <4> QED BY <4>2, <4>3, <4>4, <1>1 DEF Missing
    <3>3. CASE ~(d = 1 /\ B[1].start = bj)
      <4>1. \A k \in 1..n : B[k].start # bj
        <5> SUFFICES ASSUME NEW k \in 1..n PROVE B[k].start # bj
          OBVIOUS
        <5>1. CASE d = 1 /\ k = 1
          BY <5>1, <3>3
        <5>2. CASE ~(d = 1 /\ k = 1)
          <6>1. k - d \in 1..(m - 1) /\ (k - d) + d = k /\ k - d \in 1..m
            BY <5>2, <1>1 DEF m
          <6> QED BY <6>1, <2>6, <1>1
        <5> QED BY <5>1, <5>2
      <4>2. Missing(B, g, bj, T, j)
        BY <4>1, <3>1, <2>1
      <4>3. n > 0 /\ bj < B[n].start /\ (LateIn(T, j) \/ (g > 0 /\ bj < B[1].start))
        BY <4>2 DEF Missing
      <4>4. bj < b /\ n \in 1..n /\ 1 \in 1..n
        <5>1. n \in 1..n /\ 1 \in 1..n
          BY <4>3, <1>1
        <5>2. B[n].start < b /\ B[n].start \in Nat
          BY <5>1, <2>2, <1>1
        <5> HIDE DEF bj
        <5> QED BY <5>1, <5>2, <3>4, <4>3
      <4>5. LateIn(T, j) \/ (g + d > 0 /\ bj < C[1].start)
        <5>1. CASE LateIn(T, j)
          BY <5>1
        <5>2. CASE g > 0 /\ bj < B[1].start
          <6>1. CASE m = 1
            BY <6>1, <5>2, <4>4, <1>3
          <6>2. CASE m # 1
            <7>1. 1 \in 1..(m - 1) /\ 1 + d \in 1..n /\ C[1] = B[1 + d]
              BY <6>2, <1>1
            <7>2. B[1].start < B[1 + d].start \/ d = 0
              BY <7>1, <4>4, <1>7 DEF Ascends
            <7>3. B[1].start \in Nat /\ B[1 + d].start \in Nat
              BY <7>1, <4>4, <1>1
            <7> HIDE DEF bj
            <7> QED BY <7>1, <7>2, <7>3, <5>2, <3>4
          <6> QED BY <6>1, <6>2
        <5> QED BY <5>1, <5>2, <4>3
      <4> QED BY <4>4, <4>5, <1>1, <1>3 DEF Missing
    <3> QED BY <3>2, <3>3
  <2> QED BY <2>3, <2>5, <2>6, <1>1 DEF Filed
<1> QED BY <1>6, <1>7

\* A print older than the newest candle.  The prints the series was handed
\* before it that are of a younger bucket were reported before it.
LEMMA AmendFiled ==
  ASSUME NEW T \in SUBSET Prints, NEW B \in Seq(Candles(T)), NEW C, NEW i \in T,
         NEW b \in Nat, NEW m \in Nat, Amends(B, C, m, i),
         Len(B) > 0, b < B[Len(B)].start,
         IF m > 0 THEN m < Len(B) /\ B[m].start = b
         ELSE \E h \in 0..(Len(B) - 1) :
                /\ \A k \in 1..(Len(B) - 1) : B[k].start <= b => k <= h
                /\ h > 0 => B[h].start < b,
         NEW g
  PROVE  /\ Ascends(B) => Ascends(C)
         /\ \A G \in SUBSET T, L \in Nat \ {0} :
              /\ Ascends(B) /\ Filed(B, g, G, L, T) /\ b = Bucket(L, i.ts)
              /\ \A j \in G : Bucket(L, i.ts) < Bucket(L, j.ts) => j.n < i.n
              => Filed(C, g, G \cup {i}, L, T)
<1> DEFINE n == Len(B)
<1>1. /\ n \in Nat /\ n \in 1..n /\ 1 \in 1..n /\ Len(C) = n
      /\ \A k \in 1..n : B[k] \in Candles(T) /\ B[k].start \in Nat
  <2>1. n \in Nat /\ \A k \in 1..n : B[k] \in Candles(T) /\ B[k].start \in Nat
    BY CandleSeq
  <2> QED BY <2>1 DEF Amends
<1>2. ASSUME NEW k \in 1..n
      PROVE  /\ C[k].start = B[k].start /\ C[k].close = B[k].close
             /\ C[k].prints = IF k = m THEN B[k].prints \cup {i} ELSE B[k].prints
  <2>1. B[k] \in Candles(T)
    BY <1>1
  <2>2. C[k] = IF k = m THEN Widened(B[k], i) ELSE B[k]
    BY DEF Amends
  <2>3. /\ Widened(B[k], i).start = B[k].start /\ Widened(B[k], i).close = B[k].close
        /\ Widened(B[k], i).prints = B[k].prints \cup {i}
    BY <2>1, CandleFields
  <2> QED BY <2>2, <2>3
<1>3. Ascends(B) => Ascends(C)
  BY <1>1, <1>2 DEF Ascends
<1>4. ASSUME Ascends(B) PROVE \A k \in 1..n : B[k].start = b <=> m > 0 /\ k = m
  <2> SUFFICES ASSUME NEW k \in 1..n PROVE B[k].start = b <=> m > 0 /\ k = m
    OBVIOUS
  <2>1. CASE m > 0
    <3>1. m \in 1..n /\ B[m].start = b
      BY <2>1, <1>1
    <3>2. k # m => B[k].start < b \/ b < B[k].start
      BY <3>1, <1>1, <1>4 DEF Ascends
    <3> QED BY <2>1, <3>1, <3>2, <1>1
  <2>2. CASE ~(m > 0)
    <3>1. PICK h \in 0..(n - 1) :
             /\ \A l \in 1..(n - 1) : B[l].start <= b => l <= h
             /\ h > 0 => B[h].start < b
      BY <2>2
    <3>2. SUFFICES ASSUME B[k].start = b PROVE FALSE
      BY <2>2
    <3>3. k # n /\ k \in 1..(n - 1)
      BY <3>2, <1>1
    <3>4. k <= h /\ h > 0 /\ h \in 1..n
      BY <3>1, <3>2, <3>3, <1>1
    <3>5. B[h].start < b /\ (k = h \/ B[k].start < B[h].start)
      BY <3>1, <3>4, <1>1, <1>4 DEF Ascends
    <3> QED BY <3>2, <3>4, <3>5, <1>1
  <2> QED BY <2>1, <2>2
<1>5. ASSUME NEW G \in SUBSET T, NEW L \in Nat \ {0},
             Ascends(B), Filed(B, g, G, L, T), b = Bucket(L, i.ts),
             \A j \in G : Bucket(L, i.ts) < Bucket(L, j.ts) => j.n < i.n
      PROVE  Filed(C, g, G \cup {i}, L, T)
  <2>1. /\ \A k \in 1..n : B[k].prints \subseteq G /\ B[k].close \in B[k].prints
        /\ \A j \in G : \A k \in 1..n :
             j \in B[k].prints <=> B[k].start = Bucket(L, j.ts)
        /\ \A j \in G : (\A k \in 1..n : B[k].start # Bucket(L, j.ts)) =>
                          Missing(B, g, Bucket(L, j.ts), T, j)
    BY <1>5 DEF Filed
  <2>2. \A k \in 1..n : B[k].start = b <=> m > 0 /\ k = m
    BY <1>4, <1>5
  <2>3. ASSUME NEW k \in 1..n
        PROVE  C[k].prints \subseteq G \cup {i} /\ C[k].close \in C[k].prints
    <3>1. B[k].prints \subseteq G /\ B[k].close \in B[k].prints
      BY <2>1
    <3> QED BY <3>1, <1>2
  <2>4. ASSUME NEW j \in G \cup {i}, NEW k \in 1..n
        PROVE  j \in C[k].prints <=> C[k].start = Bucket(L, j.ts)
    <3>1. CASE j \in G /\ j # i
      <4>1. j \in B[k].prints <=> B[k].start = Bucket(L, j.ts)
        BY <3>1, <2>1
      <4>2. j \in C[k].prints <=> j \in B[k].prints
        BY <3>1, <1>2
      <4> QED BY <4>1, <4>2, <1>2
    <3>2. CASE j = i
      <4>1. i \in C[k].prints <=> (k = m \/ i \in B[k].prints)
        BY <1>2
      <4>2. k = m => m > 0
        BY <1>1
      <4>3. i \in B[k].prints => B[k].start = b
        BY <2>1, <1>5
      <4> QED BY <3>2, <4>1, <4>2, <4>3, <2>2, <1>2, <1>5
    <3> QED BY <3>1, <3>2
  <2>5. C[1].start = B[1].start /\ C[Len(C)].start = B[Len(B)].start
    BY <1>1, <1>2
  <2>6. ASSUME NEW j \in G \cup {i}, \A k \in 1..n : C[k].start # Bucket(L, j.ts)
        PROVE  Missing(C, g, Bucket(L, j.ts), T, j)
    <3>1. CASE j \in G
      <4>1. Missing(B, g, Bucket(L, j.ts), T, j)
        BY <3>1, <2>6, <2>1, <1>2
      <4> QED BY <4>1, <2>5, <1>1 DEF Missing
    <3>2. CASE j = i
      <4> DEFINE y == B[n].close
      <4>1. y \in B[n].prints /\ y \in G /\ y \in T
        BY <2>1, <1>1
      <4>2. B[n].start = Bucket(L, y.ts)
        BY <4>1, <2>1, <1>1
      <4>3. i \in Prints /\ y \in Prints
        BY <4>1
      <4> HIDE DEF y
      <4>4. i.ts \in Nat /\ y.ts \in Nat
        BY <4>3, PrintIs
      <4>5. y.ts > i.ts
        <5>1. y.ts <= i.ts => Bucket(L, y.ts) <= Bucket(L, i.ts)
          BY <4>4, BucketMonotone
        <5> QED BY <5>1, <4>2, <4>4, <1>1, <1>5
      <4>7. y.n < i.n
        BY <4>1, <4>2, <1>1, <1>5
      <4>6. LateIn(T, i)
        BY <4>1, <4>5, <4>7 DEF LateIn
      <4> QED BY <3>2, <4>6, <2>5, <1>1, <1>5 DEF Missing
    <3> QED BY <3>1, <3>2
  <2> QED BY <2>3, <2>4, <2>6, <1>1 DEF Filed
<1> QED BY <1>3, <1>5
-----------------------------------------------------------------------------
(* foldTrade of a series in order, and the prints it holds. *)

LEMMA FoldFiled ==
  ASSUME NEW T \in SUBSET Prints, NEW s \in SeriesOf(T), NEW i \in T,
         NEW b \in 0..MaxTime, NEW v \in SUBSET T, ~OpensLate(s, b)
  PROVE  LET q == foldTrade(s, b, i, v) IN
         /\ Ascends(Bars(s)) => Ascends(Bars(q))
         /\ \A G \in SUBSET T, L \in Nat \ {0} :
              /\ Ascends(Bars(s)) /\ Exact(s) /\ b = Bucket(L, i.ts)
              /\ Filed(Bars(s), Gone(s), G, L, T)
              /\ \A j \in G : Bucket(L, i.ts) < Bucket(L, j.ts) => j.n < i.n
              => Filed(Bars(q), Gone(q), G \cup {i}, L, T)
<1> DEFINE q == foldTrade(s, b, i, v)
           B == Bars(s)
           C == Bars(q)
           n == Len(B)
<1>1. B \in Seq(Candles(T)) /\ n \in Nat /\ b \in Nat /\ s.ring.count \in Nat
  <2>1. b \in Nat
    OBVIOUS
  <2> QED BY <2>1, BarsAre
<1>2. Folds(s, q, b, i)
  BY FoldIs
<1>3. Exact(s) => Gone(s) \in Nat
  <2>1. s.fed \in Seq(T \cup {NoCandle})
    BY DEF SeriesOf
  <2>2. Len(s.fed) \in Nat
    BY <2>1, LenProperties
  <2>3. Gone(s) \in Int
    BY <2>2, <1>1 DEF Gone
  <2> QED BY <2>3 DEF Exact
<1> HIDE DEF q
<1>4. CASE JoinsLast(B, C, i) /\ B[n].start = b /\ (Exact(s) => Gone(q) = Gone(s))
  <2>1. Ascends(B) => Ascends(C)
    BY <1>1, <1>4, JoinFiled
  <2>2. \A G \in SUBSET T, L \in Nat \ {0} :
          Ascends(B) /\ Filed(B, Gone(s), G, L, T) /\ b = Bucket(L, i.ts) =>
            Filed(C, Gone(s), G \cup {i}, L, T)
    BY <1>1, <1>4, JoinFiled
  <2> HIDE DEF B, C
  <2> QED BY <2>1, <2>2, <1>4 DEF q, B, C
<1>5. ASSUME NEW d \in {0, 1}, d <= n, OpensNew(B, C, b, i, d), Gone(q) = Gone(s) + d,
             n = 0 \/ B[n].start < b \/ OpensLate(s, b)
      PROVE  /\ Ascends(B) => Ascends(C)
             /\ \A G \in SUBSET T, L \in Nat \ {0} :
                  /\ Ascends(B) /\ Exact(s) /\ b = Bucket(L, i.ts)
                  /\ Filed(B, Gone(s), G, L, T)
                  => Filed(C, Gone(q), G \cup {i}, L, T)
  <2>1. n = 0 \/ B[n].start < b
    BY <1>5
  <2>2. Ascends(B) => Ascends(C)
    <3>1. /\ B \in Seq(Candles(T)) /\ b \in Nat /\ d <= Len(B)
          /\ d \in 0..1
          /\ Len(B) = 0 \/ B[Len(B)].start < b
      BY <1>1, <1>5, <2>1
    <3> HIDE DEF B, C, n
    <3> QED BY <3>1, <1>5, NewFiled
  <2>3. ASSUME Exact(s)
        PROVE  \A G \in SUBSET T, L \in Nat \ {0} :
                 Ascends(B) /\ Filed(B, Gone(s), G, L, T) /\ b = Bucket(L, i.ts) =>
                   Filed(C, Gone(s) + d, G \cup {i}, L, T)
    <3>1. Gone(s) \in Nat
      BY <1>3, <2>3
    <3>2. /\ B \in Seq(Candles(T)) /\ b \in Nat /\ d <= Len(B)
          /\ d \in 0..1
          /\ Len(B) = 0 \/ B[Len(B)].start < b
      BY <1>1, <1>5, <2>1
    <3> HIDE DEF B, C, n
    <3>3. \A g \in Nat, G \in SUBSET T, L \in Nat \ {0} :
            Ascends(B) /\ Filed(B, g, G, L, T) /\ b = Bucket(L, i.ts) =>
              Filed(C, g + d, G \cup {i}, L, T)
      BY <3>2, <1>5, NewFiled
    <3> QED BY <3>1, <3>3
  <2> HIDE DEF B, C, n
  <2> QED BY <2>2, <2>3, <1>5
<1>6. ASSUME NEW m \in Nat, n = s.ring.count + 1, b < B[n].start,
             AmendsAt(s, b, m), Amends(B, C, m, i), Gone(q) = Gone(s)
      PROVE  /\ Ascends(B) => Ascends(C)
             /\ \A G \in SUBSET T, L \in Nat \ {0} :
                  /\ Ascends(B) /\ Filed(B, Gone(s), G, L, T) /\ b = Bucket(L, i.ts)
                  /\ \A j \in G : Bucket(L, i.ts) < Bucket(L, j.ts) => j.n < i.n
                  => Filed(C, Gone(s), G \cup {i}, L, T)
  <2>1. Len(B) > 0 /\ b < B[Len(B)].start /\ Len(B) - 1 = s.ring.count
    BY <1>1, <1>6
  <2>2. IF m > 0 THEN m < Len(B) /\ B[m].start = b
        ELSE \E h \in 0..(Len(B) - 1) :
               /\ \A k \in 1..(Len(B) - 1) : B[k].start <= b => k <= h
               /\ h > 0 => B[h].start < b
    <3>1. CASE m > 0
      BY <3>1, <1>1, <1>6 DEF AmendsAt
    <3>2. CASE ~(m > 0)
      BY <3>2, <2>1, <1>6 DEF AmendsAt
    <3> QED BY <3>1, <3>2
  <2> HIDE DEF B, C, n
  <2> QED BY <1>1, <1>6, <2>1, <2>2, AmendFiled
<1>7. \/ JoinsLast(B, C, i) /\ B[n].start = b /\ (Exact(s) => Gone(q) = Gone(s))
      \/ \E d \in {0, 1} :
           /\ d <= n /\ OpensNew(B, C, b, i, d) /\ Gone(q) = Gone(s) + d
           /\ n = 0 \/ B[n].start < b \/ OpensLate(s, b)
      \/ \E m \in Nat :
           /\ n = s.ring.count + 1 /\ b < B[n].start
           /\ AmendsAt(s, b, m) /\ Amends(B, C, m, i) /\ Gone(q) = Gone(s)
  BY <1>2, Zenon DEF Folds
<1> HIDE DEF B, C, n
<1>8. /\ Ascends(B) => Ascends(C)
      /\ \A G \in SUBSET T, L \in Nat \ {0} :
           /\ Ascends(B) /\ Exact(s) /\ b = Bucket(L, i.ts)
           /\ Filed(B, Gone(s), G, L, T)
           /\ \A j \in G : Bucket(L, i.ts) < Bucket(L, j.ts) => j.n < i.n
           => Filed(C, Gone(q), G \cup {i}, L, T)
  <2>1. CASE \E d \in {0, 1} :
               /\ d <= n /\ OpensNew(B, C, b, i, d) /\ Gone(q) = Gone(s) + d
               /\ n = 0 \/ B[n].start < b \/ OpensLate(s, b)
    BY <2>1, <1>5
  <2>2. CASE \E m \in Nat :
               /\ n = s.ring.count + 1 /\ b < B[n].start
               /\ AmendsAt(s, b, m) /\ Amends(B, C, m, i) /\ Gone(q) = Gone(s)
    BY <2>2, <1>6
  <2>3. CASE JoinsLast(B, C, i) /\ B[n].start = b /\ (Exact(s) => Gone(q) = Gone(s))
    BY <2>3, <1>4 DEF B, C, q
  <2> QED BY <2>1, <2>2, <2>3, <1>7
<1> QED BY <1>8 DEF B, C, q
-----------------------------------------------------------------------------
(* The tape, and the trades REST lists. *)

\* The prints are numbered in the order of the reports.
Numbered(T) ==
  /\ T \in SUBSET Prints /\ IsFiniteSet(T)
  /\ \A i \in T : i.n <= Cardinality(T)
  /\ \A i, j \in T : i.n = j.n => i = j

\* The last of some prints.
LEMMA LastPrint ==
  ASSUME NEW N \in Nat, NEW S \in SUBSET Prints, S # {},
         \A i \in S : i.n <= N, \A i, j \in S : i.n = j.n => i = j
  PROVE  \E g \in S : \A m \in S : m = g \/ Before(m, g)
<1>1. \A i \in S : i.ts \in 0..MaxTime /\ i.n \in 0..N /\ i.ts \in Nat /\ i.n \in Nat
  <2> SUFFICES ASSUME NEW i \in S
               PROVE  i.ts \in 0..MaxTime /\ i.n \in 0..N /\ i.ts \in Nat /\ i.n \in Nat
    OBVIOUS
  <2>1. i \in Prints /\ MaxTime \in Nat
    BY BarsAssumption
  <2>2. i.ts \in 1..MaxTime /\ i.ts \in Nat /\ i.n \in Nat \ {0}
    BY <2>1, PrintIs
  <2> QED BY <2>1, <2>2
<1>2. PICK t \in {i.ts : i \in S} : \A u \in {i.ts : i \in S} : u <= t
  <2> DEFINE U == {i.ts : i \in S}
  <2>1. U \in SUBSET (0..MaxTime) /\ U # {} /\ MaxTime \in Nat
    BY <1>1, BarsAssumption
  <2> HIDE DEF U
  <2>2. \E t \in U : \A u \in U : u <= t
    BY <2>1, GreatestOf
  <2> QED BY <2>2 DEF U
<1> DEFINE L == {i \in S : i.ts = t}
<1>3. PICK c \in {i.n : i \in L} : \A u \in {i.n : i \in L} : u <= c
  <2> DEFINE U == {i.n : i \in L}
  <2>1. L # {}
    BY <1>2
  <2>2. U \in SUBSET (0..N) /\ U # {}
    BY <2>1, <1>1
  <2> HIDE DEF U
  <2>3. \E c \in U : \A u \in U : u <= c
    BY <2>2, GreatestOf
  <2> QED BY <2>3 DEF U
<1>4. PICK g \in S : g.ts = t /\ g.n = c
  BY <1>3
<1>5. ASSUME NEW m \in S PROVE m = g \/ Before(m, g)
  <2>1. m.ts <= g.ts
    BY <1>2, <1>4
  <2>2. m.ts = g.ts => m.n <= g.n
    BY <1>3, <1>4
  <2>3. m.n = g.n => m = g
    OBVIOUS
  <2>4. m.ts \in Nat /\ g.ts \in Nat /\ m.n \in Nat /\ g.n \in Nat
    BY <1>1
  <2> QED BY <2>1, <2>2, <2>3, <2>4 DEF Before
<1> QED BY <1>5

Sorted(s) == \A j, k \in DOMAIN s : j < k => Before(s[j], s[k])

\* Prints can be put in order: by induction over how many there are, the last
\* goes last.
LEMMA SortedExists ==
  ASSUME NEW T, Numbered(T)
  PROVE  \A S \in SUBSET T : \E s \in [1..Cardinality(S) -> S] : Sorted(s)
<1> DEFINE Bad(S) == \A s \in [1..Cardinality(S) -> S] : ~Sorted(s)
           N == {Cardinality(S) : S \in {X \in SUBSET T : Bad(X)}}
<1> SUFFICES ASSUME NEW W \in SUBSET T, Bad(W) PROVE FALSE
  BY Zenon
<1>0. Cardinality(W) \in N
  BY Zenon
<1>1. \A S \in SUBSET T : IsFiniteSet(S) /\ Cardinality(S) \in Nat
  <2> SUFFICES ASSUME NEW S \in SUBSET T PROVE IsFiniteSet(S) /\ Cardinality(S) \in Nat
    OBVIOUS
  <2>1. IsFiniteSet(S)
    BY FS_Subset DEF Numbered
  <2> QED BY <2>1, FS_CardinalityType
<1>2. N \in SUBSET Nat
  BY <1>1, Zenon
<1>3. PICK n \in N : \A m \in N : n <= m
  <2> HIDE DEF N
  <2> QED BY <1>0, <1>2, LeastOf
<1>4. PICK S \in SUBSET T : Bad(S) /\ n = Cardinality(S)
  BY <1>3, Zenon
<1>5. S # {}
  <2> SUFFICES ASSUME S = {} PROVE FALSE
    OBVIOUS
  <2>1. Cardinality(S) = 0
    BY FS_EmptySet
  <2>2. <<>> \in [1..0 -> S] /\ Sorted(<<>>)
    BY DEF Sorted
  <2> QED BY <2>1, <2>2, <1>4, Zenon
<1>6. PICK g \in S : \A m \in S : m = g \/ Before(m, g)
  <2>1. /\ Cardinality(T) \in Nat /\ S \in SUBSET Prints
        /\ \A i \in S : i.n <= Cardinality(T)
        /\ \A i, j \in S : i.n = j.n => i = j
    BY <1>1 DEF Numbered
  <2> QED BY <1>5, <2>1, LastPrint
<1> DEFINE R == S \ {g}
<1>7. R \in SUBSET T /\ Cardinality(R) = n - 1 /\ n - 1 \in Nat
  <2>1. Cardinality(R) = n - 1
    BY <1>1, <1>4, <1>6, FS_RemoveElement
  <2>2. Cardinality(R) \in Nat
    BY <1>1
  <2> QED BY <2>1, <2>2
<1>8. n \in Nat
  BY <1>2, <1>3, Zenon
<1>9. ~Bad(R)
  <2>1. n - 1 \notin N
    <3> HIDE DEF N
    <3> QED BY <1>3, <1>8
  <2> QED BY <2>1, <1>7, Zenon
<1>10. PICK r \in [1..(n - 1) -> R] : Sorted(r)
  <2> HIDE DEF R
  <2> QED BY <1>7, <1>9
<1> DEFINE s == [i \in 1..n |-> IF i = n THEN g ELSE r[i]]
<1>11. s \in [1..n -> S]
  <2>1. \A i \in 1..n : i # n => i \in 1..(n - 1)
    BY <1>8
  <2>2. \A i \in 1..n : (IF i = n THEN g ELSE r[i]) \in S
    BY <2>1, <1>10, <1>6
  <2> QED BY <2>2, Zenon
<1>12. Sorted(s)
  <2> SUFFICES ASSUME NEW j \in 1..n, NEW k \in 1..n, j < k
               PROVE  Before(s[j], s[k])
    BY DEF Sorted
  <2>1. j \in 1..(n - 1)
    BY <1>8
  <2>2. r[j] \in R /\ s[j] = r[j]
    BY <2>1, <1>10, <1>8
  <2>3. CASE k = n
    <3>1. s[k] = g
      BY <2>3
    <3>2. r[j] \in S /\ r[j] # g
      BY <2>2
    <3> QED BY <2>2, <3>1, <3>2, <1>6
  <2>4. CASE k # n
    <3>1. k \in 1..(n - 1) /\ s[k] = r[k]
      BY <2>4, <1>8
    <3> QED BY <2>1, <2>2, <3>1, <1>10 DEF Sorted
  <2> QED BY <2>3, <2>4
<1> QED
  <2> HIDE DEF s
  <2>1. s \in [1..Cardinality(S) -> S]
    BY <1>4, <1>11
  <2> QED BY <2>1, <1>4, <1>12

LEMMA TradesAre ==
  ASSUME Numbered(tape), NEW until \in Nat
  PROVE  /\ Trades(until) \in Seq(tape)
         /\ \A k \in 1..Len(Trades(until)) : Trades(until)[k].ts <= until
         /\ \A j, k \in 1..Len(Trades(until)) :
              j < k => Before(Trades(until)[j], Trades(until)[k])
<1> DEFINE listed == {i \in tape : i.ts <= until}
           c == Cardinality(listed)
           t == Trades(until)
<1>1. c \in Nat
  <2>1. IsFiniteSet(listed)
    <3>1. listed \in SUBSET tape /\ IsFiniteSet(tape)
      BY DEF Numbered
    <3> QED BY <3>1, FS_Subset
  <2> QED BY <2>1, FS_CardinalityType
<1>2. t \in [1..c -> listed] /\ Sorted(t)
  <2>1. \E s \in [1..c -> listed] : Sorted(s)
    BY SortedExists
  <2> QED BY <2>1 DEF Sorted, Trades
<1> HIDE DEF t, c
<1>3. t \in Seq(listed) /\ Len(t) = c /\ DOMAIN t = 1..c
  BY <1>1, <1>2
<1>4. t \in Seq(tape)
  BY <1>3
<1>5. \A k \in 1..Len(t) : t[k].ts <= until
  BY <1>2, <1>3
<1> QED BY <1>2, <1>3, <1>4, <1>5 DEF t, Sorted
-----------------------------------------------------------------------------
(* resampleTo. *)

\* The prints of B[j] have one bucket, which is that of B[j]; the buckets do
\* not descend.
Rises(B, L) ==
  /\ \A j \in 1..Len(B) : /\ B[j].close \in B[j].prints
                          /\ \A i \in B[j].prints : Bucket(L, i.ts) = Bucket(L, B[j].start)
  /\ \A j, k \in 1..Len(B) : j < k => Bucket(L, B[j].start) <= Bucket(L, B[k].start)

\* R is the first n candles of B, those of one bucket in one.
Gathers(R, B, n, L) ==
  /\ Ascends(R)
  /\ \A k \in 1..Len(R) :
       /\ R[k].close \in R[k].prints
       /\ R[k].prints = UNION {B[j].prints : j \in {j \in 1..n : Bucket(L, B[j].start) = R[k].start}}
       /\ \E j \in 1..n : Bucket(L, B[j].start) = R[k].start
  /\ \A j \in 1..n : \E k \in 1..Len(R) : R[k].start = Bucket(L, B[j].start)

LEMMA JoinedIs ==
  ASSUME NEW T \in SUBSET Prints, NEW R \in Seq(Candles(T)), NEW bar \in Candles(T),
         NEW L \in Nat \ {0}
  PROVE  LET Q == Joined(R, bar, L)
             b == Bucket(L, bar.start)
             n == Len(R)
         IN /\ Q \in Seq(Candles(T)) /\ b \in Nat
            /\ R # <<>> /\ R[n].start = b =>
                 /\ n > 0 /\ Len(Q) = n /\ \A k \in 1..(n - 1) : Q[k] = R[k]
                 /\ Q[n].start = b /\ Q[n].prints = R[n].prints \cup bar.prints
                 /\ Q[n].close = bar.close
            /\ ~(R # <<>> /\ R[n].start = b) =>
                 /\ Len(Q) = n + 1 /\ \A k \in 1..n : Q[k] = R[k]
                 /\ Q[n + 1].start = b /\ Q[n + 1].prints = bar.prints
                 /\ Q[n + 1].close = bar.close
<1> DEFINE Q == Joined(R, bar, L)
           b == Bucket(L, bar.start)
           n == Len(R)
<1>1. /\ n \in Nat /\ Last(R) = R[n] /\ (R # <<>> => n > 0)
      /\ bar.start \in 0..MaxTime /\ bar.prints \in SUBSET T /\ bar.close \in T
  <2>1. n \in Nat /\ (R # <<>> => n > 0)
    BY LenProperties, EmptySeq
  <2> QED BY <2>1 DEF Last, Candles
<1>2. b \in 0..MaxTime /\ b \in Nat
  <2>1. bar.start \in Nat /\ bar.start <= MaxTime /\ MaxTime \in Nat
    BY <1>1, BarsAssumption
  <2>2. b \in 0..bar.start
    BY <2>1, BucketIs
  <2> HIDE DEF b
  <2> QED BY <2>1, <2>2
<1> HIDE DEF b
<1>3. CASE R # <<>> /\ R[n].start = b
  <2> DEFINE x == [R[n] EXCEPT !.prints = @ \cup bar.prints, !.close = bar.close]
  <2>1. n \in 1..n /\ R[n] \in Candles(T)
    BY <1>1, <1>3, ElementOfSeq
  <2>2. /\ x \in Candles(T) /\ x.start = R[n].start
        /\ x.prints = R[n].prints \cup bar.prints /\ x.close = bar.close
    BY <1>1, <2>1 DEF Candles
  <2>3. Q = [R EXCEPT ![n] = x]
    <3>1. Q = [R EXCEPT ![n].prints = @ \cup bar.prints, ![n].close = bar.close]
      BY <1>1, <1>3 DEF Joined, b
    <3> QED BY <3>1, <2>1
  <2> HIDE DEF x
  <2>4. Q \in Seq(Candles(T)) /\ Len(Q) = n /\ Q[n] = x /\ \A k \in 1..(n - 1) : Q[k] = R[k]
    <3>1. /\ Q \in Seq(Candles(T)) /\ Len(Q) = n
          /\ \A k \in 1..n : Q[k] = IF k = n THEN x ELSE R[k]
      BY <2>1, <2>2, <2>3
    <3>2. \A k \in 1..(n - 1) : k \in 1..n /\ k # n
      BY <1>1
    <3> QED BY <3>1, <3>2, <2>1
  <2> HIDE DEF Q
  <2> QED BY <1>1, <1>2, <1>3, <2>2, <2>4 DEF Q, b
<1>4. CASE ~(R # <<>> /\ R[n].start = b)
  <2> DEFINE x == [bar EXCEPT !.start = b]
  <2>2. x \in Candles(T) /\ x.start = b /\ x.prints = bar.prints /\ x.close = bar.close
    BY <1>1, <1>2 DEF Candles
  <2>3. Q = Append(R, x)
    BY <1>1, <1>4 DEF Joined, b
  <2> HIDE DEF x
  <2>4. Q \in Seq(Candles(T)) /\ Len(Q) = n + 1 /\ Q[n + 1] = x /\ \A k \in 1..n : Q[k] = R[k]
    BY <2>2, <2>3, AppendProperties
  <2> HIDE DEF Q
  <2> QED BY <1>1, <1>2, <1>4, <2>2, <2>4 DEF Q, b
<1> QED BY <1>3, <1>4

LEMMA GatherStep ==
  ASSUME NEW T \in SUBSET Prints, NEW B \in Seq(Candles(T)), NEW L \in Nat \ {0},
         Rises(B, L), NEW m \in 1..Len(B), NEW R \in Seq(Candles(T)),
         Gathers(R, B, m - 1, L)
  PROVE  Gathers(Joined(R, B[m], L), B, m, L)
<1> DEFINE Q == Joined(R, B[m], L)
           n == Len(R)
           b == Bucket(L, B[m].start)
           Key(j) == Bucket(L, B[j].start)
           Of(l, x) == UNION {B[j].prints : j \in {j \in 1..l : Key(j) = x}}
<1>1. /\ Len(B) \in Nat /\ m \in Nat /\ m - 1 \in Nat
      /\ \A j \in 1..m : j = m \/ j \in 1..(m - 1)
      /\ \A j \in 1..(m - 1) : j \in 1..Len(B) /\ j < m /\ j \in 1..m
      /\ m \in 1..m
  <2>1. Len(B) \in Nat
    BY CandleSeq
  <2> QED BY <2>1
<1>2. B[m] \in Candles(T) /\ B[m].prints \in SUBSET T
  BY CandleSeq
<1>3. /\ Q \in Seq(Candles(T)) /\ b \in Nat
      /\ R # <<>> /\ R[n].start = b =>
           /\ n > 0 /\ Len(Q) = n /\ \A k \in 1..(n - 1) : Q[k] = R[k]
           /\ Q[n].start = b /\ Q[n].prints = R[n].prints \cup B[m].prints
           /\ Q[n].close = B[m].close
      /\ ~(R # <<>> /\ R[n].start = b) =>
           /\ Len(Q) = n + 1 /\ \A k \in 1..n : Q[k] = R[k]
           /\ Q[n + 1].start = b /\ Q[n + 1].prints = B[m].prints
           /\ Q[n + 1].close = B[m].close
  BY <1>2, JoinedIs, SMTT(30)
<1>4. /\ n \in Nat /\ \A k \in 1..n : R[k].start \in Nat
  BY CandleSeq
<1>5. /\ Ascends(R)
      /\ \A k \in 1..n : /\ R[k].close \in R[k].prints
                         /\ R[k].prints = Of(m - 1, R[k].start)
                         /\ \E j \in 1..(m - 1) : Key(j) = R[k].start
      /\ \A j \in 1..(m - 1) : \E k \in 1..n : R[k].start = Key(j)
  BY DEF Gathers
<1>6. /\ B[m].close \in B[m].prints
      /\ \A j \in 1..(m - 1) : Key(j) <= b
  BY <1>1 DEF Rises
<1>7. \A x : Of(m, x) = Of(m - 1, x) \cup IF x = b THEN B[m].prints ELSE {}
  <2> SUFFICES ASSUME NEW x
               PROVE  Of(m, x) = Of(m - 1, x) \cup IF x = b THEN B[m].prints ELSE {}
    OBVIOUS
  <2>1. {j \in 1..m : Key(j) = x} =
          {j \in 1..(m - 1) : Key(j) = x} \cup IF x = b THEN {m} ELSE {}
    BY <1>1
  <2> DEFINE J == {j \in 1..m : Key(j) = x}
             K == {j \in 1..(m - 1) : Key(j) = x}
  <2>2. J = K \cup IF x = b THEN {m} ELSE {}
    BY <2>1
  <2> HIDE DEF J, K, b
  <2>3. UNION {B[j].prints : j \in J} =
          (UNION {B[j].prints : j \in K}) \cup IF x = b THEN B[m].prints ELSE {}
    <3>1. CASE x = b
      <4>1. J = K \cup {m}
        BY <2>2, <3>1
      <4> QED BY <4>1, <3>1
    <3>2. CASE x # b
      BY <2>2, <3>2
    <3> QED BY <3>1, <3>2
  <2> QED BY <2>3 DEF J, K
<1>8. \A k \in 1..n : R[k].start <= b
  <2> SUFFICES ASSUME NEW k \in 1..n PROVE R[k].start <= b
    OBVIOUS
  <2>1. PICK j \in 1..(m - 1) : Key(j) = R[k].start
    BY <1>5
  <2> QED BY <2>1, <1>6
<1> HIDE DEF Of, Key, b, Q, n
<1>9. CASE R # <<>> /\ R[n].start = b
  <2>1. /\ n \in 1..n /\ \A k \in 1..n : k = n \/ k \in 1..(n - 1)
        /\ \A k \in 1..(n - 1) : k \in 1..n /\ k < n
    BY <1>3, <1>4, <1>9
  <2>2. \A k \in 1..n : Q[k].start = R[k].start
    BY <2>1, <1>3, <1>9
  <2>3. Ascends(Q)
    BY <2>1, <2>2, <1>3, <1>5, <1>9 DEF Ascends, n
  <2>4. ASSUME NEW k \in 1..n
        PROVE  /\ Q[k].close \in Q[k].prints
               /\ Q[k].prints = Of(m, Q[k].start)
               /\ \E j \in 1..m : Key(j) = Q[k].start
    <3>1. CASE k = n
      <4>1. Q[k].close \in Q[k].prints /\ Q[k].start = b
        BY <3>1, <1>3, <1>6, <1>9
      <4>2. Q[k].prints = Of(m, b)
        BY <3>1, <2>1, <1>3, <1>5, <1>7, <1>9
      <4>3. Key(m) = b
        BY DEF Key, b
      <4> QED BY <4>1, <4>2, <4>3, <1>1
    <3>2. CASE k \in 1..(n - 1)
      <4>1. Q[k] = R[k] /\ R[k].start # b
        <5>1. Q[k] = R[k] /\ R[k].start < R[n].start
          BY <3>2, <2>1, <1>3, <1>5, <1>9 DEF Ascends, n
        <5>2. R[k].start \in Nat /\ R[n].start \in Nat
          BY <2>1, <1>4
        <5> QED BY <5>1, <5>2, <1>9
      <4>2. Of(m, R[k].start) = Of(m - 1, R[k].start)
        BY <4>1, <1>7
      <4>3. \E j \in 1..m : Key(j) = R[k].start
        BY <1>1, <1>5
      <4> QED BY <4>1, <4>2, <4>3, <1>5
    <3> QED BY <3>1, <3>2, <2>1
  <2>5. ASSUME NEW j \in 1..m PROVE \E k \in 1..n : Q[k].start = Key(j)
    <3>1. CASE j = m
      BY <3>1, <2>1, <1>3, <1>9 DEF Key, b
    <3>2. CASE j \in 1..(m - 1)
      BY <3>2, <2>2, <1>5
    <3> QED BY <3>1, <3>2, <1>1
  <2>6. Len(Q) = n
    BY <1>3, <1>9
  <2> QED BY <2>3, <2>4, <2>5, <2>6 DEF Gathers, Of, Key, Q
<1>10. CASE ~(R # <<>> /\ R[n].start = b)
  <2>1. /\ n + 1 \in 1..(n + 1) /\ \A k \in 1..(n + 1) : k = n + 1 \/ k \in 1..n
        /\ \A k \in 1..n : k \in 1..(n + 1)
    BY <1>4
  <2>2. \A k \in 1..n : R[k].start < b
    <3> SUFFICES ASSUME NEW k \in 1..n PROVE R[k].start < b
      OBVIOUS
    <3>1. n \in 1..n /\ R # <<>>
      BY <1>4, LenProperties DEF n
    <3>2. R[n].start # b /\ R[n].start <= b /\ R[n].start \in Nat
      BY <3>1, <1>4, <1>8, <1>10
    <3>3. k = n \/ R[k].start < R[n].start
      BY <3>1, <1>4, <1>5 DEF Ascends, n
    <3> DEFINE x == R[k].start
               y == R[n].start
    <3>4. x \in Nat /\ y \in Nat /\ b \in Nat /\ y # b /\ y <= b /\ (x = y \/ x < y)
      BY <3>2, <3>3, <1>3, <1>4
    <3> HIDE DEF x, y
    <3>5. x < b
      BY <3>4
    <3> QED BY <3>5 DEF x
  <2>3. Ascends(Q)
    <3> SUFFICES ASSUME NEW j \in 1..(n + 1), NEW k \in 1..(n + 1), j < k
                 PROVE  Q[j].start < Q[k].start
      BY <1>3, <1>10 DEF Ascends
    <3>1. j \in 1..n /\ Q[j] = R[j]
      BY <1>3, <1>4, <1>10
    <3>2. CASE k = n + 1
      BY <3>1, <3>2, <2>2, <1>3, <1>10
    <3>3. CASE k \in 1..n
      <4>1. R[j].start < R[k].start
        BY <3>1, <3>3, <1>5 DEF Ascends, n
      <4> QED BY <4>1, <3>1, <3>3, <1>3, <1>10
    <3> QED BY <3>2, <3>3, <2>1
  <2>4. ASSUME NEW k \in 1..(n + 1)
        PROVE  /\ Q[k].close \in Q[k].prints
               /\ Q[k].prints = Of(m, Q[k].start)
               /\ \E j \in 1..m : Key(j) = Q[k].start
    <3>1. CASE k = n + 1
      <4>1. Q[k].close \in Q[k].prints /\ Q[k].start = b /\ Q[k].prints = B[m].prints
        BY <3>1, <1>3, <1>6, <1>10
      <4>2. Of(m - 1, b) = {}
        <5>1. \A j \in 1..(m - 1) : Key(j) # b
          <6> SUFFICES ASSUME NEW j \in 1..(m - 1), Key(j) = b PROVE FALSE
            OBVIOUS
          <6>1. PICK l \in 1..n : R[l].start = b
            BY <1>5
          <6>2. R[l].start < b /\ R[l].start \in Nat
            BY <6>1, <2>2, <1>4
          <6> QED BY <6>1, <6>2
        <5> QED BY <5>1, Zenon DEF Of
      <4>3. Key(m) = b
        BY DEF Key, b
      <4> QED BY <4>1, <4>2, <4>3, <1>1, <1>7
    <3>2. CASE k \in 1..n
      <4>1. Q[k] = R[k] /\ R[k].start # b
        <5>1. Q[k] = R[k] /\ R[k].start < b
          BY <3>2, <2>2, <1>3, <1>10
        <5>2. R[k].start \in Nat
          BY <3>2, <1>4
        <5> QED BY <5>1, <5>2, <1>3
      <4>2. Of(m, R[k].start) = Of(m - 1, R[k].start)
        BY <4>1, <1>7
      <4>3. \E j \in 1..m : Key(j) = R[k].start
        BY <3>2, <1>1, <1>5
      <4> QED BY <4>1, <4>2, <4>3, <3>2, <1>5
    <3> QED BY <3>1, <3>2, <2>1
  <2>5. ASSUME NEW j \in 1..m PROVE \E k \in 1..(n + 1) : Q[k].start = Key(j)
    <3>1. CASE j = m
      BY <3>1, <2>1, <1>3, <1>10 DEF Key, b
    <3>2. CASE j \in 1..(m - 1)
      <4>1. PICK k \in 1..n : R[k].start = Key(j)
        BY <3>2, <1>5
      <4>2. Q[k] = R[k] /\ k \in 1..(n + 1)
        BY <2>1, <1>3, <1>10
      <4> QED BY <4>1, <4>2
    <3> QED BY <3>1, <3>2, <1>1
  <2>6. Len(Q) = n + 1
    BY <1>3, <1>10
  <2> QED BY <2>3, <2>4, <2>5, <2>6 DEF Gathers, Of, Key, Q
<1> QED BY <1>9, <1>10 DEF Q

LEMMA ResampleRuns ==
  ASSUME NEW T \in SUBSET Prints, NEW B \in Seq(Candles(T)), NEW L \in Nat \ {0}
  PROVE  \E u : /\ resampleTo(B, L) = u[Len(B)] /\ u[0] = <<>>
                /\ \A m \in 1..Len(B) : u[m] = Joined(u[m - 1], B[m], L)
<1> DEFINE N == Len(B)
           A == Seq(Candles(T))
           Goes(g) == [k \in 0..N |-> IF k = 0 THEN <<>> ELSE Joined(g[k - 1], B[k], L)]
           u == CHOOSE g : g = Goes(g)
           step == [m \in 1..N |-> [a \in A |-> Joined(a, B[m], L)]]
<1>1. resampleTo(B, L) = u[N]
  BY Zenon DEF resampleTo
<1>2. N \in Nat /\ \A m \in 1..N : B[m] \in Candles(T)
  BY CandleSeq
<1> HIDE DEF N
<1>3. <<>> \in A /\ \A m \in 1..N, a \in A : step[m][a] \in A
  <2>1. \A m \in 1..N, a \in A : Joined(a, B[m], L) \in A
    BY <1>2, JoinedIs
  <2> QED BY <2>1
<1>4. PICK f : Runs(f, N, A, <<>>, step)
  <2> HIDE DEF step, A
  <2> QED BY <1>2, <1>3, RecursionExists
<1>5. /\ f \in [0..N -> A] /\ f[0] = <<>>
      /\ \A m \in 1..N : f[m] = Joined(f[m - 1], B[m], L)
  <2>1. f \in [0..N -> A] /\ f[0] = <<>> /\ \A m \in 1..N : f[m] = step[m][f[m - 1]]
    <3> HIDE DEF step, A
    <3> QED BY <1>4 DEF Runs
  <2>2. ASSUME NEW m \in 1..N PROVE f[m] = Joined(f[m - 1], B[m], L)
    <3>1. m - 1 \in 0..N
      BY <1>2
    <3>2. f[m - 1] \in A
      BY <2>1, <3>1
    <3> QED BY <2>1, <3>2
  <2> QED BY <2>1, <2>2
<1>6. f = Goes(f)
  <2>1. \A m \in 0..N : m = 0 \/ m \in 1..N
    BY <1>2
  <2>2. \A m \in 0..N : f[m] = Goes(f)[m]
    BY <1>5, <2>1
  <2> QED BY <1>5, <2>2
<1>7. u = Goes(u)
  <2> HIDE DEF Goes
  <2> QED BY <1>6
<1>8. u[0] = <<>> /\ \A m \in 1..N : u[m] = Joined(u[m - 1], B[m], L)
  <2>1. \A m \in 0..N : u[m] = Goes(u)[m]
    BY <1>7
  <2>2. 0 \in 0..N /\ \A m \in 1..N : m \in 0..N /\ m # 0
    BY <1>2
  <2> HIDE DEF u
  <2> QED BY <2>1, <2>2
<1> HIDE DEF u
<1> QED BY <1>1, <1>8 DEF N

LEMMA ResampleIs ==
  ASSUME NEW T \in SUBSET Prints, NEW B \in Seq(Candles(T)), NEW L \in Nat \ {0}
  PROVE  /\ resampleTo(B, L) \in Seq(Candles(T))
         /\ Rises(B, L) => Gathers(resampleTo(B, L), B, Len(B), L)
<1> DEFINE N == Len(B)
<1>1. PICK u : /\ resampleTo(B, L) = u[N] /\ u[0] = <<>>
               /\ \A m \in 1..N : u[m] = Joined(u[m - 1], B[m], L)
  BY ResampleRuns
<1>2. N \in Nat /\ \A m \in 1..N : B[m] \in Candles(T)
  BY CandleSeq
<1>3. \A m \in 0..N : m < N => m + 1 \in 0..N /\ m + 1 \in 1..N /\ (m + 1) - 1 = m
  BY <1>2
<1> DEFINE G == {m \in 0..N : /\ u[m] \in Seq(Candles(T))
                              /\ Rises(B, L) => Gathers(u[m], B, m, L)}
<1>4. 0 \in G
  <2>1. <<>> \in Seq(Candles(T)) /\ Len(<<>>) = 0
    OBVIOUS
  <2>2. Gathers(<<>>, B, 0, L)
    <3> DEFINE e == <<>>
    <3>1. Len(e) = 0 /\ \A k \in 1..0 : FALSE
      OBVIOUS
    <3> HIDE DEF e
    <3>2. \A k \in 1..Len(e) : FALSE
      BY <3>1
    <3>3. Ascends(e)
      BY <3>2 DEF Ascends
    <3>4. Gathers(e, B, 0, L)
      BY <3>1, <3>2, <3>3, Zenon DEF Gathers
    <3> QED BY <3>4 DEF e
  <2>3. u[0] \in Seq(Candles(T)) /\ Gathers(u[0], B, 0, L)
    BY <1>1, <2>1, <2>2, Zenon
  <2>4. 0 \in 0..N
    BY <1>2
  <2> QED BY <2>3, <2>4
<1>5. ASSUME NEW m \in 0..N, m < N, m \in G PROVE m + 1 \in G
  <2>1. u[m + 1] = Joined(u[m], B[m + 1], L) /\ u[m] \in Seq(Candles(T))
    BY <1>1, <1>3, <1>5
  <2>2. u[m + 1] \in Seq(Candles(T))
    BY <2>1, <1>2, <1>3, <1>5, JoinedIs
  <2>3. ASSUME Rises(B, L) PROVE Gathers(u[m + 1], B, m + 1, L)
    <3>1. Gathers(u[m], B, (m + 1) - 1, L)
      BY <2>3, <1>3, <1>5
    <3>2. m + 1 \in 1..Len(B)
      BY <1>3, <1>5
    <3>3. Gathers(Joined(u[m], B[m + 1], L), B, m + 1, L)
      BY <2>1, <2>3, <3>1, <3>2, GatherStep
    <3> QED BY <3>3, <2>1
  <2> QED BY <2>2, <2>3, <1>3, <1>5
<1>6. \A m \in 0..N : m \in G
  <2> HIDE DEF G
  <2> QED BY <1>2, <1>4, <1>5, Induction
<1>7. N \in 0..N
  BY <1>2
<1> QED BY <1>1, <1>6, <1>7
-----------------------------------------------------------------------------
(* RestBars. *)


\* Candles B hold the prints G by buckets of L, each print in its own.
Complete(B, G, L) ==
  /\ Ascends(B)
  /\ \A k \in 1..Len(B) : B[k].prints \subseteq G /\ B[k].close \in B[k].prints
  /\ \A i \in G :
       /\ \A k \in 1..Len(B) : i \in B[k].prints <=> B[k].start = Bucket(L, i.ts)
       /\ \E k \in 1..Len(B) : B[k].start = Bucket(L, i.ts)

PrintsIn(B) == UNION {bar.prints : bar \in Range(B)}

LEMMA InSome ==
  ASSUME NEW S, NEW B \in Seq(S)
  PROVE  \A i : i \in PrintsIn(B) <=> \E k \in 1..Len(B) : i \in B[k].prints
<1> SUFFICES ASSUME NEW i
             PROVE  i \in PrintsIn(B) <=> \E k \in 1..Len(B) : i \in B[k].prints
  OBVIOUS
<1>1. Range(B) = {B[k] : k \in 1..Len(B)}
  BY DEF Range
<1> QED BY <1>1, Zenon DEF PrintsIn

LEMMA GatheredComplete ==
  ASSUME NEW T \in SUBSET Prints, NEW B \in Seq(Candles(T)), NEW L \in Nat \ {0},
         NEW R \in Seq(Candles(T)), Rises(B, L), Gathers(R, B, Len(B), L)
  PROVE  Complete(R, PrintsIn(B), L) /\ PrintsIn(R) = PrintsIn(B)
<1> DEFINE N == Len(B)
<1>1. /\ Ascends(R)
      /\ \A k \in 1..Len(R) : R[k].close \in R[k].prints
      /\ \A k \in 1..Len(R) : \A i :
           i \in R[k].prints <=>
             \E j \in 1..N : i \in B[j].prints /\ Bucket(L, B[j].start) = R[k].start
      /\ \A j \in 1..N : \E k \in 1..Len(R) : R[k].start = Bucket(L, B[j].start)
  <2>1. \A k \in 1..Len(R) :
          R[k].prints = UNION {B[j].prints : j \in {j \in 1..N : Bucket(L, B[j].start) = R[k].start}}
    BY DEF Gathers
  <2>2. ASSUME NEW k \in 1..Len(R), NEW i
        PROVE  i \in R[k].prints <=>
                 \E j \in 1..N : i \in B[j].prints /\ Bucket(L, B[j].start) = R[k].start
    <3> DEFINE J == {j \in 1..N : Bucket(L, B[j].start) = R[k].start}
    <3>1. R[k].prints = UNION {B[j].prints : j \in J}
      BY <2>1
    <3>2. i \in R[k].prints <=> \E j \in J : i \in B[j].prints
      <4> HIDE DEF J
      <4> QED BY <3>1, Zenon
    <3> QED BY <3>2
  <2> QED BY <2>2 DEF Gathers
<1>2. \A j \in 1..N : \A i \in B[j].prints : Bucket(L, i.ts) = Bucket(L, B[j].start)
  BY DEF Rises
<1>3. /\ \A i : i \in PrintsIn(B) <=> \E k \in 1..N : i \in B[k].prints
      /\ \A i : i \in PrintsIn(R) <=> \E k \in 1..Len(R) : i \in R[k].prints
  BY InSome
<1> HIDE DEF N
<1>4. \A k \in 1..Len(R) : R[k].prints \subseteq PrintsIn(B)
  BY <1>1, <1>3
<1>5. ASSUME NEW i \in PrintsIn(B)
      PROVE  /\ \A k \in 1..Len(R) : i \in R[k].prints <=> R[k].start = Bucket(L, i.ts)
             /\ \E k \in 1..Len(R) : R[k].start = Bucket(L, i.ts)
  <2>1. PICK j \in 1..N : i \in B[j].prints
    BY <1>3, <1>5
  <2>2. Bucket(L, i.ts) = Bucket(L, B[j].start)
    BY <2>1, <1>2
  <2>3. ASSUME NEW k \in 1..Len(R)
        PROVE  i \in R[k].prints <=> R[k].start = Bucket(L, i.ts)
    <3>1. ASSUME i \in R[k].prints PROVE R[k].start = Bucket(L, i.ts)
      <4>1. PICK l \in 1..N : i \in B[l].prints /\ Bucket(L, B[l].start) = R[k].start
        BY <3>1, <1>1
      <4> QED BY <4>1, <1>2
    <3>2. ASSUME R[k].start = Bucket(L, i.ts) PROVE i \in R[k].prints
      BY <3>2, <2>1, <2>2, <1>1
    <3> QED BY <3>1, <3>2
  <2> QED BY <2>1, <2>2, <2>3, <1>1
<1>6. PrintsIn(R) = PrintsIn(B)
  <2>1. \A i \in PrintsIn(R) : i \in PrintsIn(B)
    BY <1>3, <1>4
  <2>2. \A i \in PrintsIn(B) : i \in PrintsIn(R)
    BY <1>3, <1>5
  <2> QED BY <2>1, <2>2
<1> QED BY <1>1, <1>4, <1>5, <1>6 DEF Complete

\* The bars of REST hold its trades.
LEMMA RestBarsAre ==
  ASSUME Numbered(tape), NEW until \in Nat
  PROVE  LET R == RestBars(until) IN
         /\ R \in Seq(Candles(tape)) /\ Complete(R, PrintsIn(R), MinuteLen)
         /\ \A i \in PrintsIn(R) : i.ts <= until
<1> DEFINE t == Trades(until)
           B == [k \in 1..Len(t) |-> newBar(t[k].ts, t[k])]
           R == RestBars(until)
<1>1. /\ t \in Seq(tape) /\ Len(t) \in Nat
      /\ \A k \in 1..Len(t) : t[k].ts <= until /\ t[k] \in tape
      /\ \A j, k \in 1..Len(t) : j < k => Before(t[j], t[k])
  <2>1. /\ t \in Seq(tape)
        /\ \A k \in 1..Len(t) : t[k].ts <= until
        /\ \A j, k \in 1..Len(t) : j < k => Before(t[j], t[k])
    BY TradesAre
  <2> HIDE DEF t
  <2> QED BY <2>1, LenProperties, ElementOfSeq
<1>2. R = resampleTo(B, MinuteLen)
  BY DEF RestBars
<1> HIDE DEF t
<1>3. tape \in SUBSET Prints /\ MinuteLen \in Nat \ {0}
  BY BarsAssumption DEF Numbered
<1>4. \A k \in 1..Len(t) : t[k].ts \in 0..MaxTime /\ t[k].ts \in Nat
  <2> SUFFICES ASSUME NEW k \in 1..Len(t)
               PROVE  t[k].ts \in 0..MaxTime /\ t[k].ts \in Nat
    OBVIOUS
  <2>1. t[k] \in Prints /\ MaxTime \in Nat
    BY <1>1, <1>3, BarsAssumption
  <2> QED BY <2>1, PrintIs
<1>5. /\ B \in Seq(Candles(tape)) /\ Len(B) = Len(t)
      /\ \A k \in 1..Len(t) : /\ B[k].start = t[k].ts /\ B[k].prints = {t[k]}
                              /\ B[k].close = t[k]
  <2>1. \A k \in 1..Len(t) : newBar(t[k].ts, t[k]) \in Candles(tape)
    BY <1>1, <1>4, CandleKinds
  <2>2. B \in Seq(Candles(tape)) /\ Len(B) = Len(t)
        /\ \A k \in 1..Len(t) : B[k] = newBar(t[k].ts, t[k])
    BY <2>1, <1>1
  <2> QED BY <2>2, NewFields
<1> HIDE DEF B
<1>6. Rises(B, MinuteLen)
  <2>1. ASSUME NEW j \in 1..Len(B), NEW k \in 1..Len(B), j < k
        PROVE  Bucket(MinuteLen, B[j].start) <= Bucket(MinuteLen, B[k].start)
    <3>1. t[j].ts <= t[k].ts /\ t[j].ts \in Nat /\ t[k].ts \in Nat
      BY <2>1, <1>1, <1>4, <1>5 DEF Before
    <3> QED BY <3>1, <1>3, <1>5, BucketMonotone
  <2> QED BY <2>1, <1>5 DEF Rises
<1>7. R \in Seq(Candles(tape)) /\ Gathers(R, B, Len(B), MinuteLen)
  BY <1>2, <1>3, <1>5, <1>6, ResampleIs
<1> HIDE DEF R
<1>8. Complete(R, PrintsIn(B), MinuteLen) /\ PrintsIn(R) = PrintsIn(B)
  BY <1>3, <1>5, <1>6, <1>7, GatheredComplete
<1>9. \A i \in PrintsIn(R) : i.ts <= until
  <2>1. \A i : i \in PrintsIn(B) <=> \E k \in 1..Len(B) : i \in B[k].prints
    BY <1>5, InSome
  <2> QED BY <2>1, <1>1, <1>5, <1>8
<1> QED BY <1>7, <1>8, <1>9 DEF R
-----------------------------------------------------------------------------
(* The series of a history: Loaded. *)

LEMMA SeedType ==
  ASSUME NEW T, NEW h \in Seq(Candles(T))
  PROVE  sessVWAP(h) \in SUBSET T
<1> DEFINE J == {j \in DOMAIN h : WindowOf(h[j].start) = WindowOf(Last(h).start)}
<1>1. \A j \in DOMAIN h : h[j].prints \in SUBSET T
  <2>1. DOMAIN h = 1..Len(h)
    OBVIOUS
  <2> QED BY <2>1, CandleSeq
<1>2. J \subseteq DOMAIN h
  OBVIOUS
<1>3. sessVWAP(h) = UNION {h[j].prints : j \in J}
  BY DEF sessVWAP
<1> HIDE DEF J
<1>4. \A j \in J : h[j].prints \in SUBSET T
  BY <1>1, <1>2
<1>5. UNION {h[j].prints : j \in J} \subseteq T
  BY <1>4, Zenon
<1> QED BY <1>3, <1>5

\* The slot of the k-th candle of a history, and the ring with all of them.
SlotOf(h, k) == [bar |-> h[k], ema |-> [j \in 1..k |-> h[j].close],
                 vwap |-> sessVWAP(SubSeq(h, 1, k))]
Filled(h) ==
  LET ring[k \in 0..Len(h)] ==
        IF k = 0 THEN NewRing ELSE Push(ring[k - 1], SlotOf(h, k))
  IN  ring[Len(h)]

LEMMA SlotType ==
  ASSUME NEW T \in SUBSET Prints, NEW h \in Seq(Candles(T)), NEW k \in 1..Len(h)
  PROVE  SlotOf(h, k) \in Entries(T)
<1>1. Len(h) \in Nat /\ h[k] \in Candles(T) /\ \A j \in 1..Len(h) : h[j].close \in T
  BY CandleSeq
<1>2. [j \in 1..k |-> h[j].close] \in Seq(T \cup {NoCandle})
  <2>1. k \in Nat /\ \A j \in 1..k : h[j].close \in T \cup {NoCandle}
    BY <1>1
  <2> QED BY <2>1
<1>3. sessVWAP(SubSeq(h, 1, k)) \in SUBSET T
  <2>1. k \in 0..Len(h)
    BY <1>1
  <2>2. SubSeq(h, 1, k) \in Seq(Candles(T))
    BY <2>1, Prefix
  <2> QED BY <2>2, SeedType
<1> QED BY <1>1, <1>2, <1>3 DEF SlotOf, Entries

LEMMA FilledRuns ==
  ASSUME NEW T \in SUBSET Prints, NEW h \in Seq(Candles(T))
  PROVE  \E u : /\ Filled(h) = u[Len(h)] /\ u[0] = NewRing
                /\ \A m \in 1..Len(h) : u[m] = Push(u[m - 1], SlotOf(h, m))
<1> DEFINE N == Len(h)
           A == Rings(Entries(T))
           Goes(g) == [k \in 0..N |-> IF k = 0 THEN NewRing ELSE Push(g[k - 1], SlotOf(h, k))]
           u == CHOOSE g : g = Goes(g)
           step == [m \in 1..N |-> [a \in A |-> Push(a, SlotOf(h, m))]]
<1>1. Filled(h) = u[N]
  BY Zenon DEF Filled
<1>2. N \in Nat /\ \A m \in 1..N : SlotOf(h, m) \in Entries(T)
  BY CandleSeq, SlotType
<1> HIDE DEF N
<1>3. NewRing \in A /\ \A m \in 1..N, a \in A : step[m][a] \in A
  <2>1. NoCandle \notin Entries(T)
    BY ZeroValue
  <2>2. \A m \in 1..N, a \in A : Push(a, SlotOf(h, m)) \in A
    BY <1>2, <2>1, PushIs
  <2>3. NewRing \in A
    BY RingAssumption DEF NewRing, Rings, Slots
  <2> HIDE DEF A
  <2> QED BY <2>2, <2>3
<1>4. PICK f : Runs(f, N, A, NewRing, step)
  <2> HIDE DEF step, A
  <2> QED BY <1>2, <1>3, RecursionExists
<1>5. /\ f \in [0..N -> A] /\ f[0] = NewRing
      /\ \A m \in 1..N : f[m] = Push(f[m - 1], SlotOf(h, m))
  <2>1. f \in [0..N -> A] /\ f[0] = NewRing /\ \A m \in 1..N : f[m] = step[m][f[m - 1]]
    <3> HIDE DEF step, A
    <3> QED BY <1>4 DEF Runs
  <2>2. ASSUME NEW m \in 1..N PROVE f[m] = Push(f[m - 1], SlotOf(h, m))
    <3>1. m - 1 \in 0..N
      BY <1>2
    <3>2. f[m - 1] \in A
      BY <2>1, <3>1
    <3> HIDE DEF A
    <3> QED BY <2>1, <3>2
  <2> QED BY <2>1, <2>2
<1>6. f = Goes(f)
  <2>1. \A m \in 0..N : m = 0 \/ m \in 1..N
    BY <1>2
  <2>2. \A m \in 0..N : f[m] = Goes(f)[m]
    BY <1>5, <2>1
  <2> QED BY <1>5, <2>2
<1>7. u = Goes(u)
  <2> HIDE DEF Goes
  <2> QED BY <1>6
<1>8. u[0] = NewRing /\ \A m \in 1..N : u[m] = Push(u[m - 1], SlotOf(h, m))
  <2>1. \A m \in 0..N : u[m] = Goes(u)[m]
    BY <1>7
  <2>2. 0 \in 0..N /\ \A m \in 1..N : m \in 0..N /\ m # 0
    BY <1>2
  <2> HIDE DEF u
  <2> QED BY <2>1, <2>2
<1> HIDE DEF u
<1> QED BY <1>1, <1>8 DEF N

\* The ring after the first m of a history's candles.
Fills(r, h, m) ==
  /\ r.count = IF m < RingCap THEN m ELSE RingCap
  /\ \A j \in 0..(r.count - 1) : Cell(r, j) = SlotOf(h, m - r.count + j + 1)

LEMMA FillStep ==
  ASSUME NEW T \in SUBSET Prints, NEW h \in Seq(Candles(T)), NEW m \in 0..Len(h),
         m < Len(h), NEW r \in Rings(Entries(T)), Fills(r, h, m)
  PROVE  LET q == Push(r, SlotOf(h, m + 1)) IN
         q \in Rings(Entries(T)) /\ Fills(q, h, m + 1)
<1> DEFINE e == SlotOf(h, m + 1)
           q == Push(r, e)
<1>1. Len(h) \in Nat /\ m \in Nat /\ m + 1 \in 1..Len(h) /\ RingCap \in Nat \ {0}
  BY CandleSeq, RingAssumption
<1>2. e \in Entries(T) /\ NoCandle \notin Entries(T)
  BY <1>1, SlotType, ZeroValue
<1> HIDE DEF e
<1>3. /\ q \in Rings(Entries(T))
      /\ r.count < RingCap =>
           /\ q.count = r.count + 1
           /\ \A k \in 0..(r.count - 1) : Cell(q, k) = Cell(r, k)
           /\ Cell(q, r.count) = e
      /\ ~(r.count < RingCap) =>
           /\ q.count = r.count
           /\ \A k \in 0..(r.count - 2) : Cell(q, k) = Cell(r, k + 1)
           /\ Cell(q, r.count - 1) = e
  BY <1>2, PushIs
<1>4. /\ r.count = IF m < RingCap THEN m ELSE RingCap
      /\ \A j \in 0..(r.count - 1) : Cell(r, j) = SlotOf(h, m - r.count + j + 1)
  BY DEF Fills
<1> HIDE DEF q
<1>5. q.count = IF m + 1 < RingCap THEN m + 1 ELSE RingCap
  BY <1>1, <1>3, <1>4
<1>6. ASSUME NEW j \in 0..(q.count - 1)
      PROVE  Cell(q, j) = SlotOf(h, (m + 1) - q.count + j + 1)
  <2>1. CASE j = q.count - 1
    <3>1. Cell(q, j) = e
      BY <2>1, <1>1, <1>3, <1>4
    <3>2. (m + 1) - q.count + j + 1 = m + 1
      BY <2>1, <1>1, <1>5
    <3> QED BY <3>1, <3>2 DEF e
  <2>2. CASE j # q.count - 1 /\ r.count < RingCap
    <3>1. /\ j \in 0..(r.count - 1) /\ r.count = m /\ q.count = m + 1
          /\ (m + 1) - q.count + j + 1 = m - r.count + j + 1
      BY <2>2, <1>1, <1>3, <1>4
    <3>2. Cell(q, j) = Cell(r, j)
      BY <3>1, <2>2, <1>3
    <3>3. Cell(r, j) = SlotOf(h, m - r.count + j + 1)
      BY <3>1, <1>4
    <3> QED BY <3>1, <3>2, <3>3
  <2>3. CASE j # q.count - 1 /\ ~(r.count < RingCap)
    <3>1. /\ j \in 0..(r.count - 2) /\ j + 1 \in 0..(r.count - 1)
          /\ r.count = RingCap /\ q.count = RingCap
          /\ (m + 1) - q.count + j + 1 = m - r.count + (j + 1) + 1
      BY <2>3, <1>1, <1>3, <1>4
    <3>2. Cell(q, j) = Cell(r, j + 1)
      BY <3>1, <2>3, <1>3
    <3>3. Cell(r, j + 1) = SlotOf(h, m - r.count + (j + 1) + 1)
      BY <3>1, <1>4
    <3> QED BY <3>1, <3>2, <3>3
  <2> QED BY <2>1, <2>2, <2>3
<1>7. q \in Rings(Entries(T)) /\ Fills(q, h, m + 1)
  BY <1>3, <1>5, <1>6 DEF Fills
<1> QED BY <1>7 DEF q, e

LEMMA FilledIs ==
  ASSUME NEW T \in SUBSET Prints, NEW h \in Seq(Candles(T))
  PROVE  Filled(h) \in Rings(Entries(T)) /\ Fills(Filled(h), h, Len(h))
<1> DEFINE N == Len(h)
<1>1. PICK u : /\ Filled(h) = u[N] /\ u[0] = NewRing
               /\ \A m \in 1..N : u[m] = Push(u[m - 1], SlotOf(h, m))
  BY FilledRuns
<1>2. N \in Nat /\ RingCap \in Nat \ {0}
  BY CandleSeq, RingAssumption
<1>3. \A m \in 0..N : m < N => m + 1 \in 0..N /\ m + 1 \in 1..N /\ (m + 1) - 1 = m
  BY <1>2
<1> DEFINE G == {m \in 0..N : u[m] \in Rings(Entries(T)) /\ Fills(u[m], h, m)}
<1>4. 0 \in G
  <2>1. NewRing \in Rings(Entries(T)) /\ NewRing.count = 0
    BY RingAssumption DEF NewRing, Rings, Slots
  <2>2. Fills(NewRing, h, 0)
    BY <2>1, <1>2 DEF Fills
  <2> QED BY <1>1, <1>2, <2>1, <2>2
<1>5. ASSUME NEW m \in 0..N, m < N, m \in G PROVE m + 1 \in G
  <2>1. u[m + 1] = Push(u[m], SlotOf(h, m + 1))
    BY <1>1, <1>3, <1>5
  <2>2. u[m] \in Rings(Entries(T)) /\ Fills(u[m], h, m)
    BY <1>5
  <2>3. u[m + 1] \in Rings(Entries(T)) /\ Fills(u[m + 1], h, m + 1)
    BY <2>1, <2>2, <1>5, FillStep
  <2> QED BY <2>3, <1>3, <1>5
<1>6. \A m \in 0..N : m \in G
  <2> HIDE DEF G
  <2> QED BY <1>2, <1>4, <1>5, Induction
<1>7. N \in 0..N
  BY <1>2
<1> QED BY <1>1, <1>6, <1>7

LEMMA LoadedIs ==
  ASSUME NEW T \in SUBSET Prints, NEW h \in Seq(Candles(T)), NEW cur
  PROVE  LET s == Loaded(h, cur) IN
         /\ s \in SeriesOf(T) /\ Exact(s) /\ Gone(s) \in Nat
         /\ Len(Bars(s)) = Len(h) - Gone(s)
         /\ Len(h) > 0 => Len(Bars(s)) > 0
         /\ \A k \in 1..Len(Bars(s)) : Bars(s)[k] = h[Gone(s) + k]
<1> DEFINE forms == h # <<>> /\ Last(h).start >= cur
           c == IF forms THEN Front(h) ELSE h
           N == Len(h)
           M == Len(c)
           s == Loaded(h, cur)
<1>1. N \in Nat /\ (h # <<>> => N > 0) /\ (N > 0 => h # <<>>)
  BY LenProperties, EmptySeq
<1>2. /\ c \in Seq(Candles(T)) /\ M \in Nat /\ M = IF forms THEN N - 1 ELSE N
      /\ \A k \in 1..M : c[k] = h[k]
  <2>1. CASE forms
    <3>1. Front(h) = SubSeq(h, 1, N - 1) /\ N - 1 \in 0..N
      BY <2>1, <1>1 DEF Front
    <3>2. /\ SubSeq(h, 1, N - 1) \in Seq(Candles(T)) /\ Len(SubSeq(h, 1, N - 1)) = N - 1
          /\ \A k \in 1..(N - 1) : SubSeq(h, 1, N - 1)[k] = h[k]
      BY <3>1, Prefix
    <3>3. c = SubSeq(h, 1, N - 1)
      BY <2>1, <3>1
    <3> QED BY <2>1, <3>1, <3>2, <3>3, <1>1
  <2>2. CASE ~forms
    BY <2>2, <1>1
  <2> QED BY <2>1, <2>2
<1>3. s = [ring |-> Filled(c), forming |-> IF forms THEN Last(h) ELSE NoCandle,
           fed |-> [j \in 1..M |-> c[j].close]]
  BY Zenon DEF Loaded, Filled, SlotOf
<1>4. forms => N > 0 /\ Last(h) = h[N] /\ h[N] \in Candles(T)
  <2> SUFFICES ASSUME forms PROVE N > 0 /\ Last(h) = h[N] /\ h[N] \in Candles(T)
    OBVIOUS
  <2>1. N > 0 /\ N \in 1..N /\ Last(h) = h[N]
    BY <1>1 DEF Last
  <2> QED BY <2>1, CandleSeq
<1> HIDE DEF c, forms, N, s
<1>5. s.ring = Filled(c) /\ s.fed = [j \in 1..M |-> c[j].close]
      /\ s.forming = IF forms THEN Last(h) ELSE NoCandle
  BY <1>3
<1>6. s.ring \in Rings(Entries(T)) /\ Fills(s.ring, c, M)
  BY <1>2, <1>5, FilledIs
<1>7. s.fed \in Seq(T \cup {NoCandle}) /\ Len(s.fed) = M
      /\ \A j \in 1..M : s.fed[j] = c[j].close
  <2>1. \A j \in 1..M : c[j].close \in T \cup {NoCandle}
    BY <1>2, CandleSeq
  <2> QED BY <2>1, <1>2, <1>5
<1>8. s \in SeriesOf(T)
  <2>1. s.forming \in Candles(T) \cup {NoCandle}
    BY <1>4, <1>5
  <2>2. s = [ring |-> s.ring, forming |-> s.forming, fed |-> s.fed]
    BY <1>3
  <2> QED BY <2>1, <2>2, <1>6, <1>7 DEF SeriesOf
<1> DEFINE n == s.ring.count
           g == Gone(s)
<1>9. /\ n \in Nat /\ n = (IF M < RingCap THEN M ELSE RingCap)
      /\ \A j \in 0..(n - 1) : Cell(s.ring, j) = SlotOf(c, M - n + j + 1)
      /\ RingCap \in Nat \ {0} /\ g = M - n /\ g \in Nat
  <2>1. /\ n = (IF M < RingCap THEN M ELSE RingCap)
        /\ \A j \in 0..(n - 1) : Cell(s.ring, j) = SlotOf(c, M - n + j + 1)
    BY <1>6 DEF Fills
  <2>2. RingCap \in Nat \ {0}
    BY RingAssumption
  <2>3. g = M - n
    BY <1>7 DEF Gone
  <2> QED BY <2>1, <2>2, <2>3, <1>2
<1>10. \A k \in 1..n : Cell(s.ring, k - 1) = SlotOf(c, g + k) /\ g + k \in 1..M
  <2> SUFFICES ASSUME NEW k \in 1..n
               PROVE  Cell(s.ring, k - 1) = SlotOf(c, g + k) /\ g + k \in 1..M
    OBVIOUS
  <2> HIDE DEF n, g, M
  <2>3. n \in Nat /\ M \in Nat /\ g = M - n /\ g \in Nat /\ k \in 1..n
    BY <1>2, <1>9 DEF M
  <2>1. k - 1 \in 0..(n - 1) /\ M - n + (k - 1) + 1 = g + k /\ g + k \in 1..M
    BY <2>3
  <2>2. Cell(s.ring, k - 1) = SlotOf(c, M - n + (k - 1) + 1)
    BY <2>1, <1>9
  <2> QED BY <2>1, <2>2
<1> HIDE DEF n, M
<1>11. Exact(s)
  <2>1. g >= 0
    BY <1>9
  <2>2. ASSUME NEW k \in 1..n
        PROVE  /\ Cell(s.ring, k - 1).ema = SubSeq(s.fed, 1, g + k)
               /\ s.fed[g + k] = Cell(s.ring, k - 1).bar.close
    <3>1. /\ g + k \in 1..M /\ g + k \in 0..M /\ g + k \in Nat
          /\ Cell(s.ring, k - 1).ema = [j \in 1..(g + k) |-> c[j].close]
          /\ Cell(s.ring, k - 1).bar = c[g + k]
      <4>1. Cell(s.ring, k - 1) = SlotOf(c, g + k) /\ g + k \in 1..M
        BY <1>10
      <4>2. g + k \in 0..M /\ g + k \in Nat
        BY <4>1, <1>2
      <4> HIDE DEF g
      <4> QED BY <4>1, <4>2 DEF SlotOf
    <3> DEFINE x == [j \in 1..(g + k) |-> c[j].close]
               y == SubSeq(s.fed, 1, g + k)
    <3> HIDE DEF g
    <3>2. /\ y \in Seq(T \cup {NoCandle}) /\ Len(y) = g + k
          /\ \A j \in 1..(g + k) : y[j] = s.fed[j]
      BY <3>1, <1>7, Prefix
    <3>3. \A j \in 1..(g + k) : j \in 1..M
      BY <3>1, <1>2
    <3>4. /\ x \in Seq(T \cup {NoCandle}) /\ Len(x) = g + k
          /\ \A j \in 1..(g + k) : x[j] = c[j].close
      <4>1. \A j \in 1..(g + k) : c[j].close \in T \cup {NoCandle}
        BY <3>3, <1>2, CandleSeq DEF M
      <4> QED BY <4>1, <3>1
    <3>5. \A j \in 1..(g + k) : x[j] = y[j]
      BY <3>2, <3>3, <3>4, <1>7
    <3> HIDE DEF x, y
    <3>6. x = y
      BY <3>2, <3>4, <3>5, SeqEqual
    <3> QED BY <3>1, <3>6, <1>7 DEF x, y
  <2> QED BY <2>1, <2>2 DEF Exact, g, n
<1>12. /\ Len(Bars(s)) = n + IF s.forming = NoCandle THEN 0 ELSE 1
       /\ \A k \in 1..n : Bars(s)[k] = Cell(s.ring, k - 1).bar
       /\ s.forming # NoCandle => Bars(s)[n + 1] = s.forming
  BY <1>8, BarsAre DEF n, Size
<1>13. s.forming = NoCandle <=> ~forms
  <2>1. NoCandle \notin Candles(T)
    BY ZeroValue
  <2> QED BY <2>1, <1>4, <1>5
<1> DEFINE B == Bars(s)
<1> HIDE DEF g, B
<1>14. Len(B) = N - g /\ (N > 0 => Len(B) > 0) /\ (forms => n + 1 = N - g)
  BY <1>1, <1>2, <1>4, <1>9, <1>12, <1>13 DEF B
<1>15. ASSUME NEW k \in 1..Len(B) PROVE B[k] = h[g + k]
  <2>1. CASE k \in 1..n
    <3>1. B[k] = SlotOf(c, g + k).bar /\ g + k \in 1..M
      BY <2>1, <1>10, <1>12 DEF B
    <3>2. SlotOf(c, g + k).bar = c[g + k]
      BY DEF SlotOf
    <3> QED BY <3>1, <3>2, <1>2
  <2>2. CASE k \notin 1..n
    <3>1. forms /\ k = n + 1 /\ g + k = N
      BY <2>2, <1>1, <1>9, <1>12, <1>13, <1>14 DEF B
    <3> QED BY <3>1, <1>4, <1>5, <1>12, <1>13 DEF B
  <2> QED BY <2>1, <2>2
<1> QED BY <1>8, <1>9, <1>11, <1>14, <1>15 DEF s, B, g, N

\* A complete history is complete but for the candles evicted.
LEMMA LoadedFiled ==
  ASSUME NEW T \in SUBSET Prints, NEW h \in Seq(Candles(T)), NEW cur,
         NEW G \in SUBSET T, NEW L \in Nat \ {0}, Complete(h, G, L)
  PROVE  LET s == Loaded(h, cur) IN
         Ascends(Bars(s)) /\ Filed(Bars(s), Gone(s), G, L, T)
<1> DEFINE s == Loaded(h, cur)
           B == Bars(s)
           g == Gone(s)
<1>1. /\ g \in Nat /\ Len(h) \in Nat /\ Len(B) = Len(h) - g
      /\ Len(h) > 0 => Len(B) > 0
      /\ \A k \in 1..Len(B) : B[k] = h[g + k]
  BY LoadedIs, CandleSeq
<1>2. \A k \in 1..Len(h) : h[k].start \in Nat
  BY CandleSeq
<1> HIDE DEF B, g
<1>3. \A k \in 1..Len(B) : g + k \in 1..Len(h)
  BY <1>1
<1>4. /\ \A j, k \in 1..Len(h) : j < k => h[j].start < h[k].start
      /\ \A k \in 1..Len(h) : h[k].prints \subseteq G /\ h[k].close \in h[k].prints
      /\ \A i \in G : \A k \in 1..Len(h) :
           i \in h[k].prints <=> h[k].start = Bucket(L, i.ts)
      /\ \A i \in G : \E k \in 1..Len(h) : h[k].start = Bucket(L, i.ts)
  BY DEF Complete, Ascends
<1>5. Ascends(B)
  <2> SUFFICES ASSUME NEW j \in 1..Len(B), NEW k \in 1..Len(B), j < k
               PROVE  B[j].start < B[k].start
    BY DEF Ascends
  <2>1. g + j < g + k /\ g + j \in 1..Len(h) /\ g + k \in 1..Len(h)
    BY <1>1, <1>3
  <2>2. h[g + j].start < h[g + k].start
    BY <2>1, <1>4
  <2> QED BY <2>2, <1>1
<1>6. \A k \in 1..Len(B) : B[k].prints \subseteq G /\ B[k].close \in B[k].prints
  BY <1>1, <1>3, <1>4
<1>7. ASSUME NEW i \in G, NEW k \in 1..Len(B)
      PROVE  i \in B[k].prints <=> B[k].start = Bucket(L, i.ts)
  <2>1. g + k \in 1..Len(h) /\ B[k] = h[g + k]
    BY <1>1, <1>3
  <2> QED BY <2>1, <1>4
<1>8. ASSUME NEW i \in G, \A k \in 1..Len(B) : B[k].start # Bucket(L, i.ts)
      PROVE  Missing(B, g, Bucket(L, i.ts), T, i)
  <2>1. PICK m \in 1..Len(h) : h[m].start = Bucket(L, i.ts)
    BY <1>4
  <2>2. m <= g
    <3> SUFFICES ASSUME ~(m <= g) PROVE FALSE
      OBVIOUS
    <3>1. m - g \in 1..Len(B) /\ g + (m - g) = m
      BY <1>1
    <3>2. B[m - g] = h[g + (m - g)]
      BY <3>1, <1>1
    <3> QED BY <3>1, <3>2, <2>1, <1>8
  <2>3. Len(B) > 0 /\ 1 \in 1..Len(B) /\ Len(B) \in 1..Len(B) /\ g > 0
    BY <2>2, <1>1
  <2>4. \A k \in 1..Len(B) : Bucket(L, i.ts) < B[k].start
    <3> SUFFICES ASSUME NEW k \in 1..Len(B) PROVE Bucket(L, i.ts) < B[k].start
      OBVIOUS
    <3>1. m < g + k /\ g + k \in 1..Len(h)
      BY <2>2, <1>1, <1>3
    <3>2. h[m].start < h[g + k].start
      BY <3>1, <1>4
    <3> QED BY <3>2, <2>1, <1>1
  <2> QED BY <2>3, <2>4 DEF Missing
<1>9. Filed(B, g, G, L, T)
  BY <1>6, <1>7, <1>8 DEF Filed
<1> QED BY <1>5, <1>9 DEF B, g
-----------------------------------------------------------------------------
(* The aggregator. *)

AggsOf(T) == [series: [Names -> SeriesOf(T)], length: {0} \cup CustomLens,
              vwap: SUBSET T, twice: SUBSET T, last: Prices \cup {NoPrice},
              buffering: BOOLEAN, buf: Seq(T), given: [Names -> SUBSET T], odd: SUBSET Names]

\* One series of the aggregator: the EMA, the order and the prints in it.
Kept(a, n, T) ==
  /\ Exact(a.series[n])
  /\ n \notin a.odd =>
       /\ Ascends(Bars(a.series[n]))
       /\ Filed(Bars(a.series[n]), Gone(a.series[n]), a.given[n], LenOf(a, n), T)

Good(a, T) == a \in AggsOf(T) /\ \A n \in Names : Kept(a, n, T)

\* What no fold changes.
SameRest(a, b) ==
  /\ b.length = a.length /\ b.last = a.last
  /\ b.buffering = a.buffering /\ b.buf = a.buf

LEMMA NamesAre ==
  /\ "fine" \in Names /\ "minute" \in Names /\ "custom" \in Names
  /\ \A n \in Names : n = "fine" \/ n = "minute" \/ n = "custom"
  /\ "fine" # "minute" /\ "fine" # "custom" /\ "minute" # "custom"
  BY DEF Names

LEMMA LengthsAre ==
  ASSUME NEW a, a.length \in {0} \cup CustomLens
  PROVE  /\ LenOf(a, "fine") = FineLen /\ FineLen \in Nat \ {0}
         /\ LenOf(a, "minute") = MinuteLen /\ MinuteLen \in Nat \ {0}
         /\ LenOf(a, "custom") = a.length
         /\ a.length > 0 => a.length \in Nat \ {0} /\ a.length \in CustomLens
         /\ \A n \in Names : (n = "custom" => a.length > 0) => LenOf(a, n) \in Nat \ {0}
<1>1. /\ LenOf(a, "fine") = FineLen /\ LenOf(a, "minute") = MinuteLen
      /\ LenOf(a, "custom") = a.length
  BY DEF LenOf
<1>2. FineLen \in Nat \ {0} /\ MinuteLen \in Nat \ {0} /\ CustomLens \subseteq Nat \ {0}
  BY BarsAssumption
<1>3. a.length > 0 => a.length \in Nat \ {0} /\ a.length \in CustomLens
  <2>1. CASE a.length = 0
    BY <2>1
  <2>2. CASE a.length \in CustomLens
    <3>1. \A len \in CustomLens : len \in Nat \ {0}
      BY <1>2
    <3> QED BY <2>2, <3>1
  <2> QED BY <2>1, <2>2
<1>4. ASSUME NEW n \in Names, n = "custom" => a.length > 0
      PROVE  LenOf(a, n) \in Nat \ {0}
  <2>1. n = "fine" \/ n = "minute" \/ n = "custom"
    BY NamesAre
  <2> QED BY <2>1, <1>1, <1>2, <1>3, <1>4
<1> QED BY <1>1, <1>2, <1>3, <1>4

\* The prints that series in ns were handed are of i's bucket or an older one,
\* or reported before it.
InTurn(a, ns, i) ==
  \A n \in ns \ a.odd : \A j \in a.given[n] :
    Bucket(LenOf(a, n), i.ts) < Bucket(LenOf(a, n), j.ts) => j.n < i.n

\* They are older than i, or reported before it.
Elder(a, ns, i) ==
  \A n \in ns \ a.odd : \A j \in a.given[n] : j.ts > i.ts => j.n < i.n

LEMMA ElderInTurn ==
  ASSUME NEW T \in SUBSET Prints, NEW a \in AggsOf(T), NEW ns \in SUBSET Names,
         NEW i \in T, "custom" \in ns => a.length > 0, Elder(a, ns, i)
  PROVE  InTurn(a, ns, i)
<1> SUFFICES ASSUME NEW n \in ns \ a.odd, NEW j \in a.given[n],
                    Bucket(LenOf(a, n), i.ts) < Bucket(LenOf(a, n), j.ts)
             PROVE  j.n < i.n
  BY DEF InTurn
<1> DEFINE L == LenOf(a, n)
<1>1. n \in Names /\ (n = "custom" => a.length > 0) /\ a.length \in {0} \cup CustomLens
  BY DEF AggsOf
<1>2. L \in Nat \ {0}
  BY <1>1, LengthsAre
<1>3. j \in Prints /\ i \in Prints
  <2>1. a.given[n] \in SUBSET T
    BY <1>1 DEF AggsOf
  <2> QED BY <2>1
<1> HIDE DEF L
<1>4. /\ i.ts \in Nat /\ Bucket(L, i.ts) \in Nat
      /\ j.ts \in Nat /\ Bucket(L, j.ts) \in Nat
  BY <1>2, <1>3, PrintIs
<1>5. j.ts <= i.ts => Bucket(L, j.ts) <= Bucket(L, i.ts)
  BY <1>2, <1>4, BucketMonotone
<1>6. Bucket(L, i.ts) < Bucket(L, j.ts)
  BY DEF L
<1>7. j.ts > i.ts
  BY <1>4, <1>5, <1>6
<1> QED BY <1>7 DEF Elder

\* The series in ns were handed i.
Handed(a, b, ns, i) ==
  /\ SameRest(a, b) /\ b.vwap = a.vwap /\ b.twice = a.twice
  /\ a.odd \subseteq b.odd
  /\ \A n \in Names : b.given[n] = a.given[n] \cup IF n \in ns THEN {i} ELSE {}
  /\ \A n \in Names \ ns : b.series[n] = a.series[n] /\ (n \in b.odd => n \in a.odd)

LEMMA AggregateIs ==
  ASSUME NEW T \in SUBSET Prints, NEW a, Good(a, T), NEW ns \in SUBSET Names,
         NEW i \in T, "custom" \in ns => a.length > 0, InTurn(a, ns, i)
  PROVE  Good(Aggregate(a, ns, i), T) /\ Handed(a, Aggregate(a, ns, i), ns, i)
<1> DEFINE b == Aggregate(a, ns, i)
           at(n) == Bucket(LenOf(a, n), i.ts)
           q(n) == foldTrade(a.series[n], at(n), i, a.vwap)
<1>1. /\ a \in AggsOf(T) /\ a.series \in [Names -> SeriesOf(T)] /\ a.vwap \in SUBSET T
      /\ a.given \in [Names -> SUBSET T] /\ a.odd \in SUBSET Names
      /\ a.length \in {0} \cup CustomLens
      /\ \A n \in Names : Kept(a, n, T)
  BY DEF Good, AggsOf
<1>2. ASSUME NEW n \in ns
      PROVE  /\ n \in Names /\ LenOf(a, n) \in Nat \ {0} /\ at(n) \in 0..MaxTime
             /\ a.series[n] \in SeriesOf(T)
  <2>1. LenOf(a, n) \in Nat \ {0}
    <3>1. n = "custom" => a.length > 0
      OBVIOUS
    <3> QED BY <3>1, <1>1, LengthsAre
  <2>2. i \in Prints
    OBVIOUS
  <2>3. at(n) \in 0..MaxTime
    BY <2>1, <2>2, PrintIs
  <2> QED BY <2>1, <2>3, <1>1
<1>3. ASSUME NEW n \in ns
      PROVE  q(n) \in SeriesOf(T) /\ Exact(q(n))
  <2>1. Exact(a.series[n])
    BY <1>1 DEF Kept
  <2>2. q(n) \in SeriesOf(T) /\ (Exact(a.series[n]) => Exact(q(n)))
    BY <1>1, <1>2, FoldIs
  <2> QED BY <2>1, <2>2
<1> HIDE DEF q, at
<1>4. /\ b.series = [n \in Names |-> IF n \in ns THEN q(n) ELSE a.series[n]]
      /\ b.given = [n \in Names |-> a.given[n] \cup IF n \in ns THEN {i} ELSE {}]
      /\ b.odd = a.odd \cup {n \in ns : OpensLate(a.series[n], at(n))}
      /\ SameRest(a, b) /\ b.vwap = a.vwap /\ b.twice = a.twice
      /\ b = [series |-> b.series, length |-> a.length, vwap |-> a.vwap,
              twice |-> a.twice, last |-> a.last, buffering |-> a.buffering, buf |-> a.buf, given |-> b.given, odd |-> b.odd]
  <2> DEFINE S == [n \in Names |-> IF n \in ns THEN q(n) ELSE a.series[n]]
             H == [n \in Names |-> a.given[n] \cup IF n \in ns THEN {i} ELSE {}]
             O == a.odd \cup {n \in ns : OpensLate(a.series[n], at(n))}
  <2>1. b = [a EXCEPT !.series = S, !.given = H, !.odd = O]
    BY DEF Aggregate, q, at
  <2> HIDE DEF S, H, O, b
  <2>2. /\ b.series = S /\ b.given = H /\ b.odd = O
        /\ SameRest(a, b) /\ b.vwap = a.vwap /\ b.twice = a.twice
        /\ b = [series |-> S, length |-> a.length, vwap |-> a.vwap,
                twice |-> a.twice, last |-> a.last, buffering |-> a.buffering, buf |-> a.buf, given |-> H, odd |-> O]
    BY <2>1, <1>1 DEF AggsOf, SameRest
  <2> QED BY <2>2 DEF S, H, O
<1>5. b \in AggsOf(T)
  <2>1. b.series \in [Names -> SeriesOf(T)]
    BY <1>1, <1>3, <1>4
  <2>2. b.given \in [Names -> SUBSET T]
    BY <1>1, <1>4
  <2>3. b.odd \in SUBSET Names
    BY <1>1, <1>4
  <2> QED BY <2>1, <2>2, <2>3, <1>1, <1>4 DEF AggsOf
<1> HIDE DEF b
<1>6. \A n \in Names : LenOf(b, n) = LenOf(a, n)
  BY <1>4, NamesAre DEF LenOf, SameRest
<1>7. ASSUME NEW n \in Names PROVE Kept(b, n, T)
  <2>1. CASE n \notin ns
    <3>1. b.series[n] = a.series[n] /\ b.given[n] = a.given[n] /\ (n \notin b.odd => n \notin a.odd)
      BY <2>1, <1>4
    <3> QED BY <3>1, <1>1, <1>6 DEF Kept
  <2>2. CASE n \in ns
    <3>1. b.series[n] = q(n) /\ b.given[n] = a.given[n] \cup {i} /\ a.given[n] \in SUBSET T
      BY <2>2, <1>1, <1>4
    <3>2. ASSUME n \notin b.odd
          PROVE  /\ Ascends(Bars(q(n)))
                 /\ Filed(Bars(q(n)), Gone(q(n)), a.given[n] \cup {i}, LenOf(a, n), T)
      <4>1. n \notin a.odd /\ ~OpensLate(a.series[n], at(n))
        BY <2>2, <3>2, <1>4
      <4>2. /\ Ascends(Bars(a.series[n])) /\ Exact(a.series[n])
            /\ Filed(Bars(a.series[n]), Gone(a.series[n]), a.given[n], LenOf(a, n), T)
        BY <4>1, <1>1 DEF Kept
      <4>3. \A j \in a.given[n] :
              Bucket(LenOf(a, n), i.ts) < Bucket(LenOf(a, n), j.ts) => j.n < i.n
        BY <4>1, <2>2 DEF InTurn
      <4>4. at(n) = Bucket(LenOf(a, n), i.ts)
        BY DEF at
      <4>5. /\ Ascends(Bars(a.series[n])) => Ascends(Bars(q(n)))
            /\ \A G \in SUBSET T, L \in Nat \ {0} :
                 /\ Ascends(Bars(a.series[n])) /\ Exact(a.series[n])
                 /\ at(n) = Bucket(L, i.ts)
                 /\ Filed(Bars(a.series[n]), Gone(a.series[n]), G, L, T)
                 /\ \A j \in G : Bucket(L, i.ts) < Bucket(L, j.ts) => j.n < i.n
                 => Filed(Bars(q(n)), Gone(q(n)), G \cup {i}, L, T)
        BY <4>1, <1>1, <1>2, <2>2, FoldFiled DEF q
      <4>6. LenOf(a, n) \in Nat \ {0}
        BY <2>2, <1>2
      <4> QED BY <3>1, <4>2, <4>3, <4>4, <4>5, <4>6
    <3>3. Exact(q(n))
      BY <2>2, <1>3
    <3> QED BY <3>1, <3>2, <3>3, <1>6 DEF Kept
  <2> QED BY <2>1, <2>2
<1>8. Handed(a, b, ns, i)
  BY <1>4 DEF Handed
<1>9. Good(b, T)
  BY <1>5, <1>7 DEF Good
<1> QED BY <1>8, <1>9 DEF b

LEMMA SameGood ==
  ASSUME NEW T, NEW a, Good(a, T), NEW b \in AggsOf(T), b.series = a.series,
         b.given = a.given, b.odd = a.odd, b.length = a.length
  PROVE  Good(b, T)
<1>1. \A n \in Names : LenOf(b, n) = LenOf(a, n)
  BY NamesAre DEF LenOf
<1>2. \A n \in Names : Kept(b, n, T)
  BY <1>1 DEF Good, Kept
<1> QED BY <1>2 DEF Good

LEMMA FedIs ==
  ASSUME NEW a, NEW src \in {"fine", "minute"}
  PROVE  /\ FedWith(a, src) \in SUBSET Names /\ src \in FedWith(a, src)
         /\ "custom" \in FedWith(a, src) <=> a.length > 0 /\ customSourceTF(a.length) = src
         /\ \A n \in FedWith(a, src) : n = src \/ n = "custom"
  BY DEF FedWith, Names

\* The last time of the minute of m: REST's bars up to m may reach so far.
LastOf(m) == Bucket(MinuteLen, m) + MinuteLen - 1

LEMMA LastOfIs ==
  ASSUME NEW m \in Nat
  PROVE  /\ LastOf(m) \in Nat /\ m <= LastOf(m)
         /\ \A k \in Nat : m <= k => LastOf(m) <= LastOf(k)
         /\ \A t \in Nat, L \in Nat \ {0} :
              t <= LastOf(m) /\ L % MinuteLen = 0 => Bucket(L, t) <= Bucket(L, m)
<1>1. MinuteLen \in Nat \ {0}
  BY BarsAssumption
<1>2. /\ Bucket(MinuteLen, m) \in Nat /\ m - Bucket(MinuteLen, m) < MinuteLen
      /\ Bucket(MinuteLen, m) = MinuteLen * (m \div MinuteLen) /\ m \div MinuteLen \in Nat
  BY <1>1, BucketIs, DivMod
<1>3. LastOf(m) \in Nat /\ m <= LastOf(m)
  BY <1>1, <1>2 DEF LastOf
<1>4. ASSUME NEW k \in Nat, m <= k PROVE LastOf(m) <= LastOf(k)
  <2>1. Bucket(MinuteLen, m) <= Bucket(MinuteLen, k) /\ Bucket(MinuteLen, k) \in Nat
    BY <1>1, <1>4, BucketMonotone, BucketIs
  <2> QED BY <1>1, <1>2, <2>1 DEF LastOf
<1>5. ASSUME NEW t \in Nat, NEW L \in Nat \ {0}, t <= LastOf(m), L % MinuteLen = 0
      PROVE  Bucket(L, t) <= Bucket(L, m)
  <2> DEFINE x == Bucket(MinuteLen, t)
             y == Bucket(MinuteLen, m)
             p == t \div MinuteLen
             q == m \div MinuteLen
  <2>1. x \in Nat /\ x <= t /\ x = MinuteLen * p /\ p \in Nat
    <3>1. /\ Bucket(MinuteLen, t) \in 0..t
          /\ Bucket(MinuteLen, t) = MinuteLen * (t \div MinuteLen)
      BY <1>1, BucketIs
    <3>2. t \div MinuteLen \in Nat
      BY <1>1, DivMod
    <3> HIDE DEF p
    <3> QED BY <3>1, <3>2 DEF p
  <2>2. y \in Nat /\ y = MinuteLen * q /\ q \in Nat
    BY <1>2
  <2>3. t < y + MinuteLen
    BY <1>1, <1>2, <1>5 DEF LastOf
  <2>7. Bucket(L, x) = Bucket(L, t) /\ Bucket(L, y) = Bucket(L, m)
    BY <1>1, <1>5, BucketNested
  <2> HIDE DEF x, y, p, q
  <2>4. p <= q
    <3>1. SUFFICES ASSUME q + 1 <= p PROVE FALSE
      BY <2>1, <2>2
    <3>2. MinuteLen * (q + 1) <= MinuteLen * p
      BY <1>1, <2>1, <2>2, <3>1, TimesMonotone
    <3>3. MinuteLen * (q + 1) = MinuteLen * q + MinuteLen
      BY <1>1, <2>2
    <3> QED BY <1>1, <2>1, <2>2, <2>3, <3>2, <3>3
  <2>5. x <= y
    BY <1>1, <2>1, <2>2, <2>4, TimesMonotone
  <2>6. Bucket(L, x) <= Bucket(L, y)
    BY <2>1, <2>2, <2>5, BucketMonotone
  <2> QED BY <2>6, <2>7
<1> QED BY <1>3, <1>4, <1>5

\* The time up to which a series may have been handed the buffered prints.
Cut(a, n, sub, min) ==
  IF n = "minute" \/ (n = "custom" /\ customSourceTF(a.length) = "minute")
    THEN LastOf(min) ELSE sub

\* Print i may be handed to the series in order: what they were handed is
\* older, reported before it, or up to the time i has to be younger than.
Fresh(a, i, sub, min) ==
  \A n \in Names \ a.odd : (n = "custom" => a.length > 0) =>
    \A j \in a.given[n] : j.n < i.n \/ j.ts <= Cut(a, n, sub, min)

\* What one print or some do to what the series were handed.
Fed(a, b, S) ==
  /\ SameRest(a, b) /\ a.odd \subseteq b.odd
  /\ \A n \in Names : b.given[n] \subseteq a.given[n] \cup S

LEMMA FedFresh ==
  ASSUME NEW a, NEW b, NEW S, Fed(a, b, S), NEW i, NEW sub, NEW min,
         Fresh(a, i, sub, min), \A j \in S : j.n < i.n
  PROVE  Fresh(b, i, sub, min)
<1>1. \A n \in Names : Cut(b, n, sub, min) = Cut(a, n, sub, min)
  BY DEF Cut, Fed, SameRest
<1>2. ASSUME NEW n \in Names \ b.odd, n = "custom" => b.length > 0, NEW j \in b.given[n]
      PROVE  j.n < i.n \/ j.ts <= Cut(b, n, sub, min)
  <2>1. /\ n \notin a.odd /\ (j \in a.given[n] \/ j \in S)
        /\ n = "custom" => a.length > 0
    BY <1>2 DEF Fed, SameRest
  <2> QED BY <2>1, <1>1 DEF Fresh
<1> QED BY <1>2 DEF Fresh

\* Aggregate of the series fed with one source.
LEMMA SourceStep ==
  ASSUME NEW T \in SUBSET Prints, NEW a, Good(a, T), NEW i \in T,
         NEW src \in {"fine", "minute"}, InTurn(a, FedWith(a, src), i)
  PROVE  LET b == Aggregate(a, FedWith(a, src), i) IN
         Good(b, T) /\ Fed(a, b, {i})
<1> DEFINE b == Aggregate(a, FedWith(a, src), i)
           ns == FedWith(a, src)
<1>1. ns \in SUBSET Names /\ ("custom" \in ns => a.length > 0)
  BY FedIs
<1>2. InTurn(a, ns, i)
  OBVIOUS
<1>4. b = Aggregate(a, ns, i)
  BY DEF ns
<1> HIDE DEF ns, b
<1>3. Good(b, T) /\ Handed(a, b, ns, i)
  BY <1>1, <1>2, <1>4, AggregateIs
<1>5. Good(b, T) /\ SameRest(a, b) /\ a.odd \subseteq b.odd
      /\ \A n \in Names : b.given[n] \subseteq a.given[n] \cup {i}
  BY <1>3 DEF Handed
<1>6. Fed(a, b, {i})
  BY <1>5 DEF Fed
<1> QED BY <1>5, <1>6 DEF b

LEMMA DrainStep ==
  ASSUME NEW T \in SUBSET Prints, NEW a, Good(a, T), NEW i \in T,
         NEW sub \in Nat, NEW min \in Nat, Fresh(a, i, sub, min)
  PROVE  LET c == applyBufferedTradeLocked(a, i, sub, min) IN
         Good(c, T) /\ Fed(a, c, {i})
<1> DEFINE v == VwapUpdate(a, i)
           b == IF i.ts > min THEN AggregateMinute(a, i) ELSE a
           c == applyBufferedTradeLocked(a, i, sub, min)
<1>1. /\ i.ts \in Nat /\ i.n \in Nat
      /\ \A n \in Names : \A j \in a.given[n] : j \in T /\ j.ts \in Nat /\ j.n \in Nat
  <2>1. \A j \in T : j.ts \in Nat /\ j.n \in Nat
    <3> SUFFICES ASSUME NEW j \in T PROVE j.ts \in Nat /\ j.n \in Nat
      OBVIOUS
    <3>1. j \in Prints
      OBVIOUS
    <3> QED BY <3>1, PrintIs
  <2>2. a.given \in [Names -> SUBSET T]
    BY DEF Good, AggsOf
  <2> QED BY <2>1, <2>2
<1>2. v \in AggsOf(T) /\ v.series = a.series /\ v.given = a.given /\ v.odd = a.odd
      /\ v.length = a.length /\ SameRest(a, v)
  <2>1. a \in AggsOf(T)
    BY DEF Good
  <2> QED BY <2>1 DEF AggsOf, SameRest, VwapUpdate
<1>3. AggregateMinute(a, i) = Aggregate(v, FedWith(v, "minute"), i)
  <2>1. FedWith(v, "minute") = FedWith(a, "minute")
    BY <1>2 DEF FedWith
  <2> QED BY <2>1 DEF AggregateMinute
<1>4. Good(v, T) /\ Fed(a, v, {})
  <2>1. Good(v, T)
    BY <1>2, SameGood
  <2> QED BY <2>1, <1>2 DEF Fed
<1>5. c = IF i.ts > sub THEN AggregateFine(b, i) ELSE b
  BY DEF applyBufferedTradeLocked
<1> HIDE DEF v, c
<1>6. Good(b, T) /\ Fed(a, b, {i})
  <2>1. CASE i.ts > min
    <3>1. ASSUME NEW n \in FedWith(v, "minute") \ v.odd, NEW j \in v.given[n],
                 Bucket(LenOf(v, n), i.ts) < Bucket(LenOf(v, n), j.ts)
          PROVE  j.n < i.n
      <4> DEFINE L == LenOf(v, n)
      <4>1. n = "minute" \/ (n = "custom" /\ customSourceTF(a.length) = "minute")
        <5>1. n = "minute" \/ n = "custom"
          BY <3>1, FedIs
        <5>2. "custom" \in FedWith(v, "minute") => customSourceTF(v.length) = "minute"
          BY FedIs
        <5> QED BY <3>1, <5>1, <5>2, <1>2
      <4>2. Cut(a, n, sub, min) = LastOf(min)
        BY <4>1 DEF Cut
      <4>4. n \in Names \ a.odd /\ (n = "custom" => a.length > 0) /\ j \in a.given[n]
        BY <3>1, <1>2, FedIs
      <4>3. j.n < i.n \/ j.ts <= LastOf(min)
        BY <4>2, <4>4 DEF Fresh
      <4>5. L \in Nat \ {0} /\ L % MinuteLen = 0
        <5>1. a.length \in {0} \cup CustomLens
          BY DEF Good, AggsOf
        <5>2. L = LenOf(a, n)
          BY <1>2 DEF LenOf
        <5>3. L \in Nat \ {0}
          BY <5>1, <5>2, <4>4, LengthsAre
        <5>4. CASE n = "minute"
          <6>1. L = MinuteLen
            BY <5>4, <5>2 DEF LenOf
          <6> QED BY <5>3, <6>1
        <5>5. CASE n = "custom" /\ customSourceTF(a.length) = "minute"
          <6>1. L = a.length
            BY <5>5, <5>2 DEF LenOf
          <6>2. a.length % MinuteLen = 0
            BY <5>5, Zenon DEF customSourceTF
          <6> QED BY <5>3, <6>1, <6>2
        <5> QED BY <4>1, <5>4, <5>5
      <4>6. Bucket(L, i.ts) < Bucket(L, j.ts)
        BY <3>1
      <4> HIDE DEF L
      <4>7. j.ts \in Nat /\ i.ts \in Nat
        BY <4>4, <1>1
      <4>8. j.ts <= LastOf(min) => Bucket(L, j.ts) <= Bucket(L, min)
        BY <4>5, <4>7, LastOfIs
      <4>9. Bucket(L, min) <= Bucket(L, i.ts)
        BY <4>5, <4>7, <2>1, BucketMonotone
      <4>10. /\ Bucket(L, min) \in Nat /\ Bucket(L, i.ts) \in Nat
             /\ Bucket(L, j.ts) \in Nat
        <5>1. L \in Nat \ {0}
          BY <4>5
        <5>2. Bucket(L, min) \in Nat
          BY <5>1, BucketIs
        <5>3. Bucket(L, i.ts) \in Nat
          BY <4>7, <5>1, BucketIs
        <5>4. Bucket(L, j.ts) \in Nat
          BY <4>7, <5>1, BucketIs
        <5> QED BY <5>2, <5>3, <5>4
      <4> QED BY <4>3, <4>6, <4>8, <4>9, <4>10
    <3>5. InTurn(v, FedWith(v, "minute"), i)
      BY <3>1 DEF InTurn
    <3>2. b = Aggregate(v, FedWith(v, "minute"), i)
      BY <2>1, <1>3
    <3> HIDE DEF b
    <3>3. Good(b, T) /\ Fed(v, b, {i})
      BY <3>2, <3>5, <1>4, SourceStep
    <3>4. Fed(a, b, {i})
      BY <3>3, <1>4 DEF Fed, SameRest
    <3> QED BY <3>3, <3>4
  <2>2. CASE ~(i.ts > min)
    <3>1. b = a
      BY <2>2
    <3> QED BY <3>1 DEF Fed, SameRest
  <2> QED BY <2>1, <2>2
<1> HIDE DEF b
<1>7. CASE i.ts > sub
  <2>1. ASSUME NEW n \in Names \ b.odd, n \in FedWith(b, "fine"),
               NEW j \in b.given[n], j.ts > i.ts
        PROVE  j.n < i.n
    <3>1. n # "minute" /\ ~(n = "custom" /\ customSourceTF(a.length) = "minute")
      <4>1. n = "fine" \/ n = "custom"
        BY <2>1, FedIs
      <4>2. "custom" \in FedWith(b, "fine") => customSourceTF(b.length) = "fine"
        BY FedIs
      <4>3. b.length = a.length
        BY <1>6 DEF Fed, SameRest
      <4> QED BY <2>1, <4>1, <4>2, <4>3
    <3>2. Cut(a, n, sub, min) = sub
      BY <3>1 DEF Cut
    <3>3. n \in Names \ a.odd /\ (j \in a.given[n] \/ j = i)
      BY <2>1, <1>6 DEF Fed
    <3>4. j # i /\ (n = "custom" => a.length > 0)
      <4>1. n = "custom" => b.length > 0
        BY <2>1, FedIs
      <4> QED BY <4>1, <2>1, <1>1, <1>6 DEF Fed, SameRest
    <3>5. j.n < i.n \/ j.ts <= sub
      BY <3>2, <3>3, <3>4 DEF Fresh
    <3> QED BY <3>3, <3>4, <3>5, <2>1, <1>1, <1>7
  <2>2. c = Aggregate(b, FedWith(b, "fine"), i)
    BY <1>5, <1>7 DEF AggregateFine
  <2>5. InTurn(b, FedWith(b, "fine"), i)
    <3>1. Elder(b, FedWith(b, "fine"), i)
      <4>1. FedWith(b, "fine") \in SUBSET Names
        BY FedIs
      <4> QED BY <2>1, <4>1 DEF Elder
    <3>2. /\ b \in AggsOf(T) /\ FedWith(b, "fine") \in SUBSET Names
          /\ "custom" \in FedWith(b, "fine") => b.length > 0
      BY <1>6, FedIs DEF Good
    <3> QED BY <3>1, <3>2, ElderInTurn
  <2>3. Good(c, T) /\ Fed(b, c, {i})
    BY <2>2, <2>5, <1>6, SourceStep
  <2>4. Fed(a, c, {i})
    BY <2>3, <1>6 DEF Fed, SameRest
  <2> QED BY <2>3, <2>4 DEF c
<1>8. CASE ~(i.ts > sub)
  BY <1>5, <1>6, <1>8 DEF c
<1> QED BY <1>7, <1>8
-----------------------------------------------------------------------------
(* finishBackfill. *)

LEMMA AggregateType ==
  ASSUME NEW T \in SUBSET Prints, NEW a \in AggsOf(T), NEW ns \in SUBSET Names,
         NEW i \in T, "custom" \in ns => a.length > 0
  PROVE  Aggregate(a, ns, i) \in AggsOf(T)
<1> DEFINE q(n) == foldTrade(a.series[n], Bucket(LenOf(a, n), i.ts), i, a.vwap)
           S == [n \in Names |-> IF n \in ns THEN q(n) ELSE a.series[n]]
           H == [n \in Names |-> a.given[n] \cup IF n \in ns THEN {i} ELSE {}]
           O == a.odd \cup {n \in ns : OpensLate(a.series[n], Bucket(LenOf(a, n), i.ts))}
<1>1. /\ a.series \in [Names -> SeriesOf(T)] /\ a.vwap \in SUBSET T
      /\ a.given \in [Names -> SUBSET T] /\ a.odd \in SUBSET Names
      /\ a.length \in {0} \cup CustomLens
  BY DEF AggsOf
<1>2. ns \in SUBSET Names
  OBVIOUS
<1>3. ASSUME NEW n \in ns PROVE q(n) \in SeriesOf(T)
  <2>1. LenOf(a, n) \in Nat \ {0}
    <3>1. n \in Names /\ (n = "custom" => a.length > 0)
      OBVIOUS
    <3> QED BY <3>1, <1>1, LengthsAre
  <2>2. i \in Prints
    OBVIOUS
  <2>3. Bucket(LenOf(a, n), i.ts) \in 0..MaxTime
    BY <2>1, <2>2, PrintIs
  <2>4. a.series[n] \in SeriesOf(T)
    BY <1>1, <1>2
  <2> QED BY <2>3, <2>4, <1>1, FoldIs
<1>4. Aggregate(a, ns, i) = [a EXCEPT !.series = S, !.given = H, !.odd = O]
  BY DEF Aggregate
<1> HIDE DEF q
<1>5. S \in [Names -> SeriesOf(T)] /\ H \in [Names -> SUBSET T] /\ O \in SUBSET Names
  BY <1>1, <1>2, <1>3
<1> HIDE DEF S, H, O
<1> QED BY <1>4, <1>5 DEF AggsOf

LEMMA DrainType ==
  ASSUME NEW T \in SUBSET Prints, NEW a \in AggsOf(T), NEW i \in T,
         NEW sub, NEW min
  PROVE  applyBufferedTradeLocked(a, i, sub, min) \in AggsOf(T)
<1> DEFINE v == VwapUpdate(a, i)
           b == IF i.ts > min THEN AggregateMinute(a, i) ELSE a
           c == applyBufferedTradeLocked(a, i, sub, min)
<1>1. v \in AggsOf(T)
  BY DEF AggsOf, VwapUpdate
<1>2. AggregateMinute(a, i) = Aggregate(v, FedWith(v, "minute"), i)
  <2>1. FedWith(v, "minute") = FedWith(a, "minute")
    BY DEF FedWith, AggsOf, VwapUpdate
  <2> QED BY <2>1 DEF AggregateMinute
<1>3. AggregateMinute(a, i) \in AggsOf(T)
  <2> HIDE DEF v
  <2>1. /\ FedWith(v, "minute") \in SUBSET Names
        /\ "custom" \in FedWith(v, "minute") => v.length > 0
    BY FedIs
  <2> QED BY <1>1, <1>2, <2>1, AggregateType
<1>4. b \in AggsOf(T)
  BY <1>3
<1>5. c = IF i.ts > sub THEN AggregateFine(b, i) ELSE b
  BY DEF applyBufferedTradeLocked
<1> HIDE DEF b
<1>6. AggregateFine(b, i) \in AggsOf(T)
  <2>1. /\ FedWith(b, "fine") \in SUBSET Names
        /\ "custom" \in FedWith(b, "fine") => b.length > 0
    BY FedIs
  <2> QED BY <1>4, <2>1, AggregateType DEF AggregateFine
<1> QED BY <1>4, <1>5, <1>6

Emptied(a) == [a EXCEPT !.buffering = FALSE, !.buf = <<>>]

Drains(u, a, sub, min) ==
  /\ finishBackfill(a, sub, min) = u[Len(a.buf)] /\ u[0] = Emptied(a)
  /\ \A m \in 1..Len(a.buf) : u[m] = applyBufferedTradeLocked(u[m - 1], a.buf[m], sub, min)

LEMMA DrainRuns ==
  ASSUME NEW T \in SUBSET Prints, NEW a \in AggsOf(T), NEW sub, NEW min
  PROVE  \E u : Drains(u, a, sub, min)
<1> DEFINE N == Len(a.buf)
           A == AggsOf(T)
           b == Emptied(a)
           Goes(g) == [k \in 0..N |-> IF k = 0 THEN b
                         ELSE applyBufferedTradeLocked(g[k - 1], a.buf[k], sub, min)]
           u == CHOOSE g : g = Goes(g)
           step == [m \in 1..N |-> [x \in A |-> applyBufferedTradeLocked(x, a.buf[m], sub, min)]]
<1>1. finishBackfill(a, sub, min) = u[N]
  BY Zenon DEF finishBackfill, Emptied
<1>2. N \in Nat /\ \A m \in 1..N : a.buf[m] \in T
  <2>1. a.buf \in Seq(T)
    BY DEF AggsOf
  <2> QED BY <2>1, LenProperties, ElementOfSeq
<1>3. b \in A
  <2>1. <<>> \in Seq(T)
    OBVIOUS
  <2> QED BY <2>1 DEF AggsOf, Emptied
<1> HIDE DEF N, b
<1>4. \A m \in 1..N, x \in A : step[m][x] \in A
  <2>1. \A m \in 1..N, x \in A : applyBufferedTradeLocked(x, a.buf[m], sub, min) \in A
    BY <1>2, DrainType
  <2> HIDE DEF A
  <2> QED BY <2>1
<1>5. PICK f : Runs(f, N, A, b, step)
  <2> HIDE DEF step, A
  <2> QED BY <1>2, <1>3, <1>4, RecursionExists
<1> HIDE DEF A
<1>6. /\ f \in [0..N -> A] /\ f[0] = b
      /\ \A m \in 1..N : f[m] = applyBufferedTradeLocked(f[m - 1], a.buf[m], sub, min)
  <2>1. f \in [0..N -> A] /\ f[0] = b /\ \A m \in 1..N : f[m] = step[m][f[m - 1]]
    <3> HIDE DEF step
    <3> QED BY <1>5 DEF Runs
  <2>2. ASSUME NEW m \in 1..N
        PROVE  f[m] = applyBufferedTradeLocked(f[m - 1], a.buf[m], sub, min)
    <3>1. m - 1 \in 0..N
      BY <1>2
    <3>2. f[m - 1] \in A
      BY <2>1, <3>1
    <3> QED BY <2>1, <3>2
  <2> QED BY <2>1, <2>2
<1>7. f = Goes(f)
  <2>1. \A m \in 0..N : m = 0 \/ m \in 1..N
    BY <1>2
  <2>2. \A m \in 0..N : f[m] = Goes(f)[m]
    BY <1>6, <2>1
  <2> QED BY <1>6, <2>2
<1>8. u = Goes(u)
  <2> HIDE DEF Goes
  <2> QED BY <1>7
<1>9. u[0] = b /\ \A m \in 1..N : u[m] = applyBufferedTradeLocked(u[m - 1], a.buf[m], sub, min)
  <2>1. \A m \in 0..N : u[m] = Goes(u)[m]
    BY <1>8
  <2>2. 0 \in 0..N /\ \A m \in 1..N : m \in 0..N /\ m # 0
    BY <1>2
  <2> HIDE DEF u
  <2> QED BY <2>1, <2>2
<1> HIDE DEF u
<1>10. Drains(u, a, sub, min)
  BY <1>1, <1>9 DEF N, b, Drains
<1> QED BY <1>10

\* The buffered prints are in the order of the reports.
InOrder(buf) == \A j, k \in 1..Len(buf) : j < k => buf[j].n < buf[k].n

LEMMA DrainIs ==
  ASSUME NEW T \in SUBSET Prints, NEW a, Good(a, T), NEW sub \in Nat, NEW min \in Nat,
         InOrder(a.buf), \A k \in 1..Len(a.buf) : Fresh(a, a.buf[k], sub, min)
  PROVE  LET c == finishBackfill(a, sub, min) IN
         /\ Good(c, T) /\ c.length = a.length /\ c.last = a.last
         /\ c.buffering = FALSE /\ c.buf = <<>>
<1> DEFINE N == Len(a.buf)
           b == Emptied(a)
<1>1. a \in AggsOf(T) /\ a.buf \in Seq(T)
  BY DEF Good, AggsOf
<1>0. PICK u : Drains(u, a, sub, min)
  BY <1>1, DrainRuns
<1>2. /\ finishBackfill(a, sub, min) = u[N] /\ u[0] = b
      /\ \A m \in 1..N : u[m] = applyBufferedTradeLocked(u[m - 1], a.buf[m], sub, min)
  BY <1>0 DEF Drains
<1>3. N \in Nat /\ \A m \in 1..N : a.buf[m] \in T
  BY <1>1, LenProperties, ElementOfSeq
<1>4. \A m \in 0..N : m < N => m + 1 \in 0..N /\ m + 1 \in 1..N /\ (m + 1) - 1 = m
  BY <1>3
<1>5. /\ b.length = a.length /\ b.last = a.last /\ b.buffering = FALSE /\ b.buf = <<>>
      /\ b.series = a.series /\ b.given = a.given /\ b.odd = a.odd /\ b \in AggsOf(T)
  <2>1. <<>> \in Seq(T)
    OBVIOUS
  <2> QED BY <2>1, <1>1 DEF AggsOf, Emptied
<1> HIDE DEF b
<1>6. Good(b, T) /\ \A k \in 1..N : Fresh(b, a.buf[k], sub, min)
  <2>1. Good(b, T)
    BY <1>5, SameGood
  <2>2. ASSUME NEW k \in 1..N PROVE Fresh(b, a.buf[k], sub, min)
    <3>1. Fresh(a, a.buf[k], sub, min)
      OBVIOUS
    <3>2. \A n \in Names : Cut(b, n, sub, min) = Cut(a, n, sub, min)
      BY <1>5 DEF Cut
    <3> QED BY <3>1, <3>2, <1>5 DEF Fresh
  <2> QED BY <2>1, <2>2
<1> DEFINE G == {m \in 0..N : /\ Good(u[m], T) /\ SameRest(b, u[m])
                              /\ \A k \in (m + 1)..N : Fresh(u[m], a.buf[k], sub, min)}
<1>7. 0 \in G
  <2>1. \A k \in (0 + 1)..N : k \in 1..N
    BY <1>3
  <2> QED BY <2>1, <1>2, <1>3, <1>6 DEF SameRest
<1>8. ASSUME NEW m \in 0..N, m < N, m \in G PROVE m + 1 \in G
  <2> DEFINE i == a.buf[m + 1]
  <2>1. /\ Good(u[m], T) /\ SameRest(b, u[m]) /\ Fresh(u[m], i, sub, min) /\ i \in T
        /\ u[m + 1] = applyBufferedTradeLocked(u[m], i, sub, min)
    <3>1. m + 1 \in (m + 1)..N
      BY <1>3, <1>8
    <3> QED BY <3>1, <1>2, <1>3, <1>4, <1>8
  <2> HIDE DEF i
  <2>2. Good(u[m + 1], T) /\ Fed(u[m], u[m + 1], {i})
    BY <2>1, DrainStep
  <2>3. SameRest(b, u[m + 1])
    BY <2>1, <2>2 DEF Fed, SameRest
  <2>4. ASSUME NEW k \in ((m + 1) + 1)..N PROVE Fresh(u[m + 1], a.buf[k], sub, min)
    <3>1. k \in (m + 1)..N /\ m + 1 < k /\ k \in 1..N /\ m + 1 \in 1..N
      BY <1>3, <1>8
    <3>2. i.n < a.buf[k].n
      BY <3>1 DEF InOrder, i
    <3>3. Fresh(u[m], a.buf[k], sub, min)
      BY <3>1, <1>8
    <3> QED BY <3>2, <3>3, <2>2, FedFresh
  <2> QED BY <2>2, <2>3, <2>4, <1>4, <1>8
<1>9. \A m \in 0..N : m \in G
  <2> HIDE DEF G
  <2> QED BY <1>3, <1>7, <1>8, Induction
<1>10. Good(u[N], T) /\ SameRest(b, u[N])
  BY <1>3, <1>9
<1> QED BY <1>2, <1>5, <1>10 DEF SameRest
-----------------------------------------------------------------------------
(* rebuildCustomLocked, Load and ReplayTrades. *)

LEMMA PrintsType ==
  ASSUME NEW T, NEW B \in Seq(Candles(T))
  PROVE  PrintsIn(B) \in SUBSET T
<1>1. \A k \in 1..Len(B) : B[k].prints \in SUBSET T
  BY CandleSeq
<1>2. \A i : i \in PrintsIn(B) => \E k \in 1..Len(B) : i \in B[k].prints
  BY InSome
<1> QED BY <1>1, <1>2

\* A series in order rises by the buckets of a multiple of its length.
LEMMA FiledRises ==
  ASSUME NEW T \in SUBSET Prints, NEW B \in Seq(Candles(T)), NEW g, NEW G \in SUBSET T,
         NEW M \in Nat \ {0}, NEW L \in Nat \ {0}, L % M = 0,
         Ascends(B), Filed(B, g, G, M, T)
  PROVE  Rises(B, L) /\ PrintsIn(B) \subseteq G
<1>1. Len(B) \in Nat /\ \A k \in 1..Len(B) : B[k].start \in Nat
  BY CandleSeq
<1>2. /\ \A k \in 1..Len(B) : B[k].prints \subseteq G /\ B[k].close \in B[k].prints
      /\ \A i \in G : \A k \in 1..Len(B) : i \in B[k].prints <=> B[k].start = Bucket(M, i.ts)
  BY DEF Filed
<1>3. ASSUME NEW j \in 1..Len(B), NEW i \in B[j].prints
      PROVE  Bucket(L, i.ts) = Bucket(L, B[j].start)
  <2>1. i \in G /\ i \in Prints
    BY <1>2
  <2>2. B[j].start = Bucket(M, i.ts) /\ i.ts \in Nat
    BY <2>1, <1>2, PrintIs
  <2> DEFINE x == i.ts
  <2> HIDE DEF x
  <2>3. Bucket(L, Bucket(M, x)) = Bucket(L, x)
    BY <2>2, BucketNested DEF x
  <2> QED BY <2>2, <2>3, Zenon DEF x
<1>4. ASSUME NEW j \in 1..Len(B), NEW k \in 1..Len(B), j < k
      PROVE  Bucket(L, B[j].start) <= Bucket(L, B[k].start)
  <2>1. B[j].start <= B[k].start /\ B[j].start \in Nat /\ B[k].start \in Nat
    BY <1>1, <1>4 DEF Ascends
  <2> QED BY <2>1, BucketMonotone
<1>5. Rises(B, L)
  BY <1>2, <1>3, <1>4 DEF Rises
<1>6. PrintsIn(B) \subseteq G
  <2>1. \A i : i \in PrintsIn(B) => \E k \in 1..Len(B) : i \in B[k].prints
    BY InSome
  <2> QED BY <2>1, <1>2
<1> QED BY <1>5, <1>6

\* The custom series is made anew, no other.
Rebuilt(a, b, src) ==
  /\ SameRest(a, b) /\ b.vwap = a.vwap /\ b.twice = a.twice
  /\ \A n \in {"fine", "minute"} :
       /\ b.series[n] = a.series[n] /\ b.given[n] = a.given[n]
       /\ n \in b.odd <=> n \in a.odd
  /\ "custom" \notin b.odd =>
       src \notin a.odd /\ b.given["custom"] \subseteq a.given[src]

LEMMA RebuildIs ==
  ASSUME NEW T \in SUBSET Prints, NEW a \in AggsOf(T), a.length > 0,
         Kept(a, "fine", T), Kept(a, "minute", T)
  PROVE  /\ Good(rebuildCustomLocked(a), T)
         /\ Rebuilt(a, rebuildCustomLocked(a), customSourceTF(a.length))
<1> DEFINE L == a.length
           src == customSourceTF(L)
           M == LenOf(a, src)
           B == SourceBars(a)
           R == resampleTo(B, L)
           cur == Bucket(L, now)
           s == Loaded(R, cur)
           P == PrintsIn(B)
           b == rebuildCustomLocked(a)
           O == IF src \in a.odd THEN a.odd \cup {"custom"} ELSE a.odd \ {"custom"}
<1>1. /\ a.series \in [Names -> SeriesOf(T)] /\ a.given \in [Names -> SUBSET T]
      /\ a.odd \in SUBSET Names /\ L \in Nat \ {0} /\ L \in CustomLens
  <2>1. /\ a.series \in [Names -> SeriesOf(T)] /\ a.given \in [Names -> SUBSET T]
        /\ a.odd \in SUBSET Names /\ a.length \in {0} \cup CustomLens
    BY DEF AggsOf
  <2> QED BY <2>1, LengthsAre
<1>2. /\ src \in {"fine", "minute"} /\ src \in Names /\ src # "custom"
      /\ M \in Nat \ {0} /\ L % M = 0 /\ Kept(a, src, T)
  <2>1. LenOf(a, "fine") = FineLen /\ LenOf(a, "minute") = MinuteLen
        /\ FineLen \in Nat \ {0} /\ MinuteLen \in Nat \ {0}
    BY <1>1, LengthsAre
  <2>2. L % FineLen = 0
    BY <1>1, BarsAssumption
  <2>3. CASE L % MinuteLen = 0
    <3>1. src = "minute"
      BY <2>3 DEF customSourceTF
    <3> HIDE DEF src
    <3> QED BY <3>1, <2>1, <2>3, NamesAre
  <2>4. CASE ~(L % MinuteLen = 0)
    <3>1. src = "fine"
      BY <2>4 DEF customSourceTF
    <3> HIDE DEF src
    <3> QED BY <3>1, <2>1, <2>2, NamesAre
  <2> QED BY <2>3, <2>4
<1>3. B = Bars(a.series[src])
  BY DEF SourceBars
<1>4. b = [a EXCEPT !.series["custom"] = s, !.given["custom"] = P, !.odd = O]
  BY Zenon DEF rebuildCustomLocked, PrintsIn
<1> HIDE DEF src, M, B, L
<1>5. B \in Seq(Candles(T)) /\ R \in Seq(Candles(T)) /\ P \in SUBSET T
  <2>1. a.series[src] \in SeriesOf(T)
    BY <1>1, <1>2
  <2>2. B \in Seq(Candles(T))
    BY <2>1, <1>3, BarsAre
  <2> QED BY <2>2, <1>1, ResampleIs, PrintsType
<1>6. s \in SeriesOf(T) /\ Exact(s)
  <2> HIDE DEF R, cur
  <2> QED BY <1>5, LoadedIs
<1> HIDE DEF P
<1>7. ASSUME src \notin a.odd
      PROVE  Ascends(Bars(s)) /\ Filed(Bars(s), Gone(s), P, L, T) /\ P \subseteq a.given[src]
  <2>1. /\ Ascends(B) /\ Filed(B, Gone(a.series[src]), a.given[src], M, T)
        /\ a.given[src] \in SUBSET T
    BY <1>1, <1>2, <1>3, <1>7 DEF Kept, M
  <2>2. Rises(B, L) /\ P \subseteq a.given[src]
    BY <2>1, <1>1, <1>2, <1>5, FiledRises DEF P
  <2>3. Gathers(R, B, Len(B), L)
    BY <2>2, <1>1, <1>5, ResampleIs
  <2> HIDE DEF R, cur
  <2>4. Complete(R, P, L)
    BY <2>2, <2>3, <1>1, <1>5, GatheredComplete DEF P
  <2>5. Ascends(Bars(s)) /\ Filed(Bars(s), Gone(s), P, L, T)
    BY <2>4, <1>1, <1>5, LoadedFiled
  <2> QED BY <2>2, <2>5
<1> HIDE DEF s, b, R, cur
<1>8. /\ b \in AggsOf(T) /\ SameRest(a, b) /\ b.vwap = a.vwap /\ b.twice = a.twice /\ b.odd = O
      /\ \A n \in Names : /\ b.series[n] = IF n = "custom" THEN s ELSE a.series[n]
                          /\ b.given[n] = IF n = "custom" THEN P ELSE a.given[n]
  <2> DEFINE S == [a.series EXCEPT !["custom"] = s]
             H == [a.given EXCEPT !["custom"] = P]
  <2>1. b = [a EXCEPT !.series = S, !.given = H, !.odd = O]
    BY <1>4
  <2>2. /\ S \in [Names -> SeriesOf(T)] /\ H \in [Names -> SUBSET T]
        /\ \A n \in Names : /\ S[n] = IF n = "custom" THEN s ELSE a.series[n]
                            /\ H[n] = IF n = "custom" THEN P ELSE a.given[n]
    BY <1>1, <1>5, <1>6
  <2>3. O \in SUBSET Names
    BY <1>1, NamesAre
  <2> HIDE DEF S, H, O
  <2>4. /\ b \in AggsOf(T) /\ b.series = S /\ b.given = H /\ b.odd = O
        /\ SameRest(a, b) /\ b.vwap = a.vwap /\ b.twice = a.twice
    BY <2>1, <2>2, <2>3 DEF AggsOf, SameRest
  <2> QED BY <2>2, <2>4
<1>9. \A n \in Names : LenOf(b, n) = LenOf(a, n)
  BY <1>8, NamesAre DEF LenOf, SameRest
<1>10. \A n \in Names : n # "custom" => (n \in b.odd <=> n \in a.odd)
  BY <1>8
<1>11. "custom" \notin b.odd => src \notin a.odd
  BY <1>8
<1>12. ASSUME NEW n \in Names PROVE Kept(b, n, T)
  <2>1. CASE n = "custom"
    <3>1. b.series[n] = s /\ b.given[n] = P /\ LenOf(b, n) = L
      <4>1. LenOf(a, "custom") = L
        BY DEF LenOf, L
      <4> QED BY <2>1, <4>1, <1>8, <1>9
    <3> QED BY <2>1, <3>1, <1>6, <1>7, <1>11 DEF Kept
  <2>2. CASE n # "custom"
    <3>1. b.series[n] = a.series[n] /\ b.given[n] = a.given[n] /\ (n \in b.odd <=> n \in a.odd)
      BY <2>2, <1>8, <1>10
    <3>2. Kept(a, n, T)
      BY <2>2, NamesAre
    <3> QED BY <3>1, <3>2, <1>9 DEF Kept
  <2> QED BY <2>1, <2>2
<1>13. Good(b, T)
  BY <1>8, <1>12 DEF Good
<1>14. Rebuilt(a, b, src)
  <2>1. "custom" \notin b.odd => src \notin a.odd /\ b.given["custom"] \subseteq a.given[src]
    BY <1>7, <1>8, <1>11, NamesAre
  <2> QED BY <2>1, <1>8, <1>10, NamesAre DEF Rebuilt
<1> QED BY <1>13, <1>14 DEF b, src, L

\* A source and the custom series that comes from it were made anew, of the
\* prints P.
Reloaded(a, b, src, P) ==
  /\ SameRest(a, b) /\ b.given[src] \subseteq P
  /\ \A n \in {"fine", "minute"} \ {src} :
       b.given[n] = a.given[n] /\ (n \in b.odd <=> n \in a.odd)
  /\ "custom" \notin b.odd /\ a.length > 0 =>
       IF customSourceTF(a.length) = src
         THEN b.given["custom"] \subseteq P
         ELSE "custom" \notin a.odd /\ b.given["custom"] = a.given["custom"]

Until(P, end) == \A j \in P : j.ts <= end

\* How far the prints loaded up to `end` may reach.
Reach(src, end) == IF src = "minute" THEN LastOf(end) ELSE end

\* The cutoffs after source src was loaded up to `end`.
Cuts(src, end, sub, min, sub2, min2) ==
  /\ sub2 = IF src = "fine" THEN end ELSE sub
  /\ min2 = IF src = "minute" THEN end ELSE min

LEMMA ReloadFresh ==
  ASSUME NEW a, NEW b, NEW src \in {"fine", "minute"}, NEW P, Reloaded(a, b, src, P),
         NEW i, NEW sub, NEW min, Fresh(a, i, sub, min), NEW end, Until(P, Reach(src, end)),
         NEW sub2, NEW min2, Cuts(src, end, sub, min, sub2, min2)
  PROVE  Fresh(b, i, sub2, min2)
<1>1. b.length = a.length
  BY DEF Reloaded, SameRest
<1>2. ASSUME NEW n \in Names \ b.odd, n = "custom" => b.length > 0, NEW j \in b.given[n]
      PROVE  j.n < i.n \/ j.ts <= Cut(b, n, sub2, min2)
  <2>1. CASE n = src
    <3>1. Cut(b, n, sub2, min2) = Reach(src, end)
      BY <2>1 DEF Cut, Reach, Cuts
    <3>2. j \in P
      BY <2>1 DEF Reloaded
    <3> QED BY <3>1, <3>2 DEF Until
  <2>2. CASE n # src /\ n # "custom"
    <3>1. n \in {"fine", "minute"} \ {src} /\ n \in Names
      BY <2>2, NamesAre
    <3>2. n \notin a.odd /\ j \in a.given[n]
      BY <3>1 DEF Reloaded
    <3>3. j.n < i.n \/ j.ts <= Cut(a, n, sub, min)
      BY <2>2, <3>1, <3>2 DEF Fresh
    <3>4. Cut(b, n, sub2, min2) = Cut(a, n, sub, min)
      BY <2>2, <3>1 DEF Cut, Cuts
    <3> QED BY <3>3, <3>4
  <2>3. CASE n = "custom"
    <3>1. a.length > 0 /\ n \notin b.odd
      BY <2>3, <1>1, <1>2
    <3>2. CASE customSourceTF(a.length) = src
      <4>1. j \in P
        BY <2>3, <3>1, <3>2 DEF Reloaded
      <4>2. Cut(b, n, sub2, min2) = Reach(src, end)
        BY <2>3, <3>2, <1>1 DEF Cut, Reach, Cuts
      <4> QED BY <4>1, <4>2 DEF Until
    <3>3. CASE customSourceTF(a.length) # src
      <4>1. n \notin a.odd /\ j \in a.given[n]
        BY <2>3, <3>1, <3>3 DEF Reloaded
      <4>2. j.n < i.n \/ j.ts <= Cut(a, n, sub, min)
        BY <3>1, <4>1 DEF Fresh
      <4>3. customSourceTF(a.length) \in {"fine", "minute"}
        BY DEF customSourceTF
      <4>4. Cut(b, n, sub2, min2) = Cut(a, n, sub, min)
        BY <2>3, <3>3, <4>3, <1>1 DEF Cut, Cuts
      <4> QED BY <4>2, <4>4
    <3> QED BY <3>2, <3>3
  <2> QED BY <2>1, <2>2, <2>3
<1> QED BY <1>2 DEF Fresh

\* A series made anew, the others as they were.
LEMMA ReplaceGood ==
  ASSUME NEW T, NEW a, Good(a, T), NEW b \in AggsOf(T), NEW src \in Names,
         Kept(b, src, T), b.length = a.length,
         \A n \in Names \ {src} : /\ b.series[n] = a.series[n] /\ b.given[n] = a.given[n]
                                  /\ n \in b.odd <=> n \in a.odd
  PROVE  Good(b, T)
<1>1. \A n \in Names : LenOf(b, n) = LenOf(a, n)
  BY NamesAre DEF LenOf
<1>2. ASSUME NEW n \in Names, n # src PROVE Kept(b, n, T)
  <2>1. Kept(a, n, T)
    BY DEF Good
  <2>2. b.series[n] = a.series[n] /\ b.given[n] = a.given[n] /\ (n \in b.odd <=> n \in a.odd)
    BY <1>2
  <2> QED BY <2>1, <2>2, <1>1 DEF Kept
<1> QED BY <1>2 DEF Good

\* If it is a source, the custom series follows.
LEMMA FollowIs ==
  ASSUME NEW T \in SUBSET Prints, NEW a, Good(a, T), NEW src \in {"fine", "minute"},
         NEW c, Good(c, T), SameRest(a, c),
         \A n \in Names \ {src} : /\ c.given[n] = a.given[n]
                                  /\ n \in c.odd <=> n \in a.odd
  PROVE  /\ Good(RebuiltFrom(c, src), T)
         /\ Reloaded(a, RebuiltFrom(c, src), src, c.given[src])
         /\ RebuiltFrom(c, src).vwap = c.vwap /\ RebuiltFrom(c, src).twice = c.twice
         /\ RebuiltFrom(c, src).given[src] = c.given[src]
<1> DEFINE b == RebuiltFrom(c, src)
<1>1. c \in AggsOf(T) /\ Kept(c, "fine", T) /\ Kept(c, "minute", T) /\ c.length = a.length
  BY NamesAre DEF Good, SameRest
<1>2. CASE "custom" \in FedWith(c, src)
  <2>1. c.length > 0 /\ customSourceTF(c.length) = src
    BY <1>2, FedIs
  <2>2. b = rebuildCustomLocked(c)
    BY <1>2 DEF RebuiltFrom
  <2> HIDE DEF b
  <2>3. Good(b, T) /\ Rebuilt(c, b, src)
    BY <2>1, <2>2, <1>1, RebuildIs
  <2>4. \A n \in {"fine", "minute"} : n \in Names
    BY NamesAre
  <2>5. Reloaded(a, b, src, c.given[src])
    BY <2>1, <2>3, <2>4, <1>1 DEF Reloaded, Rebuilt, SameRest
  <2>6. b.vwap = c.vwap /\ b.twice = c.twice /\ b.given[src] = c.given[src]
    BY <2>3 DEF Rebuilt
  <2> QED BY <2>3, <2>5, <2>6 DEF b
<1>3. CASE "custom" \notin FedWith(c, src)
  <2>1. b = c
    BY <1>3 DEF RebuiltFrom
  <2>2. ~(a.length > 0 /\ customSourceTF(a.length) = src)
    BY <1>1, <1>3, FedIs
  <2> HIDE DEF b
  <2>3. Reloaded(a, b, src, c.given[src])
    BY <2>1, <2>2, NamesAre DEF Reloaded
  <2> QED BY <2>1, <2>3 DEF b
<1> QED BY <1>2, <1>3

LEMMA LoadIs ==
  ASSUME NEW T \in SUBSET Prints, NEW a, Good(a, T), NEW h \in Seq(Candles(T)),
         Complete(h, PrintsIn(h), MinuteLen)
  PROVE  /\ Good(Load(a, h), T) /\ Reloaded(a, Load(a, h), "minute", PrintsIn(h))
         /\ Load(a, h).vwap = sessVWAP(h) /\ Load(a, h).twice = {}
         /\ Load(a, h).given["minute"] = PrintsIn(h)
<1> DEFINE s == Loaded(h, Bucket(MinuteLen, now))
           P == PrintsIn(h)
           v == sessVWAP(h)
           c == [a EXCEPT !.series["minute"] = s, !.vwap = v, !.twice = {},
                          !.given["minute"] = P, !.odd = @ \ {"minute"}]
<1>1. Load(a, h) = RebuiltFrom(c, "minute")
  BY DEF Load, PrintsIn
<1>2. /\ a \in AggsOf(T) /\ a.series \in [Names -> SeriesOf(T)]
      /\ a.given \in [Names -> SUBSET T] /\ a.odd \in SUBSET Names
      /\ a.length \in {0} \cup CustomLens
  BY DEF Good, AggsOf
<1>3. MinuteLen \in Nat \ {0} /\ P \in SUBSET T /\ v \in SUBSET T
  BY BarsAssumption, PrintsType, SeedType
<1>4. s \in SeriesOf(T) /\ Exact(s)
  BY LoadedIs
<1>5. Ascends(Bars(s)) /\ Filed(Bars(s), Gone(s), P, MinuteLen, T)
  BY <1>3, LoadedFiled
<1> HIDE DEF s, P, v
<1>6. /\ c \in AggsOf(T) /\ SameRest(a, c) /\ "minute" \notin c.odd
      /\ c.series["minute"] = s /\ c.given["minute"] = P /\ c.vwap = v /\ c.twice = {}
      /\ \A n \in Names \ {"minute"} : /\ c.series[n] = a.series[n] /\ c.given[n] = a.given[n]
                                       /\ n \in c.odd <=> n \in a.odd
  <2> DEFINE S == [a.series EXCEPT !["minute"] = s]
             H == [a.given EXCEPT !["minute"] = P]
             O == a.odd \ {"minute"}
  <2>1. c = [a EXCEPT !.series = S, !.vwap = v, !.twice = {}, !.given = H, !.odd = O]
    OBVIOUS
  <2>2. /\ S \in [Names -> SeriesOf(T)] /\ H \in [Names -> SUBSET T] /\ O \in SUBSET Names
        /\ S["minute"] = s /\ H["minute"] = P
        /\ \A n \in Names \ {"minute"} : S[n] = a.series[n] /\ H[n] = a.given[n]
    BY <1>2, <1>3, <1>4, NamesAre
  <2> HIDE DEF S, H, c
  <2>3. /\ c \in AggsOf(T) /\ c.series = S /\ c.given = H /\ c.odd = O /\ SameRest(a, c)
        /\ c.vwap = v /\ c.twice = {}
    BY <2>1, <2>2, <1>2, <1>3 DEF AggsOf, SameRest
  <2> QED BY <2>2, <2>3
<1> HIDE DEF c
<1>7. Good(c, T)
  <2>1. LenOf(c, "minute") = MinuteLen
    BY NamesAre DEF LenOf
  <2>2. Kept(c, "minute", T)
    BY <2>1, <1>4, <1>5, <1>6 DEF Kept
  <2>3. c.length = a.length
    BY <1>6 DEF SameRest
  <2> QED BY <2>2, <2>3, <1>6, NamesAre, ReplaceGood
<1>8. /\ Good(RebuiltFrom(c, "minute"), T)
      /\ Reloaded(a, RebuiltFrom(c, "minute"), "minute", c.given["minute"])
      /\ RebuiltFrom(c, "minute").vwap = c.vwap
      /\ RebuiltFrom(c, "minute").twice = c.twice
      /\ RebuiltFrom(c, "minute").given["minute"] = c.given["minute"]
  BY <1>6, <1>7, FollowIs
<1> QED BY <1>1, <1>6, <1>8 DEF P, v

LEMMA NewIs ==
  ASSUME NEW T \in SUBSET Prints
  PROVE  /\ NewSeries \in SeriesOf(T) /\ Exact(NewSeries)
         /\ \A L \in Nat : Ascends(Bars(NewSeries))
                           /\ Filed(Bars(NewSeries), Gone(NewSeries), {}, L, T)
<1>1. /\ NewSeries.ring = NewRing /\ NewSeries.forming = NoCandle /\ NewSeries.fed = <<>>
      /\ NewSeries = [ring |-> NewRing, forming |-> NoCandle, fed |-> <<>>]
  BY DEF NewSeries
<1>2. NewRing \in Rings(Entries(T)) /\ NewRing.count = 0
  BY RingAssumption DEF NewRing, Rings, Slots
<1>3. NewSeries \in SeriesOf(T)
  <2>1. <<>> \in Seq(T \cup {NoCandle})
    OBVIOUS
  <2> QED BY <2>1, <1>1, <1>2 DEF SeriesOf
<1>4. Gone(NewSeries) = 0
  <2>1. Len(NewSeries.fed) = 0
    BY <1>1
  <2> QED BY <2>1, <1>1, <1>2 DEF Gone
<1>5. Exact(NewSeries)
  <2>1. \A k \in 1..NewSeries.ring.count : FALSE
    BY <1>1, <1>2
  <2> QED BY <2>1, <1>4 DEF Exact
<1>6. Len(Bars(NewSeries)) = 0
  <2>1. Size(NewSeries) = 0
    BY <1>1, <1>2 DEF Size
  <2> QED BY <2>1, <1>3, BarsAre
<1>7. \A k \in 1..Len(Bars(NewSeries)) : FALSE
  BY <1>6
<1>8. \A L \in Nat : Ascends(Bars(NewSeries))
                     /\ Filed(Bars(NewSeries), Gone(NewSeries), {}, L, T)
  BY <1>7, Zenon DEF Ascends, Filed
<1> QED BY <1>3, <1>5, <1>8

\* The fine series starts over.
Started(a) == [a EXCEPT !.series["fine"] = NewSeries, !.given["fine"] = {},
                        !.odd = @ \ {"fine"}]

LEMMA StartedIs ==
  ASSUME NEW T \in SUBSET Prints, NEW a \in AggsOf(T)
  PROVE  LET c == Started(a) IN
         /\ c \in AggsOf(T) /\ SameRest(a, c) /\ Kept(c, "fine", T)
         /\ c.given["fine"] = {} /\ c.vwap = a.vwap /\ c.twice = a.twice
         /\ \A n \in Names \ {"fine"} : /\ c.series[n] = a.series[n] /\ c.given[n] = a.given[n]
                                        /\ n \in c.odd <=> n \in a.odd
<1> DEFINE c == Started(a)
           S == [a.series EXCEPT !["fine"] = NewSeries]
           H == [a.given EXCEPT !["fine"] = {}]
           O == a.odd \ {"fine"}
<1>1. /\ a.series \in [Names -> SeriesOf(T)] /\ a.given \in [Names -> SUBSET T]
      /\ a.odd \in SUBSET Names
  BY DEF AggsOf
<1>2. NewSeries \in SeriesOf(T)
  BY NewIs
<1>3. c = [a EXCEPT !.series = S, !.given = H, !.odd = O]
  BY DEF Started
<1>4. /\ S \in [Names -> SeriesOf(T)] /\ H \in [Names -> SUBSET T] /\ O \in SUBSET Names
      /\ S["fine"] = NewSeries /\ H["fine"] = {} /\ "fine" \notin O
      /\ \A n \in Names \ {"fine"} : /\ S[n] = a.series[n] /\ H[n] = a.given[n]
                                     /\ n \in O <=> n \in a.odd
  BY <1>1, <1>2, NamesAre
<1> HIDE DEF S, H, O, c
<1>5. /\ c \in AggsOf(T) /\ c.series = S /\ c.given = H /\ c.odd = O /\ SameRest(a, c)
      /\ c.vwap = a.vwap /\ c.twice = a.twice
  BY <1>3, <1>4 DEF AggsOf, SameRest
<1>6. Kept(c, "fine", T)
  <2>1. LenOf(c, "fine") \in Nat
    <3>1. c.length \in {0} \cup CustomLens
      BY <1>5 DEF AggsOf
    <3> QED BY <3>1, LengthsAre
  <2> QED BY <2>1, <1>4, <1>5, NewIs DEF Kept
<1> QED BY <1>4, <1>5, <1>6 DEF c

LEMMA ReplayRuns ==
  ASSUME NEW T \in SUBSET Prints, NEW a \in AggsOf(T), NEW t \in Seq(T)
  PROVE  \E u : /\ ReplayTrades(a, t) = RebuiltFrom(u[Len(t)], "fine")
                /\ u[0] = Started(a)
                /\ \A m \in 1..Len(t) : u[m] = Aggregate(u[m - 1], {"fine"}, t[m])
<1> DEFINE N == Len(t)
           A == AggsOf(T)
           b == Started(a)
           Goes(g) == [k \in 0..N |-> IF k = 0 THEN b
                                      ELSE Aggregate(g[k - 1], {"fine"}, t[k])]
           u == CHOOSE g : g = Goes(g)
           step == [m \in 1..N |-> [x \in A |-> Aggregate(x, {"fine"}, t[m])]]
<1>1. ReplayTrades(a, t) = RebuiltFrom(u[N], "fine")
  BY Zenon DEF ReplayTrades, Started
<1>2. N \in Nat /\ \A m \in 1..N : t[m] \in T
  BY LenProperties, ElementOfSeq
<1>3. b \in A
  BY StartedIs
<1> HIDE DEF N, b
<1>4. \A m \in 1..N, x \in A : step[m][x] \in A
  <2>1. {"fine"} \in SUBSET Names /\ "custom" \notin {"fine"}
    BY NamesAre
  <2>2. \A m \in 1..N, x \in A : Aggregate(x, {"fine"}, t[m]) \in A
    BY <1>2, <2>1, AggregateType
  <2> HIDE DEF A
  <2> QED BY <2>2
<1>5. PICK f : Runs(f, N, A, b, step)
  <2> HIDE DEF step, A
  <2> QED BY <1>2, <1>3, <1>4, RecursionExists
<1> HIDE DEF A
<1>6. /\ f \in [0..N -> A] /\ f[0] = b
      /\ \A m \in 1..N : f[m] = Aggregate(f[m - 1], {"fine"}, t[m])
  <2>1. f \in [0..N -> A] /\ f[0] = b /\ \A m \in 1..N : f[m] = step[m][f[m - 1]]
    <3> HIDE DEF step
    <3> QED BY <1>5 DEF Runs
  <2>2. ASSUME NEW m \in 1..N PROVE f[m] = Aggregate(f[m - 1], {"fine"}, t[m])
    <3>1. m - 1 \in 0..N
      BY <1>2
    <3>2. f[m - 1] \in A
      BY <2>1, <3>1
    <3> QED BY <2>1, <3>2
  <2> QED BY <2>1, <2>2
<1>7. f = Goes(f)
  <2>1. \A m \in 0..N : m = 0 \/ m \in 1..N
    BY <1>2
  <2>2. \A m \in 0..N : f[m] = Goes(f)[m]
    BY <1>6, <2>1
  <2> QED BY <1>6, <2>2
<1>8. u = Goes(u)
  <2> HIDE DEF Goes
  <2> QED BY <1>7
<1>9. u[0] = b /\ \A m \in 1..N : u[m] = Aggregate(u[m - 1], {"fine"}, t[m])
  <2>1. \A m \in 0..N : u[m] = Goes(u)[m]
    BY <1>8
  <2>2. 0 \in 0..N /\ \A m \in 1..N : m \in 0..N /\ m # 0
    BY <1>2
  <2> HIDE DEF u
  <2> QED BY <2>1, <2>2
<1> HIDE DEF u
<1> QED BY <1>1, <1>9 DEF N, b

LEMMA ReloadedMore ==
  ASSUME NEW a, NEW b, NEW src \in {"fine", "minute"}, NEW P, Reloaded(a, b, src, P),
         NEW Q, P \subseteq Q
  PROVE  Reloaded(a, b, src, Q)
  BY DEF Reloaded

LEMMA ReplayIs ==
  ASSUME NEW T \in SUBSET Prints, NEW a, Good(a, T), NEW t \in Seq(T),
         \A j, k \in 1..Len(t) : j < k => Before(t[j], t[k])
  PROVE  /\ Good(ReplayTrades(a, t), T)
         /\ Reloaded(a, ReplayTrades(a, t), "fine", {t[k] : k \in 1..Len(t)})
         /\ ReplayTrades(a, t).vwap = a.vwap /\ ReplayTrades(a, t).twice = a.twice
<1> DEFINE N == Len(t)
<1>1. a \in AggsOf(T)
  BY DEF Good
<1>2. PICK u : /\ ReplayTrades(a, t) = RebuiltFrom(u[N], "fine") /\ u[0] = Started(a)
               /\ \A m \in 1..N : u[m] = Aggregate(u[m - 1], {"fine"}, t[m])
  BY <1>1, ReplayRuns
<1>3. N \in Nat /\ \A m \in 1..N : t[m] \in T
  BY LenProperties, ElementOfSeq
<1>4. \A m \in 0..N : m < N => m + 1 \in 0..N /\ m + 1 \in 1..N /\ (m + 1) - 1 = m
  BY <1>3
<1> DEFINE Passed(x, m) ==
             /\ Good(x, T) /\ SameRest(a, x) /\ x.vwap = a.vwap /\ x.twice = a.twice
             /\ \A j \in x.given["fine"] : \E k \in 1..m : j = t[k]
             /\ \A n \in Names \ {"fine"} : /\ x.given[n] = a.given[n]
                                            /\ n \in x.odd <=> n \in a.odd
           G == {m \in 0..N : Passed(u[m], m)}
<1>5. 0 \in G
  <2>1. Good(Started(a), T)
    <3>1. /\ Started(a) \in AggsOf(T) /\ Kept(Started(a), "fine", T)
          /\ Started(a).length = a.length
          /\ \A n \in Names \ {"fine"} :
               /\ Started(a).series[n] = a.series[n] /\ Started(a).given[n] = a.given[n]
               /\ n \in Started(a).odd <=> n \in a.odd
      BY <1>1, StartedIs DEF SameRest
    <3> QED BY <3>1, NamesAre, ReplaceGood
  <2>2. Passed(Started(a), 0)
    BY <2>1, <1>1, StartedIs
  <2> QED BY <2>2, <1>2, <1>3
<1>6. ASSUME NEW m \in 0..N, m < N, m \in G PROVE m + 1 \in G
  <2> DEFINE x == u[m]
             y == u[m + 1]
             i == t[m + 1]
  <2>1. Passed(x, m) /\ y = Aggregate(x, {"fine"}, i) /\ i \in T
    BY <1>2, <1>3, <1>4, <1>6
  <2> HIDE DEF x, y
  <2>2. ASSUME NEW j \in x.given["fine"], j.ts > i.ts PROVE FALSE
    <3>1. PICK k \in 1..m : j = t[k]
      BY <2>1
    <3>2. k < m + 1 /\ k \in 1..N /\ m + 1 \in 1..N
      BY <1>3, <1>6
    <3>3. Before(j, i)
      BY <3>1, <3>2
    <3>4. j \in Prints /\ i \in Prints
      BY <3>1, <3>2, <1>3
    <3>5. j.ts \in Nat /\ i.ts \in Nat
      BY <3>4, PrintIs
    <3> QED BY <3>3, <3>5, <2>2 DEF Before
  <2>3. InTurn(x, {"fine"}, i)
    <3>1. Elder(x, {"fine"}, i)
      BY <2>2 DEF Elder
    <3>2. x \in AggsOf(T) /\ {"fine"} \in SUBSET Names /\ "custom" \notin {"fine"} /\ i \in T
      BY <2>1, NamesAre DEF Good
    <3> QED BY <3>1, <3>2, ElderInTurn
  <2> HIDE DEF i
  <2>4. Good(y, T) /\ Handed(x, y, {"fine"}, i)
    <3>1. {"fine"} \in SUBSET Names /\ "custom" \notin {"fine"}
      BY NamesAre
    <3> QED BY <3>1, <2>1, <2>3, AggregateIs
  <2>5. /\ y.given["fine"] = x.given["fine"] \cup {i}
        /\ \A n \in Names \ {"fine"} : y.given[n] = x.given[n]
    BY <2>4, NamesAre DEF Handed
  <2>6. ASSUME NEW n \in Names \ {"fine"} PROVE n \in y.odd <=> n \in a.odd
    BY <2>1, <2>4 DEF Handed
  <2>7. ASSUME NEW j \in y.given["fine"] PROVE \E k \in 1..(m + 1) : j = t[k]
    <3>1. CASE j = i
      <4>1. m + 1 \in 1..(m + 1)
        BY <1>3
      <4> QED BY <3>1, <4>1 DEF i
    <3>2. CASE j \in x.given["fine"]
      <4>1. PICK k \in 1..m : j = t[k]
        BY <3>2, <2>1
      <4>2. k \in 1..(m + 1)
        BY <1>3
      <4> QED BY <4>1, <4>2
    <3> QED BY <3>1, <3>2, <2>5
  <2>8. SameRest(a, y) /\ y.vwap = a.vwap /\ y.twice = a.twice
    BY <2>1, <2>4 DEF Handed, SameRest
  <2>9. Passed(y, m + 1)
    BY <2>1, <2>4, <2>5, <2>6, <2>7, <2>8
  <2> QED BY <2>9, <1>4, <1>6 DEF y
<1>7. \A m \in 0..N : m \in G
  <2> HIDE DEF G
  <2> QED BY <1>3, <1>5, <1>6, Induction
<1> DEFINE c == u[N]
<1>8. Passed(c, N)
  <2>1. N \in 0..N
    BY <1>3
  <2> QED BY <2>1, <1>7
<1> DEFINE b == ReplayTrades(a, t)
           Q == {t[k] : k \in 1..N}
<1>9. b = RebuiltFrom(c, "fine")
  BY <1>2
<1> HIDE DEF b, c
<1>10. Good(b, T) /\ Reloaded(a, b, "fine", c.given["fine"]) /\ b.vwap = c.vwap /\ b.twice = c.twice
  BY <1>8, <1>9, FollowIs
<1>11. c.given["fine"] \subseteq Q
  BY <1>8
<1> HIDE DEF Q
<1>12. Reloaded(a, b, "fine", Q)
  BY <1>10, <1>11, ReloadedMore
<1> QED BY <1>8, <1>10, <1>12 DEF b, Q
-----------------------------------------------------------------------------
(* The aggregator's operations. *)

\* What the aggregator keeps between two steps: no print waits in the buffer
\* but while it is filled, and what waits there is in the order of the reports
\* and not yet in a series, beyond the cutoffs a backfill has set.
Sound(a, T, sub, min) ==
  /\ Good(a, T)
  /\ InOrder(a.buf)
  /\ \A k \in 1..Len(a.buf) : Fresh(a, a.buf[k], sub, min)
  /\ a.buffering \/ a.buf = <<>>

LEMMA FiledWider ==
  ASSUME NEW U, NEW T \in SUBSET U, NEW B, NEW g, NEW G, NEW L, Filed(B, g, G, L, T)
  PROVE  Filed(B, g, G, L, U)
<1>1. \A b, i : Missing(B, g, b, T, i) => Missing(B, g, b, U, i)
  BY DEF Missing, LateIn
<1> QED BY <1>1 DEF Filed

LEMMA GoodWider ==
  ASSUME NEW U, NEW T \in SUBSET U, NEW a, Good(a, T)
  PROVE  Good(a, U)
<1>1. a \in AggsOf(U)
  <2>1. SeriesOf(T) \subseteq SeriesOf(U)
    BY Wider
  <2>2. a \in AggsOf(T)
    BY DEF Good
  <2>3. Seq(T) \subseteq Seq(U)
    OBVIOUS
  <2> QED BY <2>1, <2>2, <2>3 DEF AggsOf
<1>2. ASSUME NEW n \in Names PROVE Kept(a, n, U)
  <2>1. Kept(a, n, T)
    BY DEF Good
  <2> QED BY <2>1, FiledWider DEF Kept
<1> QED BY <1>1, <1>2 DEF Good

LEMMA GivenAre ==
  ASSUME NEW T \in SUBSET Prints, NEW a \in AggsOf(T)
  PROVE  /\ \A n \in Names : a.given[n] \in SUBSET T
         /\ a.buf \in Seq(T) /\ Len(a.buf) \in Nat
         /\ \A k \in 1..Len(a.buf) : a.buf[k] \in T
<1>1. a.given \in [Names -> SUBSET T] /\ a.buf \in Seq(T)
  BY DEF AggsOf
<1> QED BY <1>1, LenProperties, ElementOfSeq

LEMMA FreshNew ==
  ASSUME NEW T \in SUBSET Prints, NEW a \in AggsOf(T), NEW i, \A j \in T : j.n < i.n,
         NEW sub, NEW min
  PROVE  Fresh(a, i, sub, min)
  BY GivenAre DEF Fresh

LEMMA FreshWider ==
  ASSUME NEW T \in SUBSET Prints, NEW a \in AggsOf(T), NEW i,
         NEW sub \in Nat, NEW min \in Nat, Fresh(a, i, sub, min),
         NEW after \in Nat, NEW end \in Nat, sub <= after, min <= end
  PROVE  Fresh(a, i, after, end)
<1>1. SUFFICES ASSUME NEW n \in Names \ a.odd, n = "custom" => a.length > 0,
                      NEW j \in a.given[n]
               PROVE  j.n < i.n \/ j.ts <= Cut(a, n, after, end)
  BY DEF Fresh
<1>2. j \in Prints
  BY GivenAre
<1>3. j.ts \in Nat
  BY <1>2, PrintIs
<1> DEFINE t == j.ts
<1>4. j.n < i.n \/ t <= Cut(a, n, sub, min)
  BY <1>1 DEF Fresh
<1>5. t \in Nat
  BY <1>3
<1> HIDE DEF t
<1>7. LastOf(min) \in Nat /\ LastOf(end) \in Nat /\ LastOf(min) <= LastOf(end)
  BY LastOfIs
<1>6. t <= Cut(a, n, sub, min) => t <= Cut(a, n, after, end)
  BY <1>5, <1>7 DEF Cut
<1> QED BY <1>4, <1>6 DEF t

\* The series alone decide what is fresh.
LEMMA FreshSame ==
  ASSUME NEW a, NEW b, b.given = a.given, b.odd = a.odd, b.length = a.length,
         NEW i, NEW sub, NEW min, Fresh(a, i, sub, min)
  PROVE  Fresh(b, i, sub, min)
  BY DEF Fresh, Cut

LEMMA WiderSound ==
  ASSUME NEW T \in SUBSET Prints, NEW a, NEW sub \in Nat, NEW min \in Nat,
         Sound(a, T, sub, min), NEW after \in Nat, NEW end \in Nat,
         sub <= after, min <= end
  PROVE  Sound(a, T, after, end)
<1>1. a \in AggsOf(T)
  BY DEF Sound, Good
<1>2. ASSUME NEW k \in 1..Len(a.buf) PROVE Fresh(a, a.buf[k], after, end)
  <2>1. Fresh(a, a.buf[k], sub, min)
    BY DEF Sound
  <2> QED BY <1>1, <2>1, FreshWider
<1> QED BY <1>2 DEF Sound

\* A new series of an aggregator that holds nothing.
LEMMA ResetSound ==
  ASSUME NEW T \in SUBSET Prints, NEW a \in AggsOf(T), NEW U \in SUBSET Prints
  PROVE  LET b == ResetVWAP(ResetMarket(a)) IN
         /\ \A sub, min : Sound(b, U, sub, min)
         /\ b.last = NoPrice /\ b.length = a.length
         /\ b.buffering = FALSE /\ b.buf = <<>>
<1> DEFINE b == ResetVWAP(ResetMarket(a))
<1>1. /\ b.series = [n \in Names |-> NewSeries] /\ b.given = [n \in Names |-> {}]
      /\ b.odd = {} /\ b.last = NoPrice /\ b.buffering = FALSE /\ b.buf = <<>>
      /\ b.vwap = {} /\ b.twice = {} /\ b.length = a.length
  BY DEF ResetVWAP, ResetMarket, AggsOf
<1>2. b \in AggsOf(U)
  <2>1. /\ a.length \in {0} \cup CustomLens /\ <<>> \in Seq(U)
        /\ NewSeries \in SeriesOf(U)
    BY NewIs DEF AggsOf
  <2> DEFINE V == T \cup U
             new == [n \in Names |-> NewSeries]
             none == [n \in Names |-> {}]
             c == ResetMarket(a)
  <2>2. new \in [Names -> SeriesOf(U)] /\ none \in [Names -> SUBSET U]
    BY <2>1
  <2>3. c = [a EXCEPT !.series = new, !.given = none, !.odd = {}, !.last = NoPrice,
                      !.buffering = FALSE, !.buf = <<>>]
    BY Zenon DEF ResetMarket
  <2>4. b = [c EXCEPT !.vwap = {}, !.twice = {}]
    BY Zenon DEF ResetVWAP
  <2> HIDE DEF b, c
  <2>5. a \in AggsOf(V) /\ SeriesOf(U) \subseteq SeriesOf(V)
    <3>1. SeriesOf(U) \subseteq SeriesOf(V) /\ SeriesOf(T) \subseteq SeriesOf(V)
      BY Wider
    <3>2. Seq(T) \subseteq Seq(V)
      OBVIOUS
    <3> QED BY <3>1, <3>2 DEF AggsOf
  <2>6. new \in [Names -> SeriesOf(V)] /\ none \in [Names -> SUBSET V]
    BY <2>2, <2>5
  <2> HIDE DEF new, none
  <2>7. c \in AggsOf(V)
    <3>1. <<>> \in Seq(V)
      OBVIOUS
    <3> HIDE DEF V
    <3> QED BY <2>3, <2>5, <2>6, <3>1 DEF AggsOf
  <2>8. b = [series |-> b.series, length |-> b.length, vwap |-> b.vwap,
             twice |-> b.twice, last |-> b.last, buffering |-> b.buffering, buf |-> b.buf, given |-> b.given, odd |-> b.odd]
    BY <2>4, <2>7 DEF AggsOf
  <2> QED BY <1>1, <2>1, <2>2, <2>8 DEF AggsOf, new, none
<1> HIDE DEF b
<1>3. ASSUME NEW n \in Names PROVE Kept(b, n, U)
  <2>1. b.length \in {0} \cup CustomLens
    BY <1>2 DEF AggsOf
  <2>2. LenOf(b, n) \in Nat
    BY <2>1, BarsAssumption DEF LenOf
  <2>3. b.series[n] = NewSeries /\ b.given[n] = {}
    BY <1>1
  <2> QED BY <2>2, <2>3, NewIs DEF Kept
<1>4. Good(b, U)
  BY <1>2, <1>3 DEF Good
<1>5. \A k : k \notin 1..Len(b.buf)
  BY <1>1
<1>6. \A sub, min : Sound(b, U, sub, min)
  BY <1>1, <1>4, <1>5 DEF Sound, InOrder
<1> QED BY <1>1, <1>6 DEF b

LEMMA BeginSound ==
  ASSUME NEW T \in SUBSET Prints, NEW a, NEW sub, NEW min, Sound(a, T, sub, min)
  PROVE  LET b == BeginBackfill(a) IN
         /\ Sound(b, T, sub, min) /\ b.last = a.last
<1>1. CASE a.buffering
  BY <1>1 DEF BeginBackfill
<1>2. CASE ~a.buffering
  <2> DEFINE b == BeginBackfill(a)
  <2>1. a \in AggsOf(T) /\ Good(a, T)
    BY DEF Sound, Good
  <2>2. /\ b.series = a.series /\ b.given = a.given /\ b.odd = a.odd
        /\ b.length = a.length /\ b.last = a.last /\ b.vwap = a.vwap /\ b.twice = a.twice
        /\ b.buffering = TRUE /\ b.buf = <<>>
        /\ b = [series |-> b.series, length |-> b.length, vwap |-> b.vwap,
                twice |-> b.twice, last |-> b.last, buffering |-> b.buffering, buf |-> b.buf, given |-> b.given, odd |-> b.odd]
    BY <1>2, <2>1 DEF BeginBackfill, AggsOf
  <2> HIDE DEF b
  <2>3. b \in AggsOf(T)
    <3>1. <<>> \in Seq(T)
      OBVIOUS
    <3> QED BY <2>1, <2>2, <3>1 DEF AggsOf
  <2>4. Good(b, T)
    BY <2>1, <2>2, <2>3, SameGood
  <2>5. \A k : k \notin 1..Len(b.buf)
    BY <2>2
  <2>6. Sound(b, T, sub, min)
    BY <2>2, <2>4, <2>5 DEF Sound, InOrder
  <2> QED BY <2>2, <2>6 DEF b
<1> QED BY <1>1, <1>2

LEMMA VwapSound ==
  ASSUME NEW T \in SUBSET Prints, NEW a, NEW sub, NEW min, Sound(a, T, sub, min)
  PROVE  LET b == ResetVWAP(a) IN
         /\ Sound(b, T, sub, min) /\ b.last = a.last
<1> DEFINE b == ResetVWAP(a)
<1>1. a \in AggsOf(T) /\ Good(a, T)
  BY DEF Sound, Good
<1>2. /\ b.series = a.series /\ b.given = a.given /\ b.odd = a.odd
      /\ b.length = a.length /\ b.last = a.last /\ b.buf = a.buf
      /\ b.buffering \/ b.buf = <<>>
  <2>1. /\ b.series = a.series /\ b.given = a.given /\ b.odd = a.odd
        /\ b.length = a.length /\ b.last = a.last /\ b.buf = a.buf
    BY <1>1 DEF ResetVWAP, AggsOf
  <2>2. b.buffering = a.buffering
    BY <1>1, Zenon DEF ResetVWAP, AggsOf
  <2>3. a.buffering \/ a.buf = <<>>
    BY DEF Sound
  <2> QED BY <2>1, <2>2, <2>3
<1>3. b \in AggsOf(T)
  <2>1. {} \in SUBSET T
    OBVIOUS
  <2> QED BY <1>1, <2>1 DEF ResetVWAP, AggsOf
<1> HIDE DEF b
<1>4. Good(b, T)
  BY <1>1, <1>2, <1>3, SameGood
<1>5. ASSUME NEW k \in 1..Len(b.buf) PROVE Fresh(b, b.buf[k], sub, min)
  <2>1. Fresh(a, a.buf[k], sub, min)
    BY <1>2 DEF Sound
  <2> QED BY <1>2, <2>1, FreshSame
<1>6. Sound(b, T, sub, min)
  BY <1>2, <1>4, <1>5 DEF Sound
<1> QED BY <1>2, <1>6 DEF b

LEMMA SoundWider ==
  ASSUME NEW U \in SUBSET Prints, NEW T \in SUBSET U, NEW a, NEW sub, NEW min,
         Sound(a, T, sub, min)
  PROVE  Sound(a, U, sub, min)
  BY GoodWider DEF Sound

Buffered(a, i, px) == [a EXCEPT !.last = px, !.buf = Append(@, i)]

LEMMA SoundBuffered ==
  ASSUME NEW T \in SUBSET Prints, NEW a, NEW sub, NEW min, Sound(a, T, sub, min),
         NEW i \in Prints, \A j \in T : j.n < i.n, a.buffering, NEW px \in Prices
  PROVE  Sound(Buffered(a, i, px), T \cup {i}, sub, min)
<1> DEFINE U == T \cup {i}
           b == Buffered(a, i, px)
           N == Len(a.buf)
<1>1. Good(a, T) /\ a \in AggsOf(T) /\ a \in AggsOf(U) /\ Good(a, U)
  BY GoodWider DEF Sound, Good
<1>2. a.buf \in Seq(T) /\ N \in Nat /\ \A k \in 1..N : a.buf[k] \in T
  BY <1>1, GivenAre
<1>3. /\ b.series = a.series /\ b.given = a.given /\ b.odd = a.odd
      /\ b.length = a.length /\ b.buf = Append(a.buf, i)
  BY <1>1 DEF AggsOf, Buffered
<1>4. b.buffering
  BY <1>1, Zenon DEF AggsOf, Buffered
<1>5. Append(a.buf, i) \in Seq(U)
  <2>1. a.buf \in Seq(U)
    BY <1>2
  <2> QED BY <2>1
<1>6. b \in AggsOf(U)
  BY <1>1, <1>5 DEF AggsOf, Buffered
<1> HIDE DEF b
<1>7. Good(b, U)
  BY <1>1, <1>3, <1>6, SameGood
<1>8. /\ Len(b.buf) = N + 1 /\ b.buf[N + 1] = i
      /\ \A k \in 1..N : b.buf[k] = a.buf[k]
  BY <1>2, <1>3, AppendProperties
<1>9. ASSUME NEW k \in 1..Len(b.buf) PROVE Fresh(b, b.buf[k], sub, min)
  <2>1. CASE k \in 1..N
    <3>1. Fresh(a, a.buf[k], sub, min)
      BY <2>1 DEF Sound
    <3> QED BY <3>1, <2>1, <1>3, <1>8, FreshSame
  <2>2. CASE k = N + 1
    <3>1. Fresh(a, i, sub, min)
      BY <1>1, FreshNew
    <3> QED BY <3>1, <2>2, <1>3, <1>8, FreshSame
  <2> QED BY <2>1, <2>2, <1>2, <1>8
<1>10. InOrder(b.buf)
  <2>1. SUFFICES ASSUME NEW j \in 1..(N + 1), NEW k \in 1..(N + 1), j < k
                 PROVE  b.buf[j].n < b.buf[k].n
    BY <1>8 DEF InOrder
  <2>2. j \in 1..N /\ (k \in 1..N \/ k = N + 1)
    BY <1>2, <2>1
  <2>3. CASE k \in 1..N
    <3>1. a.buf[j].n < a.buf[k].n
      BY <2>1, <2>2, <2>3 DEF Sound, InOrder
    <3> QED BY <3>1, <2>2, <2>3, <1>8
  <2>4. CASE k = N + 1
    BY <2>2, <2>4, <1>2, <1>8
  <2> QED BY <2>2, <2>3, <2>4
<1> QED BY <1>4, <1>7, <1>9, <1>10 DEF Sound, b

LEMMA ReportSound ==
  ASSUME NEW T \in SUBSET Prints, NEW a, NEW sub, NEW min, Sound(a, T, sub, min),
         NEW i \in Prints, \A j \in T : j.n < i.n, NEW px \in Prices
  PROVE  LET b == OnTrade(a, i, px) IN
         /\ Sound(b, T \cup {i}, sub, min)
         /\ b.last = IF liveTradePlausibleLocked(a, px) THEN px ELSE a.last
<1> DEFINE U == T \cup {i}
           b == OnTrade(a, i, px)
           p == liveTradePlausibleLocked(a, px)
<1>1. Sound(a, U, sub, min) /\ a \in AggsOf(T) /\ a \in AggsOf(U) /\ Good(a, U)
  BY SoundWider DEF Sound, Good
<1>2. p \in BOOLEAN
  BY DEF liveTradePlausibleLocked
<1>3. CASE ~p
  <2>1. b = a
    BY <1>3 DEF OnTrade, Refused
  <2> QED BY <2>1, <1>1, <1>3
<1>4. CASE p /\ a.buffering
  <2>1. b = Buffered(a, i, px)
    BY <1>4 DEF OnTrade, Buffered
  <2>2. b.last = px
    BY <2>1, <1>1 DEF AggsOf, Buffered
  <2>3. Sound(b, U, sub, min)
    BY <2>1, <1>4, SoundBuffered
  <2> QED BY <2>2, <2>3, <1>4
<1>5. CASE p /\ ~a.buffering
  <2> DEFINE c == [a EXCEPT !.last = px]
  <2>1. b = applyTradeLocked(c, i)
    BY <1>5 DEF OnTrade
  <2>2. /\ c.series = a.series /\ c.given = a.given /\ c.odd = a.odd
        /\ c.length = a.length /\ c.buf = a.buf /\ c.last = px
    BY <1>1 DEF AggsOf
  <2>3. ~c.buffering
    BY <1>1, <1>5, Zenon DEF AggsOf
  <2>4. c \in AggsOf(U)
    BY <1>1 DEF AggsOf
  <2> HIDE DEF c
  <2>5. Good(c, U)
    BY <1>1, <2>2, <2>4, SameGood
  <2>6. b = applyBufferedTradeLocked(c, i, 0, 0)
    <3>1. i.ts > 0
      BY PrintIs
    <3> QED BY <2>1, <3>1 DEF applyTradeLocked, applyBufferedTradeLocked
  <2>7. Fresh(c, i, 0, 0)
    <3>1. Fresh(a, i, 0, 0)
      BY <1>1, FreshNew
    <3> QED BY <3>1, <2>2, FreshSame
  <2> HIDE DEF b
  <2>8. Good(b, U) /\ Fed(c, b, {i})
    BY <2>5, <2>6, <2>7, DrainStep
  <2>9. b.buf = <<>> /\ b.last = px /\ b.buffering = c.buffering
    BY <2>2, <2>8, <1>5 DEF Sound, Fed, SameRest
  <2>10. \A k : k \notin 1..Len(b.buf)
    BY <2>9
  <2>11. Sound(b, U, sub, min)
    <3>1. InOrder(b.buf)
      BY <2>10 DEF InOrder
    <3>2. \A k \in 1..Len(b.buf) : Fresh(b, b.buf[k], sub, min)
      BY <2>10
    <3> QED BY <2>8, <2>9, <3>1, <3>2 DEF Sound
  <2> QED BY <2>9, <2>11, <1>5 DEF b
<1> QED BY <1>2, <1>3, <1>4, <1>5

LEMMA FinishSound ==
  ASSUME NEW T \in SUBSET Prints, NEW a, NEW sub \in Nat, NEW min \in Nat,
         Sound(a, T, sub, min)
  PROVE  LET b == finishBackfill(a, sub, min) IN
         /\ \A after, end : Sound(b, T, after, end)
         /\ b.last = a.last
<1> DEFINE b == finishBackfill(a, sub, min)
<1>1. Good(b, T) /\ b.last = a.last /\ b.buf = <<>>
  BY DrainIs DEF Sound
<1> HIDE DEF b
<1>2. \A k : k \notin 1..Len(b.buf)
  BY <1>1
<1>3. \A after, end : Sound(b, T, after, end)
  BY <1>1, <1>2 DEF Sound, InOrder
<1> QED BY <1>1, <1>3 DEF b

LEMMA FinishSame ==
  ASSUME NEW T \in SUBSET Prints, NEW a, NEW sub \in Nat, NEW min \in Nat,
         Sound(a, T, sub, min)
  PROVE  finishBackfill(a, sub, min).last = a.last
BY FinishSound

LEMMA ReloadSound ==
  ASSUME NEW T \in SUBSET Prints, NEW a, NEW sub, NEW min, Sound(a, T, sub, min),
         NEW src \in {"fine", "minute"}, NEW P, NEW b, Good(b, T), Reloaded(a, b, src, P),
         NEW end, Until(P, Reach(src, end)),
         NEW sub2, NEW min2, Cuts(src, end, sub, min, sub2, min2)
  PROVE  Sound(b, T, sub2, min2) /\ b.last = a.last
<1>1. b.buf = a.buf /\ b.buffering = a.buffering /\ b.last = a.last
  BY DEF Reloaded, SameRest
<1>2. ASSUME NEW k \in 1..Len(b.buf)
      PROVE  Fresh(b, b.buf[k], sub2, min2)
  <2>1. Fresh(a, a.buf[k], sub, min)
    BY <1>1 DEF Sound
  <2> DEFINE i == a.buf[k]
  <2>2. Fresh(a, i, sub, min)
    BY <2>1
  <2> HIDE DEF i
  <2>3. Fresh(b, i, sub2, min2)
    BY <2>2, ReloadFresh
  <2> QED BY <2>3, <1>1 DEF i
<1> QED BY <1>1, <1>2 DEF Sound

LEMMA ClearSound ==
  ASSUME NEW T \in SUBSET Prints, NEW a, NEW sub, NEW min, Sound(a, T, sub, min)
  PROVE  LET b == ClearCustom(a) IN
         Sound(b, T, sub, min) /\ b.last = a.last
<1> DEFINE b == ClearCustom(a)
<1>1. a \in AggsOf(T) /\ Good(a, T)
  BY DEF Sound, Good
<1>2. /\ b.series = [a.series EXCEPT !["custom"] = NewSeries]
      /\ b.given = [a.given EXCEPT !["custom"] = {}]
      /\ b.odd = a.odd \ {"custom"} /\ b.length = 0 /\ b.last = a.last /\ b.buf = a.buf
  BY <1>1 DEF ClearCustom, AggsOf
<1>3. b.buffering = a.buffering
  BY <1>1, Zenon DEF ClearCustom, AggsOf
<1>4. b \in AggsOf(T)
  <2>1. NewSeries \in SeriesOf(T) /\ {} \in SUBSET T
    BY NewIs
  <2> DEFINE ss == [a.series EXCEPT !["custom"] = NewSeries]
             gs == [a.given EXCEPT !["custom"] = {}]
  <2>2. ss \in [Names -> SeriesOf(T)] /\ gs \in [Names -> SUBSET T]
    BY <1>1, <2>1, NamesAre DEF AggsOf
  <2>3. b = [a EXCEPT !.length = 0, !.series = ss, !.given = gs, !.odd = @ \ {"custom"}]
    BY DEF ClearCustom
  <2> HIDE DEF b, ss, gs
  <2> QED BY <1>1, <2>2, <2>3 DEF AggsOf
<1> HIDE DEF b
<1>5. \A n \in Names : n # "custom" => b.series[n] = a.series[n] /\ b.given[n] = a.given[n]
  BY <1>1, <1>2 DEF AggsOf
<1>6. b.series["custom"] = NewSeries /\ b.given["custom"] = {}
  BY <1>1, <1>2, NamesAre DEF AggsOf
<1>7. ASSUME NEW n \in Names PROVE Kept(b, n, T)
  <2>1. CASE n = "custom"
    <3>1. LenOf(b, n) \in Nat
      BY <1>2, <2>1 DEF LenOf
    <3> QED BY <2>1, <3>1, <1>6, NewIs DEF Kept
  <2>2. CASE n # "custom"
    <3>1. LenOf(b, n) = LenOf(a, n)
      BY <2>2, NamesAre DEF LenOf
    <3>2. Kept(a, n, T) /\ (n \notin b.odd => n \notin a.odd)
      BY <1>1, <1>2, <2>2 DEF Good
    <3> QED BY <2>2, <3>1, <3>2, <1>5 DEF Kept
  <2> QED BY <2>1, <2>2
<1>8. Good(b, T)
  BY <1>4, <1>7 DEF Good
<1>9. ASSUME NEW k \in 1..Len(b.buf) PROVE Fresh(b, b.buf[k], sub, min)
  <2>1. Fresh(a, b.buf[k], sub, min)
    BY <1>2 DEF Sound
  <2>2. SUFFICES ASSUME NEW n \in Names \ b.odd, n = "custom" => b.length > 0,
                        NEW j \in b.given[n]
                 PROVE  j.n < b.buf[k].n \/ j.ts <= Cut(b, n, sub, min)
    BY DEF Fresh
  <2>3. n # "custom" /\ n \in Names \ a.odd /\ j \in a.given[n]
    BY <2>2, <1>2, <1>5
  <2>4. Cut(b, n, sub, min) = Cut(a, n, sub, min)
    BY <2>3 DEF Cut
  <2> QED BY <2>1, <2>3, <2>4 DEF Fresh
<1>10. Sound(b, T, sub, min)
  BY <1>2, <1>3, <1>8, <1>9 DEF Sound
<1> QED BY <1>2, <1>10 DEF b

LEMMA EnableSound ==
  ASSUME NEW T \in SUBSET Prints, NEW a, NEW sub, NEW min, Sound(a, T, sub, min),
         NEW len \in CustomLens
  PROVE  LET b == rebuildCustomLocked([a EXCEPT !.length = len]) IN
         Sound(b, T, sub, min) /\ b.last = a.last
<1> DEFINE c == [a EXCEPT !.length = len]
           b == rebuildCustomLocked(c)
           src == customSourceTF(len)
<1>1. a \in AggsOf(T) /\ Good(a, T)
  BY DEF Sound, Good
<1>2. /\ c.series = a.series /\ c.given = a.given /\ c.odd = a.odd
      /\ c.length = len /\ c.buf = a.buf /\ c.last = a.last
  BY <1>1 DEF AggsOf
<1>3. c.buffering = a.buffering
  BY <1>1, Zenon DEF AggsOf
<1>4. c \in AggsOf(T)
  BY <1>1 DEF AggsOf
<1>5. len > 0
  BY BarsAssumption
<1> HIDE DEF c
<1>6. ASSUME NEW n \in Names, n # "custom" PROVE Kept(c, n, T)
  <2>1. LenOf(c, n) = LenOf(a, n)
    BY <1>6, NamesAre DEF LenOf
  <2>2. Kept(a, n, T)
    BY <1>1 DEF Good
  <2> QED BY <2>1, <2>2, <1>2 DEF Kept
<1>7. Good(b, T) /\ Rebuilt(c, b, src)
  <2>1. Kept(c, "fine", T) /\ Kept(c, "minute", T)
    BY <1>6, NamesAre
  <2> QED BY <2>1, <1>2, <1>4, <1>5, RebuildIs
<1> HIDE DEF b
<1>8. b.buf = a.buf /\ b.buffering = a.buffering /\ b.last = a.last /\ b.length = len
  BY <1>2, <1>3, <1>7 DEF Rebuilt, SameRest
<1>9. ASSUME NEW k \in 1..Len(b.buf) PROVE Fresh(b, b.buf[k], sub, min)
  <2>1. Fresh(a, b.buf[k], sub, min)
    BY <1>8 DEF Sound
  <2>2. SUFFICES ASSUME NEW n \in Names \ b.odd, NEW j \in b.given[n]
                 PROVE  j.n < b.buf[k].n \/ j.ts <= Cut(b, n, sub, min)
    BY DEF Fresh
  <2>3. src \in {"fine", "minute"} /\ src \in Names
    BY NamesAre DEF customSourceTF
  <2>4. CASE n = "custom"
    <3>1. src \in Names \ a.odd /\ j \in a.given[src] /\ src # "custom"
      BY <2>2, <2>3, <2>4, <1>2, <1>7, NamesAre DEF Rebuilt
    <3>2. Cut(b, n, sub, min) = Cut(a, src, sub, min)
      BY <2>3, <2>4, <1>8, NamesAre DEF Cut
    <3> QED BY <2>1, <3>1, <3>2 DEF Fresh
  <2>5. CASE n # "custom"
    <3>1. n \in {"fine", "minute"}
      BY <2>5, NamesAre
    <3>2. n \in Names \ a.odd /\ j \in a.given[n]
      BY <2>2, <3>1, <1>2, <1>7 DEF Rebuilt
    <3>3. Cut(b, n, sub, min) = Cut(a, n, sub, min)
      BY <2>5 DEF Cut
    <3> QED BY <2>1, <2>5, <3>2, <3>3 DEF Fresh
  <2> QED BY <2>4, <2>5
<1>10. Sound(b, T, sub, min)
  BY <1>7, <1>8, <1>9 DEF Sound
<1> QED BY <1>8, <1>10 DEF b, c
-----------------------------------------------------------------------------
(* The inductive invariant. *)

\* The cutoffs the backfill under way has set: nothing is behind them before
\* the bars are loaded and the trades replayed.
TradesTo == IF fetch.at = "drain" THEN fetch.tradeEnd ELSE 0
BarsTo == IF fetch.at \in {"trades", "drain"} THEN fetch.reqEnd ELSE 0

Fetches(t) ==
  [at: {"idle", "armed", "bars", "trades", "drain", "failed"},
   switch: BOOLEAN, reqEnd: 0..t, tradeEnd: 0..t]

FeedInv ==
  /\ now \in 1..MaxTime /\ market \in Prices
  /\ Numbered(tape)
  /\ fetch \in Fetches(now)
  /\ Sound(agg, tape, TradesTo, BarsTo)
  /\ watched \in 0..WindowOf(now)

ViewInv ==
  ui \in [tf: {"fine", "minute"}, pan: 0..RingCap, crop: 0..ChartWidth - 1,
          awaits: BOOLEAN]

LEMMA CutoffsAre ==
  ASSUME FeedInv
  PROVE  /\ TradesTo \in Nat /\ BarsTo \in Nat /\ now \in Nat
         /\ fetch.reqEnd \in Nat /\ fetch.tradeEnd \in Nat
  BY DEF FeedInv, Fetches, TradesTo, BarsTo

LEMMA WindowGrows ==
  ASSUME NEW t \in Nat, NEW u \in Nat, t <= u
  PROVE  WindowOf(t) \in Nat /\ WindowOf(u) \in Nat /\ WindowOf(t) <= WindowOf(u)
  BY BarsAssumption, DivMonotone, DivMod DEF WindowOf

\* A report is the youngest print of the tape.
LEMMA NumberedNext ==
  ASSUME NEW T, Numbered(T), NEW i \in Prints, i.n = Cardinality(T) + 1
  PROVE  /\ Numbered(T \cup {i}) /\ \A j \in T : j.n < i.n
<1>1. Cardinality(T) \in Nat
  BY FS_CardinalityType DEF Numbered
<1>2. \A j \in T : j.n \in Nat
  BY PrintIs DEF Numbered
<1>3. \A j \in T : j.n < i.n
  BY <1>1, <1>2 DEF Numbered
<1>4. i \notin T
  BY <1>1, <1>3
<1>5. IsFiniteSet(T \cup {i}) /\ Cardinality(T \cup {i}) = Cardinality(T) + 1
  BY <1>4, FS_AddElement DEF Numbered
<1>6. \A j \in T \cup {i} : j.n <= Cardinality(T \cup {i})
  BY <1>1, <1>2, <1>5 DEF Numbered
<1>7. \A j, k \in T \cup {i} : j.n = k.n => j = k
  BY <1>1, <1>2, <1>3 DEF Numbered
<1> QED BY <1>3, <1>5, <1>6, <1>7 DEF Numbered

LEMMA NumberedNone ==
  Numbered({})
  BY FS_EmptySet DEF Numbered

LEMMA InitFeed ==
  Init => FeedInv
<1> SUFFICES ASSUME Init PROVE FeedInv
  OBVIOUS
<1>1. now \in 1..MaxTime /\ market \in Prices
  BY BarsAssumption DEF Init
<1>2. fetch \in Fetches(now) /\ TradesTo = 0 /\ BarsTo = 0
  BY <1>1 DEF Init, NoFetch, Fetches, TradesTo, BarsTo
<1>3. watched \in 0..WindowOf(now)
  <2>1. WindowOf(now) \in Nat
    BY <1>1, WindowGrows
  <2> QED BY <2>1 DEF Init
<1>4. Numbered(tape)
  BY NumberedNone DEF Init
<1>5. Sound(agg, tape, 0, 0)
  <2>1. tape \in SUBSET Prints /\ NewSeries \in SeriesOf(tape)
    BY <1>4, NewIs DEF Numbered
  <2>2. agg \in AggsOf(tape)
    BY <2>1 DEF Init, AggsOf
  <2>3. /\ agg.buf = <<>> /\ agg.length = 0
        /\ \A n \in Names : agg.series[n] = NewSeries /\ agg.given[n] = {}
    BY DEF Init
  <2>4. ASSUME NEW n \in Names PROVE Kept(agg, n, tape)
    <3>1. LenOf(agg, n) \in Nat
      BY <2>3, BarsAssumption DEF LenOf
    <3> QED BY <2>1, <2>3, <3>1, NewIs DEF Kept
  <2>5. \A k : k \notin 1..Len(agg.buf)
    BY <2>3
  <2>6. InOrder(agg.buf) /\ \A k \in 1..Len(agg.buf) : Fresh(agg, agg.buf[k], 0, 0)
    BY <2>5 DEF InOrder
  <2>7. Good(agg, tape)
    BY <2>2, <2>4 DEF Good
  <2> QED BY <2>3, <2>6, <2>7 DEF Sound
<1> QED BY <1>1, <1>2, <1>3, <1>4, <1>5 DEF FeedInv

\* The series of the aggregator change, and nothing the invariant says of the
\* rest: what is left to show of such a step.
LEMMA OnlyAgg ==
  ASSUME FeedInv, UNCHANGED <<now, tape, market, watched>>,
         fetch' \in Fetches(now), NEW sub, NEW min,
         TradesTo' = sub, BarsTo' = min, Sound(agg', tape, sub, min)
  PROVE  FeedInv'
<1>1. now' = now /\ tape' = tape /\ market' = market /\ watched' = watched
  OBVIOUS
<1>2. Numbered(tape') /\ fetch' \in Fetches(now') /\ WindowOf(now') = WindowOf(now)
  BY <1>1 DEF FeedInv
<1>3. Sound(agg', tape', TradesTo', BarsTo')
  BY <1>1
<1> QED BY <1>1, <1>2, <1>3 DEF FeedInv

LEMMA TickKeeps ==
  FeedInv /\ Tick => FeedInv'
<1> SUFFICES ASSUME FeedInv, Tick PROVE FeedInv'
  OBVIOUS
<1>1. /\ now' = now + 1 /\ now' \in 1..MaxTime /\ now \in Nat /\ MaxTime \in Nat
      /\ UNCHANGED <<tape, market, agg, fetch, watched>>
  BY BarsAssumption DEF FeedInv, Tick
<1>2. watched' \in 0..WindowOf(now')
  BY <1>1, WindowGrows DEF FeedInv
<1>3. fetch' \in Fetches(now')
  BY <1>1 DEF FeedInv, Fetches
<1>4. Numbered(tape') /\ Sound(agg', tape', TradesTo', BarsTo') /\ market' \in Prices
  BY <1>1 DEF FeedInv, TradesTo, BarsTo
<1> QED BY <1>1, <1>2, <1>3, <1>4 DEF FeedInv

LEMMA GapKeeps ==
  FeedInv /\ Gap => FeedInv'
  BY DEF FeedInv, Gap, TradesTo, BarsTo, Sound, Good, Numbered

LEMMA ReportKeeps ==
  FeedInv /\ Report => FeedInv'
<1> SUFFICES ASSUME FeedInv, Report PROVE FeedInv'
  OBVIOUS
<1>1. PICK ts \in 1..now, px \in Prices, heard \in BOOLEAN :
        LET i == [n |-> Cardinality(tape) + 1, ts |-> ts, at |-> now, px |-> px] IN
        /\ tape' = tape \cup {i}
        /\ agg' = IF heard THEN OnTrade(agg, i, px) ELSE agg
  BY DEF Report
<1> DEFINE i == [n |-> Cardinality(tape) + 1, ts |-> ts, at |-> now, px |-> px]
<1>2. i \in Prints /\ i.n = Cardinality(tape) + 1
  <2>1. Cardinality(tape) \in Nat
    BY FS_CardinalityType DEF FeedInv, Numbered
  <2>2. now \in 1..MaxTime /\ ts \in 1..MaxTime
    BY BarsAssumption DEF FeedInv
  <2> QED BY <2>1, <2>2 DEF Prints
<1>3. tape' = tape \cup {i} /\ agg' = IF heard THEN OnTrade(agg, i, px) ELSE agg
  BY <1>1
<1>4. /\ UNCHANGED <<now, market, fetch, watched>>
      /\ TradesTo' = TradesTo /\ BarsTo' = BarsTo
  BY DEF Report, TradesTo, BarsTo
<1> HIDE DEF i
<1>5. Numbered(tape') /\ \A j \in tape : j.n < i.n
  BY <1>2, <1>3, NumberedNext DEF FeedInv
<1>6. Sound(agg', tape', TradesTo, BarsTo)
  <2>1. tape \in SUBSET Prints /\ tape' \in SUBSET Prints /\ Sound(agg, tape, TradesTo, BarsTo)
    BY <1>5 DEF Numbered, FeedInv
  <2>2. CASE heard
    <3>1. Sound(OnTrade(agg, i, px), tape \cup {i}, TradesTo, BarsTo)
      BY <1>2, <1>5, <2>1, ReportSound
    <3> QED BY <3>1, <2>2, <1>3
  <2>3. CASE ~heard
    <3>1. agg' = agg /\ tape \in SUBSET tape'
      BY <2>3, <1>3
    <3>2. Sound(agg, tape', TradesTo, BarsTo)
      BY <3>1, <2>1, SoundWider
    <3> QED BY <3>1, <3>2
  <2> QED BY <2>2, <2>3
<1>7. market' \in Prices /\ now' \in 1..MaxTime /\ fetch' \in Fetches(now')
      /\ watched' \in 0..WindowOf(now')
  BY <1>4 DEF FeedInv
<1> QED BY <1>4, <1>5, <1>6, <1>7 DEF FeedInv

LEMMA WatchKeeps ==
  FeedInv /\ WatchSession => FeedInv'
<1> SUFFICES ASSUME FeedInv, WatchSession PROVE FeedInv'
  OBVIOUS
<1>1. /\ watched' = WindowOf(now) /\ agg' = ResetVWAP(agg)
      /\ UNCHANGED <<now, tape, market, fetch>>
  BY DEF WatchSession
<1>2. TradesTo' = TradesTo /\ BarsTo' = BarsTo
  BY <1>1 DEF TradesTo, BarsTo
<1>3. Sound(agg', tape', TradesTo', BarsTo')
  <2>1. tape \in SUBSET Prints /\ Sound(agg, tape, TradesTo, BarsTo)
    BY DEF FeedInv, Numbered
  <2>2. Sound(ResetVWAP(agg), tape, TradesTo, BarsTo)
    BY <2>1, VwapSound
  <2> QED BY <2>2, <1>1, <1>2
<1>4. watched' \in 0..WindowOf(now')
  BY <1>1, CutoffsAre, WindowGrows
<1> QED BY <1>1, <1>3, <1>4 DEF FeedInv, Numbered

\* The market's own part of a step that starts from another tape.
LEMMA OtherKeeps ==
  ASSUME FeedInv, UNCHANGED <<now, market, watched>>, tape' = {},
         fetch' \in Fetches(now), \A sub, min : Sound(agg', {}, sub, min)
  PROVE  FeedInv'
<1>1. now' = now /\ market' = market /\ watched' = watched /\ WindowOf(now') = WindowOf(now)
  OBVIOUS
<1>2. Numbered(tape') /\ fetch' \in Fetches(now')
  BY <1>1, NumberedNone
<1>3. Sound(agg', tape', TradesTo', BarsTo')
  OBVIOUS
<1> QED BY <1>1, <1>2, <1>3 DEF FeedInv

LEMMA NoFetchIs ==
  ASSUME FeedInv
  PROVE  /\ NoFetch \in Fetches(now)
         /\ [NoFetch EXCEPT !.at = "armed", !.switch = TRUE] \in Fetches(now)
         /\ [NoFetch EXCEPT !.at = "failed"] \in Fetches(now)
<1>1. 0 \in 0..now /\ FALSE \in BOOLEAN /\ TRUE \in BOOLEAN
  BY CutoffsAre
<1>2. NoFetch \in Fetches(now)
  BY <1>1 DEF NoFetch, Fetches
<1> QED BY <1>2 DEF Fetches

LEMMA SoundNow ==
  ASSUME FeedInv
  PROVE  /\ tape \in SUBSET Prints /\ Sound(agg, tape, TradesTo, BarsTo)
         /\ agg \in AggsOf(tape) /\ Good(agg, tape)
  BY DEF FeedInv, Numbered, Sound, Good

LEMMA SwitchKeeps ==
  FeedInv /\ SwitchOpen => FeedInv'
<1> SUFFICES ASSUME FeedInv, SwitchOpen PROVE FeedInv'
  OBVIOUS
<1> DEFINE b == ResetVWAP(ResetMarket(agg))
<1>1. /\ agg' = BeginBackfill(b) /\ tape' = {}
      /\ fetch' = [NoFetch EXCEPT !.at = "armed", !.switch = TRUE]
      /\ UNCHANGED <<now, market, watched>>
  BY DEF SwitchOpen, OtherTape
<1>2. \A sub, min : Sound(b, {}, sub, min)
  <2>1. {} \in SUBSET Prints
    OBVIOUS
  <2> QED BY <2>1, SoundNow, ResetSound
<1> HIDE DEF b
<1>3. ASSUME NEW sub, NEW min PROVE Sound(agg', {}, sub, min)
  <2>1. Sound(b, {}, sub, min) /\ {} \in SUBSET Prints
    BY <1>2
  <2>2. Sound(BeginBackfill(b), {}, sub, min)
    BY <2>1, BeginSound
  <2> QED BY <2>2, <1>1
<1>4. fetch' \in Fetches(now)
  BY <1>1, NoFetchIs
<1> QED BY <1>1, <1>3, <1>4, OtherKeeps

LEMMA RollBackKeeps ==
  FeedInv /\ RollBack => FeedInv'
<1> SUFFICES ASSUME FeedInv, RollBack PROVE FeedInv'
  OBVIOUS
<1>1. /\ agg' = ResetVWAP(ResetMarket(agg)) /\ tape' = {} /\ fetch' = NoFetch
      /\ UNCHANGED <<now, market, watched>>
  BY DEF RollBack, OtherTape
<1>2. \A sub, min : Sound(agg', {}, sub, min)
  <2>1. {} \in SUBSET Prints
    OBVIOUS
  <2> QED BY <2>1, <1>1, SoundNow, ResetSound
<1>3. fetch' \in Fetches(now)
  BY <1>1, NoFetchIs
<1> QED BY <1>1, <1>2, <1>3, OtherKeeps

LEMMA BeginKeeps ==
  FeedInv /\ BackfillBegin => FeedInv'
<1> SUFFICES ASSUME FeedInv, BackfillBegin PROVE FeedInv'
  OBVIOUS
<1>1. /\ agg' = BeginBackfill(agg) /\ fetch' = [fetch EXCEPT !.at = "bars", !.reqEnd = now]
      /\ UNCHANGED <<now, tape, market, watched>> /\ fetch.at \in {"armed", "idle"}
  BY DEF BackfillBegin, Idle
<1>2. fetch' \in Fetches(now) /\ fetch'.at = "bars"
  <2>1. fetch \in Fetches(now) /\ now \in 0..now
    BY CutoffsAre DEF FeedInv
  <2> QED BY <2>1, <1>1 DEF Fetches
<1>3. TradesTo = 0 /\ BarsTo = 0 /\ TradesTo' = 0 /\ BarsTo' = 0
  BY <1>1, <1>2 DEF TradesTo, BarsTo
<1>4. Sound(agg', tape, 0, 0)
  BY <1>1, <1>3, SoundNow, BeginSound
<1> QED BY <1>1, <1>2, <1>3, <1>4, OnlyAgg

\* The load of bars made at time `served`.
Serves(served) ==
  /\ fetch.reqEnd <= served /\ served <= now /\ served <= LastOf(fetch.reqEnd)
  /\ agg' = IF RestBars(served) = <<>> THEN agg ELSE Load(agg, RestBars(served))
  /\ past' = IF RestBars(served) = <<>> THEN past
             ELSE [past EXCEPT
               !.early = {},
               !.carried = WindowOf(Last(RestBars(served)).start) # WindowOf(now),
               !.overlap = {i \in tape : i.ts > fetch.reqEnd /\ i.ts <= served}]

LEMMA LoadServed ==
  ASSUME FeedInv, LoadBars
  PROVE  /\ fetch.at = "bars" /\ fetch.reqEnd \in Nat
         /\ \E served \in Nat : Serves(served)
<1> DEFINE end == fetch.reqEnd
<1>1. end \in Nat /\ now \in Nat /\ MinuteLen \in Nat \ {0}
  BY CutoffsAre, BarsAssumption DEF FeedInv
<1>2. PICK served \in Served(end) :
        /\ agg' = IF RestBars(served) = <<>> THEN agg ELSE Load(agg, RestBars(served))
        /\ past' = IF RestBars(served) = <<>> THEN past
                   ELSE [past EXCEPT
                     !.early = {},
                     !.carried = WindowOf(Last(RestBars(served)).start) # WindowOf(now),
                     !.overlap = {i \in tape : i.ts > fetch.reqEnd /\ i.ts <= served}]
  BY Zenon DEF LoadBars
<1>3. served \in end..now /\ Bucket(MinuteLen, served) = Bucket(MinuteLen, end)
  BY DEF Served
<1> HIDE DEF end
<1>4. served \in Nat /\ end <= served /\ served <= now
  BY <1>1, <1>3
<1>5. /\ served - Bucket(MinuteLen, served) < MinuteLen
      /\ Bucket(MinuteLen, served) \in Nat
  BY <1>1, <1>4, BucketIs
<1>6. served <= LastOf(end)
  BY <1>1, <1>3, <1>4, <1>5 DEF LastOf
<1>7. Serves(served)
  BY <1>2, <1>4, <1>6, Zenon DEF Serves, end
<1>8. fetch.at = "bars"
  BY DEF LoadBars
<1> QED BY <1>1, <1>4, <1>7, <1>8 DEF end

LEMMA LoadKeeps ==
  FeedInv /\ LoadBars => FeedInv'
<1> SUFFICES ASSUME FeedInv, LoadBars PROVE FeedInv'
  OBVIOUS
<1> DEFINE end == fetch.reqEnd
<1>7. PICK served \in Nat : Serves(served)
  BY LoadServed
<1> DEFINE h == RestBars(served)
<1>1. /\ fetch.at = "bars" /\ agg' = IF h = <<>> THEN agg ELSE Load(agg, h)
      /\ fetch' = [fetch EXCEPT !.at = "trades", !.tradeEnd = now]
      /\ UNCHANGED <<now, tape, market, watched>>
  BY <1>7 DEF LoadBars, Serves
<1>2. fetch' \in Fetches(now) /\ fetch'.at = "trades" /\ fetch'.reqEnd = end
  <2>1. fetch \in Fetches(now) /\ now \in 0..now
    BY CutoffsAre DEF FeedInv
  <2> QED BY <2>1, <1>1 DEF Fetches
<1>3. TradesTo = 0 /\ BarsTo = 0 /\ TradesTo' = 0 /\ BarsTo' = end /\ end \in Nat
  BY <1>1, <1>2, CutoffsAre DEF TradesTo, BarsTo
<1>4. /\ h \in Seq(Candles(tape)) /\ Complete(h, PrintsIn(h), MinuteLen)
      /\ Until(PrintsIn(h), Reach("minute", end))
  <2>1. /\ h \in Seq(Candles(tape)) /\ Complete(h, PrintsIn(h), MinuteLen)
        /\ \A i \in PrintsIn(h) : i.ts <= served
    BY RestBarsAre DEF FeedInv
  <2>2. PrintsIn(h) \in SUBSET Prints
    <3>1. tape \in SUBSET Prints
      BY SoundNow
    <3>2. PrintsIn(h) \in SUBSET tape
      BY <2>1, PrintsType
    <3> QED BY <3>1, <3>2
  <2>3. served <= LastOf(end) /\ LastOf(end) \in Nat
    BY <1>3, <1>7, LastOfIs DEF Serves
  <2> HIDE DEF h, end
  <2>4. ASSUME NEW i \in PrintsIn(h) PROVE i.ts <= LastOf(end)
    <3>1. i \in Prints /\ i.ts <= served
      BY <2>1, <2>2
    <3>2. i.ts \in Nat
      BY <3>1, PrintIs
    <3> QED BY <2>3, <3>1, <3>2
  <2> QED BY <2>1, <2>4 DEF Until, Reach
<1> HIDE DEF end, h
<1>5. Sound(agg, tape, 0, 0) /\ tape \in SUBSET Prints /\ Good(agg, tape)
  BY <1>3, SoundNow
<1>6. Sound(agg', tape, 0, end)
  <2>1. CASE h = <<>>
    <3>1. Sound(agg, tape, 0, end)
      BY <1>3, <1>5, WiderSound
    <3> QED BY <2>1, <3>1, <1>1
  <2>2. CASE h # <<>>
    <3> DEFINE b == Load(agg, h)
    <3>1. Good(b, tape) /\ Reloaded(agg, b, "minute", PrintsIn(h))
      BY <1>4, <1>5, LoadIs
    <3> HIDE DEF b
    <3>2. Cuts("minute", end, 0, 0, 0, end)
      BY DEF Cuts
    <3>3. Sound(b, tape, 0, end)
      BY <1>4, <1>5, <3>1, <3>2, ReloadSound
    <3> QED BY <2>2, <3>3, <1>1 DEF b
  <2> QED BY <2>1, <2>2
<1> QED BY <1>1, <1>2, <1>3, <1>6, OnlyAgg

LEMMA FailKeeps ==
  FeedInv /\ BarsFailed => FeedInv'
<1> SUFFICES ASSUME FeedInv, BarsFailed PROVE FeedInv'
  OBVIOUS
<1>1. /\ fetch.at = "bars" /\ agg' = finishBackfill(agg, 0, 0)
      /\ fetch' = NoFetch \/ fetch' = [NoFetch EXCEPT !.at = "failed"]
      /\ UNCHANGED <<now, tape, market, watched>>
  BY Zenon DEF BarsFailed
<1>2. fetch' \in Fetches(now)
  BY <1>1, NoFetchIs
<1>3. TradesTo = 0 /\ BarsTo = 0
  BY <1>1 DEF TradesTo, BarsTo
<1>4. \A sub, min : Sound(agg', tape, sub, min)
  BY <1>1, <1>3, SoundNow, FinishSound
<1> QED BY <1>1, <1>2, <1>4, OnlyAgg

LEMMA ReplayKeeps ==
  FeedInv /\ Replay => FeedInv'
<1> SUFFICES ASSUME FeedInv, Replay PROVE FeedInv'
  OBVIOUS
<1> DEFINE end == fetch.tradeEnd
           min == fetch.reqEnd
<1>1. PICK t \in {Trades(end), <<>>} : agg' = ReplayTrades(agg, t)
  BY DEF Replay
<1>2. /\ fetch.at = "trades" /\ fetch' = [fetch EXCEPT !.at = "drain"]
      /\ UNCHANGED <<now, tape, market, watched>>
  BY DEF Replay
<1>3. fetch' \in Fetches(now) /\ fetch'.at = "drain" /\ fetch'.reqEnd = min /\ fetch'.tradeEnd = end
  BY <1>2 DEF FeedInv, Fetches
<1>4. TradesTo = 0 /\ BarsTo = min /\ TradesTo' = end /\ BarsTo' = min /\ end \in Nat /\ min \in Nat
  BY <1>2, <1>3, CutoffsAre DEF TradesTo, BarsTo
<1>5. /\ t \in Seq(tape) /\ \A j, k \in 1..Len(t) : j < k => Before(t[j], t[k])
      /\ \A k \in 1..Len(t) : t[k].ts <= end
  <2>1. CASE t = Trades(end)
    <3>1. /\ Trades(end) \in Seq(tape)
          /\ \A k \in 1..Len(Trades(end)) : Trades(end)[k].ts <= end
          /\ \A j, k \in 1..Len(Trades(end)) : j < k => Before(Trades(end)[j], Trades(end)[k])
      BY <1>4, TradesAre DEF FeedInv
    <3> QED BY <2>1, <3>1
  <2>2. CASE t = <<>>
    BY <2>2
  <2> QED BY <2>1, <2>2, <1>1
<1> DEFINE P == {t[k] : k \in 1..Len(t)}
<1>6. Until(P, Reach("fine", end))
  BY <1>5 DEF Until, Reach
<1> HIDE DEF end, min
<1>7. Sound(agg, tape, 0, min) /\ tape \in SUBSET Prints /\ Good(agg, tape)
  BY <1>4, SoundNow
<1> DEFINE b == ReplayTrades(agg, t)
<1>8. Good(b, tape) /\ Reloaded(agg, b, "fine", P)
  BY <1>5, <1>7, ReplayIs
<1> HIDE DEF b, P
<1>9. Sound(b, tape, end, min)
  <2>1. Cuts("fine", end, 0, min, end, min)
    BY DEF Cuts
  <2> QED BY <2>1, <1>6, <1>7, <1>8, ReloadSound
<1>10. Sound(agg', tape, end, min)
  BY <1>1, <1>9 DEF b
<1> QED BY <1>2, <1>3, <1>4, <1>10, OnlyAgg

LEMMA EndKeeps ==
  FeedInv /\ EndBackfill => FeedInv'
<1> SUFFICES ASSUME FeedInv, EndBackfill PROVE FeedInv'
  OBVIOUS
<1>1. /\ fetch.at = "drain" /\ agg' = finishBackfill(agg, TradesTo, BarsTo)
      /\ fetch' = NoFetch /\ UNCHANGED <<now, tape, market, watched>>
  BY DEF EndBackfill, TradesTo, BarsTo
<1>2. fetch' \in Fetches(now)
  BY <1>1, NoFetchIs
<1>3. \A sub, min : Sound(agg', tape, sub, min)
  BY <1>1, SoundNow, CutoffsAre, FinishSound
<1> QED BY <1>1, <1>2, <1>3, OnlyAgg

LEMMA FeedKeeps ==
  FeedInv /\ FeedNext => FeedInv'
  BY TickKeeps, GapKeeps, ReportKeeps, SwitchKeeps, RollBackKeeps, BeginKeeps,
     LoadKeeps, FailKeeps, ReplayKeeps, EndKeeps, WatchKeeps DEF FeedNext

Views == [tf: {"fine", "minute"}, pan: 0..RingCap, crop: 0..ChartWidth - 1,
          awaits: BOOLEAN]

LEMMA FewerIs ==
  ASSUME NEW x \in Nat, NEW y \in Nat
  PROVE  Fewer(x, y) \in 0..x /\ Fewer(x, y) \in 0..y
  BY DEF Fewer

LEMMA StepIs ==
  Step \in Nat \ {0} /\ ChartWidth \in Nat \ {0} /\ ChartWidth - 1 \in Nat
<1>1. ChartWidth \in Nat \ {0}
  BY ChartAssumption
<1>2. ChartWidth >= 4 => ChartWidth \div 4 \in Nat \ {0}
  BY <1>1
<1> QED BY <1>1, <1>2 DEF Step

LEMMA DepthIs ==
  ASSUME FeedInv, ViewInv
  PROVE  Shown \in Names /\ Depth \in 0..RingCap /\ agg.series[Shown] \in SeriesOf(tape)
<1>1. Shown \in Names
  BY NamesAre DEF Shown, ViewInv
<1>2. agg.series[Shown] \in SeriesOf(tape)
  BY <1>1, SoundNow DEF AggsOf
<1>3. agg.series[Shown].ring.count \in 0..RingCap
  BY <1>2 DEF SeriesOf, Rings
<1> QED BY <1>1, <1>2, <1>3 DEF Depth

\* What the view's own steps leave alone.
LEMMA SameFeed ==
  ASSUME FeedInv, UNCHANGED <<now, tape, market, agg, fetch, watched>>
  PROVE  FeedInv'
<1>1. TradesTo' = TradesTo /\ BarsTo' = BarsTo /\ WindowOf(now') = WindowOf(now)
  BY DEF TradesTo, BarsTo
<1> QED BY <1>1, OnlyAgg, SoundNow DEF FeedInv

LEMMA InitView ==
  ViewInit => ViewInv
<1> SUFFICES ASSUME ViewInit PROVE ViewInv
  OBVIOUS
<1>1. 0 \in 0..RingCap /\ 0 \in 0..ChartWidth - 1
  BY StepIs, RingAssumption
<1> QED BY <1>1 DEF ViewInit, NewView, ViewInv

LEMMA ShowsKeeps ==
  ASSUME ViewInv, NEW tf \in {"fine", "minute"}, Shows(tf)
  PROVE  ViewInv'
<1>1. 0 \in 0..RingCap /\ 0 \in 0..ChartWidth - 1
  BY StepIs, RingAssumption
<1> QED BY <1>1 DEF Shows, ViewInv

LEMMA PressKeeps ==
  ASSUME FeedInv, ViewInv, PanBack \/ PanForward \/ CropIn \/ CropOut
  PROVE  FeedInv' /\ ViewInv'
<1>1. FeedInv'
  <2>1. Pressed
    BY DEF PanBack, PanForward, CropIn, CropOut
  <2> QED BY <2>1, SameFeed DEF Pressed
<1>2. ui \in Views /\ ui.pan \in 0..RingCap /\ ui.crop \in 0..ChartWidth - 1
      /\ RingCap \in Nat
  BY RingAssumption DEF ViewInv, Views
<1>3. CASE PanBack
  <2>1. Fewer(ui.pan + Step, Depth) \in 0..RingCap
    <3>1. ui.pan + Step \in Nat /\ Depth \in Nat /\ Depth <= RingCap
      BY <1>2, StepIs, DepthIs
    <3>2. Fewer(ui.pan + Step, Depth) \in 0..Depth
      BY <3>1, FewerIs
    <3> QED BY <3>1, <3>2, <1>2
  <2>2. ui' = [ui EXCEPT !.pan = Fewer(ui.pan + Step, Depth)]
    BY <1>3 DEF PanBack
  <2> QED BY <1>1, <1>2, <2>1, <2>2 DEF ViewInv, Views
<1>4. CASE PanForward
  <2> DEFINE p == IF ui.pan > Step THEN ui.pan - Step ELSE 0
  <2>1. p \in 0..RingCap
    BY <1>2, StepIs
  <2>2. ui' = [ui EXCEPT !.pan = p]
    BY <1>4 DEF PanForward
  <2> HIDE DEF p
  <2> QED BY <1>1, <1>2, <2>1, <2>2 DEF ViewInv, Views
<1>5. CASE CropIn
  <2>1. Fewer(ui.crop + Step, ChartWidth - 1) \in 0..ChartWidth - 1
    <3>1. ui.crop + Step \in Nat /\ ChartWidth - 1 \in Nat
      BY <1>2, StepIs
    <3> QED BY <3>1, FewerIs
  <2>2. ui' = [ui EXCEPT !.crop = Fewer(ui.crop + Step, ChartWidth - 1)]
    BY <1>5 DEF CropIn
  <2> QED BY <1>1, <1>2, <2>1, <2>2 DEF ViewInv, Views
<1>6. CASE CropOut
  <2> DEFINE p == IF ui.crop > Step THEN ui.crop - Step ELSE 0
  <2>1. p \in 0..ChartWidth - 1
    BY <1>2, StepIs
  <2>2. ui' = [ui EXCEPT !.crop = p]
    BY <1>6 DEF CropOut
  <2> HIDE DEF p
  <2> QED BY <1>1, <1>2, <2>1, <2>2 DEF ViewInv, Views
<1> QED BY <1>3, <1>4, <1>5, <1>6

LEMMA ViewedKeeps ==
  ASSUME FeedInv, Viewed, Sound(agg', tape, TradesTo, BarsTo)
  PROVE  FeedInv'
<1>1. UNCHANGED <<now, tape, market, fetch, watched>>
  BY DEF Viewed
<1>2. TradesTo' = TradesTo /\ BarsTo' = BarsTo /\ fetch' \in Fetches(now)
  BY <1>1 DEF TradesTo, BarsTo, FeedInv
<1> QED BY <1>1, <1>2, OnlyAgg

\* The inductive invariant of the terminal.
IInv == FeedInv /\ ViewInv

LEMMA InitInv ==
  ViewInit => IInv
  BY InitFeed, InitView DEF ViewInit, IInv

LEMMA StepInv ==
  IInv /\ [Next]_viewVars => IInv'
<1> SUFFICES ASSUME FeedInv, ViewInv, [Next]_viewVars PROVE FeedInv' /\ ViewInv'
  BY DEF IInv
<1>1. CASE Feed
  <2>1. FeedInv'
    BY <1>1, FeedKeeps DEF Feed
  <2>2. (ui.awaits \/ (EndBackfill /\ fetch.switch)) \in BOOLEAN
    OBVIOUS
  <2> DEFINE w == ui.awaits \/ (EndBackfill /\ fetch.switch)
  <2>3. ui' = [ui EXCEPT !.awaits = w]
    BY <1>1, Zenon DEF Feed
  <2>4. w \in BOOLEAN
    BY <2>2
  <2> HIDE DEF w
  <2>5. ViewInv'
    BY <2>3, <2>4 DEF ViewInv
  <2> QED BY <2>1, <2>5
<1>2. CASE SymbolSwitched
  <2>1. 0 \in 0..RingCap /\ 0 \in 0..ChartWidth - 1
    BY StepIs, RingAssumption
  <2>2. ViewInv'
    BY <1>2, <2>1 DEF SymbolSwitched, ViewInv
  <2>3. FeedInv'
    BY <1>2, SameFeed DEF SymbolSwitched, vars
  <2> QED BY <2>2, <2>3
<1>3. CASE PanBack \/ PanForward \/ CropIn \/ CropOut
  BY <1>3, PressKeeps
<1>4. ASSUME NEW len \in CustomLens, EnableCustom(len)
      PROVE  FeedInv' /\ ViewInv'
  <2>1. Viewed /\ agg' = rebuildCustomLocked([agg EXCEPT !.length = len]) /\ Shows(ui.tf)
    BY <1>4 DEF EnableCustom
  <2>2. Sound(agg', tape, TradesTo, BarsTo)
    BY <2>1, SoundNow, EnableSound
  <2>3. ui.tf \in {"fine", "minute"}
    BY DEF ViewInv
  <2> QED BY <2>1, <2>2, <2>3, ViewedKeeps, ShowsKeeps
<1>5. ASSUME NEW tf \in {"fine", "minute"}, Viewed, agg' = ClearCustom(agg), Shows(tf)
      PROVE  FeedInv' /\ ViewInv'
  <2>1. Sound(agg', tape, TradesTo, BarsTo)
    BY <1>5, SoundNow, ClearSound
  <2> QED BY <2>1, <1>5, ViewedKeeps, ShowsKeeps
<1>6. CASE \E tf \in {"fine", "minute"} : ChooseTf(tf)
  BY <1>5, <1>6 DEF ChooseTf
<1>7. CASE CycleTf
  BY <1>5, <1>7 DEF CycleTf
<1>8. CASE UNCHANGED viewVars
  <2>1. FeedInv'
    BY <1>8, SameFeed DEF viewVars, vars
  <2> QED BY <1>8, <2>1 DEF viewVars, ViewInv
<1> QED BY <1>1, <1>2, <1>3, <1>4, <1>6, <1>7, <1>8 DEF Next

\* The terminal and the aggregator keep the inductive invariant.
LEMMA Always ==
  Spec => []IInv
<1>1. ViewInit => IInv
  BY InitInv
<1>2. IInv /\ [Next]_viewVars => IInv'
  BY StepInv
<1> QED BY <1>1, <1>2, PTL DEF Spec
-----------------------------------------------------------------------------
(* The theorems. *)

\* Every variable of the terminal keeps its type: ring slots, candles, buffered
\* prints, pan offset and crop, whatever the aggregator and the keys do.
THEOREM TypeCorrect ==
  Spec => []ViewTypeOK
<1>1. ASSUME FeedInv PROVE TypeOK
  <2>1. /\ agg \in AggsOf(tape) /\ tape \in SUBSET Prints /\ Numbered(tape)
    BY <1>1, SoundNow DEF FeedInv
  <2>2. ASSUME NEW n \in Names PROVE SeriesOK(agg.series[n])
    <3> DEFINE s == agg.series[n]
    <3>1. s \in SeriesOf(tape)
      BY <2>1 DEF AggsOf
    <3> HIDE DEF s
    <3>2. s.ring \in Rings(Entries(tape)) /\ s.fed \in Seq(tape \cup {NoCandle})
      BY <3>1 DEF SeriesOf
    <3>3. /\ s.ring.start \in Slots /\ s.ring.count \in 0..RingCap
          /\ s.ring.slots \in [Slots -> Entries(tape) \cup {NoCandle}]
      BY <3>2 DEF Rings
    <3>4. \A bar \in Range(Bars(s)) : bar \in Candles(tape)
      <4>1. Bars(s) \in Seq(Candles(tape))
        BY <2>1, <3>1, BarsAre
      <4> QED BY <4>1 DEF Range
    <3> QED BY <3>2, <3>3, <3>4 DEF SeriesOK, s
  <2>3. /\ agg.length \in {0} \cup CustomLens
        /\ agg.vwap \subseteq tape /\ agg.twice \subseteq tape
        /\ agg.last \in Prices \cup {NoPrice} /\ DOMAIN agg.series = Names
        /\ agg.buf \in Seq(tape)
    BY <2>1 DEF AggsOf
  <2>4. Range(agg.buf) \subseteq tape
    BY <2>3 DEF Range
  <2> QED BY <1>1, <2>1, <2>2, <2>3, <2>4 DEF TypeOK, FeedInv, Numbered, Fetches
<1>2. IInv => ViewTypeOK
  BY <1>1 DEF IInv, ViewInv, ViewTypeOK
<1> QED BY <1>2, Always, PTL

\* The candles of every series ascend, one for each bucket, the forming one
\* last, through folds, late prints, evictions, loads, replays, resampling and
\* buffered prints, but where a late print opened one after a load.
THEOREM CandlesAscend ==
  Spec => []OneCandlePerBucket
<1>1. IInv => OneCandlePerBucket
  <2> SUFFICES ASSUME IInv, NEW n \in Names \ agg.odd,
                      NEW j \in DOMAIN Bars(agg.series[n]), NEW k \in DOMAIN Bars(agg.series[n]),
                      j < k
               PROVE  Bars(agg.series[n])[j].start < Bars(agg.series[n])[k].start
    BY DEF OneCandlePerBucket
  <2> DEFINE s == agg.series[n]
  <2>1. Good(agg, tape) /\ agg \in AggsOf(tape) /\ tape \in SUBSET Prints
    BY SoundNow DEF IInv
  <2>2. s \in SeriesOf(tape) /\ Ascends(Bars(s))
    BY <2>1 DEF AggsOf, Good, Kept
  <2>3. DOMAIN Bars(s) = 1..Len(Bars(s))
    <3> HIDE DEF s
    <3>1. Bars(s) \in Seq(Candles(tape))
      BY <2>1, <2>2, BarsAre
    <3> QED BY <3>1
  <2> QED BY <2>2, <2>3 DEF Ascends
<1> QED BY <1>1, Always, PTL

\* The EMA of every series is that of its closes in order, each counted once,
\* and the value kept with a candle that of the closes up to its own: Undo
\* takes back the right sample whenever a candle forms again.
THEOREM EmaFollowsCloses ==
  Spec => []EmaOverCloses
<1>1. IInv => EmaOverCloses
  <2> SUFFICES ASSUME IInv, NEW n \in Names
               PROVE  LET s == agg.series[n]
                          held == Held(s.ring)
                          gone == Len(s.fed) - s.ring.count
                      IN /\ gone >= 0
                         /\ \A k \in DOMAIN held :
                              /\ held[k].ema = SubSeq(s.fed, 1, gone + k)
                              /\ s.fed[gone + k] = held[k].bar.close
    BY DEF EmaOverCloses
  <2> DEFINE s == agg.series[n]
  <2>1. Exact(s)
    BY SoundNow DEF IInv, Good, Kept
  <2> HIDE DEF s
  <2>2. DOMAIN Held(s.ring) = 1..s.ring.count
    BY DEF Held
  <2>3. \A k \in 1..s.ring.count : Held(s.ring)[k] = Cell(s.ring, k - 1)
    BY DEF Held, Cell
  <2> QED BY <2>1, <2>2, <2>3 DEF Exact, Gone, s
<1> QED BY <1>1, Always, PTL

\* Every print handed to a series is in the candle of its bucket and in no
\* other, and has one unless that candle is gone or the print came late: none
\* is folded twice around a backfill and none is lost between the bars of REST,
\* the replayed trades and the buffer.
THEOREM NoPrintStrays ==
  Spec => []PrintsInTheirCandle
<1>1. IInv => PrintsInTheirCandle
  <2> SUFFICES ASSUME IInv, NEW n \in Names \ agg.odd, NEW i \in agg.given[n]
               PROVE  LET bars == Bars(agg.series[n])
                          b    == Bucket(LenOf(agg, n), i.ts)
                          mine == {k \in DOMAIN bars : bars[k].start = b}
                      IN /\ {k \in DOMAIN bars : i \in bars[k].prints} = mine
                         /\ mine = {} => Late(i) \/ Evicted(agg.series[n], b)
    BY DEF PrintsInTheirCandle
  <2> DEFINE s == agg.series[n]
             B == Bars(s)
             b == Bucket(LenOf(agg, n), i.ts)
  <2>1. Good(agg, tape) /\ agg \in AggsOf(tape) /\ tape \in SUBSET Prints
    BY SoundNow DEF IInv
  <2>2. s \in SeriesOf(tape) /\ Filed(B, Gone(s), agg.given[n], LenOf(agg, n), tape)
    BY <2>1 DEF AggsOf, Good, Kept
  <2>3. /\ \A k \in 1..Len(B) : i \in B[k].prints <=> B[k].start = b
        /\ (\A k \in 1..Len(B) : B[k].start # b) => Missing(B, Gone(s), b, tape, i)
    BY <2>2 DEF Filed
  <2> HIDE DEF s
  <2>4. /\ B \in Seq(Candles(tape)) /\ s.ring.count \in Nat
        /\ s.fed \in Seq(tape \cup {NoCandle})
    BY <2>1, <2>2, BarsAre DEF SeriesOf
  <2>5. DOMAIN B = 1..Len(B) /\ Len(s.fed) \in Nat
    BY <2>4, LenProperties
  <2>6. Missing(B, Gone(s), b, tape, i) => Late(i) \/ Evicted(s, b)
    BY <2>4, <2>5 DEF Missing, LateIn, Late, Evicted, Gone
  <2> HIDE DEF b, B
  <2>7. /\ {k \in DOMAIN B : i \in B[k].prints} = {k \in DOMAIN B : B[k].start = b}
        /\ {k \in DOMAIN B : B[k].start = b} = {} => Late(i) \/ Evicted(s, b)
    BY <2>3, <2>5, <2>6
  <2> QED BY <2>7 DEF b, B, s
<1> QED BY <1>1, Always, PTL
-----------------------------------------------------------------------------
(* The filter for absurd prices. *)

Pasts == [early: SUBSET Prints, over: SUBSET Prints, carried: BOOLEAN,
          overlap: SUBSET Prints, seen: Prices \cup {NoPrice}, fooled: BOOLEAN]

PastInv == past \in Pasts

\* The last trade's price is the market's, unless a bad tick's.
LastSeen == ~past.fooled => agg.last = past.seen

LEMMA NoPastIs ==
  NoPast \in Pasts /\ NoPast.seen = NoPrice
<1>1. {} \in SUBSET Prints /\ FALSE \in BOOLEAN
  OBVIOUS
<1> QED BY <1>1 DEF NoPast, Pasts

\* No step of a backfill, nor the session's, touches the last trade's price.
LEMMA LastKept ==
  ASSUME FeedInv,
         BackfillBegin \/ LoadBars \/ BarsFailed \/ Replay \/ EndBackfill \/ WatchSession
  PROVE  agg'.last = agg.last
<1>1. tape \in SUBSET Prints /\ Good(agg, tape) /\ Sound(agg, tape, TradesTo, BarsTo)
  BY SoundNow
<1>2. CASE BackfillBegin
  <2>1. agg' = BeginBackfill(agg)
    BY <1>2 DEF BackfillBegin
  <2> QED BY <2>1, <1>1, BeginSound
<1>3. CASE LoadBars
  <2>4. PICK served \in Nat : Serves(served)
    BY <1>3, LoadServed
  <2> DEFINE h == RestBars(served)
  <2>1. agg' = agg \/ agg' = Load(agg, h)
    BY <2>4 DEF Serves
  <2>2. h \in Seq(Candles(tape)) /\ Complete(h, PrintsIn(h), MinuteLen)
    BY RestBarsAre DEF FeedInv
  <2> HIDE DEF h
  <2>3. Reloaded(agg, Load(agg, h), "minute", PrintsIn(h))
    BY <1>1, <2>2, LoadIs
  <2> QED BY <2>1, <2>3 DEF Reloaded, SameRest
<1>4. CASE BarsFailed
  <2> DEFINE c == TradesTo
             d == BarsTo
  <2>1. agg' = finishBackfill(agg, c, d)
    BY <1>4 DEF BarsFailed, TradesTo, BarsTo
  <2>2. Sound(agg, tape, c, d) /\ c \in Nat /\ d \in Nat
    BY <1>1, CutoffsAre
  <2> HIDE DEF c, d
  <2>3. finishBackfill(agg, c, d).last = agg.last
    BY <1>1, <2>2, FinishSame
  <2> QED BY <2>1, <2>3
<1>5. CASE Replay
  <2> DEFINE end == fetch.tradeEnd
  <2>1. PICK t \in {Trades(end), <<>>} : agg' = ReplayTrades(agg, t)
    BY <1>5 DEF Replay
  <2>2. t \in Seq(tape) /\ \A j, k \in 1..Len(t) : j < k => Before(t[j], t[k])
    <3>1. CASE t = Trades(end)
      <4>1. /\ Trades(end) \in Seq(tape)
            /\ \A j, k \in 1..Len(Trades(end)) : j < k => Before(Trades(end)[j], Trades(end)[k])
        BY CutoffsAre, TradesAre DEF FeedInv
      <4> QED BY <3>1, <4>1
    <3>2. CASE t = <<>>
      BY <3>2
    <3> QED BY <3>1, <3>2, <2>1
  <2> DEFINE P == {t[k] : k \in 1..Len(t)}
  <2>3. Reloaded(agg, ReplayTrades(agg, t), "fine", P)
    BY <1>1, <2>2, ReplayIs
  <2> HIDE DEF P
  <2> QED BY <2>1, <2>3 DEF Reloaded, SameRest
<1>6. CASE EndBackfill
  <2> DEFINE c == TradesTo
             d == BarsTo
  <2>1. agg' = finishBackfill(agg, c, d)
    BY <1>6 DEF EndBackfill, TradesTo, BarsTo
  <2>2. Sound(agg, tape, c, d) /\ c \in Nat /\ d \in Nat
    BY <1>1, CutoffsAre
  <2> HIDE DEF c, d
  <2>3. finishBackfill(agg, c, d).last = agg.last
    BY <1>1, <2>2, FinishSame
  <2> QED BY <2>1, <2>3
<1>7. CASE WatchSession
  <2>1. agg' = ResetVWAP(agg)
    BY <1>7 DEF WatchSession
  <2> QED BY <2>1, <1>1, VwapSound
<1> QED BY <1>2, <1>3, <1>4, <1>5, <1>6, <1>7

\* The steps that leave the last trade's price and its history.
LEMMA Calm ==
  ASSUME PastInv, LastSeen, agg'.last = agg.last,
         past' \in Pasts, past'.seen = past.seen, past'.fooled = past.fooled
  PROVE  PastInv' /\ LastSeen'
  BY DEF PastInv, LastSeen

\* What a report does to the history.
Judged(px, accepted) ==
  IF accepted THEN [past EXCEPT !.fooled = px # market,
                                !.seen = IF px = market THEN px ELSE @]
              ELSE past

LEMMA FilterReport ==
  ASSUME FeedInv, PastInv, LastSeen, Report
  PROVE  PastInv' /\ LastSeen'
<1>1. PICK ts \in 1..now, px \in Prices, heard \in BOOLEAN :
        LET i == [n |-> Cardinality(tape) + 1, ts |-> ts, at |-> now, px |-> px]
        IN /\ agg' = IF heard THEN OnTrade(agg, i, px) ELSE agg
           /\ past' = Judged(px, heard /\ liveTradePlausibleLocked(agg, px))
  BY ZenonT(20) DEF Report, Judged
<1> DEFINE i == [n |-> Cardinality(tape) + 1, ts |-> ts, at |-> now, px |-> px]
           p == liveTradePlausibleLocked(agg, px)
           fools == px # market
           sees == IF px = market THEN px ELSE past.seen
<1>2. i \in Prints /\ i.n = Cardinality(tape) + 1
  <2>1. Cardinality(tape) \in Nat
    BY FS_CardinalityType DEF FeedInv, Numbered
  <2>2. now \in 1..MaxTime /\ ts \in 1..MaxTime
    BY BarsAssumption DEF FeedInv
  <2> QED BY <2>1, <2>2 DEF Prints
<1>3. agg' = IF heard THEN OnTrade(agg, i, px) ELSE agg
  BY <1>1, Zenon
<1> HIDE DEF i
<1>4. heard => agg'.last = IF p THEN px ELSE agg.last
  <2>1. /\ tape \in SUBSET Prints /\ Sound(agg, tape, TradesTo, BarsTo)
        /\ \A j \in tape : j.n < i.n
    BY <1>2, SoundNow, NumberedNext DEF FeedInv
  <2>2. OnTrade(agg, i, px).last = IF p THEN px ELSE agg.last
    BY <1>2, <2>1, ReportSound, ZenonT(20)
  <2> QED BY <1>3, <2>2
<1>5. CASE heard /\ p
  <2>1. past' = [past EXCEPT !.fooled = fools, !.seen = sees]
    BY <1>1, <1>5, Zenon DEF Judged
  <2>2. fools \in BOOLEAN /\ sees \in Prices \cup {NoPrice}
    BY DEF PastInv, Pasts
  <2>3. agg'.last = px
    BY <1>4, <1>5
  <2>4. ~fools => sees = px
    OBVIOUS
  <2> HIDE DEF fools, sees
  <2>5. past' \in Pasts /\ past'.seen = sees
    BY <2>1, <2>2 DEF PastInv, Pasts
  <2>6. past'.fooled = fools
    BY <2>1, Zenon DEF PastInv, Pasts
  <2> QED BY <2>3, <2>4, <2>5, <2>6 DEF PastInv, LastSeen
<1>6. CASE ~(heard /\ p)
  <2>1. past' = past
    BY <1>1, <1>6, Zenon DEF Judged
  <2>2. agg'.last = agg.last
    BY <1>3, <1>4, <1>6
  <2> QED BY <2>1, <2>2, Calm DEF PastInv
<1> QED BY <1>5, <1>6

LEMMA FilterFeed ==
  ASSUME FeedInv, PastInv, LastSeen, FeedNext
  PROVE  PastInv' /\ LastSeen'
<1>1. CASE Tick \/ Gap \/ BackfillBegin \/ BarsFailed \/ Replay \/ EndBackfill
  <2>1. past' = past
    BY <1>1 DEF Tick, Gap, BackfillBegin, BarsFailed, Replay, EndBackfill
  <2>2. agg'.last = agg.last
    BY <1>1, LastKept DEF Tick, Gap
  <2> QED BY <2>1, <2>2, Calm DEF PastInv
<1>3. CASE Report
  BY <1>3, FilterReport
<1>4. CASE SwitchOpen
  <2> DEFINE b == ResetVWAP(ResetMarket(agg))
  <2>1. agg' = BeginBackfill(b) /\ past' = NoPast
    BY <1>4 DEF SwitchOpen, OtherTape
  <2>2. Sound(b, {}, 0, 0) /\ b.last = NoPrice /\ {} \in SUBSET Prints
    BY SoundNow, ResetSound
  <2> HIDE DEF b
  <2>3. agg'.last = NoPrice
    BY <2>1, <2>2, BeginSound
  <2> QED BY <2>1, <2>3, NoPastIs DEF PastInv, LastSeen
<1>5. CASE RollBack
  <2>1. agg' = ResetVWAP(ResetMarket(agg)) /\ past' = NoPast
    BY <1>5 DEF RollBack, OtherTape
  <2>2. agg'.last = NoPrice
    BY <2>1, SoundNow, ResetSound
  <2> QED BY <2>1, <2>2, NoPastIs DEF PastInv, LastSeen
<1>6. CASE LoadBars
  <2>6. PICK served \in Nat : Serves(served)
    BY <1>6, LoadServed
  <2> DEFINE c == WindowOf(Last(RestBars(served)).start) # WindowOf(now)
             o == {i \in tape : i.ts > fetch.reqEnd /\ i.ts <= served}
  <2>1. past' = past \/ past' = [past EXCEPT !.early = {}, !.carried = c, !.overlap = o]
    BY <2>6, Zenon DEF Serves
  <2>2. c \in BOOLEAN /\ {} \in SUBSET Prints /\ o \in SUBSET Prints
    BY SoundNow
  <2> HIDE DEF c, o
  <2>3. past' \in Pasts /\ past'.seen = past.seen
    BY <2>1, <2>2 DEF PastInv, Pasts
  <2>4. past'.fooled = past.fooled
    BY <2>1, Zenon DEF PastInv, Pasts
  <2>5. agg'.last = agg.last
    BY <1>6, LastKept
  <2> QED BY <2>3, <2>4, <2>5, Calm
<1>7. CASE WatchSession
  <2>1. past' = [past EXCEPT !.early = @ \cup agg.vwap, !.over = Range(agg.buf), !.carried = FALSE]
    BY <1>7 DEF WatchSession
  <2>2. agg.vwap \in SUBSET Prints /\ Range(agg.buf) \in SUBSET Prints
    <3>1. agg.vwap \in SUBSET tape /\ agg.buf \in Seq(tape) /\ tape \in SUBSET Prints
      BY SoundNow DEF AggsOf
    <3> QED BY <3>1 DEF Range
  <2>3. past' \in Pasts /\ past'.seen = past.seen
    BY <2>1, <2>2 DEF PastInv, Pasts
  <2>4. past'.fooled = past.fooled
    BY <2>1, Zenon DEF PastInv, Pasts
  <2>5. agg'.last = agg.last
    BY <1>7, LastKept
  <2> QED BY <2>3, <2>4, <2>5, Calm
<1> QED BY <1>1, <1>3, <1>4, <1>5, <1>6, <1>7 DEF FeedNext

LEMMA FilterNext ==
  ASSUME FeedInv, PastInv, LastSeen, [Next]_viewVars
  PROVE  PastInv' /\ LastSeen'
<1>1. CASE Feed
  BY <1>1, FilterFeed DEF Feed
<1>2. CASE past' = past /\ agg'.last = agg.last
  BY <1>2, Calm DEF PastInv
<1>3. CASE Viewed /\ agg' = ClearCustom(agg)
  <2>1. agg'.last = agg.last
    BY <1>3, SoundNow, ClearSound
  <2> QED BY <2>1, <1>2, <1>3 DEF Viewed
<1>4. ASSUME NEW len \in CustomLens, EnableCustom(len) PROVE PastInv' /\ LastSeen'
  <2>1. agg'.last = agg.last
    BY <1>4, SoundNow, EnableSound DEF EnableCustom
  <2> QED BY <2>1, <1>2, <1>4 DEF EnableCustom, Viewed
<1>5. CASE PanBack \/ PanForward \/ CropIn \/ CropOut
  BY <1>5, <1>2 DEF PanBack, PanForward, CropIn, CropOut, Pressed
<1>6. CASE SymbolSwitched \/ UNCHANGED viewVars
  BY <1>6, <1>2 DEF SymbolSwitched, viewVars, vars
<1>7. CASE CycleTf \/ \E tf \in {"fine", "minute"} : ChooseTf(tf)
  BY <1>3, <1>7 DEF CycleTf, ChooseTf
<1> QED BY <1>1, <1>4, <1>5, <1>6, <1>7 DEF Next

\* A print of the market is refused only after a bad tick that was the last
\* print accepted, or a move beyond the ratio since the last of the market's:
\* no refused tick, switch, rollback, load, replay or drain brings back an
\* older price, and one print of the market that is accepted undoes a bad tick.
THEOREM MarketHeard ==
  Spec => []MarketPricesPass
<1> DEFINE Inv == PastInv /\ LastSeen
<1>1. ViewInit => Inv
  <2>1. NoPast \in Pasts /\ NoPast.seen = NoPrice
    BY NoPastIs
  <2> QED BY <2>1 DEF ViewInit, Init, PastInv, LastSeen
<1>2. IInv /\ Inv /\ [Next]_viewVars => Inv'
  BY FilterNext DEF IInv
<1>3. Inv => MarketPricesPass
  BY DEF LastSeen, MarketPricesPass, liveTradePlausibleLocked
<1> QED BY <1>1, <1>2, <1>3, Always, PTL DEF Spec
-----------------------------------------------------------------------------
(* The frame. *)

LEMMA EmptyRun ==
  ASSUME NEW s, NEW m \in Int
  PROVE  SubSeq(s, m, m - 1) = <<>>
  BY SubSeqEmpty

\* A part of a sequence, by its elements.
LEMMA RunOf ==
  ASSUME NEW S, NEW s \in Seq(S), NEW m \in Nat \ {0}, NEW n \in 0..Len(s), m <= n + 1,
         NEW r \in Seq(S), Len(r) = n - m + 1,
         \A k \in 1..(n - m + 1) : r[k] = s[m + k - 1]
  PROVE  r = SubSeq(s, m, n)
<1>1. Len(s) \in Nat /\ m \in Int /\ n \in Int
  BY LenProperties
<1>2. \A i \in m..n : i \in 1..Len(s)
  BY <1>1
<1>3. \A i \in m..n : s[i] \in S
  BY <1>2, ElementOfSeq
<1> DEFINE q == SubSeq(s, m, n)
<1>4. /\ q \in Seq(S) /\ Len(q) = IF m <= n THEN n - m + 1 ELSE 0
      /\ \A i \in 1..(n - m + 1) : q[i] = s[m + i - 1]
  BY <1>1, <1>3, SubSeqProperties
<1>5. Len(q) = n - m + 1
  BY <1>1, <1>4
<1> HIDE DEF q
<1>6. \A i \in 1..Len(r) : r[i] = q[i]
  BY <1>4
<1>7. r = q
  BY <1>4, <1>5, <1>6, SeqEqual
<1> QED BY <1>7 DEF q

\* What is copied from the ring is a run of the closed candles.
LEMMA CopiedIs ==
  ASSUME NEW T \in SUBSET Prints, NEW s \in SeriesOf(T), NEW m \in Nat, NEW n \in Nat,
         m + n <= s.ring.count
  PROVE  /\ Copied(s, m, n) \in Seq(Candles(T)) /\ Len(Copied(s, m, n)) = n
         /\ \A k \in 1..n : Copied(s, m, n)[k] = Bars(s)[m + k]
<1> DEFINE slot(k) == Cell(s.ring, m + k - 1)
           r == [k \in 1..n |-> IF slot(k) = NoCandle THEN NoCandle ELSE slot(k).bar]
<1>1. Copied(s, m, n) = r
  BY Zenon DEF Copied, Cell
<1>2. /\ s.ring.count \in Nat
      /\ \A j \in 1..s.ring.count : Bars(s)[j] = Cell(s.ring, j - 1).bar
      /\ \A j \in 0..(s.ring.count - 1) : Cell(s.ring, j) \in Entries(T)
  BY BarsAre DEF SeriesOf, Rings
<1>3. ASSUME NEW k \in 1..n
      PROVE  r[k] = Bars(s)[m + k] /\ r[k] \in Candles(T)
  <2>1. /\ m + k \in 1..s.ring.count /\ (m + k) - 1 = m + k - 1
        /\ m + k - 1 \in 0..(s.ring.count - 1)
    BY <1>2
  <2>2. slot(k) \in Entries(T) /\ Bars(s)[m + k] = slot(k).bar
    BY <1>2, <2>1
  <2>3. slot(k) # NoCandle
    BY <2>2, ZeroValue
  <2>4. r[k] = slot(k).bar
    BY <2>3
  <2>5. slot(k).bar \in Candles(T)
    BY <2>2 DEF Entries
  <2> QED BY <2>2, <2>4, <2>5
<1>4. r \in [1..n -> Candles(T)]
  <2>1. \A k \in 1..n : r[k] \in Candles(T)
    BY <1>3
  <2>2. r = [k \in 1..n |-> r[k]]
    OBVIOUS
  <2> HIDE DEF r
  <2> QED BY <2>1, <2>2
<1> HIDE DEF r
<1>5. r \in Seq(Candles(T)) /\ Len(r) = n
  BY <1>4
<1> QED BY <1>1, <1>3, <1>5

\* The arithmetic of the frame: c closed candles, f one that forms or none, w
\* bars asked for, panned back by p.
LEMMA EdgeIs ==
  ASSUME NEW c \in Nat \ {0}, NEW f \in 0..1, NEW w \in Nat \ {0}, NEW p \in Nat,
         NEW back, back = (IF p - f >= c THEN c - 1 ELSE p - f), p >= f,
         NEW right, right = (IF c + f > p THEN c + f - p ELSE 1),
         NEW first, first = (IF right > w THEN right - w + 1 ELSE 1),
         NEW newest, newest = c - 1 - back,
         NEW shown, shown = (IF newest + 1 < w THEN newest + 1 ELSE w)
  PROVE  /\ right \in 1..c /\ right = newest + 1 /\ first \in 1..right
         /\ shown = right - first + 1 /\ shown \in Nat
         /\ newest - shown + 1 = first - 1
<1>1. back \in 0..(c - 1)
  OBVIOUS
<1>2. right = newest + 1
  OBVIOUS
<1>3. right \in 1..c
  BY <1>1, <1>2
<1> QED BY <1>2, <1>3

\* However the series shrinks, shifts and forms under a panned and cropped
\* view, the frame is the run of its candles the offsets ask for, without a
\* gap, an empty slot or a blank, but for the lone forming candle.
THEOREM FrameIsARun ==
  Spec => []FrameShowsHeld
<1>1. ASSUME IInv PROVE FrameShowsHeld
  <2> DEFINE s == agg.series[Shown]
             c == s.ring.count
             B == Bars(s)
             w == Asked
             p == ui.pan
             f == IF s.forming = NoCandle THEN 0 ELSE 1
  <2>1. SUFFICES ASSUME c = 0 => p = 0 PROVE Snapshot(s, w, p) = FrameOf(B)
    BY DEF FrameShowsHeld, Frame
  <2>2. /\ tape \in SUBSET Prints /\ s \in SeriesOf(tape) /\ p \in Nat
        /\ ui.crop \in 0..ChartWidth - 1
    BY <1>1, DepthIs, SoundNow, RingAssumption DEF IInv, ViewInv
  <2>3. w \in Nat \ {0}
    BY <2>2, StepIs DEF Asked
  <2> HIDE DEF s
  <2>4. /\ c \in Nat /\ B \in Seq(Candles(tape)) /\ Len(B) = c + f
        /\ f = 1 => B[c + 1] = s.forming /\ s.forming \in Candles(tape)
    BY <2>2, BarsAre DEF Size, SeriesOf
  <2> DEFINE right == IF Len(B) > p THEN Len(B) - p ELSE Fewer(Len(B), 1)
             first == IF right > w THEN right - w + 1 ELSE 1
  <2>5. FrameOf(B) = SubSeq(B, first, right)
    BY DEF FrameOf
  <2> HIDE DEF B, c, w, p
  <2>6. CASE c = 0 /\ f = 0
    <3>1. Snapshot(s, w, p) = <<>>
      BY <2>6 DEF Snapshot, c
    <3>2. right = 0 /\ first = 1
      BY <2>1, <2>3, <2>4, <2>6 DEF Fewer
    <3>3. SubSeq(B, 1, 0) = <<>>
      BY SubSeqEmpty
    <3> QED BY <3>1, <3>2, <3>3, <2>5
  <2>7. CASE p = 0 /\ f = 1
    <3> DEFINE n == IF c + 1 < w THEN c + 1 ELSE w
               r == Copied(s, c - (n - 1), n - 1)
    <3>1. Snapshot(s, w, p) = Append(r, s.forming)
      <4>1. /\ w > 0 /\ ~(w <= 0 \/ (c = 0 /\ s.forming = NoCandle)) /\ p = 0
            /\ s.forming # NoCandle /\ Fewer(c + 1, w) = n
        BY <2>3, <2>7 DEF Fewer
      <4> HIDE DEF n
      <4> QED BY <4>1 DEF Snapshot, c
    <3>2. /\ n - 1 \in Nat /\ c - (n - 1) \in Nat /\ (c - (n - 1)) + (n - 1) <= c /\ n \in Nat
          /\ right = c + 1 /\ first = c - (n - 1) + 1
      BY <2>3, <2>4, <2>7
    <3> HIDE DEF n, right, first
    <3>3. /\ r \in Seq(Candles(tape)) /\ Len(r) = n - 1
          /\ \A k \in 1..(n - 1) : r[k] = B[c - (n - 1) + k]
      BY <2>2, <3>2, CopiedIs DEF B, c
    <3> HIDE DEF r
    <3> DEFINE q == Append(r, s.forming)
    <3>4. /\ q \in Seq(Candles(tape)) /\ Len(q) = n
          /\ \A k \in 1..(n - 1) : q[k] = r[k]
          /\ q[n] = s.forming
      BY <2>4, <2>7, <3>2, <3>3, AppendProperties
    <3>5. \A k \in 1..n : q[k] = B[c - (n - 1) + k]
      <4>1. SUFFICES ASSUME NEW k \in 1..n PROVE q[k] = B[c - (n - 1) + k]
        OBVIOUS
      <4>2. CASE k = n
        <5>1. c - (n - 1) + n = c + 1
          BY <2>4, <3>2
        <5> QED BY <4>2, <5>1, <3>4, <2>4, <2>7
      <4>3. CASE k # n
        <5>1. k \in 1..(n - 1)
          BY <4>3, <3>2
        <5> QED BY <5>1, <3>3, <3>4
      <4> QED BY <4>2, <4>3
    <3> HIDE DEF q
    <3>6. q = SubSeq(B, first, right)
      <4>1. /\ first \in Nat \ {0} /\ right \in 0..Len(B) /\ first <= right + 1
            /\ right - first + 1 = n /\ \A k \in 1..n : first + k - 1 = c - (n - 1) + k
        BY <2>4, <2>7, <3>2
      <4>2. \A k \in 1..(right - first + 1) : q[k] = B[first + k - 1]
        BY <3>5, <4>1
      <4> QED BY <2>4, <3>4, <4>1, <4>2, RunOf
    <3> QED BY <2>5, <3>1, <3>6 DEF q
  <2>8. CASE ~(c = 0 /\ f = 0) /\ ~(p = 0 /\ f = 1)
    <3> DEFINE back == Back(s, p)
               newest == c - 1 - back
               shown == IF newest + 1 < w THEN newest + 1 ELSE w
               r == Copied(s, newest - shown + 1, shown)
    <3>1. c \in Nat \ {0} /\ f \in 0..1 /\ p \in Nat /\ p >= f
      BY <2>1, <2>2, <2>4, <2>8 DEF p
    <3>2. Snapshot(s, w, p) = r
      <4>1. /\ ~(w <= 0 \/ (c = 0 /\ s.forming = NoCandle))
            /\ ~(w > 0 /\ p = 0 /\ s.forming # NoCandle)
            /\ Fewer(newest + 1, w) = shown
        BY <2>3, <2>8 DEF Fewer
      <4> HIDE DEF shown
      <4> QED BY <4>1 DEF Snapshot, c, back, newest
    <3>3. back = IF p - f >= c THEN c - 1 ELSE p - f
      BY <3>1 DEF Back, c
    <3>4. right = IF c + f > p THEN c + f - p ELSE 1
      BY <2>4, <3>1 DEF Fewer
    <3> HIDE DEF back, right, f
    <3>5. /\ right \in 1..c /\ right = newest + 1 /\ first \in 1..right
          /\ shown = right - first + 1 /\ shown \in Nat
          /\ newest - shown + 1 = first - 1
      BY <2>3, <3>1, <3>3, <3>4, EdgeIs
    <3> HIDE DEF newest, shown, first
    <3>6. /\ r \in Seq(Candles(tape)) /\ Len(r) = shown
          /\ \A k \in 1..shown : r[k] = B[(first - 1) + k]
      <4> DEFINE m == newest - shown + 1
      <4>1. m = first - 1 /\ m \in Nat /\ m + shown <= c
        BY <3>1, <3>5
      <4>2. r = Copied(s, m, shown)
        OBVIOUS
      <4> HIDE DEF m, r
      <4>3. /\ Copied(s, m, shown) \in Seq(Candles(tape)) /\ Len(Copied(s, m, shown)) = shown
            /\ \A k \in 1..shown : Copied(s, m, shown)[k] = B[m + k]
        <5>1. /\ s \in SeriesOf(tape) /\ m \in Nat /\ shown \in Nat /\ m + shown <= s.ring.count
          BY <2>2, <3>5, <4>1 DEF c
        <5> QED BY <5>1, <2>2, CopiedIs DEF B
      <4> QED BY <4>1, <4>2, <4>3
    <3> HIDE DEF r
    <3>7. r = SubSeq(B, first, right)
      <4>1. /\ first \in Nat \ {0} /\ right \in 0..Len(B) /\ first <= right + 1
            /\ right - first + 1 = shown /\ \A k \in 1..shown : first + k - 1 = (first - 1) + k
        BY <2>4, <3>1, <3>5
      <4>2. \A k \in 1..(right - first + 1) : r[k] = B[first + k - 1]
        BY <3>6, <4>1
      <4> QED BY <2>4, <3>6, <4>1, <4>2, RunOf
    <3> QED BY <2>5, <3>2, <3>7
  <2> QED BY <2>6, <2>7, <2>8
<1> QED BY <1>1, Always, PTL
-----------------------------------------------------------------------------
(* The session VWAP. *)

\* b is a after more prints, of those in S: whatever the minute series was
\* handed went into the VWAP first.
Heard(a, b, S) ==
  /\ a.vwap \subseteq b.vwap /\ b.vwap \subseteq a.vwap \cup S
  /\ b.given["minute"] \subseteq a.given["minute"] \cup b.vwap

LEMMA HeardMore ==
  ASSUME NEW a, NEW b, NEW c, NEW S, Heard(a, b, S), Heard(b, c, S)
  PROVE  Heard(a, c, S)
  BY DEF Heard

LEMMA AggregateHeard ==
  ASSUME NEW T, NEW a \in AggsOf(T), NEW ns, NEW i
  PROVE  /\ Aggregate(a, ns, i).vwap = a.vwap /\ Aggregate(a, ns, i).twice = a.twice
         /\ Aggregate(a, ns, i).given["minute"]
              = a.given["minute"] \cup IF "minute" \in ns THEN {i} ELSE {}
<1> DEFINE S == [n \in Names |-> IF n \in ns
                                  THEN foldTrade(a.series[n], Bucket(LenOf(a, n), i.ts), i, a.vwap)
                                  ELSE a.series[n]]
           H == [n \in Names |-> a.given[n] \cup IF n \in ns THEN {i} ELSE {}]
           O == a.odd \cup {n \in ns : OpensLate(a.series[n], Bucket(LenOf(a, n), i.ts))}
<1>1. Aggregate(a, ns, i) = [a EXCEPT !.series = S, !.given = H, !.odd = O]
  BY DEF Aggregate
<1>2. H["minute"] = a.given["minute"] \cup IF "minute" \in ns THEN {i} ELSE {}
  BY NamesAre
<1> HIDE DEF S, H, O
<1> QED BY <1>1, <1>2 DEF AggsOf

\* The prints of S the VWAP has already, of a time after min.
Again(a, S, min) == {i \in S : i \in a.vwap /\ i.ts > min}

LEMMA HeardStep ==
  ASSUME NEW T \in SUBSET Prints, NEW a \in AggsOf(T), NEW i \in T, NEW sub, NEW min
  PROVE  LET c == applyBufferedTradeLocked(a, i, sub, min) IN
         Heard(a, c, {i}) /\ c.twice \subseteq a.twice \cup Again(a, {i}, min)
<1> DEFINE x == VwapUpdate(a, i)
           fm == FedWith(a, "minute")
           b == IF i.ts > min THEN AggregateMinute(a, i) ELSE a
           c == applyBufferedTradeLocked(a, i, sub, min)
<1>1. c = b \/ c = AggregateFine(b, i)
  BY DEF applyBufferedTradeLocked
<1>2. /\ x \in AggsOf(T) /\ x.vwap = a.vwap \cup {i} /\ x.given = a.given
      /\ x.length = a.length /\ x.twice = a.twice \cup ({i} \cap a.vwap)
  BY DEF AggsOf, VwapUpdate
<1>3. /\ fm \in SUBSET Names /\ "minute" \in fm /\ ("custom" \in fm => x.length > 0)
      /\ AggregateMinute(a, i) = Aggregate(x, fm, i)
  <2>1. FedWith(x, "minute") = fm
    BY <1>2 DEF FedWith
  <2> QED BY <1>2, <2>1, FedIs DEF AggregateMinute
<1> HIDE DEF x, fm, c
<1>4. /\ b \in AggsOf(T) /\ Heard(a, b, {i})
      /\ b.twice \subseteq a.twice \cup Again(a, {i}, min)
  <2>1. Aggregate(x, fm, i) \in AggsOf(T)
    BY <1>2, <1>3, AggregateType
  <2>2. Heard(a, Aggregate(x, fm, i), {i}) /\ Aggregate(x, fm, i).twice = x.twice
    BY <1>2, <1>3, AggregateHeard DEF Heard
  <2>3. Heard(a, a, {i})
    BY DEF Heard
  <2>4. i.ts > min => x.twice \subseteq a.twice \cup Again(a, {i}, min)
    BY <1>2 DEF Again
  <2> QED BY <2>1, <2>2, <2>3, <2>4, <1>3
<1> HIDE DEF b
<1>5. Heard(b, AggregateFine(b, i), {i}) /\ AggregateFine(b, i).twice = b.twice
  <2> DEFINE ff == FedWith(b, "fine")
  <2>1. "minute" \notin ff
    BY FedIs, NamesAre
  <2>2. AggregateFine(b, i) = Aggregate(b, ff, i)
    BY DEF AggregateFine
  <2> HIDE DEF ff
  <2> QED BY <2>1, <2>2, <1>4, AggregateHeard DEF Heard
<1>6. Heard(a, AggregateFine(b, i), {i})
  BY <1>4, <1>5, HeardMore
<1>7. Heard(a, c, {i}) /\ c.twice \subseteq a.twice \cup Again(a, {i}, min)
  BY <1>1, <1>4, <1>5, <1>6
<1> QED BY <1>7 DEF c

LEMMA HeardDrain ==
  ASSUME NEW T \in SUBSET Prints, NEW a \in AggsOf(T), NEW sub, NEW min, InOrder(a.buf)
  PROVE  LET c == finishBackfill(a, sub, min) IN
         /\ Heard(a, c, Range(a.buf))
         /\ c.twice \subseteq a.twice \cup Again(a, Range(a.buf), min)
<1> DEFINE N == Len(a.buf)
           P == Range(a.buf)
           D == Again(a, P, min)
           Had(m) == a.vwap \cup {a.buf[k] : k \in 1..m}
<1>0. PICK u : Drains(u, a, sub, min)
  BY DrainRuns
<1>1. /\ finishBackfill(a, sub, min) = u[N] /\ u[0] = Emptied(a)
      /\ \A m \in 1..N : u[m] = applyBufferedTradeLocked(u[m - 1], a.buf[m], sub, min)
  BY <1>0 DEF Drains
<1>2. N \in Nat /\ \A m \in 1..N : a.buf[m] \in T /\ a.buf[m] \in P /\ a.buf[m].n \in Nat
  <2>1. N \in Nat /\ \A m \in 1..N : a.buf[m] \in T /\ a.buf[m] \in P
    BY GivenAre DEF Range
  <2>2. \A j \in T : j.n \in Nat
    BY PrintIs DEF Prints
  <2> QED BY <2>1, <2>2
<1>3. \A m \in 0..N : m < N => m + 1 \in 0..N /\ m + 1 \in 1..N /\ (m + 1) - 1 = m
  BY <1>2
<1>8. ASSUME NEW m \in 0..N, m < N, a.buf[m + 1] \in Had(m) PROVE a.buf[m + 1] \in a.vwap
  <2>1. SUFFICES ASSUME NEW k \in 1..m, a.buf[m + 1] = a.buf[k] PROVE FALSE
    BY <1>8
  <2>2. k \in 1..N /\ m + 1 \in 1..N /\ k < m + 1
    BY <1>2, <1>8
  <2>3. a.buf[k].n < a.buf[m + 1].n
    BY <2>2 DEF InOrder
  <2> QED BY <1>2, <2>1, <2>2, <2>3
<1>9. ASSUME NEW m \in 0..N, m < N PROVE Had(m) \cup {a.buf[m + 1]} \subseteq Had(m + 1)
  <2>1. \A k \in 1..m : k \in 1..(m + 1)
    BY <1>2
  <2>2. m + 1 \in 1..(m + 1)
    BY <1>2
  <2> QED BY <2>1, <2>2
<1>10. a.vwap \subseteq Had(0)
  OBVIOUS
<1> HIDE DEF P, D, Had
<1> DEFINE G == {m \in 0..N : /\ u[m] \in AggsOf(T) /\ Heard(a, u[m], P)
                              /\ u[m].vwap \subseteq Had(m)
                              /\ u[m].twice \subseteq a.twice \cup D}
<1>4. 0 \in G
  <2>1. <<>> \in Seq(T)
    OBVIOUS
  <2>2. /\ Emptied(a) \in AggsOf(T) /\ Emptied(a).vwap = a.vwap /\ Emptied(a).given = a.given
        /\ Emptied(a).twice = a.twice
    BY <2>1 DEF Emptied, AggsOf
  <2>3. Heard(a, Emptied(a), P)
    BY <2>2 DEF Heard
  <2> QED BY <2>2, <2>3, <1>1, <1>2, <1>10
<1>5. ASSUME NEW m \in 0..N, m < N, m \in G PROVE m + 1 \in G
  <2> DEFINE i == a.buf[m + 1]
             b == u[m]
  <2>1. /\ b \in AggsOf(T) /\ Heard(a, b, P) /\ i \in T /\ i \in P
        /\ u[m + 1] = applyBufferedTradeLocked(b, i, sub, min)
        /\ b.vwap \subseteq Had(m) /\ b.twice \subseteq a.twice \cup D
    BY <1>1, <1>2, <1>3, <1>5
  <2>4. i \in Had(m) => i \in a.vwap
    BY <1>5, <1>8
  <2>5. Had(m) \cup {i} \subseteq Had(m + 1)
    BY <1>5, <1>9
  <2> HIDE DEF i, b
  <2>2. /\ u[m + 1] \in AggsOf(T) /\ Heard(b, u[m + 1], {i})
        /\ u[m + 1].twice \subseteq b.twice \cup Again(b, {i}, min)
    BY <2>1, DrainType, HeardStep
  <2>3. Heard(a, u[m + 1], P) /\ u[m + 1].vwap \subseteq Had(m + 1)
    BY <2>1, <2>2, <2>5 DEF Heard
  <2>6. Again(b, {i}, min) \subseteq D
    BY <2>1, <2>4 DEF Again, D
  <2>7. u[m + 1].twice \subseteq a.twice \cup D
    BY <2>1, <2>2, <2>6
  <2> QED BY <2>2, <2>3, <2>7, <1>3, <1>5
<1>6. \A m \in 0..N : m \in G
  <2> HIDE DEF G
  <2> QED BY <1>2, <1>4, <1>5, Induction
<1>7. N \in 0..N
  BY <1>2
<1> QED BY <1>1, <1>6, <1>7 DEF P, D

\* What b's buffer holds: print i, or what a's held.
Queued(a, b, i) ==
  \A k \in 1..Len(b.buf) : b.buf[k] = i \/ \E j \in 1..Len(a.buf) : b.buf[k] = a.buf[j]

LEMMA HeardTrade ==
  ASSUME NEW T \in SUBSET Prints, NEW a, NEW sub, NEW min, Sound(a, T, sub, min),
         NEW i \in Prints, NEW px \in Prices
  PROVE  LET b == OnTrade(a, i, px) IN
         /\ Heard(a, b, {i}) /\ Queued(a, b, i)
         /\ i \notin a.vwap => b.twice = a.twice /\ (b.buf = <<>> \/ b.vwap = a.vwap)
<1> DEFINE U == T \cup {i}
           b == OnTrade(a, i, px)
           p == liveTradePlausibleLocked(a, px)
<1>1. a \in AggsOf(U) /\ a \in AggsOf(T)
  BY GoodWider DEF Sound, Good
<1>2. Heard(a, a, {i})
  BY DEF Heard
<1>3. CASE ~p
  BY <1>2, <1>3 DEF OnTrade, Refused, Queued
<1>4. CASE p /\ a.buffering
  <2>1. b = [a EXCEPT !.last = px, !.buf = Append(@, i)]
    BY <1>4 DEF OnTrade
  <2>2. /\ b.vwap = a.vwap /\ b.given = a.given /\ b.buf = Append(a.buf, i)
        /\ b.twice = a.twice
    BY <2>1, <1>1 DEF AggsOf
  <2>3. Heard(a, b, {i})
    BY <2>2 DEF Heard
  <2> HIDE DEF b
  <2>4. a.buf \in Seq(U) /\ Len(a.buf) \in Nat /\ i \in U
    BY <1>1, GivenAre
  <2>5. /\ Len(b.buf) = Len(a.buf) + 1 /\ b.buf[Len(a.buf) + 1] = i
        /\ \A k \in 1..Len(a.buf) : b.buf[k] = a.buf[k]
    BY <2>2, <2>4, AppendProperties
  <2>6. \A k \in 1..Len(b.buf) : k \in 1..Len(a.buf) \/ k = Len(a.buf) + 1
    BY <2>4, <2>5
  <2>7. Queued(a, b, i)
    BY <2>5, <2>6 DEF Queued
  <2> QED BY <2>2, <2>3, <2>7 DEF b
<1>5. CASE p /\ ~a.buffering
  <2> DEFINE c == [a EXCEPT !.last = px]
  <2>1. b = applyTradeLocked(c, i)
    BY <1>5 DEF OnTrade
  <2>2. /\ c \in AggsOf(U) /\ c.vwap = a.vwap /\ c.given = a.given /\ c.buf = a.buf
        /\ c.twice = a.twice
    BY <1>1 DEF AggsOf
  <2> HIDE DEF c
  <2>3. b = applyBufferedTradeLocked(c, i, 0, 0)
    <3>1. i.ts > 0
      BY PrintIs
    <3> QED BY <2>1, <3>1 DEF applyTradeLocked, applyBufferedTradeLocked
  <2>4. Heard(c, b, {i}) /\ b.twice \subseteq c.twice \cup Again(c, {i}, 0)
    <3>1. U \in SUBSET Prints /\ i \in U
      OBVIOUS
    <3>2. c \in AggsOf(U) /\ 0 \in Nat
      BY <2>2
    <3> DEFINE e == applyBufferedTradeLocked(c, i, 0, 0)
    <3> HIDE DEF U, b
    <3>3. Heard(c, e, {i}) /\ e.twice \subseteq c.twice \cup Again(c, {i}, 0)
      BY <3>1, <3>2, HeardStep
    <3> QED BY <2>3, <3>3
  <2>5. Heard(a, b, {i})
    BY <2>2, <2>4 DEF Heard
  <2> DEFINE d == VwapUpdate(c, i)
             e == AggregateMinute(c, i)
             fm == FedWith(d, "minute")
             ff == FedWith(e, "fine")
  <2>8. d.buf = c.buf /\ c.twice \subseteq d.twice /\ d \in AggsOf(U)
    BY <2>2 DEF VwapUpdate, AggsOf
  <2>9. e = Aggregate(d, fm, i) /\ b = Aggregate(e, ff, i)
    <3>1. fm = FedWith(c, "minute")
      BY <2>2 DEF FedWith, VwapUpdate, AggsOf
    <3> QED BY <2>1, <3>1 DEF applyTradeLocked, AggregateFine, AggregateMinute
  <2> HIDE DEF d, e, fm, ff, b
  <2>10. e.buf = d.buf /\ e.twice = d.twice /\ b.buf = e.buf /\ b.twice = e.twice
    <3>1. DOMAIN d = DOMAIN e
      BY <2>9 DEF Aggregate
    <3>2. "buf" \in DOMAIN d /\ "twice" \in DOMAIN d
      BY <2>8 DEF AggsOf
    <3> QED BY <2>9, <3>1, <3>2 DEF Aggregate
  <2>6. b.buf = <<>>
    <3>1. a.buf = <<>>
      BY <1>5 DEF Sound
    <3> QED BY <2>2, <2>8, <2>10, <3>1
  <2>11. i \notin a.vwap => b.twice = a.twice
    <3>1. Again(c, {i}, 0) = {} \/ i \in a.vwap
      BY <2>2 DEF Again
    <3>2. b.twice = d.twice /\ c.twice \subseteq d.twice /\ c.twice = a.twice
      BY <2>2, <2>8, <2>10
    <3>3. b.twice \subseteq c.twice \cup Again(c, {i}, 0)
      BY <2>4
    <3> HIDE DEF c, U, p
    <3> QED BY <3>1, <3>2, <3>3
  <2>7. Queued(a, b, i)
    BY <2>6 DEF Queued
  <2> QED BY <2>5, <2>6, <2>7, <2>11 DEF b
<1> QED BY <1>3, <1>4, <1>5

\* A candle's window is that of each of its prints.
LEMMA WindowOfBucket ==
  ASSUME NEW t \in Nat
  PROVE  /\ WindowOf(Bucket(MinuteLen, t)) = WindowOf(t)
         /\ Bucket(MinuteLen, t) \in 0..t
<1> DEFINE S == SessionLen
           b == Bucket(MinuteLen, t)
           q == t \div S
<1>1. /\ S \in Nat \ {0} /\ MinuteLen \in Nat \ {0} /\ S % MinuteLen = 0
  BY BarsAssumption
<1> HIDE DEF S
<1>2. b \in 0..t
  BY <1>1, BucketIs
<1>3. q \in Nat /\ Bucket(S, t) = S * q
  BY <1>1, BucketIs, DivMod
<1>4. Bucket(S, b) = S * q
  BY <1>1, <1>3, BucketNested
<1> HIDE DEF q, b
<1>5. b \in Nat
  BY <1>2
<1>6. Bucket(S, b) \in 0..b /\ Bucket(S, b) \in Nat
  <2>1. Bucket(S, b) \in 0..b
    BY <1>1, <1>5, BucketIs
  <2> QED BY <2>1, <1>5
<1>7. (Bucket(S, b)) \div S = q
  <2>1. 0 \in 0..(S - 1)
    BY <1>1
  <2>2. (S * q + 0) \div S = q
    BY <1>1, <1>3, <2>1, Uniq
  <2> DEFINE m == S * q
  <2>3. m \in Nat
    BY <1>4, <1>6
  <2>4. m + 0 = m
    <3> HIDE DEF m
    <3> QED BY <2>3
  <2> QED BY <1>4, <2>2, <2>4
<1>8. q <= b \div S
  <2> DEFINE m == Bucket(S, b)
  <2>1. m \in Nat /\ m <= b /\ m \div S = q
    BY <1>5, <1>6, <1>7
  <2> HIDE DEF m
  <2> QED BY <1>1, <1>5, <2>1, DivMonotone
<1>9. b \div S <= t \div S
  BY <1>1, <1>2, <1>5, DivMonotone
<1>10. b \div S \in Nat
  BY <1>1, <1>5, DivMod
<1>11. b \div S = t \div S
  BY <1>3, <1>8, <1>9, <1>10 DEF q
<1> QED BY <1>2, <1>11 DEF WindowOf, S, b

\* What the VWAP is seeded with: the history's prints of the window of its last
\* candle, and so every one of the present window.
LEMMA SeedIs ==
  ASSUME NEW T \in SUBSET Prints, NEW h \in Seq(Candles(T)), h # <<>>,
         Complete(h, PrintsIn(h), MinuteLen), now \in Nat, \A i \in T : i.ts <= now
  PROVE  /\ \A i \in sessVWAP(h) : WindowOf(i.ts) = WindowOf(Last(h).start)
         /\ \A i \in PrintsIn(h) : WindowOf(i.ts) = WindowOf(now) => i \in sessVWAP(h)
<1> DEFINE N == Len(h)
           w == WindowOf(Last(h).start)
<1>1. /\ N \in Nat \ {0} /\ Last(h) = h[N] /\ DOMAIN h = 1..N /\ N \in 1..N
      /\ \A k \in 1..N : h[k].prints \in SUBSET T /\ h[k].start \in Nat
  <2>1. N \in Nat /\ DOMAIN h = 1..N /\ (N = 0 => h = <<>>)
    BY LenProperties, EmptySeq
  <2> QED BY <2>1, CandleSeq DEF Last
<1>2. \A i : i \in PrintsIn(h) <=> \E k \in 1..N : i \in h[k].prints
  BY InSome
<1>3. \A i : i \in sessVWAP(h) <=> \E k \in 1..N : i \in h[k].prints /\ WindowOf(h[k].start) = w
  BY <1>1 DEF sessVWAP
<1> HIDE DEF N
<1>4. ASSUME NEW i, NEW k \in 1..N, i \in h[k].prints
      PROVE  i \in T /\ i.ts \in Nat /\ i.ts <= now
             /\ h[k].start = Bucket(MinuteLen, i.ts) /\ WindowOf(h[k].start) = WindowOf(i.ts)
  <2>1. i \in T /\ i \in Prints
    BY <1>1, <1>4
  <2>2. i.ts \in Nat /\ i.ts <= now
    BY <2>1, PrintIs
  <2>3. h[k].start = Bucket(MinuteLen, i.ts)
    BY <1>2, <1>4 DEF Complete, N
  <2> DEFINE t == i.ts
  <2>4. WindowOf(Bucket(MinuteLen, t)) = WindowOf(t)
    <3> HIDE DEF t
    <3>1. t \in Nat
      BY <2>2 DEF t
    <3> QED BY <3>1, WindowOfBucket
  <2> QED BY <2>1, <2>2, <2>3, <2>4
<1>5. ASSUME NEW i \in sessVWAP(h) PROVE WindowOf(i.ts) = w
  BY <1>3, <1>4
<1>6. ASSUME NEW i \in PrintsIn(h), WindowOf(i.ts) = WindowOf(now) PROVE i \in sessVWAP(h)
  <2>1. PICK k \in 1..N : i \in h[k].prints
    BY <1>2
  <2>2. WindowOf(h[k].start) = WindowOf(now)
    BY <1>4, <1>6, <2>1
  <2>3. PICK j : j \in h[N].prints
    BY <1>1 DEF Complete, N
  <2>4. h[N].start <= now
    <3>1. j.ts \in Nat /\ j.ts <= now /\ h[N].start = Bucket(MinuteLen, j.ts)
      BY <1>1, <1>4, <2>3
    <3> DEFINE t == j.ts
               b == h[N].start
    <3>2. t \in Nat /\ t <= now /\ b = Bucket(MinuteLen, t)
      BY <3>1
    <3> HIDE DEF t, b
    <3>3. b \in 0..t
      BY <3>2, WindowOfBucket
    <3>4. b <= now
      BY <3>2, <3>3
    <3> QED BY <3>4 DEF b
  <2>5. h[k].start <= h[N].start
    <3>1. CASE k = N
      BY <3>1, <1>1
    <3>2. CASE k # N
      <4>1. k < N
        BY <3>2, <1>1
      <4>2. h[k].start < h[N].start
        BY <4>1, <1>1 DEF Complete, Ascends, N
      <4> QED BY <4>2, <1>1
    <3> QED BY <3>1, <3>2
  <2> DEFINE x == h[k].start
             y == h[N].start
  <2>6. x \in Nat /\ y \in Nat /\ x <= y /\ y <= now
    BY <1>1, <2>4, <2>5
  <2>7. WindowOf(x) = WindowOf(now) /\ w = WindowOf(y)
    BY <1>1, <2>2
  <2> HIDE DEF x, y, w
  <2>8. WindowOf(x) <= WindowOf(y) /\ WindowOf(y) <= WindowOf(now)
        /\ WindowOf(x) \in Nat /\ WindowOf(y) \in Nat
    BY <2>6, WindowGrows
  <2>9. WindowOf(x) = WindowOf(y)
    BY <2>7, <2>8
  <2> QED BY <1>3, <2>1, <2>7, <2>9 DEF x
<1> QED BY <1>5, <1>6

\* The windows' part of the invariant.
TapeTimed == \A i \in tape : i.ts <= now

NoneMissing ==
  \A i \in agg.given["minute"] :
    WindowOf(i.ts) = WindowOf(now) => i \in agg.vwap \cup past.early

HeldOver ==
  watched = WindowOf(now) =>
    \A k \in 1..Len(agg.buf) : agg.buf[k] \in past.over \/ WindowOf(agg.buf[k].at) = watched

NoneOld ==
  watched = WindowOf(now) /\ ~past.carried =>
    \A i \in agg.vwap \ past.over :
      WindowOf(i.ts) = watched \/ WindowOf(i.at) # WindowOf(i.ts)

\* Nothing the buffer holds is in the VWAP, but for what the bars of the
\* backfill under way brought.
NoneDoubled ==
  /\ agg.twice \subseteq past.overlap
  /\ \A k \in 1..Len(agg.buf) : agg.buf[k] \in agg.vwap =>
       /\ fetch.at \in {"trades", "drain"}
       /\ ~(agg.buf[k].ts > fetch.reqEnd) \/ agg.buf[k] \in past.overlap

VwapInv == TapeTimed /\ NoneMissing /\ HeldOver /\ NoneOld /\ NoneDoubled

LEMMA VwapTick ==
  ASSUME FeedInv, VwapInv, Tick
  PROVE  VwapInv'
<1>1. /\ now' = now + 1 /\ now \in Nat /\ now' \in Nat /\ tape \in SUBSET Prints
      /\ UNCHANGED <<tape, agg, past, watched, fetch>>
  BY SoundNow, CutoffsAre DEF Tick
<1>2. \A i \in tape : i.ts \in Nat /\ i.ts <= now /\ i.ts <= now'
  <2>1. \A i \in tape : i.ts \in Nat
    BY <1>1, PrintIs
  <2> QED BY <1>1, <2>1 DEF VwapInv, TapeTimed
<1>3. WindowOf(now) <= WindowOf(now') /\ WindowOf(now) \in Nat /\ WindowOf(now') \in Nat
  BY <1>1, WindowGrows
<1>4. watched \in 0..WindowOf(now)
  BY DEF FeedInv
<1>5. watched' = WindowOf(now') => WindowOf(now') = WindowOf(now)
  BY <1>1, <1>3, <1>4
<1>6. HeldOver' /\ NoneOld'
  BY <1>1, <1>5 DEF VwapInv, HeldOver, NoneOld
<1>7. NoneMissing'
  <2>1. SUFFICES ASSUME NEW i \in agg.given["minute"], WindowOf(i.ts) = WindowOf(now')
                 PROVE  i \in agg.vwap \cup past.early
    BY <1>1 DEF NoneMissing
  <2>2. i \in tape
    BY SoundNow, GivenAre, NamesAre
  <2> DEFINE t == i.ts
  <2>3. t \in Nat /\ t <= now /\ WindowOf(t) = WindowOf(now')
    BY <1>2, <2>1, <2>2
  <2>4. WindowOf(t) = WindowOf(now)
    <3> HIDE DEF t
    <3>1. WindowOf(t) <= WindowOf(now)
      BY <1>1, <2>3, WindowGrows
    <3> QED BY <3>1, <2>3, <1>3
  <2> QED BY <2>1, <2>4 DEF VwapInv, NoneMissing
<1>8. TapeTimed'
  BY <1>1, <1>2 DEF TapeTimed
<1>9. NoneDoubled'
  BY <1>1 DEF VwapInv, NoneDoubled
<1> QED BY <1>6, <1>7, <1>8, <1>9 DEF VwapInv

LEMMA VwapReport ==
  ASSUME FeedInv, PastInv, VwapInv, Report
  PROVE  VwapInv'
<1>1. PICK ts \in 1..now, px \in Prices, heard \in BOOLEAN :
        LET i == [n |-> Cardinality(tape) + 1, ts |-> ts, at |-> now, px |-> px]
        IN /\ tape' = tape \cup {i}
           /\ agg' = IF heard THEN OnTrade(agg, i, px) ELSE agg
           /\ past' = Judged(px, heard /\ liveTradePlausibleLocked(agg, px))
  BY ZenonT(20) DEF Report, Judged
<1> DEFINE i == [n |-> Cardinality(tape) + 1, ts |-> ts, at |-> now, px |-> px]
           p == heard /\ liveTradePlausibleLocked(agg, px)
           fools == px # market
           sees == IF px = market THEN px ELSE past.seen
<1>2. /\ tape' = tape \cup {i} /\ agg' = IF heard THEN OnTrade(agg, i, px) ELSE agg
      /\ past' = past \/ past' = [past EXCEPT !.fooled = fools, !.seen = sees]
  <2>1. past' = IF p THEN [past EXCEPT !.fooled = fools, !.seen = sees] ELSE past
    BY <1>1, Zenon DEF Judged
  <2> QED BY <1>1, <2>1, Zenon
<1>3. past'.early = past.early /\ past'.over = past.over /\ past'.overlap = past.overlap
  <2> HIDE DEF fools, sees
  <2> QED BY <1>2 DEF PastInv, Pasts
<1>4. past'.carried = past.carried
  <2> HIDE DEF fools, sees
  <2> QED BY <1>2, Zenon DEF PastInv, Pasts
<1>5. /\ i \in Prints /\ i.at = now /\ i.ts <= now
  <2>1. Cardinality(tape) \in Nat
    BY FS_CardinalityType DEF FeedInv, Numbered
  <2>2. now \in 1..MaxTime /\ ts \in 1..MaxTime /\ ts <= now
    BY BarsAssumption DEF FeedInv
  <2> QED BY <2>1, <2>2 DEF Prints
<1>6. now' = now /\ watched' = watched /\ fetch' = fetch
  BY DEF Report
<1>12. i \notin agg.vwap
  <2>1. agg \in AggsOf(tape) /\ i.n = Cardinality(tape) + 1 /\ Cardinality(tape) \in Nat
    BY SoundNow, FS_CardinalityType DEF FeedInv, Numbered
  <2> HIDE DEF i
  <2>2. \A j \in tape : j.n < i.n
    BY <1>5, <2>1, NumberedNext DEF FeedInv
  <2>3. \A j \in tape : j.n \in Nat
    BY SoundNow DEF Prints
  <2> QED BY <2>1, <2>2, <2>3 DEF AggsOf
<1> HIDE DEF i, p, fools, sees
<1>7. /\ Heard(agg, agg', {i}) /\ Queued(agg, agg', i)
      /\ agg'.twice = agg.twice /\ (agg'.buf = <<>> \/ agg'.vwap = agg.vwap)
  <2>1. CASE heard
    <3> DEFINE b == OnTrade(agg, i, px)
    <3>1. /\ Heard(agg, b, {i}) /\ Queued(agg, b, i)
          /\ b.twice = agg.twice /\ (b.buf = <<>> \/ b.vwap = agg.vwap)
      <4>1. tape \in SUBSET Prints /\ Sound(agg, tape, TradesTo, BarsTo)
        BY SoundNow
      <4> QED BY <1>5, <1>12, <4>1, HeardTrade
    <3>2. agg' = b
      BY <2>1, <1>2
    <3> HIDE DEF b
    <3> QED BY <3>1, <3>2
  <2>2. CASE ~heard
    <3>1. agg' = agg
      BY <2>2, <1>2
    <3> QED BY <3>1 DEF Heard, Queued
  <2> QED BY <2>1, <2>2
<1>8. TapeTimed'
  BY <1>2, <1>5, <1>6 DEF VwapInv, TapeTimed
<1>9. NoneMissing'
  BY <1>3, <1>6, <1>7 DEF VwapInv, NoneMissing, Heard
<1>10. HeldOver'
  <2>1. SUFFICES ASSUME watched = WindowOf(now), NEW k \in 1..Len(agg'.buf)
                 PROVE  agg'.buf[k] \in past.over \/ WindowOf(agg'.buf[k].at) = watched
    BY <1>3, <1>6 DEF HeldOver
  <2>2. CASE agg'.buf[k] = i
    BY <2>1, <2>2, <1>5
  <2>3. CASE \E j \in 1..Len(agg.buf) : agg'.buf[k] = agg.buf[j]
    BY <2>1, <2>3 DEF VwapInv, HeldOver
  <2> QED BY <2>2, <2>3, <1>7 DEF Queued
<1>11. NoneOld'
  <2>1. SUFFICES ASSUME watched = WindowOf(now), ~past.carried, NEW j \in agg'.vwap \ past.over
                 PROVE  WindowOf(j.ts) = watched \/ WindowOf(j.at) # WindowOf(j.ts)
    BY <1>3, <1>4, <1>6 DEF NoneOld
  <2>2. CASE j = i
    BY <2>1, <2>2, <1>5
  <2>3. CASE j \in agg.vwap
    BY <2>1, <2>3 DEF VwapInv, NoneOld
  <2> QED BY <2>1, <2>2, <2>3, <1>7 DEF Heard
<1>13. NoneDoubled'
  <2>1. agg'.twice \subseteq past'.overlap
    BY <1>3, <1>7 DEF VwapInv, NoneDoubled
  <2>2. SUFFICES ASSUME NEW k \in 1..Len(agg'.buf), agg'.buf[k] \in agg'.vwap
                 PROVE  /\ fetch.at \in {"trades", "drain"}
                        /\ ~(agg'.buf[k].ts > fetch.reqEnd) \/ agg'.buf[k] \in past.overlap
    BY <1>3, <1>6, <2>1 DEF NoneDoubled
  <2>3. agg'.vwap = agg.vwap
    <3>1. agg'.buf # <<>>
      BY <2>2
    <3> QED BY <1>7, <3>1
  <2>4. PICK j \in 1..Len(agg.buf) : agg'.buf[k] = agg.buf[j]
    BY <1>7, <1>12, <2>2, <2>3 DEF Queued
  <2> QED BY <2>2, <2>3, <2>4 DEF VwapInv, NoneDoubled
<1> QED BY <1>8, <1>9, <1>10, <1>11, <1>13 DEF VwapInv

\* A drain adds to the VWAP what the buffer held.
LEMMA VwapDrain ==
  ASSUME FeedInv, VwapInv, NEW sub, NEW min, agg' = finishBackfill(agg, sub, min),
         fetch.at \in {"trades", "drain"} => min = fetch.reqEnd,
         agg'.buf = <<>>, UNCHANGED <<now, tape, watched, past>>
  PROVE  VwapInv'
<1>1. /\ Heard(agg, agg', Range(agg.buf))
      /\ agg'.twice \subseteq agg.twice \cup Again(agg, Range(agg.buf), min)
  BY SoundNow, HeardDrain DEF Sound
<1>6. DOMAIN agg.buf = 1..Len(agg.buf)
  <2>1. agg.buf \in Seq(tape)
    BY SoundNow, GivenAre
  <2> QED BY <2>1
<1>2. TapeTimed' /\ NoneMissing'
  BY <1>1 DEF VwapInv, TapeTimed, NoneMissing, Heard
<1>3. \A k : k \notin 1..Len(agg'.buf)
  OBVIOUS
<1>4. HeldOver'
  BY <1>3 DEF HeldOver
<1>5. NoneOld'
  <2>1. SUFFICES ASSUME watched = WindowOf(now), ~past.carried, NEW j \in agg'.vwap \ past.over
                 PROVE  WindowOf(j.ts) = watched \/ WindowOf(j.at) # WindowOf(j.ts)
    BY DEF NoneOld
  <2>2. CASE j \in agg.vwap
    BY <2>1, <2>2 DEF VwapInv, NoneOld
  <2>3. CASE j \in Range(agg.buf)
    <3>2. PICK k \in 1..Len(agg.buf) : j = agg.buf[k]
      BY <2>3, <1>6 DEF Range
    <3>3. WindowOf(j.at) = watched
      BY <2>1, <3>2 DEF VwapInv, HeldOver
    <3> QED BY <3>3
  <2> QED BY <2>1, <2>2, <2>3, <1>1 DEF Heard
<1>7. NoneDoubled'
  <2>1. ASSUME NEW i \in Again(agg, Range(agg.buf), min) PROVE i \in past.overlap
    <3>1. i \in Range(agg.buf) /\ i \in agg.vwap /\ i.ts > min
      BY DEF Again
    <3>2. PICK k \in 1..Len(agg.buf) : i = agg.buf[k]
      BY <3>1, <1>6 DEF Range
    <3> QED BY <3>1, <3>2 DEF VwapInv, NoneDoubled
  <2>2. agg.twice \subseteq past.overlap
    BY DEF VwapInv, NoneDoubled
  <2> QED BY <1>1, <1>3, <2>1, <2>2 DEF NoneDoubled
<1> QED BY <1>2, <1>4, <1>5, <1>7 DEF VwapInv

LEMMA VwapSame ==
  ASSUME VwapInv, UNCHANGED <<now, tape, watched>>,
         past'.early = past.early, past'.over = past.over, past'.carried = past.carried,
         past'.overlap = past.overlap, agg'.twice = agg.twice,
         fetch.at \in {"trades", "drain"} =>
           fetch'.at \in {"trades", "drain"} /\ fetch'.reqEnd = fetch.reqEnd,
         agg'.vwap = agg.vwap, agg'.given["minute"] = agg.given["minute"],
         agg'.buf = agg.buf \/ agg'.buf = <<>>
  PROVE  VwapInv'
<1>1. TapeTimed' /\ NoneMissing' /\ NoneOld'
  BY DEF VwapInv, TapeTimed, NoneMissing, NoneOld
<1>2. HeldOver'
  <2>1. CASE agg'.buf = agg.buf
    BY <2>1 DEF VwapInv, HeldOver
  <2>2. CASE agg'.buf = <<>>
    <3>1. \A k : k \notin 1..Len(agg'.buf)
      BY <2>2
    <3> QED BY <3>1 DEF HeldOver
  <2> QED BY <2>1, <2>2
<1>3. NoneDoubled'
  <2>1. CASE agg'.buf = agg.buf
    BY <2>1 DEF VwapInv, NoneDoubled
  <2>2. CASE agg'.buf = <<>>
    <3>1. \A k : k \notin 1..Len(agg'.buf)
      BY <2>2
    <3> QED BY <3>1 DEF VwapInv, NoneDoubled
  <2> QED BY <2>1, <2>2
<1> QED BY <1>1, <1>2, <1>3 DEF VwapInv

LEMMA VwapReset ==
  ASSUME tape' = {}, past' = NoPast, agg'.vwap = {}, agg'.given["minute"] = {},
         agg'.buf = <<>>, agg'.twice = {}
  PROVE  VwapInv'
<1>1. TapeTimed' /\ NoneMissing' /\ NoneOld'
  BY DEF TapeTimed, NoneMissing, NoneOld
<1>2. \A k : k \notin 1..Len(agg'.buf)
  OBVIOUS
<1>3. HeldOver'
  BY <1>2 DEF HeldOver
<1>4. NoneDoubled'
  BY <1>2 DEF NoneDoubled
<1> QED BY <1>1, <1>3, <1>4 DEF VwapInv

LEMMA VwapOtherTape ==
  ASSUME FeedInv, SwitchOpen \/ RollBack
  PROVE  VwapInv'
<1> DEFINE b == ResetVWAP(ResetMarket(agg))
<1>1. /\ agg' = BeginBackfill(b) \/ agg' = b
      /\ tape' = {} /\ past' = NoPast
  BY DEF SwitchOpen, RollBack, OtherTape
<1>2. /\ b.vwap = {} /\ b.given = [n \in Names |-> {}] /\ b.buffering = FALSE
      /\ b.buf = <<>> /\ b.twice = {}
  BY SoundNow DEF ResetVWAP, ResetMarket, AggsOf
<1>3. b \in AggsOf({})
  <2>1. {} \in SUBSET Prints
    OBVIOUS
  <2> QED BY <2>1, SoundNow, ResetSound DEF Sound, Good
<1>4. b.given["minute"] = {}
  BY <1>2, NamesAre
<1> HIDE DEF b
<1>5. /\ BeginBackfill(b).vwap = {} /\ BeginBackfill(b).given = b.given
      /\ BeginBackfill(b).buf = <<>> /\ BeginBackfill(b).twice = {}
  BY <1>2, <1>3 DEF BeginBackfill, AggsOf
<1>6. agg'.vwap = {} /\ agg'.given = b.given /\ agg'.buf = <<>> /\ agg'.twice = {}
  BY <1>1, <1>2, <1>5
<1> QED BY <1>1, <1>4, <1>6, VwapReset

LEMMA VwapLoad ==
  ASSUME FeedInv, VwapInv, PastInv, LoadBars
  PROVE  VwapInv'
<1>5. PICK served \in Nat : Serves(served)
  BY LoadServed
<1> DEFINE h == RestBars(served)
           c == WindowOf(Last(h).start) # WindowOf(now)
           o == {i \in tape : i.ts > fetch.reqEnd /\ i.ts <= served}
<1>1. /\ agg' = IF h = <<>> THEN agg ELSE Load(agg, h)
      /\ past' = IF h = <<>> THEN past
                 ELSE [past EXCEPT !.early = {}, !.carried = c, !.overlap = o]
  BY <1>5, Zenon DEF Serves
<1>6. /\ UNCHANGED <<now, tape, watched>>
      /\ fetch.at = "bars" /\ fetch'.at = "trades" /\ fetch'.reqEnd = fetch.reqEnd
  <2>1. fetch \in Fetches(now)
    BY DEF FeedInv
  <2> QED BY <2>1 DEF LoadBars, Fetches
<1>2. /\ h \in Seq(Candles(tape)) /\ Complete(h, PrintsIn(h), MinuteLen)
      /\ \A i \in PrintsIn(h) : i.ts <= served
  BY RestBarsAre DEF FeedInv
<1> HIDE DEF h
<1>3. CASE h = <<>>
  <2>1. agg' = agg /\ past' = past
    BY <1>1, <1>3
  <2> QED BY <2>1, <1>1, <1>6, VwapSame
<1>4. CASE h # <<>>
  <2>1. /\ agg' = Load(agg, h) /\ past' = [past EXCEPT !.early = {}, !.carried = c, !.overlap = o]
    BY <1>1, <1>4
  <2>2. /\ agg'.vwap = sessVWAP(h) /\ agg'.given["minute"] = PrintsIn(h)
        /\ agg'.buf = agg.buf /\ agg'.twice = {}
    <3>1. tape \in SUBSET Prints /\ Good(agg, tape)
      BY SoundNow
    <3> QED BY <3>1, <2>1, <1>2, LoadIs DEF Reloaded, SameRest
  <2>3. past'.early = {} /\ past'.over = past.over /\ past'.overlap = o
    <3> HIDE DEF c, o
    <3> QED BY <2>1 DEF PastInv, Pasts
  <2>4. past'.carried <=> c
    <3> HIDE DEF c, o
    <3> QED BY <2>1, Zenon DEF PastInv, Pasts
  <2>5. /\ \A i \in sessVWAP(h) : WindowOf(i.ts) = WindowOf(Last(h).start)
        /\ \A i \in PrintsIn(h) : WindowOf(i.ts) = WindowOf(now) => i \in sessVWAP(h)
    <3>1. tape \in SUBSET Prints /\ now \in Nat /\ \A i \in tape : i.ts <= now
      BY SoundNow, CutoffsAre DEF VwapInv, TapeTimed
    <3> QED BY <3>1, <1>2, <1>4, SeedIs
  <2>6. TapeTimed' /\ HeldOver'
    BY <1>6, <2>2, <2>3 DEF VwapInv, TapeTimed, HeldOver
  <2>7. NoneMissing'
    BY <1>6, <2>2, <2>5 DEF NoneMissing
  <2>8. NoneOld'
    BY <1>6, <2>2, <2>4, <2>5 DEF NoneOld
  <2>9. NoneDoubled'
    <3>1. SUFFICES ASSUME NEW k \in 1..Len(agg.buf), agg.buf[k] \in sessVWAP(h),
                          agg.buf[k].ts > fetch.reqEnd
                   PROVE  agg.buf[k] \in o
      BY <1>6, <2>2, <2>3 DEF NoneDoubled
    <3>2. agg.buf[k] \in tape
      BY SoundNow, GivenAre
    <3>3. sessVWAP(h) \subseteq PrintsIn(h)
      BY DEF sessVWAP, PrintsIn, Range
    <3> QED BY <1>2, <3>1, <3>2, <3>3
  <2> QED BY <2>6, <2>7, <2>8, <2>9 DEF VwapInv
<1> QED BY <1>3, <1>4

LEMMA VwapWatch ==
  ASSUME FeedInv, VwapInv, PastInv, WatchSession
  PROVE  VwapInv'
<1>1. /\ agg' = ResetVWAP(agg) /\ watched' = WindowOf(now)
      /\ past' = [past EXCEPT !.early = @ \cup agg.vwap, !.over = Range(agg.buf),
                              !.carried = FALSE]
      /\ UNCHANGED <<now, tape, fetch>> /\ watched # WindowOf(now)
  BY DEF WatchSession
<1>2. agg'.vwap = {} /\ agg'.given = agg.given /\ agg'.buf = agg.buf /\ agg'.twice = {}
  BY <1>1, SoundNow DEF ResetVWAP, AggsOf
<1>3. past'.early = past.early \cup agg.vwap /\ past'.over = Range(agg.buf)
  BY <1>1 DEF PastInv, Pasts
<1>4. TapeTimed' /\ NoneMissing' /\ NoneOld'
  BY <1>1, <1>2, <1>3 DEF VwapInv, TapeTimed, NoneMissing, NoneOld
<1>5. \A k \in 1..Len(agg.buf) : agg.buf[k] \in Range(agg.buf)
  <2>1. agg.buf \in Seq(tape)
    BY SoundNow, GivenAre
  <2> QED BY <2>1 DEF Range
<1>6. HeldOver'
  BY <1>2, <1>3, <1>5 DEF HeldOver
<1>7. NoneDoubled'
  BY <1>2 DEF NoneDoubled
<1> QED BY <1>4, <1>6, <1>7 DEF VwapInv

LEMMA VwapFeed ==
  ASSUME FeedInv, PastInv, VwapInv, FeedNext
  PROVE  VwapInv'
<1>1. tape \in SUBSET Prints /\ Good(agg, tape) /\ Sound(agg, tape, TradesTo, BarsTo)
      /\ agg \in AggsOf(tape)
  BY SoundNow
<1>2. CASE Gap
  <2>1. UNCHANGED <<now, tape, watched, past, agg, fetch>>
    BY <1>2 DEF Gap
  <2> QED BY <2>1, VwapSame
<1>3. CASE BackfillBegin
  <2>1. agg' = BeginBackfill(agg) /\ UNCHANGED <<now, tape, watched, past>>
    BY <1>3 DEF BackfillBegin
  <2>3. fetch.at \in {"armed", "idle"}
    BY <1>3 DEF BackfillBegin, Idle
  <2>2. /\ agg'.vwap = agg.vwap /\ agg'.given = agg.given /\ agg'.twice = agg.twice
        /\ agg'.buf = agg.buf \/ agg'.buf = <<>>
    BY <2>1, <1>1 DEF BeginBackfill, AggsOf
  <2> QED BY <2>1, <2>2, <2>3, VwapSame
<1>4. CASE BarsFailed \/ EndBackfill
  <2>1. /\ agg' = finishBackfill(agg, TradesTo, BarsTo)
        /\ UNCHANGED <<now, tape, watched, past>>
    BY <1>4 DEF BarsFailed, EndBackfill, TradesTo, BarsTo
  <2>2. agg'.buf = <<>>
    <3>1. TradesTo \in Nat /\ BarsTo \in Nat
      BY CutoffsAre
    <3>2. /\ InOrder(agg.buf)
          /\ \A k \in 1..Len(agg.buf) : Fresh(agg, agg.buf[k], TradesTo, BarsTo)
      BY <1>1 DEF Sound
    <3>3. finishBackfill(agg, TradesTo, BarsTo).buf = <<>>
      BY <1>1, <3>1, <3>2, DrainIs
    <3> QED BY <2>1, <3>3
  <2>3. fetch.at \in {"trades", "drain"} => BarsTo = fetch.reqEnd
    BY DEF BarsTo
  <2> QED BY <2>1, <2>2, <2>3, VwapDrain
<1>5. CASE Replay
  <2> DEFINE end == fetch.tradeEnd
  <2>1. PICK t \in {Trades(end), <<>>} : agg' = ReplayTrades(agg, t)
    BY <1>5 DEF Replay
  <2>2. t \in Seq(tape) /\ \A j, k \in 1..Len(t) : j < k => Before(t[j], t[k])
    <3>1. CASE t = Trades(end)
      <4>1. /\ Trades(end) \in Seq(tape)
            /\ \A j, k \in 1..Len(Trades(end)) : j < k => Before(Trades(end)[j], Trades(end)[k])
        BY CutoffsAre, TradesAre DEF FeedInv
      <4> QED BY <3>1, <4>1
    <3>2. CASE t = <<>>
      BY <3>2
    <3> QED BY <3>1, <3>2, <2>1
  <2> DEFINE P == {t[k] : k \in 1..Len(t)}
  <2>3. /\ Reloaded(agg, ReplayTrades(agg, t), "fine", P)
        /\ ReplayTrades(agg, t).vwap = agg.vwap /\ ReplayTrades(agg, t).twice = agg.twice
    BY <1>1, <2>2, ReplayIs
  <2> HIDE DEF P
  <2>4. /\ agg'.vwap = agg.vwap /\ agg'.given["minute"] = agg.given["minute"]
        /\ agg'.buf = agg.buf /\ agg'.twice = agg.twice
    BY <2>1, <2>3 DEF Reloaded, SameRest
  <2>5. /\ UNCHANGED <<now, tape, watched, past>>
        /\ fetch'.at = "drain" /\ fetch'.reqEnd = fetch.reqEnd
    <3>1. fetch \in Fetches(now)
      BY DEF FeedInv
    <3> QED BY <1>5, <3>1 DEF Replay, Fetches
  <2> QED BY <2>4, <2>5, VwapSame
<1> QED BY <1>2, <1>3, <1>4, <1>5, VwapTick, VwapReport, VwapOtherTape, VwapLoad, VwapWatch
        DEF FeedNext

LEMMA VwapView ==
  ASSUME FeedInv, VwapInv, UNCHANGED <<now, tape, watched, past, fetch>>,
         \/ agg' = agg
         \/ agg' = ClearCustom(agg)
         \/ \E len \in CustomLens : agg' = rebuildCustomLocked([agg EXCEPT !.length = len])
  PROVE  VwapInv'
<1>1. agg \in AggsOf(tape)
  BY SoundNow
<1>2. CASE agg' = agg
  BY <1>2, VwapSame
<1>3. CASE agg' = ClearCustom(agg)
  <2>1. /\ agg'.vwap = agg.vwap /\ agg'.buf = agg.buf /\ agg'.twice = agg.twice
        /\ agg'.given["minute"] = agg.given["minute"]
    BY <1>1, <1>3, NamesAre DEF ClearCustom, AggsOf
  <2> QED BY <2>1, VwapSame
<1>4. ASSUME NEW len \in CustomLens, agg' = rebuildCustomLocked([agg EXCEPT !.length = len])
      PROVE  VwapInv'
  <2> DEFINE a == [agg EXCEPT !.length = len]
             S == [a.series EXCEPT !["custom"] =
                     Loaded(resampleTo(SourceBars(a), a.length), Bucket(a.length, now))]
             G == [a.given EXCEPT !["custom"] = PrintsIn(SourceBars(a))]
             O == IF customSourceTF(a.length) \in a.odd
                    THEN a.odd \cup {"custom"} ELSE a.odd \ {"custom"}
  <2>1. /\ a \in AggsOf(tape) /\ a.vwap = agg.vwap /\ a.given = agg.given /\ a.buf = agg.buf
        /\ a.twice = agg.twice
    BY <1>1 DEF AggsOf
  <2>2. agg' = [a EXCEPT !.series = S, !.given = G, !.odd = O]
    BY <1>4, ZenonT(20) DEF rebuildCustomLocked, PrintsIn
  <2>3. G["minute"] = a.given["minute"]
    <3>1. a.given \in [Names -> SUBSET tape]
      BY <2>1 DEF AggsOf
    <3> QED BY <3>1, NamesAre
  <2> HIDE DEF a, S, G, O
  <2>4. agg'.vwap = a.vwap /\ agg'.buf = a.buf /\ agg'.given = G /\ agg'.twice = a.twice
    BY <2>1, <2>2 DEF AggsOf
  <2> QED BY <2>1, <2>3, <2>4, VwapSame
<1> QED BY <1>2, <1>3, <1>4

\* After the end of a session, a drain that straddles it, loads, replays,
\* switches and prints of another time than their report, the VWAP is that of
\* the window the session goroutine watches, but for the prints the property
\* names, and no print is in it twice but those of the overlap of the partial
\* bar it was seeded with.
THEOREM VwapFollowsWindow ==
  Spec => []VwapOfWindow
<1> DEFINE Inv == PastInv /\ LastSeen /\ VwapInv
<1>1. ViewInit => Inv
  <2> SUFFICES ASSUME Init PROVE Inv
    BY DEF ViewInit
  <2>1. past = NoPast /\ PastInv /\ LastSeen
    BY NoPastIs DEF Init, PastInv, LastSeen
  <2>2. /\ tape = {} /\ agg.vwap = {} /\ agg.given["minute"] = {} /\ agg.buf = <<>>
        /\ agg.twice = {}
    BY NamesAre DEF Init
  <2>3. \A k : k \notin 1..Len(agg.buf)
    BY <2>2
  <2>4. VwapInv
    BY <2>2, <2>3 DEF VwapInv, TapeTimed, NoneMissing, HeldOver, NoneOld, NoneDoubled
  <2> QED BY <2>1, <2>4
<1>2. IInv /\ Inv /\ [Next]_viewVars => Inv'
  <2> SUFFICES ASSUME FeedInv, Inv, [Next]_viewVars PROVE Inv'
    BY DEF IInv
  <2>1. PastInv' /\ LastSeen'
    BY FilterNext
  <2>2. CASE Feed
    BY <2>1, <2>2, VwapFeed DEF Feed
  <2>3. CASE Viewed /\ agg' = ClearCustom(agg)
    BY <2>1, <2>3, VwapView DEF Viewed
  <2>4. ASSUME NEW len \in CustomLens, EnableCustom(len) PROVE VwapInv'
    BY <2>4, VwapView DEF EnableCustom, Viewed
  <2>5. CASE UNCHANGED <<now, tape, watched, past, agg, fetch>>
    BY <2>1, <2>5, VwapView
  <2>6. CASE PanBack \/ PanForward \/ CropIn \/ CropOut
    BY <2>5, <2>6 DEF PanBack, PanForward, CropIn, CropOut, Pressed
  <2>7. CASE SymbolSwitched \/ UNCHANGED viewVars
    BY <2>5, <2>7 DEF SymbolSwitched, viewVars, vars
  <2>8. CASE CycleTf \/ \E tf \in {"fine", "minute"} : ChooseTf(tf)
    BY <2>3, <2>8 DEF CycleTf, ChooseTf
  <2>9. VwapInv'
    BY <2>2, <2>4, <2>6, <2>7, <2>8 DEF Next
  <2> QED BY <2>1, <2>9
<1>3. Inv => VwapOfWindow
  BY DEF VwapInv, NoneMissing, NoneOld, NoneDoubled, VwapOfWindow
<1> QED BY <1>1, <1>2, <1>3, Always, PTL DEF Spec
-----------------------------------------------------------------------------
(* CustomIsResampled: with the prints reported in order no series opens a  *)
(* candle out of order, a candle of the custom series closes as the last   *)
(* candle of its source in its bucket, and the two hold the same prints    *)
(* but for those one of them evicted.                                      *)

NoneLate(T) == \A i, j \in T : j.n < i.n => j.ts <= i.ts

\* The next candle evicts one.
Full(s) == s.ring.count = RingCap /\ s.forming # NoCandle

\* Where the last candle of B in a bucket has a candle in C, they close alike.
Alike(B, C, L) ==
  \A k \in 1..Len(C), m \in 1..Len(B) :
    /\ Bucket(L, B[m].start) = C[k].start
    /\ \A l \in 1..Len(B) : B[l].start > B[m].start => Bucket(L, B[l].start) # C[k].start
    => C[k].close = B[m].close

\* The candles B became the candles C when i was added to the last, that of b.
Adds(B, C, i, b) ==
  /\ PrintsIn(C) \subseteq PrintsIn(B) \cup {i}
  /\ Len(B) > 0 => B[1].start <= C[1].start
  /\ Len(C) > 0 /\ C[Len(C)].start = b /\ C[Len(C)].close = i
  /\ \A k \in 1..(Len(C) - 1) : \E m \in 1..Len(B) : C[k] = B[m]
  /\ \A m \in 1..Len(B) :
       \/ B[m].start = b
       \/ \A k \in 1..Len(C) : B[m].start < C[k].start
       \/ \E k \in 1..Len(C) : B[m] = C[k]

\* What a print in order does to a series.
Grows(s, q, i, b) ==
  /\ Adds(Bars(s), Bars(q), i, b)
  /\ Full(s) => Full(q)
  /\ ~Full(s) => PrintsIn(Bars(s)) \cup {i} \subseteq PrintsIn(Bars(q))

\* A print that joins the last candle.
LEMMA JoinAdds ==
  ASSUME NEW T \in SUBSET Prints, NEW B \in Seq(Candles(T)), NEW C \in Seq(Candles(T)),
         NEW i \in T, JoinsLast(B, C, i), NEW b, B[Len(B)].start = b
  PROVE  Adds(B, C, i, b) /\ PrintsIn(B) \cup {i} \subseteq PrintsIn(C)
<1> DEFINE n == Len(B)
<1>1. /\ n \in Nat /\ n > 0 /\ Len(C) = n /\ n \in 1..n /\ 1 \in 1..n
      /\ \A k \in 1..n : B[k] \in Candles(T) /\ B[k].start \in Nat
      /\ \A k \in 1..(n - 1) : C[k] = B[k]
      /\ C[n] = Added(B[n], i)
  <2>1. /\ n \in Nat
        /\ \A k \in 1..n : B[k] \in Candles(T) /\ B[k].start \in Nat
    BY CandleSeq
  <2>2. /\ n > 0 /\ Len(C) = n /\ \A k \in 1..(n - 1) : C[k] = B[k]
        /\ C[n] = Added(B[n], i)
    BY DEF JoinsLast
  <2> QED BY <2>1, <2>2
<1>2. /\ C[n].start = B[n].start /\ C[n].prints = B[n].prints \cup {i}
      /\ C[n].close = i
  BY <1>1, CandleFields
<1>3. /\ \A j : j \in PrintsIn(B) <=> \E k \in 1..n : j \in B[k].prints
      /\ \A j : j \in PrintsIn(C) <=> \E k \in 1..n : j \in C[k].prints
  BY <1>1, InSome
<1> HIDE DEF n
<1>4. \A k \in 1..n : k = n \/ k \in 1..(n - 1)
  BY <1>1
<1>5. \A k \in 1..n : C[k].start = B[k].start
  BY <1>1, <1>2, <1>4
<1>6. PrintsIn(C) \subseteq PrintsIn(B) \cup {i}
  BY <1>1, <1>2, <1>3, <1>4
<1>7. PrintsIn(B) \cup {i} \subseteq PrintsIn(C)
  BY <1>1, <1>2, <1>3, <1>4
<1>8. /\ C[n].start = b /\ C[n].close = i /\ B[n].start = b
      /\ \A k \in 1..(n - 1) : k \in 1..n /\ C[k] = B[k]
  BY <1>1, <1>2 DEF n
<1>9. B[1].start <= C[1].start
  BY <1>1, <1>5
<1>10. Adds(B, C, i, b)
  <2>1. Len(B) = n /\ Len(C) = n /\ n > 0
    BY <1>1 DEF n
  <2>2. \A k \in 1..(n - 1) : \E m \in 1..n : C[k] = B[m]
    BY <1>8
  <2>3. \A m \in 1..n : B[m].start = b \/ \E k \in 1..n : B[m] = C[k]
    BY <1>1, <1>4, <1>8
  <2> QED BY <2>1, <2>2, <2>3, <1>6, <1>8, <1>9 DEF Adds
<1> QED BY <1>7, <1>10

\* A print that opens a candle, the oldest evicted or not.
LEMMA NewAdds ==
  ASSUME NEW T \in SUBSET Prints, NEW B \in Seq(Candles(T)), NEW C \in Seq(Candles(T)),
         NEW i \in T, NEW b \in Nat, NEW d \in 0..1, d <= Len(B), OpensNew(B, C, b, i, d),
         Ascends(B), Len(B) = 0 \/ B[Len(B)].start < b
  PROVE  Adds(B, C, i, b) /\ (d = 0 => PrintsIn(B) \cup {i} \subseteq PrintsIn(C))
<1> DEFINE n == Len(B)
           m == Len(C)
<1>1. /\ n \in Nat /\ m \in Nat /\ m = n + 1 - d /\ m > 0
      /\ \A k \in 1..n : B[k].start \in Nat
      /\ \A k \in 1..(n - d) : C[k] = B[k + d]
      /\ C[m] = newBar(b, i)
  <2>1. n \in Nat /\ \A k \in 1..n : B[k].start \in Nat
    BY CandleSeq
  <2>2. m \in Nat
    BY CandleSeq
  <2>3. /\ m = n + 1 - d /\ \A k \in 1..(n - d) : C[k] = B[k + d]
        /\ C[m] = newBar(b, i)
    BY DEF OpensNew
  <2> QED BY <2>1, <2>2, <2>3
<1>2. C[m].start = b /\ C[m].prints = {i} /\ C[m].close = i
  BY <1>1, NewFields
<1>3. /\ \A j : j \in PrintsIn(B) <=> \E k \in 1..n : j \in B[k].prints
      /\ \A j : j \in PrintsIn(C) <=> \E k \in 1..m : j \in C[k].prints
  BY InSome
<1>4. Len(B) = 0 \/ B[n].start < b
  OBVIOUS
<1> HIDE DEF n, m
<1>5. \A k \in 1..m : k = m \/ (k \in 1..(n - d) /\ k + d \in 1..n)
  BY <1>1
<1>6. m \in 1..m /\ (d = 0 => \A k \in 1..n : k \in 1..m /\ k \in 1..(n - d) /\ k + d = k)
  BY <1>1
<1>7. PrintsIn(C) \subseteq PrintsIn(B) \cup {i}
  <2> SUFFICES ASSUME NEW j \in PrintsIn(C), j # i PROVE j \in PrintsIn(B)
    OBVIOUS
  <2>1. PICK k \in 1..m : j \in C[k].prints
    BY <1>3
  <2>2. k # m
    BY <2>1, <1>2
  <2>3. k \in 1..(n - d) /\ k + d \in 1..n
    BY <2>2, <1>5
  <2>4. C[k] = B[k + d]
    BY <2>3, <1>1
  <2> QED BY <2>1, <2>3, <2>4, <1>3
<1>8. d = 0 => PrintsIn(B) \cup {i} \subseteq PrintsIn(C)
  BY <1>1, <1>2, <1>3, <1>6
<1>9. \A k \in 1..(m - 1) : \E l \in 1..n : C[k] = B[l]
  <2>1. \A k \in 1..(m - 1) : k \in 1..(n - d) /\ k + d \in 1..n
    BY <1>1
  <2> QED BY <2>1, <1>1
<1>11. ASSUME NEW l \in 1..n
       PROVE  \/ \A k \in 1..m : B[l].start < C[k].start
              \/ \E k \in 1..m : B[l] = C[k]
  <2>1. CASE l <= d
    <3>1. \A k \in 1..n : l < k => B[l].start < B[k].start
      BY DEF Ascends, n
    <3>2. B[l].start < b
      <4>1. n \in 1..n /\ Len(B) # 0 /\ (l = n \/ l < n)
        BY <1>1 DEF n
      <4>2. B[l].start = B[n].start \/ B[l].start < B[n].start
        BY <3>1, <4>1
      <4>3. B[l].start \in Nat /\ B[n].start \in Nat /\ B[n].start < b
        BY <4>1, <1>1, <1>4
      <4> DEFINE x == B[l].start
                 y == B[n].start
      <4> HIDE DEF x, y
      <4>4. (x = y \/ x < y) /\ x \in Nat /\ y \in Nat /\ y < b
        BY <4>2, <4>3 DEF x, y
      <4>5. x < b
        BY <4>4
      <4> QED BY <4>5 DEF x
    <3>3. ASSUME NEW k \in 1..m PROVE B[l].start < C[k].start
      <4>1. CASE k = m
        BY <4>1, <3>2, <1>2
      <4>2. CASE k # m
        <5>1. k + d \in 1..n /\ l < k + d /\ k \in 1..(n - d)
          BY <4>2, <2>1, <1>1, <1>5
        <5>2. C[k] = B[k + d]
          BY <5>1, <1>1
        <5> QED BY <5>1, <5>2, <3>1
      <4> QED BY <4>1, <4>2
    <3> QED BY <3>3
  <2>2. CASE ~(l <= d)
    <3>1. l - d \in 1..(n - d) /\ l - d \in 1..m /\ (l - d) + d = l
      BY <2>2, <1>1
    <3>2. C[l - d] = B[(l - d) + d]
      BY <3>1, <1>1
    <3> QED BY <3>1, <3>2
  <2> QED BY <2>1, <2>2
<1>10. ASSUME n > 0 PROVE B[1].start <= C[1].start
  <2>1. 1 \in 1..n /\ n \in 1..n /\ 1 \in 1..m
    BY <1>1, <1>10
  <2>2. \A k \in 1..n : B[1].start <= B[k].start
    <3>1. \A k \in 1..n : k = 1 \/ 1 < k
      BY <1>1
    <3> QED BY <3>1, <2>1, <1>1 DEF Ascends, n
  <2>3. CASE 1 = m
    <3>1. C[1].start = b /\ B[n].start < b /\ B[1].start <= B[n].start
      BY <2>1, <2>2, <2>3, <1>1, <1>2, <1>4, <1>10
    <3>2. B[1].start \in Nat /\ B[n].start \in Nat
      BY <2>1, <1>1
    <3> DEFINE x == B[1].start
               y == B[n].start
    <3> HIDE DEF x, y
    <3>3. x <= b
      BY <3>1, <3>2 DEF x, y
    <3> QED BY <3>1, <3>3 DEF x
  <2>4. CASE 1 # m
    <3>1. 1 \in 1..(n - d) /\ 1 + d \in 1..n
      BY <2>1, <2>4, <1>5
    <3>2. C[1] = B[1 + d]
      BY <3>1, <1>1
    <3> QED BY <3>1, <3>2, <2>2
  <2> QED BY <2>3, <2>4
<1>12. Adds(B, C, i, b)
  <2>1. Len(B) = n /\ Len(C) = m /\ m > 0 /\ C[m].start = b /\ C[m].close = i
    BY <1>1, <1>2 DEF n, m
  <2> QED BY <2>1, <1>7, <1>9, <1>10, <1>11 DEF Adds
<1> QED BY <1>8, <1>12

\* A print no older than any candle of the series.
LEMMA FoldGrows ==
  ASSUME NEW T \in SUBSET Prints, NEW s \in SeriesOf(T), NEW i \in T,
         NEW b \in 0..MaxTime, NEW v \in SUBSET T, Ascends(Bars(s)),
         \A k \in 1..Len(Bars(s)) : Bars(s)[k].start <= b
  PROVE  ~OpensLate(s, b) /\ Grows(s, foldTrade(s, b, i, v), i, b)
<1> DEFINE q == foldTrade(s, b, i, v)
           B == Bars(s)
           C == Bars(q)
           n == Len(B)
<1>1. /\ s.ring.count \in 0..RingCap /\ n = Size(s) /\ n \in Nat /\ B \in Seq(Candles(T))
      /\ \A k \in 1..s.ring.count : B[k] = Cell(s.ring, k - 1).bar
      /\ \A k \in 1..n : B[k].start \in Nat
  <2>1. /\ n = Size(s) /\ B \in Seq(Candles(T))
        /\ \A k \in 1..s.ring.count : B[k] = Cell(s.ring, k - 1).bar
    BY BarsAre
  <2>2. s.ring.count \in 0..RingCap
    BY DEF SeriesOf, Rings
  <2> QED BY <2>1, <2>2, CandleSeq
<1>2. q \in SeriesOf(T) /\ q.forming # NoCandle
  BY FoldIs
<1>3. C \in Seq(Candles(T))
  BY <1>2, BarsAre
<1>4. ASSUME s.forming = NoCandle, s.ring.count > 0
      PROVE  Newest(s.ring).bar.start = B[n].start /\ n \in 1..n
  <2>1. n = s.ring.count /\ n \in 1..n
    BY <1>1, <1>4 DEF Size
  <2>2. B[n] = Newest(s.ring).bar
    BY <2>1, <1>1 DEF Newest, Cell
  <2> QED BY <2>1, <2>2
<1>5. ~OpensLate(s, b)
  <2> SUFFICES ASSUME s.forming = NoCandle, s.ring.count > 0, b < Newest(s.ring).bar.start
               PROVE  FALSE
    BY DEF OpensLate
  <2> HIDE DEF n, B
  <2>1. B[n].start \in Nat /\ B[n].start <= b /\ b < B[n].start
    BY <1>1, <1>4 DEF n, B
  <2> QED BY <2>1
<1>6. CASE s.forming = NoCandle /\ EndsAt(s, b)
  <2>1. q = Reopened(s, i)
    BY <1>6, Zenon DEF foldTrade
  <2>2. JoinsLast(B, C, i)
    BY <1>6, <2>1, ReopenIs
  <2>4. B[n].start = b
    BY <1>4, <1>6 DEF EndsAt
  <2> HIDE DEF q
  <2>3. Adds(B, C, i, b) /\ PrintsIn(B) \cup {i} \subseteq PrintsIn(C)
    BY <2>2, <2>4, <1>1, <1>3, JoinAdds
  <2> QED BY <2>3, <1>5, <1>6 DEF Grows, Full, q
<1>7. CASE s.forming = NoCandle /\ ~EndsAt(s, b)
  <2>1. q = [s EXCEPT !.forming = newBar(b, i)]
    BY <1>7, Zenon DEF foldTrade
  <2>2. OpensNew(B, C, b, i, 0)
    BY <1>7, <2>1, FirstIs
  <2>3. Len(B) = 0 \/ B[Len(B)].start < b
    <3> SUFFICES ASSUME n # 0 PROVE B[n].start < b
      OBVIOUS
    <3>1. s.ring.count > 0
      BY <1>1, <1>7 DEF Size
    <3>2. B[n].start # b /\ B[n].start <= b /\ B[n].start \in Nat
      BY <3>1, <1>1, <1>4, <1>7 DEF EndsAt
    <3> HIDE DEF n, B
    <3> QED BY <3>2
  <2>4. Adds(B, C, i, b) /\ PrintsIn(B) \cup {i} \subseteq PrintsIn(C)
    <3>1. 0 \in 0..1 /\ 0 <= Len(B) /\ b \in Nat
      BY <1>1
    <3> HIDE DEF q
    <3> QED BY <3>1, <2>2, <2>3, <1>1, <1>3, NewAdds
  <2> QED BY <2>4, <1>5, <1>7 DEF Grows, Full
<1>8. CASE s.forming # NoCandle
  <2>1. /\ n = s.ring.count + 1 /\ n \in 1..n /\ B[n] = s.forming
        /\ s.forming.start \in Nat /\ s.forming.start <= b
    <3>1. n = s.ring.count + 1 /\ n \in 1..n /\ B[n] = s.forming
      BY <1>1, <1>8, BarsAre DEF Size
    <3> QED BY <3>1, <1>1
  <2>2. CASE b = s.forming.start
    <3>1. ~(b > s.forming.start)
      BY <2>1, <2>2
    <3>2. q = [s EXCEPT !.forming = Added(@, i)]
      BY <3>1, <1>8, <2>2, Zenon DEF foldTrade
    <3>3. JoinsLast(B, C, i)
      BY <1>8, <3>2, AddIs
    <3>5. q.ring = s.ring
      BY <3>2 DEF SeriesOf
    <3>6. B[n].start = b
      BY <2>1, <2>2
    <3> HIDE DEF q
    <3>4. Adds(B, C, i, b) /\ PrintsIn(B) \cup {i} \subseteq PrintsIn(C)
      BY <3>3, <3>6, <1>1, <1>3, JoinAdds
    <3> QED BY <3>4, <3>5, <1>2, <1>5 DEF Grows, Full, q
  <2>3. CASE b > s.forming.start
    <3>1. b # s.forming.start
      BY <2>1, <2>3
    <3>2. q = [closeFormingBar(s, v) EXCEPT !.forming = newBar(b, i)]
      BY <1>8, <2>3, <3>1, Zenon DEF foldTrade
    <3> DEFINE d == IF s.ring.count < RingCap THEN 0 ELSE 1
    <3>3. OpensNew(B, C, b, i, d)
      BY <1>8, <3>2, CloseIs
    <3>4. d \in 0..1 /\ d <= Len(B) /\ B[Len(B)].start < b /\ b \in Nat
      BY <1>1, <2>1, <2>3
    <3>5. ~Full(s) => d = 0
      BY <1>1, <1>8, RingAssumption DEF Full
    <3>6. Full(s) => Full(q)
      <4>1. Len(C) = Len(B) + 1 - d /\ Len(C) = q.ring.count + 1
        <5>1. Len(C) = q.ring.count + 1
          BY <1>2, BarsAre DEF Size
        <5> QED BY <3>3, <5>1 DEF OpensNew
      <4>2. q.ring.count \in Nat
        BY <1>2, BarsAre
      <4>3. Full(s) => d = 1
        BY RingAssumption DEF Full
      <4> HIDE DEF q, d, C
      <4> QED BY <4>1, <4>2, <4>3, <1>1, <1>2, <2>1, RingAssumption DEF Full, q
    <3> HIDE DEF d, q
    <3>7. Adds(B, C, i, b) /\ (d = 0 => PrintsIn(B) \cup {i} \subseteq PrintsIn(C))
      BY <3>3, <3>4, <1>1, <1>3, NewAdds
    <3> QED BY <3>5, <3>6, <3>7, <1>5 DEF Grows, q
  <2> QED BY <2>1, <2>2, <2>3
<1> QED BY <1>6, <1>7, <1>8

\* Series s, the source, was handed the prints S and series c, with buckets of
\* L, the prints C: the same but for those s had evicted before; and c has them
\* all until it is full, but for the first candle of a full source.
TwinOf(s, S, c, C, L) ==
  /\ C \subseteq S
  /\ PrintsIn(Bars(s)) \subseteq C
  /\ ~Full(s) => C \subseteq PrintsIn(Bars(s))
  /\ ~Full(c) => \A i \in C \ PrintsIn(Bars(c)) :
                   Full(s) /\ Bucket(L, i.ts) <= Bucket(L, Bars(s)[1].start)
  /\ Alike(Bars(s), Bars(c), L)

LEMMA AlikeGrows ==
  ASSUME NEW T, NEW B \in Seq(Candles(T)), NEW D \in Seq(Candles(T)),
         NEW V \in Seq(Candles(T)), NEW E \in Seq(Candles(T)),
         NEW i, NEW x \in Nat, NEW L \in Nat \ {0}, NEW y, Bucket(L, x) = y,
         Ascends(D), Ascends(E), Adds(B, D, i, x), Adds(V, E, i, y), Alike(B, V, L)
  PROVE  Alike(D, E, L)
<1> DEFINE n == Len(D)
           p == Len(E)
<1>1. /\ n \in Nat /\ p \in Nat /\ n > 0 /\ p > 0
      /\ D[n].start = x /\ D[n].close = i /\ E[p].start = y /\ E[p].close = i
      /\ \A k \in 1..(n - 1) : \E m \in 1..Len(B) : D[k] = B[m]
      /\ \A k \in 1..(p - 1) : \E m \in 1..Len(V) : E[k] = V[m]
  BY CandleSeq DEF Adds
<1>2. \A m \in 1..Len(B) : \/ B[m].start = x
                           \/ \A k \in 1..n : B[m].start < D[k].start
                           \/ \E k \in 1..n : B[m] = D[k]
  BY DEF Adds
<1>3. /\ \A k \in 1..n : D[k].start \in Nat /\ (k # n => k \in 1..(n - 1) /\ k < n)
      /\ \A k \in 1..p : E[k].start \in Nat /\ (k # p => k \in 1..(p - 1) /\ k < p)
      /\ n \in 1..n /\ p \in 1..p
  <2>1. /\ \A k \in 1..n : D[k].start \in Nat
        /\ \A k \in 1..p : E[k].start \in Nat
    BY CandleSeq
  <2> HIDE DEF n, p
  <2> QED BY <2>1, <1>1
<1>4. /\ \A k \in 1..n : k # n => D[k].start < D[n].start
      /\ \A k \in 1..p : k # p => E[k].start < E[p].start
  BY <1>3 DEF Ascends
<1>5. \A k \in 1..p : E[k].start = y => k = p
  <2> SUFFICES ASSUME NEW k \in 1..p, E[k].start = y, k # p PROVE FALSE
    OBVIOUS
  <2>1. E[k].start < E[p].start /\ E[k].start = E[p].start /\ E[k].start \in Nat
    BY <1>1, <1>3, <1>4
  <2> DEFINE z == E[k].start
  <2> HIDE DEF z
  <2>2. z < z /\ z \in Nat
    BY <2>1 DEF z
  <2> QED BY <2>2
<1> HIDE DEF n, p
<1>6. ASSUME NEW k \in 1..p, NEW m \in 1..n, Bucket(L, D[m].start) = E[k].start,
             \A l \in 1..n : D[l].start > D[m].start => Bucket(L, D[l].start) # E[k].start
      PROVE  E[k].close = D[m].close
  <2>1. CASE m = n
    <3>1. E[k].start = y
      BY <2>1, <1>1, <1>6
    <3> QED BY <3>1, <2>1, <1>1, <1>5
  <2>2. CASE m # n
    <3>1. m \in 1..(n - 1) /\ D[n].start > D[m].start
      <4>1. D[m].start < D[n].start
        BY <2>2, <1>4
      <4> QED BY <4>1, <2>2, <1>3
    <3>2. y # E[k].start
      BY <3>1, <1>1, <1>3, <1>6
    <3>3. k \in 1..(p - 1)
      BY <3>2, <1>1, <1>3
    <3>4. PICK m2 \in 1..Len(B) : D[m] = B[m2]
      BY <3>1, <1>1
    <3>5. PICK k2 \in 1..Len(V) : E[k] = V[k2]
      BY <3>3, <1>1
    <3>6. ASSUME NEW l \in 1..Len(B), B[l].start > B[m2].start
          PROVE  Bucket(L, B[l].start) # V[k2].start
      <4>1. CASE B[l].start = x
        BY <4>1, <3>2, <3>5
      <4>2. CASE \A h \in 1..n : B[l].start < D[h].start
        <5>1. B[l].start < B[m2].start
          BY <4>2, <3>4
        <5>2. B[l].start \in Nat /\ B[m2].start \in Nat
          BY CandleSeq
        <5> DEFINE z == B[l].start
                   w == B[m2].start
        <5> HIDE DEF z, w
        <5>3. z < w /\ z > w /\ z \in Nat /\ w \in Nat
          BY <5>1, <5>2, <3>6 DEF z, w
        <5> QED BY <5>3
      <4>3. CASE \E h \in 1..n : B[l] = D[h]
        <5>1. PICK h \in 1..n : B[l] = D[h]
          BY <4>3
        <5>2. D[h].start > D[m].start
          BY <5>1, <3>4, <3>6
        <5> QED BY <5>1, <5>2, <3>5, <1>6
      <4> QED BY <4>1, <4>2, <4>3, <1>2
    <3>7. Bucket(L, B[m2].start) = V[k2].start
      BY <3>4, <3>5, <1>6
    <3>8. V[k2].close = B[m2].close
      BY <3>6, <3>7 DEF Alike
    <3> QED BY <3>4, <3>5, <3>8
  <2> QED BY <2>1, <2>2
<1> QED BY <1>6 DEF Alike, n, p

\* A print handed to the source and to the custom series.
LEMMA TwinGrows ==
  ASSUME NEW T \in SUBSET Prints, NEW s \in SeriesOf(T), NEW q \in SeriesOf(T),
         NEW c \in SeriesOf(T), NEW d \in SeriesOf(T), NEW i, NEW x \in Nat, NEW y,
         Grows(s, q, i, x), Grows(c, d, i, y), Ascends(Bars(q)), Ascends(Bars(d)),
         NEW S, NEW C \in SUBSET T, NEW L \in Nat \ {0}, Bucket(L, x) = y,
         TwinOf(s, S, c, C, L)
  PROVE  TwinOf(q, S \cup {i}, d, C \cup {i}, L)
<1> DEFINE B == Bars(s)
           D == Bars(q)
<1>1. /\ C \subseteq S /\ PrintsIn(B) \subseteq C
      /\ ~Full(s) => C \subseteq PrintsIn(B)
      /\ ~Full(c) => \A j \in C \ PrintsIn(Bars(c)) :
                       Full(s) /\ Bucket(L, j.ts) <= Bucket(L, B[1].start)
  BY DEF TwinOf
<1>2. /\ PrintsIn(D) \subseteq PrintsIn(B) \cup {i} /\ (Len(B) > 0 => B[1].start <= D[1].start)
      /\ Full(s) => Full(q) /\ (~Full(s) => PrintsIn(B) \cup {i} \subseteq PrintsIn(D))
      /\ Full(c) => Full(d) /\ (~Full(c) => PrintsIn(Bars(c)) \cup {i} \subseteq PrintsIn(Bars(d)))
  BY DEF Grows, Adds
<1>3. /\ Full(s) => Full(q)
      /\ ~Full(s) => PrintsIn(B) \cup {i} \subseteq PrintsIn(D)
      /\ Full(c) => Full(d)
      /\ ~Full(c) => PrintsIn(Bars(c)) \cup {i} \subseteq PrintsIn(Bars(d))
  BY DEF Grows
<1>4. ASSUME Full(s) PROVE Bucket(L, B[1].start) <= Bucket(L, D[1].start)
  <2>1. Len(B) > 0 /\ Len(D) > 0
    <3>1. /\ Len(B) = Size(s) /\ s.ring.count \in Nat
          /\ Len(D) = Size(q) /\ q.ring.count \in Nat
      BY BarsAre
    <3>2. s.forming # NoCandle /\ q.forming # NoCandle
      BY <1>3, <1>4 DEF Full
    <3> QED BY <3>1, <3>2 DEF Size
  <2>2. B[1].start \in Nat /\ D[1].start \in Nat
    <3>1. B \in Seq(Candles(T)) /\ D \in Seq(Candles(T))
      BY BarsAre
    <3>2. Len(B) \in Nat /\ Len(D) \in Nat
      BY <3>1, CandleSeq
    <3>3. 1 \in 1..Len(B) /\ 1 \in 1..Len(D)
      BY <2>1, <3>2
    <3> QED BY <3>1, <3>3, CandleSeq
  <2> QED BY <2>1, <2>2, <1>2, BucketMonotone
<1>5. ASSUME ~Full(d), NEW j \in (C \cup {i}) \ PrintsIn(Bars(d))
      PROVE  Full(q) /\ Bucket(L, j.ts) <= Bucket(L, D[1].start)
  <2>1. ~Full(c) /\ j \in C \ PrintsIn(Bars(c))
    BY <1>3, <1>5
  <2>2. Full(s) /\ Bucket(L, j.ts) <= Bucket(L, B[1].start)
    BY <2>1, <1>1
  <2>3. Bucket(L, B[1].start) <= Bucket(L, D[1].start)
    BY <2>2, <1>4
  <2>4. /\ Bucket(L, j.ts) \in Nat /\ Bucket(L, B[1].start) \in Nat
        /\ Bucket(L, D[1].start) \in Nat
    <3>1. j \in Prints
      BY <2>1
    <3>2. Len(B) = Size(s) /\ Len(D) = Size(q) /\ B \in Seq(Candles(T)) /\ D \in Seq(Candles(T))
          /\ s.ring.count \in Nat /\ q.ring.count \in Nat
      BY BarsAre
    <3>3. 1 \in 1..Len(B) /\ 1 \in 1..Len(D)
      BY <3>2, <2>2, <1>3 DEF Size, Full
    <3>4. B[1].start \in Nat /\ D[1].start \in Nat
      BY <3>2, <3>3, CandleSeq
    <3>5. Bucket(L, B[1].start) \in Nat /\ Bucket(L, D[1].start) \in Nat
      <4> DEFINE v == B[1].start
                 w == D[1].start
      <4> HIDE DEF v, w
      <4>1. Bucket(L, v) \in 0..v /\ Bucket(L, w) \in 0..w
        BY <3>4, BucketIs DEF v, w
      <4> QED BY <4>1, <3>4 DEF v, w
    <3> QED BY <3>1, <3>5, PrintIs
  <2> HIDE DEF B, D
  <2> DEFINE u == Bucket(L, j.ts)
             v == Bucket(L, B[1].start)
             w == Bucket(L, D[1].start)
  <2> HIDE DEF u, v, w
  <2>5. u <= w
    BY <2>2, <2>3, <2>4 DEF u, v, w
  <2> QED BY <2>2, <2>5, <1>3 DEF u, w
<1>6. C \cup {i} \subseteq S \cup {i} /\ PrintsIn(D) \subseteq C \cup {i}
  BY <1>1, <1>2
<1>7. ~Full(q) => C \cup {i} \subseteq PrintsIn(D)
  BY <1>1, <1>3
<1>8. Alike(D, Bars(d), L)
  <2>1. /\ B \in Seq(Candles(T)) /\ D \in Seq(Candles(T))
        /\ Bars(c) \in Seq(Candles(T)) /\ Bars(d) \in Seq(Candles(T))
    BY BarsAre
  <2>2. /\ Adds(B, D, i, x) /\ Adds(Bars(c), Bars(d), i, y) /\ Alike(B, Bars(c), L)
        /\ Ascends(D)
    BY DEF Grows, TwinOf
  <2> HIDE DEF B, D
  <2> QED BY <2>1, <2>2, AlikeGrows
<1> QED BY <1>5, <1>6, <1>7, <1>8 DEF TwinOf

\* One series: no candle was opened out of order.
Tidy(a, n) == n \notin a.odd

Twin(a) ==
  LET src == customSourceTF(a.length) IN
  a.length > 0 =>
    TwinOf(a.series[src], a.given[src], a.series["custom"], a.given["custom"], a.length)

Even(a) == Twin(a) /\ \A n \in Names : Tidy(a, n)

LEMMA SameEven ==
  ASSUME NEW a, NEW b, Even(a), b.series = a.series, b.given = a.given,
         b.odd = a.odd, b.length = a.length
  PROVE  Even(b)
  BY DEF Even, Twin, Tidy

\* The series in ns were handed no print of a bucket after that of i.
Older(a, ns, i) ==
  \A n \in ns : \A j \in a.given[n] :
    Bucket(LenOf(a, n), j.ts) <= Bucket(LenOf(a, n), i.ts)

LEMMA OlderInTurn ==
  ASSUME NEW T \in SUBSET Prints, NEW a \in AggsOf(T), NEW ns \in SUBSET Names,
         NEW i \in T, "custom" \in ns => a.length > 0, Older(a, ns, i)
  PROVE  InTurn(a, ns, i)
<1> SUFFICES ASSUME NEW n \in ns, NEW j \in a.given[n],
                    Bucket(LenOf(a, n), i.ts) < Bucket(LenOf(a, n), j.ts)
             PROVE  FALSE
  BY DEF InTurn
<1>1. /\ a.given \in [Names -> SUBSET T] /\ a.length \in {0} \cup CustomLens
  BY DEF AggsOf
<1> DEFINE L == LenOf(a, n)
           x == Bucket(L, j.ts)
           y == Bucket(L, i.ts)
<1>2. L \in Nat \ {0}
  BY <1>1, LengthsAre
<1>3. x <= y /\ y < x
  BY DEF Older
<1> HIDE DEF L
<1>4. x \in Nat /\ y \in Nat
  <2>1. i \in Prints /\ j \in Prints
    BY <1>1
  <2> QED BY <2>1, <1>2, PrintIs
<1> HIDE DEF x, y
<1> QED BY <1>3, <1>4

\* A print of no earlier bucket than all the series in ns were handed.
LEMMA AggregateGrows ==
  ASSUME NEW T \in SUBSET Prints, NEW a, Good(a, T), NEW ns \in SUBSET Names,
         NEW i \in T, "custom" \in ns => a.length > 0, Older(a, ns, i),
         \A n \in ns : Tidy(a, n)
  PROVE  LET b == Aggregate(a, ns, i) IN
         /\ Good(b, T) /\ Handed(a, b, ns, i)
         /\ \A n \in ns : /\ Tidy(b, n)
                          /\ Grows(a.series[n], b.series[n], i, Bucket(LenOf(a, n), i.ts))
<1> DEFINE b == Aggregate(a, ns, i)
           at(n) == Bucket(LenOf(a, n), i.ts)
           q(n) == foldTrade(a.series[n], at(n), i, a.vwap)
<1>1. /\ a \in AggsOf(T) /\ a.series \in [Names -> SeriesOf(T)] /\ a.vwap \in SUBSET T
      /\ a.given \in [Names -> SUBSET T] /\ a.length \in {0} \cup CustomLens
      /\ \A n \in Names : Kept(a, n, T)
  BY DEF Good, AggsOf
<1>2. Good(b, T) /\ Handed(a, b, ns, i)
  <2>1. InTurn(a, ns, i)
    BY <1>1, OlderInTurn
  <2> QED BY <2>1, AggregateIs
<1>3. ASSUME NEW n \in ns
      PROVE  b.series[n] = q(n) /\ (n \in b.odd => n \in a.odd \/ OpensLate(a.series[n], at(n)))
  <2>1. /\ b.series = [m \in Names |-> IF m \in ns THEN q(m) ELSE a.series[m]]
        /\ b.odd = a.odd \cup {m \in ns : OpensLate(a.series[m], at(m))}
    <3> DEFINE S == [m \in Names |-> IF m \in ns THEN q(m) ELSE a.series[m]]
               H == [m \in Names |-> a.given[m] \cup IF m \in ns THEN {i} ELSE {}]
               O == a.odd \cup {m \in ns : OpensLate(a.series[m], at(m))}
    <3>1. b = [a EXCEPT !.series = S, !.given = H, !.odd = O]
      BY DEF Aggregate
    <3> HIDE DEF S, H, O, b
    <3>2. b.series = S /\ b.odd = O
      BY <3>1, <1>1 DEF AggsOf
    <3> QED BY <3>2 DEF S, O
  <2> HIDE DEF b, q, at
  <2> QED BY <2>1
<1> HIDE DEF b
<1>4. ASSUME NEW n \in ns
      PROVE  Tidy(b, n) /\ Grows(a.series[n], b.series[n], i, at(n))
  <2> DEFINE s == a.series[n]
             B == Bars(s)
             L == LenOf(a, n)
  <2>1. L \in Nat \ {0} /\ s \in SeriesOf(T) /\ n \in Names
    <3>1. n = "custom" => a.length > 0
      OBVIOUS
    <3> QED BY <3>1, <1>1, LengthsAre
  <2>2. n \notin a.odd
    BY DEF Tidy
  <2>3. Ascends(B) /\ Filed(B, Gone(s), a.given[n], L, T)
    BY <2>1, <2>2, <1>1 DEF Kept
  <2>4. at(n) \in 0..MaxTime /\ i \in Prints /\ i.ts \in Nat
    BY <2>1, PrintIs
  <2>5. ASSUME NEW k \in 1..Len(B) PROVE B[k].start <= at(n)
    <3>1. B[k].close \in B[k].prints /\ B[k].prints \subseteq a.given[n]
      BY <2>3 DEF Filed
    <3> DEFINE j == B[k].close
    <3>2. j \in a.given[n]
      BY <3>1, <2>1, <1>1
    <3>3. B[k].start = Bucket(L, j.ts)
      BY <3>1, <3>2, <2>3 DEF Filed
    <3>4. Bucket(L, j.ts) <= at(n)
      BY <3>2 DEF Older
    <3> QED BY <3>3, <3>4
  <2>6. ~OpensLate(s, at(n)) /\ Grows(s, q(n), i, at(n))
    <3> HIDE DEF at
    <3> QED BY <2>1, <2>3, <2>4, <2>5, <1>1, FoldGrows
  <2>7. n \notin b.odd /\ Grows(s, b.series[n], i, at(n))
    BY <2>2, <2>6, <1>3
  <2> QED BY <2>7 DEF Tidy
<1> QED BY <1>2, <1>4 DEF b

\* The source of the custom series.
LEMMA SourceIs ==
  ASSUME NEW a, a.length \in CustomLens
  PROVE  LET n == customSourceTF(a.length) IN
         /\ n \in {"fine", "minute"} /\ n \in Names /\ n # "custom"
         /\ LenOf(a, n) \in Nat \ {0} /\ a.length % LenOf(a, n) = 0
         /\ a.length \in Nat \ {0}
<1> DEFINE L == a.length
           n == customSourceTF(L)
<1>1. /\ LenOf(a, "fine") = FineLen /\ LenOf(a, "minute") = MinuteLen
      /\ FineLen \in Nat \ {0} /\ MinuteLen \in Nat \ {0} /\ L \in Nat \ {0}
  <2>1. L \in {0} \cup CustomLens /\ CustomLens \subseteq Nat \ {0}
    BY BarsAssumption
  <2> QED BY <2>1, LengthsAre
<1>2. L % FineLen = 0
  BY BarsAssumption
<1>3. CASE L % MinuteLen = 0
  <2>1. n = "minute"
    BY <1>3 DEF customSourceTF
  <2> HIDE DEF n
  <2> QED BY <2>1, <1>1, <1>3, NamesAre DEF n
<1>4. CASE ~(L % MinuteLen = 0)
  <2>1. n = "fine"
    BY <1>4 DEF customSourceTF
  <2> HIDE DEF n
  <2> QED BY <2>1, <1>1, <1>2, NamesAre DEF n
<1> QED BY <1>3, <1>4

\* A print handed to a source and, with it, to the custom series.
LEMMA AggregateEven ==
  ASSUME NEW T \in SUBSET Prints, NEW a, Good(a, T), Even(a),
         NEW src \in {"fine", "minute"}, NEW i \in T, Older(a, FedWith(a, src), i)
  PROVE  LET b == Aggregate(a, FedWith(a, src), i) IN
         Good(b, T) /\ Even(b) /\ Handed(a, b, FedWith(a, src), i)
<1> DEFINE ns == FedWith(a, src)
           b == Aggregate(a, ns, i)
           L == a.length
           u == customSourceTF(L)
<1>1. /\ ns \in SUBSET Names /\ src \in ns
      /\ "custom" \in ns <=> L > 0 /\ u = src
      /\ \A n \in ns : n = src \/ n = "custom"
  BY FedIs
<1>2. /\ a.series \in [Names -> SeriesOf(T)] /\ a.given \in [Names -> SUBSET T]
      /\ L \in {0} \cup CustomLens
  BY DEF Good, AggsOf
<1> HIDE DEF ns
<1>3. /\ Good(b, T) /\ Handed(a, b, ns, i)
      /\ \A n \in ns : /\ Tidy(b, n)
                       /\ Grows(a.series[n], b.series[n], i, Bucket(LenOf(a, n), i.ts))
  <2>1. \A n \in ns : Tidy(a, n)
    BY <1>1 DEF Even
  <2> QED BY <1>1, <2>1, AggregateGrows DEF ns
<1> HIDE DEF b
<1>4. /\ b.length = L
      /\ \A n \in Names : b.given[n] = a.given[n] \cup IF n \in ns THEN {i} ELSE {}
      /\ \A n \in Names \ ns : b.series[n] = a.series[n] /\ (n \in b.odd => n \in a.odd)
  BY <1>3 DEF Handed, SameRest
<1>5. ASSUME NEW n \in Names PROVE Tidy(b, n)
  BY <1>3, <1>4 DEF Even, Tidy
<1>6. ASSUME L > 0
      PROVE  TwinOf(b.series[u], b.given[u], b.series["custom"], b.given["custom"], L)
  <2> DEFINE M == LenOf(a, u)
  <2>1. u \in Names /\ "custom" \in Names /\ u # "custom" /\ u \in {"fine", "minute"}
        /\ L \in Nat \ {0} /\ M \in Nat \ {0} /\ L % M = 0 /\ LenOf(a, "custom") = L
    <3>1. L \in CustomLens
      BY <1>2, <1>6, LengthsAre
    <3>2. LenOf(a, "custom") = L
      BY <1>2, LengthsAre
    <3> HIDE DEF M
    <3>3. /\ u \in {"fine", "minute"} /\ u \in Names /\ u # "custom" /\ L \in Nat \ {0}
          /\ LenOf(a, u) \in Nat \ {0} /\ L % LenOf(a, u) = 0
      BY <3>1, SourceIs
    <3> HIDE DEF u, L
    <3> QED BY <3>2, <3>3, NamesAre DEF M
  <2>2. TwinOf(a.series[u], a.given[u], a.series["custom"], a.given["custom"], L)
    BY <1>6 DEF Even, Twin
  <2>3. CASE u = src
    <3>1. u \in ns /\ "custom" \in ns
      BY <1>1, <1>6, <2>3
    <3>2. /\ b.given[u] = a.given[u] \cup {i} /\ b.given["custom"] = a.given["custom"] \cup {i}
          /\ Grows(a.series[u], b.series[u], i, Bucket(M, i.ts))
          /\ Grows(a.series["custom"], b.series["custom"], i, Bucket(L, i.ts))
      BY <2>1, <3>1, <1>3, <1>4
    <3>3. /\ a.series[u] \in SeriesOf(T) /\ b.series[u] \in SeriesOf(T)
          /\ a.series["custom"] \in SeriesOf(T) /\ b.series["custom"] \in SeriesOf(T)
          /\ a.given["custom"] \in SUBSET T
      BY <2>1, <1>2, <1>3 DEF Good, AggsOf
    <3>4. Ascends(Bars(b.series[u])) /\ Ascends(Bars(b.series["custom"]))
      <4>1. /\ Tidy(b, u) /\ Tidy(b, "custom")
            /\ Kept(b, u, T) /\ Kept(b, "custom", T)
        BY <2>1, <1>3, <1>5 DEF Good
      <4> QED BY <4>1 DEF Kept, Tidy
    <3> HIDE DEF u, L, M
    <3>5. /\ Bucket(M, i.ts) \in Nat /\ i.ts \in Nat
      BY <2>1, PrintIs
    <3>6. Bucket(L, Bucket(M, i.ts)) = Bucket(L, i.ts)
      BY <2>1, <3>5, BucketNested
    <3> QED BY <2>1, <2>2, <3>2, <3>3, <3>4, <3>5, <3>6, TwinGrows
  <2>4. CASE u # src
    <3>1. u \notin ns /\ "custom" \notin ns
      BY <1>1, <2>1, <2>4
    <3>2. /\ b.given[u] = a.given[u] /\ b.given["custom"] = a.given["custom"]
          /\ b.series[u] = a.series[u] /\ b.series["custom"] = a.series["custom"]
      BY <2>1, <3>1, <1>4
    <3> QED BY <2>2, <3>2
  <2> QED BY <2>3, <2>4
<1>7. Twin(b)
  BY <1>4, <1>6 DEF Twin
<1> QED BY <1>3, <1>5, <1>7 DEF Even, b, ns

LEMMA BucketNat ==
  ASSUME NEW c \in Nat \ {0}, NEW x \in Nat
  PROVE  Bucket(c, x) \in Nat
<1>1. Bucket(c, x) \in 0..x
  BY BucketIs
<1> QED BY <1>1

LEMMA BucketBeyond ==
  ASSUME NEW L \in Nat \ {0}, NEW t \in Nat, NEW m \in Nat, NEW u \in Nat,
         Bucket(L, t) <= Bucket(L, m), m <= u
  PROVE  Bucket(L, t) <= Bucket(L, u)
<1>1. Bucket(L, m) <= Bucket(L, u)
  BY BucketMonotone
<1> DEFINE x == Bucket(L, t)
           y == Bucket(L, m)
           z == Bucket(L, u)
<1>2. x \in Nat
  BY BucketNat
<1>3. y \in Nat
  BY BucketNat
<1>4. z \in Nat
  BY BucketNat
<1> HIDE DEF x, y, z
<1>5. x <= y /\ y <= z
  BY <1>1 DEF x, y, z
<1>6. x <= z
  BY <1>2, <1>3, <1>4, <1>5
<1> QED BY <1>6 DEF x, z

\* Nothing up to the last time REST's bars of min may reach is of a later bucket
\* than what comes after min.
LEMMA AfterBars ==
  ASSUME NEW L \in Nat \ {0}, L % MinuteLen = 0, NEW min \in Nat,
         NEW t \in Nat, NEW u \in Nat, t <= LastOf(min), u > min
  PROVE  Bucket(L, t) <= Bucket(L, u)
<1>1. Bucket(L, t) <= Bucket(L, min)
  BY LastOfIs
<1> QED BY <1>1, BucketBeyond

\* A buffered print.
LEMMA DrainEven ==
  ASSUME NEW T, Numbered(T), NoneLate(T), NEW a, Good(a, T), Even(a),
         NEW i \in T, NEW sub \in Nat, NEW min \in Nat, Fresh(a, i, sub, min)
  PROVE  Even(applyBufferedTradeLocked(a, i, sub, min))
<1> DEFINE v == VwapUpdate(a, i)
           b == IF i.ts > min THEN AggregateMinute(a, i) ELSE a
           c == applyBufferedTradeLocked(a, i, sub, min)
<1>0. T \in SUBSET Prints
  BY DEF Numbered
<1>1. \A j \in T : j.ts \in Nat /\ j.n \in Nat
  BY <1>0, PrintIs
<1>2. ASSUME NEW j \in T, NEW L \in Nat \ {0}, j.n < i.n \/ j.ts <= i.ts
      PROVE  Bucket(L, j.ts) <= Bucket(L, i.ts)
  <2>1. j.ts <= i.ts
    BY <1>2 DEF NoneLate
  <2>2. j.ts \in Nat /\ i.ts \in Nat
    BY <1>1
  <2> QED BY <2>1, <2>2, BucketMonotone
<1>3. /\ a \in AggsOf(T) /\ a.given \in [Names -> SUBSET T]
      /\ v \in AggsOf(T) /\ v.series = a.series /\ v.given = a.given /\ v.odd = a.odd
      /\ v.length = a.length /\ a.length \in {0} \cup CustomLens
  <2>1. a \in AggsOf(T)
    BY DEF Good
  <2> QED BY <2>1 DEF AggsOf, VwapUpdate
<1>4. AggregateMinute(a, i) = Aggregate(v, FedWith(v, "minute"), i)
  <2>1. FedWith(v, "minute") = FedWith(a, "minute")
    BY <1>3 DEF FedWith
  <2> QED BY <2>1 DEF AggregateMinute
<1>5. Good(v, T) /\ Even(v)
  BY <1>3, SameGood, SameEven
<1>6. c = IF i.ts > sub THEN AggregateFine(b, i) ELSE b
  BY DEF applyBufferedTradeLocked
<1>7. a.odd = {}
  <2>1. \A n \in Names : n \notin a.odd
    BY DEF Even, Tidy
  <2> QED BY <2>1, <1>3 DEF AggsOf
<1> HIDE DEF v, c
<1>8. /\ Good(b, T) /\ Even(b) /\ b.length = a.length
      /\ \A n \in FedWith(a, "fine") : b.given[n] = a.given[n]
  <2>1. CASE i.ts > min
    <3>1. ASSUME NEW n \in FedWith(v, "minute"), NEW j \in v.given[n]
          PROVE  Bucket(LenOf(v, n), j.ts) <= Bucket(LenOf(v, n), i.ts)
      <4>1. /\ n \in Names /\ (n = "custom" => a.length > 0)
            /\ n = "minute" \/ (n = "custom" /\ customSourceTF(a.length) = "minute")
        <5>1. n \in Names /\ (n = "minute" \/ n = "custom")
          BY FedIs, NamesAre
        <5>2. "custom" \in FedWith(v, "minute") =>
                v.length > 0 /\ customSourceTF(v.length) = "minute"
          BY FedIs
        <5> QED BY <5>1, <5>2, <1>3, NamesAre
      <4>2. Cut(a, n, sub, min) = LastOf(min)
        BY <4>1 DEF Cut
      <4>3. j.n < i.n \/ j.ts <= LastOf(min)
        BY <4>1, <4>2, <1>3, <1>7, <3>1 DEF Fresh
      <4>4. j \in T /\ j.ts \in Nat /\ i.ts \in Nat
        BY <4>1, <3>1, <1>1, <1>3
      <4> DEFINE L == LenOf(v, n)
      <4>5. L \in Nat \ {0} /\ L % MinuteLen = 0
        <5>1. L = LenOf(a, n)
          BY <1>3 DEF LenOf
        <5>2. L \in Nat \ {0}
          BY <5>1, <4>1, <1>3, LengthsAre
        <5>3. CASE n = "minute"
          <6>1. L = MinuteLen
            BY <5>1, <5>3 DEF LenOf
          <6> QED BY <5>2, <6>1
        <5>4. CASE n = "custom" /\ customSourceTF(a.length) = "minute"
          <6>1. L = a.length
            BY <5>1, <5>4 DEF LenOf
          <6>2. a.length % MinuteLen = 0
            BY <5>4, Zenon DEF customSourceTF
          <6> QED BY <5>2, <6>1, <6>2
        <5> QED BY <4>1, <5>3, <5>4
      <4> HIDE DEF L
      <4>6. CASE j.n < i.n
        <5>1. L \in Nat \ {0}
          BY <4>5
        <5> QED BY <4>4, <4>6, <5>1, <1>2 DEF L
      <4>7. CASE j.ts <= LastOf(min)
        <5>1. Bucket(L, j.ts) <= Bucket(L, i.ts)
          BY <4>4, <4>5, <4>7, <2>1, AfterBars
        <5> QED BY <5>1 DEF L
      <4> QED BY <4>3, <4>6, <4>7
    <3>2. Older(v, FedWith(v, "minute"), i)
      BY <3>1 DEF Older
    <3>3. b = Aggregate(v, FedWith(v, "minute"), i)
      BY <2>1, <1>4
    <3> HIDE DEF b
    <3>4. Good(b, T) /\ Even(b) /\ Handed(v, b, FedWith(v, "minute"), i)
      BY <3>2, <3>3, <1>0, <1>5, AggregateEven
    <3>5. b.length = a.length
      BY <3>4, <1>3 DEF Handed, SameRest
    <3>6. ASSUME NEW n \in FedWith(a, "fine") PROVE b.given[n] = a.given[n]
      <4>1. n \in Names /\ n \notin FedWith(v, "minute")
        BY <3>6, <1>3, NamesAre DEF FedWith
      <4> QED BY <4>1, <3>4, <1>3 DEF Handed
    <3> QED BY <3>4, <3>5, <3>6
  <2>2. CASE ~(i.ts > min)
    BY <2>2
  <2> QED BY <2>1, <2>2
<1> HIDE DEF b
<1>9. CASE i.ts > sub
  <2>1. FedWith(b, "fine") = FedWith(a, "fine")
    BY <1>8 DEF FedWith
  <2>2. ASSUME NEW n \in FedWith(b, "fine"), NEW j \in b.given[n]
        PROVE  Bucket(LenOf(b, n), j.ts) <= Bucket(LenOf(b, n), i.ts)
    <3>1. /\ n \in Names /\ (n = "custom" => a.length > 0)
          /\ n # "minute" /\ ~(n = "custom" /\ customSourceTF(a.length) = "minute")
      <4>1. n = "fine" \/ n = "custom"
        BY FedIs
      <4>2. "custom" \in FedWith(b, "fine") =>
              b.length > 0 /\ customSourceTF(b.length) = "fine"
        BY FedIs
      <4> QED BY <4>1, <4>2, <1>8, <2>2, NamesAre
    <3>2. Cut(a, n, sub, min) = sub
      BY <3>1 DEF Cut
    <3>3. j \in a.given[n]
      BY <2>1, <2>2, <1>8
    <3>4. j.n < i.n \/ j.ts <= sub
      BY <3>1, <3>2, <3>3, <1>7 DEF Fresh
    <3>5. j \in T /\ j.ts \in Nat /\ i.ts \in Nat
      BY <3>1, <3>3, <1>1, <1>3
    <3>6. j.n < i.n \/ j.ts <= i.ts
      BY <3>4, <3>5, <1>9
    <3>7. LenOf(b, n) \in Nat \ {0}
      BY <3>1, <1>3, <1>8, LengthsAre
    <3> QED BY <3>5, <3>6, <3>7, <1>2
  <2>3. Older(b, FedWith(b, "fine"), i)
    BY <2>2 DEF Older
  <2>4. c = Aggregate(b, FedWith(b, "fine"), i)
    BY <1>6, <1>9 DEF AggregateFine
  <2>5. Even(c)
    BY <2>3, <2>4, <1>0, <1>8, AggregateEven
  <2> QED BY <2>5 DEF c
<1>10. CASE ~(i.ts > sub)
  BY <1>6, <1>8, <1>10 DEF c
<1> QED BY <1>9, <1>10

\* A drain.
LEMMA FinishEven ==
  ASSUME NEW T, Numbered(T), NoneLate(T), NEW a, NEW sub \in Nat, NEW min \in Nat,
         Sound(a, T, sub, min), Even(a)
  PROVE  Even(finishBackfill(a, sub, min))
<1> DEFINE N == Len(a.buf)
           b == Emptied(a)
<1>0. T \in SUBSET Prints
  BY DEF Numbered
<1>1. a \in AggsOf(T) /\ a.buf \in Seq(T) /\ Good(a, T) /\ InOrder(a.buf)
  BY DEF Sound, Good, AggsOf
<1>2. PICK u : Drains(u, a, sub, min)
  BY <1>0, <1>1, DrainRuns
<1>3. /\ finishBackfill(a, sub, min) = u[N] /\ u[0] = b
      /\ \A m \in 1..N : u[m] = applyBufferedTradeLocked(u[m - 1], a.buf[m], sub, min)
  BY <1>2 DEF Drains
<1>4. N \in Nat /\ \A m \in 1..N : a.buf[m] \in T
  BY <1>1, LenProperties, ElementOfSeq
<1>5. \A m \in 0..N : m < N => m + 1 \in 0..N /\ m + 1 \in 1..N /\ (m + 1) - 1 = m
  BY <1>4
<1>6. /\ b.length = a.length /\ b.series = a.series /\ b.given = a.given
      /\ b.odd = a.odd /\ b \in AggsOf(T)
  <2>1. <<>> \in Seq(T)
    OBVIOUS
  <2> QED BY <2>1, <1>1 DEF AggsOf, Emptied
<1> HIDE DEF b
<1>7. Good(b, T) /\ Even(b) /\ \A k \in 1..N : Fresh(b, a.buf[k], sub, min)
  <2>1. Good(b, T) /\ Even(b)
    BY <1>1, <1>6, SameGood, SameEven
  <2>2. ASSUME NEW k \in 1..N PROVE Fresh(b, a.buf[k], sub, min)
    <3>1. Fresh(a, a.buf[k], sub, min)
      BY DEF Sound
    <3>2. \A n \in Names : Cut(b, n, sub, min) = Cut(a, n, sub, min)
      BY <1>6 DEF Cut
    <3> QED BY <3>1, <3>2, <1>6 DEF Fresh
  <2> QED BY <2>1, <2>2
<1> DEFINE G == {m \in 0..N : /\ Good(u[m], T) /\ Even(u[m])
                              /\ \A k \in (m + 1)..N : Fresh(u[m], a.buf[k], sub, min)}
<1>8. 0 \in G
  <2>1. \A k \in (0 + 1)..N : k \in 1..N
    BY <1>4
  <2> QED BY <2>1, <1>3, <1>4, <1>7
<1>9. ASSUME NEW m \in 0..N, m < N, m \in G PROVE m + 1 \in G
  <2> DEFINE i == a.buf[m + 1]
  <2>1. /\ Good(u[m], T) /\ Even(u[m]) /\ Fresh(u[m], i, sub, min) /\ i \in T
        /\ u[m + 1] = applyBufferedTradeLocked(u[m], i, sub, min)
    <3>1. m + 1 \in (m + 1)..N
      BY <1>4, <1>9
    <3> QED BY <3>1, <1>3, <1>4, <1>5, <1>9
  <2> HIDE DEF i
  <2>2. Good(u[m + 1], T) /\ Fed(u[m], u[m + 1], {i}) /\ Even(u[m + 1])
    BY <2>1, <1>0, DrainStep, DrainEven
  <2>3. ASSUME NEW k \in ((m + 1) + 1)..N PROVE Fresh(u[m + 1], a.buf[k], sub, min)
    <3>1. k \in (m + 1)..N /\ m + 1 < k /\ k \in 1..N /\ m + 1 \in 1..N
      BY <1>4, <1>9
    <3>2. i.n < a.buf[k].n
      BY <3>1, <1>1 DEF InOrder, i
    <3>3. Fresh(u[m], a.buf[k], sub, min)
      BY <3>1, <1>9
    <3> QED BY <3>2, <3>3, <2>2, FedFresh
  <2> QED BY <2>2, <2>3, <1>5, <1>9
<1>10. \A m \in 0..N : m \in G
  <2> HIDE DEF G
  <2> QED BY <1>4, <1>8, <1>9, Induction
<1>11. Even(u[N])
  BY <1>4, <1>10
<1> QED BY <1>3, <1>11

\* A report, held in the buffer, refused or applied.
LEMMA TradeEven ==
  ASSUME NEW T \in SUBSET Prints, NEW a, NEW sub, NEW min, Sound(a, T, sub, min),
         NEW i \in Prints, \A j \in T : j.n < i.n, NEW px \in Prices,
         Numbered(T \cup {i}), NoneLate(T \cup {i}), Even(a)
  PROVE  Even(OnTrade(a, i, px))
<1> DEFINE U == T \cup {i}
           b == OnTrade(a, i, px)
           p == liveTradePlausibleLocked(a, px)
<1>1. a \in AggsOf(T) /\ a \in AggsOf(U) /\ Good(a, U)
  BY SoundWider DEF Sound, Good
<1>2. p \in BOOLEAN
  BY DEF liveTradePlausibleLocked
<1>3. CASE ~p
  BY <1>3 DEF OnTrade, Refused
<1>4. CASE p /\ a.buffering
  <2>1. b = Buffered(a, i, px)
    BY <1>4 DEF OnTrade, Buffered
  <2>2. b.series = a.series /\ b.given = a.given /\ b.odd = a.odd /\ b.length = a.length
    BY <2>1, <1>1 DEF AggsOf, Buffered
  <2> HIDE DEF b
  <2>3. Even(b)
    BY <2>2, SameEven
  <2> QED BY <2>3 DEF b
<1>5. CASE p /\ ~a.buffering
  <2> DEFINE c == [a EXCEPT !.last = px]
  <2>1. b = applyTradeLocked(c, i)
    BY <1>5 DEF OnTrade
  <2>2. /\ c.series = a.series /\ c.given = a.given /\ c.odd = a.odd
        /\ c.length = a.length
    BY <1>1 DEF AggsOf
  <2>3. c \in AggsOf(U)
    BY <1>1 DEF AggsOf
  <2> HIDE DEF c
  <2>4. Good(c, U) /\ Even(c)
    BY <1>1, <2>2, <2>3, SameGood, SameEven
  <2>5. b = applyBufferedTradeLocked(c, i, 0, 0)
    <3>1. i.ts > 0
      BY PrintIs
    <3> QED BY <2>1, <3>1 DEF applyTradeLocked, applyBufferedTradeLocked
  <2>6. Fresh(c, i, 0, 0)
    <3>1. Fresh(a, i, 0, 0)
      BY <1>1, FreshNew
    <3> QED BY <3>1, <2>2, FreshSame
  <2> HIDE DEF b
  <2>7. Even(b)
    <3>1. i \in U
      OBVIOUS
    <3> HIDE DEF U
    <3> QED BY <2>4, <2>5, <2>6, <3>1, DrainEven DEF U
  <2> QED BY <2>7 DEF b
<1> QED BY <1>2, <1>3, <1>4, <1>5

\* The candle r closes as the last of the first m candles of B in its bucket.
ClosesAt(r, B, j, m, L) ==
  /\ Bucket(L, B[j].start) = r.start /\ r.close = B[j].close
  /\ \A l \in 1..m : l > j => Bucket(L, B[l].start) # r.start

\* Resampling, as far as the m-th candle.
Ends(R, B, m, L) ==
  /\ Len(R) <= m
  /\ \A k \in 1..Len(R) : \E j \in 1..m : ClosesAt(R[k], B, j, m, L)

LEMMA EndsStep ==
  ASSUME NEW T \in SUBSET Prints, NEW B \in Seq(Candles(T)), NEW L \in Nat \ {0},
         Rises(B, L), NEW m \in 1..Len(B), NEW R \in Seq(Candles(T)),
         Gathers(R, B, m - 1, L), Ends(R, B, m - 1, L)
  PROVE  Ends(Joined(R, B[m], L), B, m, L)
<1> DEFINE n == Len(R)
           bar == B[m]
           b == Bucket(L, bar.start)
           Q == Joined(R, bar, L)
           p == Len(Q)
<1>1. /\ Len(B) \in Nat /\ bar \in Candles(T) /\ n \in Nat /\ m \in Nat /\ n <= m - 1
  <2>1. /\ Len(B) \in Nat /\ n \in Nat /\ B[m] \in Candles(T)
    BY CandleSeq
  <2>2. n <= m - 1
    BY DEF Ends
  <2> QED BY <2>1, <2>2
<1>2. /\ Q \in Seq(Candles(T)) /\ p \in Nat /\ p > 0 /\ p <= m
      /\ Q[p].start = b /\ Q[p].close = bar.close
      /\ \A k \in 1..(p - 1) : k \in 1..n /\ Q[k] = R[k]
  <2>1. R \in Seq(Candles(T)) /\ bar \in Candles(T) /\ L \in Nat \ {0}
    BY <1>1
  <2> HIDE DEF bar
  <2>2. Q \in Seq(Candles(T))
    BY <2>1, JoinedIs
  <2>3. ASSUME R # <<>>, R[n].start = b
        PROVE  /\ n > 0 /\ Len(Q) = n /\ \A k \in 1..(n - 1) : Q[k] = R[k]
               /\ Q[n].start = b /\ Q[n].close = bar.close
    BY <2>1, <2>3, JoinedIs
  <2>4. ASSUME ~(R # <<>> /\ R[n].start = b)
        PROVE  /\ Len(Q) = n + 1 /\ \A k \in 1..n : Q[k] = R[k]
               /\ Q[n + 1].start = b /\ Q[n + 1].close = bar.close
    BY <2>1, <2>4, JoinedIs
  <2> HIDE DEF Q, b, n
  <2> QED BY <2>2, <2>3, <2>4, <1>1
<1>3. Ascends(Q)
  BY GatherStep DEF Gathers
<1> HIDE DEF Q, n, b
<1>4. \A k \in 1..p : k # p => k \in 1..(p - 1) /\ Q[k].start < b
  <2>1. \A k \in 1..p : k # p => k \in 1..(p - 1) /\ k < p /\ p \in 1..p
    BY <1>2
  <2> QED BY <2>1, <1>2, <1>3 DEF Ascends
<1>5. b \in Nat
  BY <1>1, BucketNat, CandleSeq DEF b
<1>6. ASSUME NEW k \in 1..p
      PROVE  \E j \in 1..m : ClosesAt(Q[k], B, j, m, L)
  <2>1. CASE k = p
    <3>1. m \in 1..m /\ \A l \in 1..m : ~(l > m)
      BY <1>1
    <3>2. ClosesAt(Q[p], B, m, m, L)
      BY <3>1, <1>2 DEF ClosesAt, b
    <3> QED BY <2>1, <3>1, <3>2
  <2>2. CASE k # p
    <3>1. k \in 1..n /\ Q[k] = R[k] /\ Q[k].start < b
      BY <2>2, <1>2, <1>4
    <3>2. PICK j \in 1..(m - 1) : ClosesAt(R[k], B, j, m - 1, L)
      BY <3>1 DEF Ends, n
    <3>3. Bucket(L, B[m].start) # Q[k].start
      <4> SUFFICES ASSUME b = Q[k].start PROVE FALSE
        BY DEF b
      <4>1. b < b
        BY <3>1
      <4> QED BY <4>1, <1>5
    <3>4. j \in 1..m /\ \A l \in 1..m : l = m \/ l \in 1..(m - 1)
      BY <1>1
    <3>5. ClosesAt(Q[k], B, j, m, L)
      BY <3>1, <3>2, <3>3, <3>4 DEF ClosesAt
    <3> QED BY <3>4, <3>5
  <2> QED BY <2>1, <2>2
<1> QED BY <1>2, <1>6 DEF Ends, Q

LEMMA ResampleEnds ==
  ASSUME NEW T \in SUBSET Prints, NEW B \in Seq(Candles(T)), NEW L \in Nat \ {0},
         Rises(B, L)
  PROVE  Ends(resampleTo(B, L), B, Len(B), L)
<1> DEFINE N == Len(B)
<1>1. PICK u : /\ resampleTo(B, L) = u[N] /\ u[0] = <<>>
               /\ \A m \in 1..N : u[m] = Joined(u[m - 1], B[m], L)
  BY ResampleRuns
<1>2. N \in Nat /\ \A m \in 1..N : B[m] \in Candles(T)
  BY CandleSeq
<1>3. \A m \in 0..N : m < N => m + 1 \in 0..N /\ m + 1 \in 1..N /\ (m + 1) - 1 = m
  BY <1>2
<1> DEFINE G == {m \in 0..N : /\ u[m] \in Seq(Candles(T))
                              /\ Gathers(u[m], B, m, L) /\ Ends(u[m], B, m, L)}
<1>4. 0 \in G
  <2> DEFINE e == <<>>
  <2>1. e \in Seq(Candles(T)) /\ Len(e) = 0 /\ \A k \in 1..0 : FALSE
    OBVIOUS
  <2> HIDE DEF e
  <2>2. \A k \in 1..Len(e) : FALSE
    BY <2>1
  <2>3. Ascends(e)
    BY <2>2 DEF Ascends
  <2>4. Gathers(e, B, 0, L)
    BY <2>1, <2>2, <2>3, Zenon DEF Gathers
  <2>5. Ends(e, B, 0, L)
    BY <2>1, <2>2 DEF Ends
  <2>6. u[0] = e /\ 0 \in 0..N
    BY <1>1, <1>2 DEF e
  <2> QED BY <2>1, <2>4, <2>5, <2>6
<1>5. ASSUME NEW m \in 0..N, m < N, m \in G PROVE m + 1 \in G
  <2>1. u[m + 1] = Joined(u[m], B[m + 1], L) /\ u[m] \in Seq(Candles(T))
    BY <1>1, <1>3, <1>5
  <2>2. u[m + 1] \in Seq(Candles(T))
    BY <2>1, <1>2, <1>3, <1>5, JoinedIs
  <2>3. /\ Gathers(u[m], B, (m + 1) - 1, L) /\ Ends(u[m], B, (m + 1) - 1, L)
        /\ m + 1 \in 1..Len(B)
    BY <1>3, <1>5
  <2>4. Gathers(Joined(u[m], B[m + 1], L), B, m + 1, L)
    BY <2>1, <2>3, GatherStep
  <2>5. Ends(Joined(u[m], B[m + 1], L), B, m + 1, L)
    BY <2>1, <2>3, EndsStep
  <2> QED BY <2>1, <2>2, <2>4, <2>5, <1>3, <1>5
<1>6. \A m \in 0..N : m \in G
  <2> HIDE DEF G
  <2> QED BY <1>2, <1>4, <1>5, Induction
<1>7. N \in 0..N
  BY <1>2
<1> QED BY <1>1, <1>6, <1>7

\* The order of ascending candles is that of their starts.
LEMMA StartOrder ==
  ASSUME NEW T, NEW B \in Seq(Candles(T)), Ascends(B),
         NEW j \in 1..Len(B), NEW l \in 1..Len(B)
  PROVE  l > j <=> B[l].start > B[j].start
<1>1. Len(B) \in Nat /\ B[j].start \in Nat /\ B[l].start \in Nat
  BY CandleSeq
<1>2. j < l => B[j].start < B[l].start
  BY DEF Ascends
<1>3. l < j => B[l].start < B[j].start
  BY DEF Ascends
<1>4. l = j => B[l].start = B[j].start
  OBVIOUS
<1> DEFINE x == B[j].start
           y == B[l].start
<1>5. /\ x \in Nat /\ y \in Nat /\ j \in Nat /\ l \in Nat
      /\ j < l => x < y
      /\ l < j => y < x
      /\ l = j => y = x
  BY <1>1, <1>2, <1>3, <1>4
<1> HIDE DEF x, y
<1>6. l > j <=> y > x
  BY <1>5
<1> QED BY <1>6 DEF x, y

LEMMA EndsAlike ==
  ASSUME NEW T, NEW B \in Seq(Candles(T)), Ascends(B), NEW R, NEW L,
         Ends(R, B, Len(B), L)
  PROVE  Alike(B, R, L)
<1> SUFFICES ASSUME NEW k \in 1..Len(R), NEW m \in 1..Len(B),
                    Bucket(L, B[m].start) = R[k].start,
                    \A l \in 1..Len(B) :
                      B[l].start > B[m].start => Bucket(L, B[l].start) # R[k].start
             PROVE  R[k].close = B[m].close
  BY DEF Alike
<1>1. PICK j \in 1..Len(B) : ClosesAt(R[k], B, j, Len(B), L)
  BY DEF Ends
<1>2. ~(m > j)
  BY <1>1 DEF ClosesAt
<1>3. ~(j > m)
  <2> SUFFICES ASSUME j > m PROVE FALSE
    OBVIOUS
  <2>1. B[j].start > B[m].start
    BY StartOrder
  <2> QED BY <2>1, <1>1 DEF ClosesAt
<1>4. m = j
  <2>1. Len(B) \in Nat
    BY CandleSeq
  <2> QED BY <2>1, <1>2, <1>3
<1> QED BY <1>1, <1>4 DEF ClosesAt

\* A load of no more than one candle over the ring's capacity evicts at most
\* that one.
LEMMA LoadedShort ==
  ASSUME NEW T \in SUBSET Prints, NEW h \in Seq(Candles(T)), NEW cur,
         Len(h) <= RingCap + 1
  PROVE  LET s == Loaded(h, cur) IN
         Gone(s) \in 0..1 /\ (Gone(s) = 1 => Len(h) = RingCap + 1)
<1> DEFINE forms == h # <<>> /\ Last(h).start >= cur
           c == IF forms THEN Front(h) ELSE h
           N == Len(h)
           M == Len(c)
           s == Loaded(h, cur)
<1>1. N \in Nat /\ (h # <<>> => N > 0)
  BY LenProperties, EmptySeq
<1>2. c \in Seq(Candles(T)) /\ M \in Nat /\ M <= N
  <2>1. CASE forms
    <3>1. Front(h) = SubSeq(h, 1, N - 1) /\ N - 1 \in 0..N
      BY <2>1, <1>1 DEF Front
    <3>2. SubSeq(h, 1, N - 1) \in Seq(Candles(T)) /\ Len(SubSeq(h, 1, N - 1)) = N - 1
      BY <3>1, Prefix
    <3>3. c = SubSeq(h, 1, N - 1)
      BY <2>1, <3>1
    <3> QED BY <3>1, <3>2, <3>3, <1>1
  <2>2. CASE ~forms
    BY <2>2, <1>1
  <2> QED BY <2>1, <2>2
<1>3. s = [ring |-> Filled(c), forming |-> IF forms THEN Last(h) ELSE NoCandle,
           fed |-> [j \in 1..M |-> c[j].close]]
  BY Zenon DEF Loaded, Filled, SlotOf
<1> HIDE DEF c, forms, N, s, M
<1>4. s.ring = Filled(c) /\ s.fed = [j \in 1..M |-> c[j].close]
  BY <1>3
<1>5. s.ring.count = IF M < RingCap THEN M ELSE RingCap
  BY <1>2, <1>4, FilledIs DEF Fills, M
<1>6. Len(s.fed) = M
  BY <1>2, <1>4
<1>7. RingCap \in Nat /\ N <= RingCap + 1
  BY RingAssumption DEF N
<1>8. Gone(s) = M - s.ring.count
  BY <1>6 DEF Gone
<1> QED BY <1>1, <1>2, <1>5, <1>7, <1>8 DEF s, N

\* A custom series just made from its source.
LEMMA LoadedTwin ==
  ASSUME NEW T \in SUBSET Prints, NEW s \in SeriesOf(T), NEW S \in SUBSET T,
         NEW M \in Nat \ {0}, NEW L \in Nat \ {0}, L % M = 0, Ascends(Bars(s)),
         Filed(Bars(s), Gone(s), S, M, T), NEW cur
  PROVE  LET c == Loaded(resampleTo(Bars(s), L), cur) IN
         TwinOf(s, S, c, PrintsIn(Bars(s)), L)
<1> DEFINE B == Bars(s)
           R == resampleTo(B, L)
           c == Loaded(R, cur)
           C == Bars(c)
           P == PrintsIn(B)
<1>1. T \in SUBSET Prints
  OBVIOUS
<1>2. /\ B \in Seq(Candles(T)) /\ Len(B) = Size(s) /\ s.ring.count \in 0..RingCap
      /\ R \in Seq(Candles(T))
  <2>1. B \in Seq(Candles(T)) /\ Len(B) = Size(s)
    BY <1>1, BarsAre
  <2>2. s.ring.count \in 0..RingCap
    BY DEF SeriesOf, Rings
  <2>3. R \in Seq(Candles(T))
    <3> HIDE DEF B
    <3> QED BY <2>1, <1>1, ResampleIs
  <2> QED BY <2>1, <2>2, <2>3
<1>3. /\ Rises(B, L) /\ P \subseteq S
      /\ \A k \in 1..Len(B) : B[k].close \in B[k].prints
  <2>2. Rises(B, L) /\ P \subseteq S
    BY <1>1, <1>2, FiledRises
  <2>3. \A k \in 1..Len(B) : B[k].close \in B[k].prints
    BY DEF Filed
  <2> QED BY <2>2, <2>3
<1>4. Alike(B, R, L) /\ Len(R) <= Len(B)
  <2>1. Ascends(B)
    OBVIOUS
  <2> HIDE DEF B
  <2>2. Ends(R, B, Len(B), L)
    BY <1>1, <1>2, <1>3, ResampleEnds
  <2> HIDE DEF R
  <2> QED BY <2>1, <2>2, <1>2, EndsAlike DEF Ends
<1>5. Gathers(R, B, Len(B), L) /\ Complete(R, P, L) /\ PrintsIn(R) = P
  <2>1. Gathers(R, B, Len(B), L)
    BY <1>1, <1>2, <1>3, ResampleIs
  <2> HIDE DEF R, B
  <2>2. Complete(R, P, L) /\ PrintsIn(R) = P
    BY <2>1, <1>1, <1>2, <1>3, GatheredComplete
  <2> QED BY <2>1, <2>2
<1> HIDE DEF B, R, P
<1>6. Len(R) \in Nat /\ Len(B) \in Nat /\ Len(R) <= RingCap + 1
      /\ (Len(R) = RingCap + 1 => Full(s))
  <2>1. Len(R) \in Nat /\ Len(B) \in Nat
    BY <1>2, CandleSeq
  <2> QED BY <2>1, <1>2, <1>4, RingAssumption DEF Size, Full
<1>7. /\ c \in SeriesOf(T) /\ Gone(c) \in 0..1 /\ (Gone(c) = 1 => Full(s))
      /\ Len(C) = Len(R) - Gone(c)
      /\ \A k \in 1..Len(C) : C[k] = R[Gone(c) + k]
  <2>1. Gone(c) \in 0..1 /\ (Gone(c) = 1 => Len(R) = RingCap + 1)
    BY <1>1, <1>2, <1>6, LoadedShort
  <2>2. /\ c \in SeriesOf(T) /\ Len(C) = Len(R) - Gone(c)
        /\ \A k \in 1..Len(C) : C[k] = R[Gone(c) + k]
    BY <1>1, <1>2, LoadedIs
  <2> QED BY <2>1, <2>2, <1>6
<1> DEFINE g == Gone(c)
<1>8. C \in Seq(Candles(T))
  BY <1>1, <1>7, BarsAre
<1> HIDE DEF c, C, g
<1>9. Alike(B, C, L)
  <2>1. \A k \in 1..Len(C) : g + k \in 1..Len(R)
    BY <1>6, <1>7 DEF g
  <2> QED BY <2>1, <1>4, <1>7 DEF Alike, g
<1>10. ASSUME NEW i \in P \ PrintsIn(C)
       PROVE  Full(s) /\ Bucket(L, i.ts) <= Bucket(L, B[1].start)
  <2>1. PICK k \in 1..Len(R) : i \in R[k].prints
    <3>1. i \in PrintsIn(R)
      BY <1>5
    <3> QED BY <3>1, <1>2, InSome
  <2>2. ~(k - g \in 1..Len(C))
    <3> SUFFICES ASSUME k - g \in 1..Len(C) PROVE FALSE
      OBVIOUS
    <3>1. g + (k - g) = k
      BY <2>1, <1>6, <1>7 DEF g
    <3>2. C[k - g] = R[k]
      BY <3>1, <1>7 DEF g
    <3>3. i \in PrintsIn(C)
      BY <2>1, <3>2, <1>8, InSome
    <3> QED BY <3>3
  <2>3. g = 1 /\ k = 1
    BY <2>1, <2>2, <1>6, <1>7 DEF g
  <2>4. R[1].start = Bucket(L, i.ts)
    BY <2>1, <2>3, <1>5 DEF Complete
  <2>5. 1 \in 1..Len(B)
    BY <2>1, <1>4, <1>6
  <2>6. PICK m \in 1..Len(R) : R[m].start = Bucket(L, B[1].start)
    BY <2>5, <1>5 DEF Gathers
  <2>7. R[1].start \in Nat /\ R[m].start \in Nat
    BY <2>1, <2>3, <2>6, <1>2, CandleSeq
  <2>8. R[1].start <= R[m].start
    <3>1. m = 1 \/ 1 < m
      BY <2>6, <1>6
    <3>2. 1 < m => R[1].start < R[m].start
      BY <2>1, <2>3, <2>6, <1>5 DEF Complete, Ascends
    <3> DEFINE x == R[1].start
               y == R[m].start
    <3> HIDE DEF x, y
    <3>3. x \in Nat /\ y \in Nat /\ (1 < m => x < y)
      BY <2>7, <3>2 DEF x, y
    <3>4. CASE m = 1
      BY <3>4, <2>7
    <3>5. CASE 1 < m
      <4>1. x <= y
        BY <3>3, <3>5
      <4> QED BY <4>1 DEF x, y
    <3> QED BY <3>1, <3>4, <3>5
  <2>9. Full(s)
    BY <2>3, <1>7 DEF g
  <2> QED BY <2>4, <2>6, <2>8, <2>9
<1>11. TwinOf(s, S, c, P, L)
  BY <1>3, <1>9, <1>10 DEF TwinOf, P, B, C
<1> QED BY <1>11 DEF c, C, R, P, B

\* What rebuildCustomLocked makes of two sources in order.
LEMMA RebuildEven ==
  ASSUME NEW T \in SUBSET Prints, NEW a \in AggsOf(T), a.length > 0,
         Kept(a, "fine", T), Kept(a, "minute", T), Tidy(a, "fine"), Tidy(a, "minute")
  PROVE  Even(rebuildCustomLocked(a))
<1> DEFINE L == a.length
           src == customSourceTF(L)
           M == LenOf(a, src)
           B == SourceBars(a)
           c == Loaded(resampleTo(B, L), Bucket(L, now))
           P == PrintsIn(B)
           b == rebuildCustomLocked(a)
           O == IF src \in a.odd THEN a.odd \cup {"custom"} ELSE a.odd \ {"custom"}
<1>1. /\ a.series \in [Names -> SeriesOf(T)] /\ a.given \in [Names -> SUBSET T]
      /\ a.odd \in SUBSET Names /\ L \in Nat \ {0} /\ L \in CustomLens
  <2>1. /\ a.series \in [Names -> SeriesOf(T)] /\ a.given \in [Names -> SUBSET T]
        /\ a.odd \in SUBSET Names /\ a.length \in {0} \cup CustomLens
    BY DEF AggsOf
  <2> QED BY <2>1, LengthsAre
<1>2. /\ src \in {"fine", "minute"} /\ src \in Names /\ src # "custom"
      /\ M \in Nat \ {0} /\ L % M = 0 /\ Kept(a, src, T) /\ Tidy(a, src)
  <2>1. /\ src \in {"fine", "minute"} /\ src \in Names /\ src # "custom"
        /\ M \in Nat \ {0} /\ L % M = 0
    BY <1>1, SourceIs
  <2> HIDE DEF src, M, L
  <2>2. Kept(a, src, T) /\ Tidy(a, src)
    BY <2>1
  <2> QED BY <2>1, <2>2
<1>3. B = Bars(a.series[src])
  BY DEF SourceBars
<1>4. b = [a EXCEPT !.series["custom"] = c, !.given["custom"] = P, !.odd = O]
  BY Zenon DEF rebuildCustomLocked, PrintsIn
<1>5. O = a.odd \ {"custom"}
  BY <1>2 DEF Tidy
<1> HIDE DEF src, M, B, L, c, P, b, O
<1>6. /\ b.length = L /\ b.odd = O
      /\ \A n \in Names : /\ b.series[n] = IF n = "custom" THEN c ELSE a.series[n]
                          /\ b.given[n] = IF n = "custom" THEN P ELSE a.given[n]
  <2> DEFINE Q == [a.series EXCEPT !["custom"] = c]
             H == [a.given EXCEPT !["custom"] = P]
  <2>1. b = [a EXCEPT !.series = Q, !.given = H, !.odd = O]
    BY <1>4
  <2>2. \A n \in Names : /\ Q[n] = IF n = "custom" THEN c ELSE a.series[n]
                         /\ H[n] = IF n = "custom" THEN P ELSE a.given[n]
    BY <1>1
  <2> HIDE DEF Q, H
  <2>3. b.series = Q /\ b.given = H /\ b.odd = O /\ b.length = L
    BY <2>1 DEF AggsOf, L
  <2> QED BY <2>2, <2>3
<1> DEFINE s == a.series[src]
<1>7. TwinOf(s, a.given[src], c, P, L)
  <2>1. /\ s \in SeriesOf(T) /\ a.given[src] \in SUBSET T
        /\ Ascends(Bars(s)) /\ Filed(Bars(s), Gone(s), a.given[src], M, T)
    BY <1>1, <1>2 DEF Kept, Tidy, M
  <2> HIDE DEF s
  <2>2. TwinOf(s, a.given[src], Loaded(resampleTo(Bars(s), L), Bucket(L, now)),
               PrintsIn(Bars(s)), L)
    BY <2>1, <1>1, <1>2, LoadedTwin
  <2> QED BY <2>2, <1>3 DEF c, P, s
<1>8. Twin(b)
  <2>1. /\ b.series[src] = s /\ b.given[src] = a.given[src]
        /\ b.series["custom"] = c /\ b.given["custom"] = P
    BY <1>2, <1>6, NamesAre
  <2> QED BY <2>1, <1>6, <1>7 DEF Twin, src
<1>9. ASSUME NEW n \in Names PROVE Tidy(b, n)
  <2>1. CASE n = "custom"
    <3>1. b.series[n] = c /\ n \notin b.odd
      BY <2>1, <1>5, <1>6
    <3> QED BY <3>1 DEF Tidy
  <2>2. CASE n # "custom"
    <3>1. Tidy(a, n)
      BY <2>2, NamesAre
    <3>2. b.series[n] = a.series[n] /\ (n \in b.odd => n \in a.odd)
      BY <2>2, <1>5, <1>6
    <3> QED BY <3>1, <3>2 DEF Tidy
  <2> QED BY <2>1, <2>2
<1> QED BY <1>8, <1>9 DEF Even, b

\* The custom series after its source, or another series, was made anew.
LEMMA FollowEven ==
  ASSUME NEW T \in SUBSET Prints, NEW c, Good(c, T),
         NEW src \in {"fine", "minute"}, Tidy(c, "fine"), Tidy(c, "minute"),
         "custom" \notin FedWith(c, src) => Twin(c) /\ Tidy(c, "custom")
  PROVE  Even(RebuiltFrom(c, src))
<1>1. c \in AggsOf(T) /\ Kept(c, "fine", T) /\ Kept(c, "minute", T)
  BY NamesAre DEF Good
<1>2. CASE "custom" \in FedWith(c, src)
  <2>1. RebuiltFrom(c, src) = rebuildCustomLocked(c) /\ c.length > 0
    BY <1>2, FedIs DEF RebuiltFrom
  <2> QED BY <2>1, <1>1, RebuildEven
<1>3. CASE "custom" \notin FedWith(c, src)
  <2>1. RebuiltFrom(c, src) = c
    BY <1>3 DEF RebuiltFrom
  <2>2. \A n \in Names : Tidy(c, n)
    BY <1>3, NamesAre
  <2> QED BY <2>1, <2>2, <1>3 DEF Even
<1> QED BY <1>2, <1>3

\* Load.
LEMMA LoadEven ==
  ASSUME NEW T, Numbered(T), NEW a, Good(a, T), Even(a),
         NEW h \in Seq(Candles(T)), Complete(h, PrintsIn(h), MinuteLen)
  PROVE  Even(Load(a, h))
<1> DEFINE s == Loaded(h, Bucket(MinuteLen, now))
           P == PrintsIn(h)
           v == sessVWAP(h)
           c == [a EXCEPT !.series["minute"] = s, !.vwap = v, !.twice = {},
                          !.given["minute"] = P, !.odd = @ \ {"minute"}]
<1>0. T \in SUBSET Prints
  BY DEF Numbered
<1>1. Load(a, h) = RebuiltFrom(c, "minute")
  BY DEF Load, PrintsIn
<1>2. /\ a \in AggsOf(T) /\ a.series \in [Names -> SeriesOf(T)]
      /\ a.given \in [Names -> SUBSET T] /\ a.odd \in SUBSET Names
      /\ a.length \in {0} \cup CustomLens
  BY DEF Good, AggsOf
<1>3. MinuteLen \in Nat \ {0} /\ P \in SUBSET T /\ v \in SUBSET T
  BY BarsAssumption, PrintsType, SeedType
<1>4. s \in SeriesOf(T) /\ Exact(s)
  BY <1>0, LoadedIs
<1>5. Ascends(Bars(s)) /\ Filed(Bars(s), Gone(s), P, MinuteLen, T)
  BY <1>0, <1>3, LoadedFiled
<1> HIDE DEF s, P, v
<1>7. /\ c \in AggsOf(T) /\ c.length = a.length /\ "minute" \notin c.odd
      /\ c.series["minute"] = s /\ c.given["minute"] = P
      /\ \A n \in Names \ {"minute"} : /\ c.series[n] = a.series[n] /\ c.given[n] = a.given[n]
                                       /\ n \in c.odd <=> n \in a.odd
  <2> DEFINE S == [a.series EXCEPT !["minute"] = s]
             H == [a.given EXCEPT !["minute"] = P]
             O == a.odd \ {"minute"}
  <2>1. c = [a EXCEPT !.series = S, !.vwap = v, !.twice = {}, !.given = H, !.odd = O]
    OBVIOUS
  <2>2. /\ S \in [Names -> SeriesOf(T)] /\ H \in [Names -> SUBSET T] /\ O \in SUBSET Names
        /\ S["minute"] = s /\ H["minute"] = P
        /\ \A n \in Names \ {"minute"} : S[n] = a.series[n] /\ H[n] = a.given[n]
    BY <1>2, <1>3, <1>4, NamesAre
  <2> HIDE DEF S, H, c
  <2>3. c \in AggsOf(T) /\ c.series = S /\ c.given = H /\ c.odd = O /\ c.length = a.length
    BY <2>1, <2>2, <1>2, <1>3 DEF AggsOf
  <2> QED BY <2>2, <2>3
<1> HIDE DEF c
<1>8. Good(c, T)
  <2>1. LenOf(c, "minute") = MinuteLen
    BY NamesAre DEF LenOf
  <2>2. Kept(c, "minute", T)
    BY <2>1, <1>4, <1>5, <1>7 DEF Kept
  <2> QED BY <2>2, <1>7, NamesAre, ReplaceGood
<1>9. Tidy(c, "minute") /\ \A n \in Names \ {"minute"} : Tidy(c, n)
  BY <1>7 DEF Even, Tidy
<1>10. ASSUME "custom" \notin FedWith(c, "minute") PROVE Twin(c)
  <2>1. Twin(a)
    BY DEF Even
  <2>2. c.length > 0 => customSourceTF(c.length) = "fine"
    BY <1>10, FedIs DEF customSourceTF
  <2>3. /\ c.series["fine"] = a.series["fine"] /\ c.given["fine"] = a.given["fine"]
        /\ c.series["custom"] = a.series["custom"] /\ c.given["custom"] = a.given["custom"]
    BY <1>7, NamesAre
  <2> QED BY <2>1, <2>2, <2>3, <1>7 DEF Twin
<1>11. Even(RebuiltFrom(c, "minute"))
  <2>1. Tidy(c, "fine") /\ Tidy(c, "minute") /\ Tidy(c, "custom")
    BY <1>9, NamesAre
  <2> QED BY <2>1, <1>0, <1>8, <1>10, FollowEven
<1> QED BY <1>1, <1>11

LEMMA NewIsEmpty ==
  Len(Bars(NewSeries)) = 0
<1>1. {} \in SUBSET Prints
  OBVIOUS
<1>2. NewSeries \in SeriesOf({})
  BY <1>1, NewIs
<1>3. Size(NewSeries) = 0
  BY DEF NewSeries, NewRing, Size
<1> QED BY <1>1, <1>2, <1>3, BarsAre

\* A reset.
LEMMA EmptyEven ==
  ASSUME NEW a, a.odd = {}, \A n \in Names : a.series[n] = NewSeries /\ a.given[n] = {},
         a.length \in {0} \cup CustomLens
  PROVE  Even(a)
<1>1. \A n \in Names : Tidy(a, n)
  BY DEF Tidy
<1>2. ASSUME NEW n \in Names, NEW L
      PROVE  TwinOf(a.series[n], a.given[n], a.series["custom"], a.given["custom"], L)
  <2>1. a.series[n] = NewSeries /\ a.given[n] = {} /\ a.given["custom"] = {}
    BY NamesAre
  <2>2. PrintsIn(Bars(NewSeries)) = {}
    <3>1. Range(Bars(NewSeries)) = {}
      <4>1. Bars(NewSeries) \in Seq(Candles({}))
        BY NewIs, BarsAre
      <4>2. 1..Len(Bars(NewSeries)) = {}
        BY NewIsEmpty
      <4>3. DOMAIN Bars(NewSeries) = {}
        BY <4>1, <4>2
      <4> QED BY <4>3 DEF Range
    <3> QED BY <3>1 DEF PrintsIn
  <2>3. Alike(Bars(NewSeries), Bars(NewSeries), L)
    BY NewIsEmpty DEF Alike
  <2>4. a.series["custom"] = NewSeries
    BY NamesAre
  <2> QED BY <2>1, <2>2, <2>3, <2>4 DEF TwinOf
<1>3. Twin(a)
  <2>1. customSourceTF(a.length) \in Names
    BY NamesAre DEF customSourceTF
  <2> QED BY <2>1, <1>2 DEF Twin
<1> QED BY <1>1, <1>3 DEF Even

\* ReplayTrades.
LEMMA ReplayEven ==
  ASSUME NEW T, Numbered(T), NEW a, Good(a, T), Even(a), NEW t \in Seq(T),
         \A j, k \in 1..Len(t) : j < k => Before(t[j], t[k])
  PROVE  Even(ReplayTrades(a, t))
<1> DEFINE N == Len(t)
           d == Started(a)
<1>0. T \in SUBSET Prints
  BY DEF Numbered
<1>1. a \in AggsOf(T)
  BY DEF Good
<1>2. PICK u : /\ ReplayTrades(a, t) = RebuiltFrom(u[N], "fine") /\ u[0] = d
               /\ \A m \in 1..N : u[m] = Aggregate(u[m - 1], {"fine"}, t[m])
  BY <1>0, <1>1, ReplayRuns
<1>3. N \in Nat /\ \A m \in 1..N : t[m] \in T
  BY LenProperties, ElementOfSeq
<1>4. \A m \in 0..N : m < N => m + 1 \in 0..N /\ m + 1 \in 1..N /\ (m + 1) - 1 = m
  BY <1>3
<1> DEFINE Passed(x, m) ==
             /\ Good(x, T) /\ x.length = a.length /\ Tidy(x, "fine")
             /\ \A j \in x.given["fine"] : \E k \in 1..m : j = t[k]
             /\ \A n \in Names \ {"fine"} :
                  /\ x.series[n] = a.series[n] /\ x.given[n] = a.given[n]
                  /\ n \in x.odd => n \in a.odd
           G == {m \in 0..N : Passed(u[m], m)}
<1>5. 0 \in G
  <2>1. /\ d \in AggsOf(T) /\ Kept(d, "fine", T)
        /\ d.length = a.length /\ d.given["fine"] = {}
        /\ \A n \in Names \ {"fine"} :
             /\ d.series[n] = a.series[n] /\ d.given[n] = a.given[n]
             /\ n \in d.odd <=> n \in a.odd
    BY <1>0, <1>1, StartedIs DEF SameRest
  <2>2. Good(d, T)
    BY <2>1, NamesAre, ReplaceGood
  <2>3. d.series["fine"] = NewSeries /\ "fine" \notin d.odd
    <3> DEFINE S == [a.series EXCEPT !["fine"] = NewSeries]
               H == [a.given EXCEPT !["fine"] = {}]
               O == a.odd \ {"fine"}
    <3>1. d = [a EXCEPT !.series = S, !.given = H, !.odd = O]
      BY DEF Started
    <3>2. a.series \in [Names -> SeriesOf(T)]
      BY <1>1 DEF AggsOf
    <3>3. S["fine"] = NewSeries /\ "fine" \notin O
      BY <3>2, NamesAre
    <3> HIDE DEF S, H, O, d
    <3>4. d.series = S /\ d.odd = O
      BY <3>1, <1>1 DEF AggsOf
    <3> QED BY <3>3, <3>4
  <2>4. Tidy(d, "fine")
    BY <2>3 DEF Tidy
  <2> HIDE DEF d
  <2>5. Passed(d, 0)
    BY <2>1, <2>2, <2>4
  <2> QED BY <2>5, <1>2, <1>3
<1> HIDE DEF d
<1>6. ASSUME NEW m \in 0..N, m < N, m \in G PROVE m + 1 \in G
  <2> DEFINE x == u[m]
             y == u[m + 1]
             i == t[m + 1]
  <2>1. Passed(x, m) /\ y = Aggregate(x, {"fine"}, i) /\ i \in T
    BY <1>2, <1>3, <1>4, <1>6
  <2> HIDE DEF x, y
  <2>2. ASSUME NEW j \in x.given["fine"]
        PROVE  Bucket(LenOf(x, "fine"), j.ts) <= Bucket(LenOf(x, "fine"), i.ts)
    <3>1. PICK k \in 1..m : j = t[k]
      BY <2>1
    <3>2. k < m + 1 /\ k \in 1..N /\ m + 1 \in 1..N
      BY <1>3, <1>6
    <3>3. j \in T
      BY <3>1, <3>2, <1>3
    <3>4. Before(t[k], t[m + 1])
      BY <3>2
    <3>5. Before(j, i)
      BY <3>1, <3>4
    <3> HIDE DEF i
    <3>6. i \in Prints /\ j \in Prints
      BY <3>3, <2>1, <1>0
    <3>7. j.ts \in Nat /\ i.ts \in Nat
      BY <3>6, PrintIs
    <3>8. j.ts <= i.ts
      BY <3>5, <3>7 DEF Before
    <3>9. LenOf(x, "fine") = FineLen /\ FineLen \in Nat \ {0}
      BY BarsAssumption DEF LenOf
    <3> QED BY <3>7, <3>8, <3>9, BucketMonotone
  <2>3. Older(x, {"fine"}, i)
    BY <2>2 DEF Older
  <2> HIDE DEF i
  <2>4. Good(y, T) /\ Handed(x, y, {"fine"}, i) /\ Tidy(y, "fine")
    <3>1. {"fine"} \in SUBSET Names /\ "custom" \notin {"fine"}
      BY NamesAre
    <3>2. \A n \in {"fine"} : Tidy(x, n)
      BY <2>1
    <3> QED BY <3>1, <3>2, <2>1, <2>3, <1>0, AggregateGrows
  <2>5. y.given["fine"] = x.given["fine"] \cup {i}
    BY <2>4, NamesAre DEF Handed
  <2>6. ASSUME NEW n \in Names \ {"fine"}
        PROVE  /\ y.series[n] = a.series[n] /\ y.given[n] = a.given[n]
               /\ n \in y.odd => n \in a.odd
    <3>1. n \in Names \ {"fine"} /\ n \notin {"fine"}
      OBVIOUS
    <3>2. /\ y.series[n] = x.series[n] /\ (n \in y.odd => n \in x.odd)
          /\ y.given[n] = x.given[n]
      BY <3>1, <2>4 DEF Handed
    <3>3. /\ x.series[n] = a.series[n] /\ x.given[n] = a.given[n]
          /\ n \in x.odd => n \in a.odd
      BY <2>1
    <3> QED BY <3>2, <3>3
  <2>7. ASSUME NEW j \in y.given["fine"] PROVE \E k \in 1..(m + 1) : j = t[k]
    <3>1. CASE j = i
      <4>1. m + 1 \in 1..(m + 1)
        BY <1>3
      <4> QED BY <3>1, <4>1 DEF i
    <3>2. CASE j \in x.given["fine"]
      <4>1. PICK k \in 1..m : j = t[k]
        BY <3>2, <2>1
      <4>2. k \in 1..(m + 1)
        BY <1>3
      <4> QED BY <4>1, <4>2
    <3> QED BY <3>1, <3>2, <2>5
  <2>8. y.length = a.length
    BY <2>1, <2>4 DEF Handed, SameRest
  <2>9. Passed(y, m + 1)
    BY <2>4, <2>6, <2>7, <2>8
  <2> QED BY <2>9, <1>4, <1>6 DEF y
<1>7. \A m \in 0..N : m \in G
  <2> HIDE DEF G
  <2> QED BY <1>3, <1>5, <1>6, Induction
<1> DEFINE c == u[N]
<1>8. Passed(c, N)
  <2>1. N \in 0..N
    BY <1>3
  <2> QED BY <2>1, <1>7
<1> HIDE DEF c
<1>9. \A n \in Names : Tidy(c, n)
  <2>1. \A n \in Names \ {"fine"} : Tidy(c, n)
    BY <1>8 DEF Even, Tidy
  <2> QED BY <2>1, <1>8
<1>10. ASSUME "custom" \notin FedWith(c, "fine") PROVE Twin(c)
  <2>1. Twin(a)
    BY DEF Even
  <2>2. c.length > 0 => customSourceTF(c.length) = "minute"
    BY <1>10, FedIs DEF customSourceTF
  <2>3. /\ c.series["minute"] = a.series["minute"] /\ c.given["minute"] = a.given["minute"]
        /\ c.series["custom"] = a.series["custom"] /\ c.given["custom"] = a.given["custom"]
        /\ c.length = a.length
    BY <1>8, NamesAre
  <2> QED BY <2>1, <2>2, <2>3 DEF Twin
<1>11. Even(RebuiltFrom(c, "fine"))
  <2>1. Good(c, T) /\ Tidy(c, "fine") /\ Tidy(c, "minute") /\ Tidy(c, "custom")
    BY <1>8, <1>9, NamesAre
  <2> QED BY <2>1, <1>0, <1>10, FollowEven
<1> QED BY <1>2, <1>11 DEF c

\* `:tf` with a built-in resolution, and with a custom one.
LEMMA ClearEven ==
  ASSUME NEW T \in SUBSET Prints, NEW a \in AggsOf(T), Even(a)
  PROVE  Even(ClearCustom(a))
<1> DEFINE b == ClearCustom(a)
           S == [a.series EXCEPT !["custom"] = NewSeries]
           H == [a.given EXCEPT !["custom"] = {}]
           O == a.odd \ {"custom"}
<1>1. a.series \in [Names -> SeriesOf(T)] /\ a.given \in [Names -> SUBSET T]
  BY DEF AggsOf
<1>2. b = [a EXCEPT !.length = 0, !.series = S, !.given = H, !.odd = O]
  BY DEF ClearCustom
<1>4. \A n \in Names : n \in O => n \in a.odd
  OBVIOUS
<1> HIDE DEF S, H, O, b
<1>5. b.series = S /\ b.odd = O /\ b.length = 0
  BY <1>2 DEF AggsOf
<1>6. ASSUME NEW n \in Names PROVE Tidy(b, n)
  <2>1. Tidy(a, n)
    BY DEF Even
  <2>2. n \notin b.odd
    BY <2>1, <1>4, <1>5 DEF Tidy
  <2> QED BY <2>2 DEF Tidy
<1>7. Twin(b)
  BY <1>5 DEF Twin
<1> QED BY <1>6, <1>7 DEF Even, b

LEMMA EnableEven ==
  ASSUME NEW T \in SUBSET Prints, NEW a, Good(a, T), Even(a),
         NEW len \in CustomLens
  PROVE  Even(rebuildCustomLocked([a EXCEPT !.length = len]))
<1> DEFINE c == [a EXCEPT !.length = len]
<1>1. a \in AggsOf(T)
  BY DEF Good
<1>2. /\ c.series = a.series /\ c.given = a.given /\ c.odd = a.odd
      /\ c.length = len /\ c \in AggsOf(T)
  BY <1>1 DEF AggsOf
<1>3. len > 0
  BY BarsAssumption
<1> HIDE DEF c
<1>4. ASSUME NEW n \in Names, n # "custom" PROVE Kept(c, n, T) /\ Tidy(c, n)
  <2>1. LenOf(c, n) = LenOf(a, n)
    BY <1>4, NamesAre DEF LenOf
  <2>2. Kept(a, n, T) /\ Tidy(a, n)
    BY DEF Good, Even
  <2> QED BY <2>1, <2>2, <1>2 DEF Kept, Tidy
<1>5. /\ Kept(c, "fine", T) /\ Kept(c, "minute", T)
      /\ Tidy(c, "fine") /\ Tidy(c, "minute")
  BY <1>4, NamesAre
<1>6. Even(rebuildCustomLocked(c))
  BY <1>2, <1>3, <1>5, RebuildEven
<1> QED BY <1>6 DEF c

-----------------------------------------------------------------------------
(* The feed and the keys keep that. *)

EvenInv == NoneLate(tape) => Even(agg)

LEMMA EvenSame ==
  ASSUME EvenInv, tape' = tape, agg'.series = agg.series, agg'.given = agg.given,
         agg'.odd = agg.odd, agg'.length = agg.length
  PROVE  EvenInv'
<1> SUFFICES ASSUME NoneLate(tape') PROVE Even(agg')
  BY DEF EvenInv
<1>1. Even(agg)
  BY DEF EvenInv
<1> QED BY <1>1, SameEven

LEMMA EvenReset ==
  ASSUME FeedInv, NEW b, b = ResetVWAP(ResetMarket(agg)),
         agg'.series = b.series, agg'.given = b.given, agg'.odd = b.odd, agg'.length = b.length
  PROVE  EvenInv'
<1>1. agg \in AggsOf(tape)
  BY SoundNow
<1>2. /\ b.series = [n \in Names |-> NewSeries] /\ b.given = [n \in Names |-> {}]
      /\ b.odd = {} /\ b.length = agg.length
  BY <1>1 DEF ResetVWAP, ResetMarket, AggsOf
<1>3. agg.length \in {0} \cup CustomLens
  BY <1>1 DEF AggsOf
<1>4. Even(agg')
  BY <1>2, <1>3, EmptyEven
<1> QED BY <1>4 DEF EvenInv

LEMMA EvenReport ==
  ASSUME FeedInv, EvenInv, Report
  PROVE  EvenInv'
<1> SUFFICES ASSUME NoneLate(tape') PROVE Even(agg')
  BY DEF EvenInv
<1>1. PICK ts \in 1..now, px \in Prices, heard \in BOOLEAN :
        LET i == [n |-> Cardinality(tape) + 1, ts |-> ts, at |-> now, px |-> px] IN
        /\ tape' = tape \cup {i}
        /\ agg' = IF heard THEN OnTrade(agg, i, px) ELSE agg
  BY ZenonT(20) DEF Report
<1> DEFINE i == [n |-> Cardinality(tape) + 1, ts |-> ts, at |-> now, px |-> px]
<1>2. tape' = tape \cup {i} /\ agg' = IF heard THEN OnTrade(agg, i, px) ELSE agg
  BY <1>1
<1>3. Numbered(tape) /\ Sound(agg, tape, TradesTo, BarsTo) /\ tape \in SUBSET Prints
  BY DEF FeedInv, Numbered
<1>4. i \in Prints /\ i.n = Cardinality(tape) + 1
  <2>1. Cardinality(tape) \in Nat /\ now \in 1..MaxTime /\ ts \in 1..MaxTime
    <3>1. Cardinality(tape) \in Nat
      BY FS_CardinalityType DEF FeedInv, Numbered
    <3>2. now \in 1..MaxTime /\ MaxTime \in Nat
      BY BarsAssumption DEF FeedInv
    <3> QED BY <3>1, <3>2
  <2> QED BY <2>1 DEF Prints
<1> HIDE DEF i
<1>5. Numbered(tape \cup {i}) /\ \A j \in tape : j.n < i.n
  BY <1>3, <1>4, NumberedNext
<1>6. NoneLate(tape \cup {i}) /\ NoneLate(tape)
  <2>1. NoneLate(tape \cup {i})
    BY <1>2
  <2> QED BY <2>1 DEF NoneLate
<1>7. Even(agg)
  BY <1>6 DEF EvenInv
<1>8. Even(OnTrade(agg, i, px))
  BY <1>3, <1>4, <1>5, <1>6, <1>7, TradeEven
<1> QED BY <1>2, <1>7, <1>8

LEMMA EvenLoad ==
  ASSUME FeedInv, EvenInv, LoadBars
  PROVE  EvenInv'
<1> SUFFICES ASSUME NoneLate(tape') PROVE Even(agg')
  BY DEF EvenInv
<1>7. PICK served \in Nat : Serves(served)
  BY LoadServed
<1> DEFINE h == RestBars(served)
<1>1. tape' = tape /\ agg' = IF h = <<>> THEN agg ELSE Load(agg, h)
  BY <1>7 DEF LoadBars, Serves
<1>2. NoneLate(tape) /\ Even(agg)
  BY <1>1 DEF EvenInv
<1>3. Numbered(tape) /\ Good(agg, tape)
  BY SoundNow DEF FeedInv
<1>4. h \in Seq(Candles(tape)) /\ Complete(h, PrintsIn(h), MinuteLen)
  BY <1>3, RestBarsAre
<1> HIDE DEF h
<1>6. Even(Load(agg, h))
  BY <1>2, <1>3, <1>4, LoadEven
<1> QED BY <1>1, <1>2, <1>6

LEMMA EvenFeed ==
  ASSUME FeedInv, EvenInv, FeedNext
  PROVE  EvenInv'
<1>1. /\ Numbered(tape) /\ Good(agg, tape) /\ Sound(agg, tape, TradesTo, BarsTo)
      /\ agg \in AggsOf(tape)
  BY SoundNow DEF FeedInv
<1>2. CASE Tick \/ Gap
  <2>1. agg' = agg /\ tape' = tape
    BY <1>2 DEF Tick, Gap
  <2> QED BY <2>1, EvenSame
<1>3. CASE SwitchOpen \/ RollBack
  <2> DEFINE b == ResetVWAP(ResetMarket(agg))
  <2>1. agg' = BeginBackfill(b) \/ agg' = b
    BY <1>3 DEF SwitchOpen, RollBack
  <2>2. b \in AggsOf({}) \/ b \in AggsOf(tape)
    <3>1. tape \in SUBSET Prints
      BY <1>1 DEF Numbered
    <3> HIDE DEF b
    <3>2. Sound(b, tape, 0, 0)
      BY <1>1, <3>1, ResetSound DEF b
    <3> QED BY <3>2 DEF Sound, Good
  <2> HIDE DEF b
  <2>3. /\ agg'.series = b.series /\ agg'.given = b.given /\ agg'.odd = b.odd
        /\ agg'.length = b.length
    BY <2>1, <2>2 DEF BeginBackfill, AggsOf
  <2> QED BY <2>3, EvenReset DEF b
<1>4. CASE BackfillBegin
  <2>1. agg' = BeginBackfill(agg) /\ tape' = tape
    BY <1>4 DEF BackfillBegin
  <2>2. /\ agg'.series = agg.series /\ agg'.given = agg.given /\ agg'.odd = agg.odd
        /\ agg'.length = agg.length
    BY <2>1, <1>1 DEF BeginBackfill, AggsOf
  <2> QED BY <2>1, <2>2, EvenSame
<1>5. CASE WatchSession
  <2>1. agg' = ResetVWAP(agg) /\ tape' = tape
    BY <1>5 DEF WatchSession
  <2>2. /\ agg'.series = agg.series /\ agg'.given = agg.given /\ agg'.odd = agg.odd
        /\ agg'.length = agg.length
    BY <2>1, <1>1 DEF ResetVWAP, AggsOf
  <2> QED BY <2>1, <2>2, EvenSame
<1>6. CASE BarsFailed \/ EndBackfill
  <2>1. agg' = finishBackfill(agg, TradesTo, BarsTo) /\ tape' = tape
    BY <1>6 DEF BarsFailed, EndBackfill, TradesTo, BarsTo
  <2>2. ASSUME NoneLate(tape) PROVE Even(agg')
    BY <2>1, <2>2, <1>1, CutoffsAre, FinishEven DEF EvenInv
  <2> QED BY <2>1, <2>2 DEF EvenInv
<1>7. CASE Replay
  <2> DEFINE end == fetch.tradeEnd
  <2>1. PICK t \in {Trades(end), <<>>} : agg' = ReplayTrades(agg, t)
    BY <1>7 DEF Replay
  <2>2. t \in Seq(tape) /\ \A j, k \in 1..Len(t) : j < k => Before(t[j], t[k])
    <3>1. CASE t = Trades(end)
      <4>1. /\ Trades(end) \in Seq(tape)
            /\ \A j, k \in 1..Len(Trades(end)) : j < k => Before(Trades(end)[j], Trades(end)[k])
        BY CutoffsAre, TradesAre DEF FeedInv
      <4> QED BY <3>1, <4>1
    <3>2. CASE t = <<>>
      BY <3>2
    <3> QED BY <3>1, <3>2, <2>1
  <2>3. tape' = tape
    BY <1>7 DEF Replay
  <2>4. ASSUME NoneLate(tape) PROVE Even(agg')
    BY <2>1, <2>2, <2>4, <1>1, ReplayEven DEF EvenInv
  <2> QED BY <2>3, <2>4 DEF EvenInv
<1> QED BY <1>2, <1>3, <1>4, <1>5, <1>6, <1>7, EvenReport, EvenLoad DEF FeedNext

LEMMA EvenView ==
  ASSUME FeedInv, EvenInv, tape' = tape,
         \/ agg' = agg
         \/ agg' = ClearCustom(agg)
         \/ \E len \in CustomLens : agg' = rebuildCustomLocked([agg EXCEPT !.length = len])
  PROVE  EvenInv'
<1> SUFFICES ASSUME NoneLate(tape') PROVE Even(agg')
  BY DEF EvenInv
<1>1. NoneLate(tape) /\ Even(agg)
  BY DEF EvenInv
<1>2. tape \in SUBSET Prints /\ Numbered(tape) /\ Good(agg, tape) /\ agg \in AggsOf(tape)
  BY SoundNow DEF FeedInv, Numbered
<1>3. Even(ClearCustom(agg))
  BY <1>1, <1>2, ClearEven
<1>4. \A len \in CustomLens : Even(rebuildCustomLocked([agg EXCEPT !.length = len]))
  BY <1>1, <1>2, EnableEven
<1> QED BY <1>1, <1>3, <1>4

\* Without late prints, the aggregator stays even.
LEMMA EvenAlways ==
  Spec => [](IInv /\ EvenInv)
<1>1. ViewInit => EvenInv
  <2> SUFFICES ASSUME Init PROVE Even(agg)
    BY DEF ViewInit, EvenInv
  <2>1. /\ agg.odd = {} /\ agg.length = 0
        /\ \A n \in Names : agg.series[n] = NewSeries /\ agg.given[n] = {}
    BY DEF Init
  <2> QED BY <2>1, EmptyEven
<1>2. IInv /\ EvenInv /\ [Next]_viewVars => EvenInv'
  <2> SUFFICES ASSUME FeedInv, EvenInv, [Next]_viewVars PROVE EvenInv'
    BY DEF IInv
  <2>1. CASE Feed
    BY <2>1, EvenFeed DEF Feed
  <2>2. CASE Viewed /\ agg' = ClearCustom(agg)
    BY <2>2, EvenView DEF Viewed
  <2>3. ASSUME NEW len \in CustomLens, EnableCustom(len) PROVE EvenInv'
    BY <2>3, EvenView DEF EnableCustom, Viewed
  <2>4. CASE UNCHANGED <<tape, agg>>
    BY <2>4, EvenView
  <2>5. CASE PanBack \/ PanForward \/ CropIn \/ CropOut
    BY <2>4, <2>5 DEF PanBack, PanForward, CropIn, CropOut, Pressed
  <2>6. CASE SymbolSwitched \/ UNCHANGED viewVars
    BY <2>4, <2>6 DEF SymbolSwitched, viewVars, vars
  <2>7. CASE CycleTf \/ \E tf \in {"fine", "minute"} : ChooseTf(tf)
    BY <2>2, <2>7 DEF CycleTf, ChooseTf
  <2> QED BY <2>1, <2>3, <2>5, <2>6, <2>7 DEF Next
<1> QED BY <1>1, <1>2, Always, PTL DEF Spec

-----------------------------------------------------------------------------
(* What follows for the candles. *)

\* As far as the source s and the custom series c reach back.
Reached(s, c, L, b) ==
  /\ s.ring.count = RingCap => b > Bucket(L, Bars(s)[1].start)
  /\ c.ring.count = RingCap => b >= Bars(c)[1].start

\* The custom series c has the candles a rebuild from s would make.
SameReached(s, c, L) ==
  {bar \in Range(Bars(c)) : Reached(s, c, L, bar.start)}
    = {bar \in Range(resampleTo(Bars(s), L)) : Reached(s, c, L, bar.start)}

\* A print of the custom series, as far as that is compared, is in its source.
LEMMA SourceHas ==
  ASSUME NEW T \in SUBSET Prints, NoneLate(T), NEW s \in SeriesOf(T), NEW S \in SUBSET T,
         NEW M \in Nat \ {0}, NEW L \in Nat \ {0}, L % M = 0,
         Filed(Bars(s), Gone(s), S, M, T), NEW c, NEW C, TwinOf(s, S, c, C, L),
         NEW i \in C, Reached(s, c, L, Bucket(L, i.ts))
  PROVE  i \in PrintsIn(Bars(s))
<1> SUFFICES ASSUME i \notin PrintsIn(Bars(s)) PROVE FALSE
  OBVIOUS
<1> DEFINE B == Bars(s)
           x == B[1].start
           t == i.ts
<1>1. B \in Seq(Candles(T)) /\ i \in S /\ i \in T /\ i \in Prints /\ t \in Nat
  <2>1. i \in S /\ i \in T /\ i \in Prints
    BY DEF TwinOf
  <2> QED BY <2>1, BarsAre, PrintIs
<1>2. s.ring.count = RingCap
  BY DEF TwinOf, Full
<1>3. Bucket(L, t) > Bucket(L, x)
  BY <1>2 DEF Reached
<1>4. \A k \in 1..Len(B) : i \notin B[k].prints
  BY <1>1, InSome
<1>5. Missing(B, Gone(s), Bucket(M, t), T, i)
  BY <1>1, <1>4 DEF Filed
<1>6. ~LateIn(T, i)
  <2>1. \A j \in T : j.ts \in Nat
    BY PrintIs
  <2> QED BY <1>1, <2>1 DEF NoneLate, LateIn
<1>7. Len(B) > 0 /\ Bucket(M, t) < x
  BY <1>5, <1>6 DEF Missing
<1>8. x \in Nat
  <2>1. 1 \in 1..Len(B)
    BY <1>1, <1>7, CandleSeq
  <2> QED BY <2>1, <1>1, CandleSeq
<1> HIDE DEF x, t, B
<1>9. Bucket(M, t) \in Nat /\ Bucket(L, Bucket(M, t)) = Bucket(L, t)
  <2>1. t \in Nat
    BY <1>1
  <2>2. Bucket(M, t) \in 0..t
    BY <2>1, BucketIs
  <2>3. Bucket(M, t) \in Nat
    BY <2>1, <2>2
  <2>4. Bucket(L, Bucket(M, t)) = Bucket(L, t)
    BY <2>1, BucketNested
  <2> QED BY <2>3, <2>4
<1>10. Bucket(L, t) <= Bucket(L, x)
  <2>1. Bucket(L, Bucket(M, t)) <= Bucket(L, x)
    <3> DEFINE y == Bucket(M, t)
    <3>1. y \in Nat /\ y <= x
      BY <1>7, <1>8, <1>9
    <3> HIDE DEF y
    <3>2. Bucket(L, y) <= Bucket(L, x)
      BY <3>1, <1>8, BucketMonotone
    <3> QED BY <3>2 DEF y
  <2> QED BY <2>1, <1>9
<1>11. Bucket(L, t) \in Nat /\ Bucket(L, x) \in Nat
  <2>1. Bucket(L, t) \in 0..t /\ Bucket(L, x) \in 0..x
    BY <1>1, <1>8, BucketIs
  <2> QED BY <2>1
<1> DEFINE p == Bucket(L, t)
           q == Bucket(L, x)
<1> HIDE DEF p, q
<1>12. p \in Nat /\ q \in Nat /\ p > q /\ p <= q
  BY <1>3, <1>10, <1>11 DEF p, q
<1> QED BY <1>12

\* A print the custom series was handed, as far as it is compared, is in it.
LEMMA CustomHas ==
  ASSUME NEW T \in SUBSET Prints, NoneLate(T), NEW s \in SeriesOf(T), NEW S,
         NEW L \in Nat \ {0}, NEW c \in SeriesOf(T), NEW C \in SUBSET T,
         Filed(Bars(c), Gone(c), C, L, T), TwinOf(s, S, c, C, L),
         NEW i \in C, Reached(s, c, L, Bucket(L, i.ts))
  PROVE  i \in PrintsIn(Bars(c))
<1> SUFFICES ASSUME i \notin PrintsIn(Bars(c)) PROVE FALSE
  OBVIOUS
<1> DEFINE V == Bars(c)
           B == Bars(s)
           b == Bucket(L, i.ts)
<1>1. V \in Seq(Candles(T)) /\ B \in Seq(Candles(T)) /\ i \in T /\ i \in Prints /\ b \in Nat
  <2>1. V \in Seq(Candles(T)) /\ B \in Seq(Candles(T)) /\ i \in T /\ i \in Prints
    BY BarsAre
  <2> QED BY <2>1, PrintIs
<1>2. CASE ~Full(c)
  <2>1. Full(s) /\ b <= Bucket(L, B[1].start)
    BY <1>2 DEF TwinOf
  <2>2. b > Bucket(L, B[1].start)
    BY <2>1 DEF Reached, Full
  <2>3. B[1].start \in Nat
    <3>1. Len(B) = Size(s) /\ s.ring.count \in Nat /\ s.forming # NoCandle
      BY <2>1, BarsAre DEF SeriesOf, Rings, Full
    <3>2. 1 \in 1..Len(B)
      BY <3>1 DEF Size
    <3> QED BY <3>2, <1>1, CandleSeq
  <2> DEFINE x == B[1].start
             q == Bucket(L, x)
  <2>4. q \in Nat
    <3>1. x \in Nat
      BY <2>3
    <3> HIDE DEF x
    <3>2. Bucket(L, x) \in 0..x
      BY <3>1, BucketIs
    <3> QED BY <3>1, <3>2
  <2>5. b \in Nat /\ b <= q /\ b > q
    BY <1>1, <2>1, <2>2
  <2> HIDE DEF q, b
  <2> QED BY <2>4, <2>5
<1>3. CASE Full(c)
  <2> DEFINE y == V[1].start
  <2>1. b >= y
    BY <1>3 DEF Reached, Full
  <2>2. \A k \in 1..Len(V) : i \notin V[k].prints
    BY <1>1, InSome
  <2>3. Missing(V, Gone(c), b, T, i)
    BY <2>2 DEF Filed
  <2>4. ~LateIn(T, i)
    <3>1. \A j \in T : j.ts \in Nat
      BY PrintIs
    <3> QED BY <1>1, <3>1 DEF NoneLate, LateIn
  <2>5. Len(V) > 0 /\ b < y
    BY <2>3, <2>4 DEF Missing
  <2>6. y \in Nat
    <3>1. 1 \in 1..Len(V)
      BY <1>1, <2>5, CandleSeq
    <3> QED BY <3>1, <1>1, CandleSeq
  <2>7. b \in Nat
    BY <1>1
  <2> HIDE DEF b, y
  <2> QED BY <2>1, <2>5, <2>6, <2>7
<1> QED BY <1>2, <1>3

LEMMA SameCandle ==
  ASSUME NEW T, NEW x \in Candles(T), NEW y \in Candles(T),
         x.start = y.start, x.prints = y.prints, x.close = y.close
  PROVE  x = y
  BY DEF Candles

LEMMA TwinCandles ==
  ASSUME NEW T, Numbered(T), NoneLate(T), NEW s \in SeriesOf(T), NEW S \in SUBSET T,
         NEW M \in Nat \ {0}, NEW L \in Nat \ {0}, L % M = 0,
         Ascends(Bars(s)), Filed(Bars(s), Gone(s), S, M, T),
         NEW c \in SeriesOf(T), NEW C \in SUBSET T, Ascends(Bars(c)),
         Filed(Bars(c), Gone(c), C, L, T), TwinOf(s, S, c, C, L)
  PROVE  SameReached(s, c, L)
<1> DEFINE B == Bars(s)
           V == Bars(c)
           R == resampleTo(B, L)
           P == PrintsIn(B)
<1>0. T \in SUBSET Prints
  BY DEF Numbered
<1>1. B \in Seq(Candles(T)) /\ V \in Seq(Candles(T)) /\ R \in Seq(Candles(T))
  <2>1. B \in Seq(Candles(T)) /\ V \in Seq(Candles(T))
    BY <1>0, BarsAre
  <2> HIDE DEF B
  <2> QED BY <2>1, <1>0, ResampleIs
<1>2. Rises(B, L) /\ P \subseteq C
      /\ \A k \in 1..Len(B) : B[k].close \in B[k].prints
  <2>2. Rises(B, L)
    BY <1>0, <1>1, FiledRises
  <2> QED BY <2>2 DEF Filed, TwinOf
<1>3. Ends(R, B, Len(B), L)
  <2> HIDE DEF B
  <2> QED BY <1>0, <1>1, <1>2, ResampleEnds
<1>4. Complete(R, P, L)
  <2>1. Gathers(R, B, Len(B), L)
    BY <1>0, <1>1, <1>2, ResampleIs
  <2> HIDE DEF B, R
  <2> QED BY <2>1, <1>0, <1>1, <1>2, GatheredComplete
<1>5. /\ \A k \in 1..Len(R) : R[k].prints \subseteq P /\ R[k].close \in R[k].prints
      /\ \A i \in P : /\ \A k \in 1..Len(R) : i \in R[k].prints <=> R[k].start = Bucket(L, i.ts)
                      /\ \E k \in 1..Len(R) : R[k].start = Bucket(L, i.ts)
  BY <1>4 DEF Complete
<1>6. /\ \A k \in 1..Len(V) : V[k].prints \subseteq C /\ V[k].close \in V[k].prints
      /\ \A i \in C : \A k \in 1..Len(V) : i \in V[k].prints <=> V[k].start = Bucket(L, i.ts)
  BY DEF Filed
<1>7. ASSUME NEW i \in C, Reached(s, c, L, Bucket(L, i.ts))
      PROVE  i \in P /\ \E k \in 1..Len(V) : i \in V[k].prints
  <2>1. i \in P
    BY <1>0, <1>7, SourceHas
  <2>2. i \in PrintsIn(V)
    BY <1>0, <1>7, CustomHas
  <2> QED BY <2>1, <2>2, <1>1, InSome
<1> DEFINE K(b) == Reached(s, c, L, b)
<1>8. Alike(B, V, L) /\ Ascends(B)
  BY DEF TwinOf
<1> HIDE DEF B, V, R, P, K
<1>9. ASSUME NEW k \in 1..Len(V), NEW m \in 1..Len(R), V[k].start = R[m].start, K(V[k].start)
      PROVE  V[k] = R[m]
  <2> DEFINE x == V[k]
             y == R[m]
  <2>1. x \in Candles(T) /\ y \in Candles(T) /\ x.close \in x.prints /\ y.close \in y.prints
    BY <1>1, <1>5, <1>6, CandleSeq
  <2>2. x.prints = y.prints
    <3>1. ASSUME NEW i \in x.prints PROVE i \in y.prints
      <4>1. i \in C /\ x.start = Bucket(L, i.ts)
        BY <1>6
      <4>2. i \in P
        BY <4>1, <1>7, <1>9 DEF K
      <4> QED BY <4>1, <4>2, <1>5, <1>9
    <3>2. ASSUME NEW i \in y.prints PROVE i \in x.prints
      <4>1. i \in P /\ i \in C /\ y.start = Bucket(L, i.ts)
        BY <1>2, <1>5
      <4> QED BY <4>1, <1>6, <1>9
    <3> QED BY <3>1, <3>2
  <2>3. x.close = y.close
    <3>1. PICK j \in 1..Len(B) : ClosesAt(y, B, j, Len(B), L)
      BY <1>3 DEF Ends
    <3>2. \A l \in 1..Len(B) : B[l].start > B[j].start => Bucket(L, B[l].start) # V[k].start
      <4>1. \A l \in 1..Len(B) : B[l].start > B[j].start => l > j
        BY <1>1, <1>8, StartOrder
      <4> QED BY <4>1, <3>1, <1>9 DEF ClosesAt
    <3>3. Bucket(L, B[j].start) = V[k].start
      BY <3>1, <1>9 DEF ClosesAt
    <3>4. V[k].close = B[j].close
      BY <3>2, <3>3, <1>8 DEF Alike
    <3> QED BY <3>1, <3>4 DEF ClosesAt
  <2>4. x.start = y.start
    BY <1>9
  <2> HIDE DEF x, y
  <2>5. x = y
    BY <2>1, <2>2, <2>3, <2>4, SameCandle
  <2> QED BY <2>5 DEF x, y
<1>10. ASSUME NEW k \in 1..Len(V), K(V[k].start)
       PROVE  \E m \in 1..Len(R) : V[k] = R[m]
  <2> DEFINE i == V[k].close
  <2>1. i \in C /\ V[k].start = Bucket(L, i.ts)
    BY <1>6
  <2>2. i \in P
    BY <2>1, <1>7, <1>10 DEF K
  <2>3. PICK m \in 1..Len(R) : R[m].start = Bucket(L, i.ts)
    BY <2>2, <1>5
  <2> QED BY <2>1, <2>3, <1>9, <1>10
<1>11. ASSUME NEW m \in 1..Len(R), K(R[m].start)
       PROVE  \E k \in 1..Len(V) : R[m] = V[k]
  <2> DEFINE i == R[m].close
  <2>1. i \in P /\ i \in C /\ R[m].start = Bucket(L, i.ts)
    BY <1>2, <1>5
  <2>2. PICK k \in 1..Len(V) : i \in V[k].prints
    BY <2>1, <1>7, <1>11 DEF K
  <2>3. V[k].start = R[m].start
    BY <2>1, <2>2, <1>6
  <2> QED BY <2>3, <1>9, <1>11
<1>12. /\ Range(V) = {V[k] : k \in 1..Len(V)}
       /\ Range(R) = {R[k] : k \in 1..Len(R)}
  <2>1. DOMAIN V = 1..Len(V) /\ DOMAIN R = 1..Len(R)
    BY <1>1, LenProperties
  <2> QED BY <2>1 DEF Range
<1>13. {bar \in Range(V) : K(bar.start)} = {bar \in Range(R) : K(bar.start)}
  BY <1>10, <1>11, <1>12
<1> QED BY <1>13 DEF SameReached, K, V, R, B

LEMMA EvenResampled ==
  ASSUME FeedInv, EvenInv
  PROVE  CustomIsResampled
<1> DEFINE L == agg.length
           n == customSourceTF(L)
           s == agg.series[n]
           c == agg.series["custom"]
           V == Bars(c)
<1> SUFFICES ASSUME L > 0, \A i \in tape : ~Late(i)
             PROVE  SameReached(s, c, L)
  BY ZenonT(30) DEF CustomIsResampled, SameReached, Reached
<1>1. Numbered(tape) /\ tape \in SUBSET Prints /\ Good(agg, tape) /\ agg \in AggsOf(tape)
  BY SoundNow DEF FeedInv, Numbered
<1>2. NoneLate(tape)
  <2>1. \A i \in tape : i.ts \in Nat
    BY <1>1, PrintIs
  <2> QED BY <2>1 DEF Late, NoneLate
<1>3. Even(agg)
  BY <1>2 DEF EvenInv
<1>4. /\ agg.series \in [Names -> SeriesOf(tape)] /\ agg.given \in [Names -> SUBSET tape]
      /\ L \in Nat \ {0} /\ L \in CustomLens
  <2>1. /\ agg.series \in [Names -> SeriesOf(tape)] /\ agg.given \in [Names -> SUBSET tape]
        /\ L \in {0} \cup CustomLens
    BY <1>1 DEF AggsOf
  <2> QED BY <2>1, LengthsAre
<1>5. /\ n \in Names /\ LenOf(agg, n) \in Nat \ {0} /\ L % LenOf(agg, n) = 0
      /\ LenOf(agg, "custom") = L
  <2>1. /\ LenOf(agg, "fine") = FineLen /\ LenOf(agg, "minute") = MinuteLen
        /\ FineLen \in Nat \ {0} /\ MinuteLen \in Nat \ {0} /\ LenOf(agg, "custom") = L
    BY <1>4, LengthsAre
  <2>2. L % FineLen = 0
    BY <1>4, BarsAssumption
  <2>3. CASE L % MinuteLen = 0
    <3>1. n = "minute"
      BY <2>3 DEF customSourceTF
    <3> HIDE DEF n
    <3> QED BY <3>1, <2>1, <2>3, NamesAre
  <2>4. CASE ~(L % MinuteLen = 0)
    <3>1. n = "fine"
      BY <2>4 DEF customSourceTF
    <3> HIDE DEF n
    <3> QED BY <3>1, <2>1, <2>2, NamesAre
  <2> QED BY <2>3, <2>4
<1> DEFINE M == LenOf(agg, n)
           S == agg.given[n]
           C == agg.given["custom"]
<1>6. /\ Ascends(Bars(s)) /\ Filed(Bars(s), Gone(s), S, M, tape)
      /\ Ascends(V) /\ Filed(V, Gone(c), C, L, tape)
  <2>1. Kept(agg, n, tape) /\ Tidy(agg, n) /\ Kept(agg, "custom", tape) /\ Tidy(agg, "custom")
    BY <1>1, <1>3, <1>5, NamesAre DEF Good, Even
  <2> HIDE DEF n, L
  <2> QED BY <2>1, <1>5 DEF Kept, Tidy
<1>7. TwinOf(s, S, c, C, L)
  BY <1>3 DEF Even, Twin
<1>8. s \in SeriesOf(tape) /\ c \in SeriesOf(tape) /\ S \in SUBSET tape /\ C \in SUBSET tape
  BY <1>4, <1>5, NamesAre
<1>9. M \in Nat \ {0} /\ L \in Nat \ {0} /\ L % M = 0
  BY <1>4, <1>5
<1> HIDE DEF L, n, s, c, M, S, C
<1> QED BY <1>1, <1>2, <1>6, <1>7, <1>8, <1>9, TwinCandles

\* With prints reported in order, a custom resolution fed print by print, rebuilt
\* after a load or a replay and emptied by a switch has the candles a rebuild
\* from its source would give it, as far as both rings reach back.
THEOREM CustomFollowsSource ==
  Spec => []CustomIsResampled
<1>1. IInv /\ EvenInv => CustomIsResampled
  BY EvenResampled DEF IInv
<1> QED BY <1>1, EvenAlways, PTL
=============================================================================
