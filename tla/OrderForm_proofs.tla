-------------------------- MODULE OrderForm_proofs ---------------------------
(***************************************************************************)
(* Theorems about OrderForm and the session engine it runs on: for every   *)
(* calendar of the exchange, every number of days, symbol, cache size and  *)
(* budget, a closure the engine was told of is held and lifted when it      *)
(* should be, and what leaves fits its market.                             *)
(***************************************************************************)
EXTENDS OrderForm, SequenceTheorems, NaturalsInduction, WellFoundedInduction,
        TLAPS
-----------------------------------------------------------------------------
(* Least and greatest elements. *)

\* A set of integers with a lower bound has a least element.
LEMMA MinIs ==
  ASSUME NEW S \in SUBSET Int, NEW b \in Int, S # {}, \A n \in S : b <= n
  PROVE  Min(S) \in S /\ \A n \in S : Min(S) <= n
<1> DEFINE T == {n - b : n \in S}
<1>1. T \in SUBSET Nat
  <2>1. \A n \in S : n \in Int /\ b <= n
    OBVIOUS
  <2> SUFFICES ASSUME NEW n \in S PROVE n - b \in Nat
    OBVIOUS
  <2> QED BY <2>1
<1>2. T # {}
  BY S # {}, Zenon
<1>3. \E t \in T : \A u \in T : <<u, t>> \notin OpToRel(<, Nat)
  <2> HIDE DEF T
  <2> QED BY <1>1, <1>2, WFMin, NatLessThanWellFounded, Zenon
<1>4. PICK t \in T : \A u \in T : <<u, t>> \notin OpToRel(<, Nat)
  BY <1>3
<1>5. \A u \in T : t <= u
  <2>1. \A u \in T : ~(u < t)
    <3> HIDE DEF T
    <3> QED BY <1>1, <1>4 DEF OpToRel
  <2>2. t \in Nat /\ \A u \in T : u \in Nat
    BY <1>1
  <2> QED BY <2>1, <2>2
<1>6. PICK n \in S : t = n - b
  BY <1>4
<1>7. \A k \in S : n - b <= k - b
  BY <1>5, <1>6
<1>8. \A k \in S : n <= k
  BY <1>7
<1> QED BY <1>8 DEF Min

\* And one with an upper bound a greatest.
LEMMA MaxIs ==
  ASSUME NEW S \in SUBSET Int, NEW b \in Int, S # {}, \A n \in S : n <= b
  PROVE  Max(S) \in S /\ \A n \in S : n <= Max(S)
<1> DEFINE T == {b - n : n \in S}
<1>1. T \in SUBSET Nat
  <2>1. \A n \in S : n \in Int /\ n <= b
    OBVIOUS
  <2> SUFFICES ASSUME NEW n \in S PROVE b - n \in Nat
    OBVIOUS
  <2> QED BY <2>1
<1>2. T # {}
  BY S # {}, Zenon
<1>3. Min(T) \in T /\ \A u \in T : Min(T) <= u
  <2> HIDE DEF T
  <2>1. T \in SUBSET Int /\ \A u \in T : 0 <= u
    BY <1>1
  <2>2. 0 \in Int
    OBVIOUS
  <2> QED BY <1>2, <2>1, <2>2, MinIs, Zenon
<1>4. PICK n \in S : Min(T) = b - n
  BY <1>3
<1>5. \A k \in S : b - n <= b - k
  BY <1>3, <1>4
<1>6. \A k \in S : n >= k
  BY <1>5
<1>7. Max(S) \in S /\ \A k \in S : Max(S) >= k
  BY <1>6 DEF Max
<1> QED BY <1>7
-----------------------------------------------------------------------------
(* Days and minutes. *)

LEMMA Lengths ==
  /\ Hour = 60 /\ Day = 1440 /\ PreOpen = 240 /\ RthOpen = 570
  /\ EarlyClose = 780 /\ RthClose = 960 /\ NightOpen = 1200 /\ Slack = 120
BY DEF Hour, Day, PreOpen, RthOpen, EarlyClose, RthClose, NightOpen, Slack

\* A moment is a day and a minute.
LEMMA DayAndMinute ==
  ASSUME NEW t \in Int
  PROVE  /\ t \div Day \in Int /\ Minute(t) \in 0..1439
         /\ t = 1440 * (t \div Day) + Minute(t)
         /\ Weekday(t) = (t \div Day) % 7 /\ Weekday(t) \in 0..6
BY Lengths DEF Minute, Weekday

LEMMA DaysStart ==
  ASSUME NEW d \in Int, NEW m \in 0..1439
  PROVE  /\ (d * Day + m) \div Day = d /\ Minute(d * Day + m) = m
         /\ Weekday(d * Day + m) = d % 7
BY Lengths DEF Minute, Weekday

LEMMA ScheduledIs ==
  ASSUME NEW d \in Int
  PROVE  Scheduled(d) <=> d % 7 \notin {0, 6}
BY Lengths DEF Scheduled, Weekend, Weekday

\* The sessions of the wall clock.
LEMMA AtIs ==
  ASSUME NEW t \in Int, NEW w, NEW m, w = (t \div Day) % 7, m = Minute(t)
  PROVE  /\ At(t) \in SessionNames
         /\ At(t) = "Closed" <=> \/ w = 6
                                 \/ w = 0 /\ m < 1200
                                 \/ w = 5 /\ m >= 1200
         /\ At(t) = "Overnight" <=> \/ w = 0 /\ m >= 1200
                                    \/ w \notin {0, 6} /\ m < 240
                                    \/ w \notin {0, 5, 6} /\ m >= 1200
         /\ At(t) = "PreMarket" <=> w \notin {0, 6} /\ 240 <= m /\ m < 570
         /\ At(t) = "Regular" <=> w \notin {0, 6} /\ 570 <= m /\ m < 960
         /\ At(t) = "AfterHours" <=> w \notin {0, 6} /\ 960 <= m /\ m < 1200
<1>1. m \in 0..1439 /\ w \in 0..6 /\ Weekday(t) = w
  BY Lengths DEF Minute, Weekday
<1>2. At(t) = CASE w = 6 -> "Closed"
                [] w = 0 -> IF m >= 1200 THEN "Overnight" ELSE "Closed"
                [] w = 5 /\ m >= 1200 -> "Closed"
                [] OTHER -> CASE m >= 570 /\ m < 960 -> "Regular"
                              [] m >= 240 /\ m < 570 -> "PreMarket"
                              [] m >= 960 /\ m < 1200 -> "AfterHours"
                              [] OTHER -> "Overnight"
  BY <1>1, Lengths DEF At
<1>3. CASE w = 6
  BY <1>1, <1>2, <1>3 DEF SessionNames
<1>4. CASE w = 0
  BY <1>1, <1>2, <1>4, SMTT(40) DEF SessionNames
<1>5. CASE w = 5 /\ m >= 1200
  BY <1>1, <1>2, <1>5 DEF SessionNames
<1>6. CASE w \notin {0, 6} /\ ~(w = 5 /\ m >= 1200)
  <2>1. At(t) = CASE m >= 570 /\ m < 960 -> "Regular"
                  [] m >= 240 /\ m < 570 -> "PreMarket"
                  [] m >= 960 /\ m < 1200 -> "AfterHours"
                  [] OTHER -> "Overnight"
    BY <1>1, <1>2, <1>6
  <2> QED BY <1>1, <1>6, <2>1, SMTT(40) DEF SessionNames
<1> QED BY <1>3, <1>4, <1>5, <1>6
-----------------------------------------------------------------------------
(* Moments. *)

LEMMA MomentIs ==
  ASSUME NEW t \in Moments
  PROVE  /\ t \in Nat /\ t \div Day \in 0..(Days - 1)
         /\ Minute(t) \in {0, 240, 570, 780, 960, 1200}
<1>1. PICK d \in 0..(Days - 1),
           m \in {0, PreOpen, RthOpen, EarlyClose, RthClose, NightOpen} :
             t = d * Day + m
  BY DEF Moments
<1>2. m \in {0, 240, 570, 780, 960, 1200}
  BY Lengths
<1>3. d \in Int /\ d \in 0..(Days - 1) /\ m \in 0..1439
  BY <1>2, SessionsAssumption
<1>4. t \div Day = d /\ Minute(t) = m
  BY <1>1, <1>3, Lengths DEF Minute
<1> QED BY <1>1, <1>2, <1>3, <1>4, Lengths

LEMMA ZeroIsMoment == 0 \in Moments
<1>1. 0 \in 0..(Days - 1) /\ 0 = 0 * Day + 0
  BY SessionsAssumption, Lengths
<1> QED BY <1>1 DEF Moments

\* The moment before.
LEMMA PrecedingIs ==
  ASSUME NEW t \in Moments
  PROVE  /\ Preceding[t] \in Moments /\ Preceding[t] <= t
         /\ \A u \in Moments : u < t => u <= Preceding[t]
<1> DEFINE S == {u \in Moments : u < t} \cup {0}
<1>1. Preceding[t] = Max(S)
  BY DEF Preceding
<1>2. t \in Nat /\ \A u \in Moments : u \in Nat
  BY MomentIs
<1>3. S \in SUBSET Int /\ \A n \in S : n <= t
  <2>1. \A n \in S : n \in Int /\ n <= t
    BY <1>2
  <2> HIDE DEF S
  <2> QED BY <2>1
<1>4. S # {}
  OBVIOUS
<1>5. Max(S) \in S /\ \A n \in S : n <= Max(S)
  <2> HIDE DEF S
  <2>1. t \in Int
    BY <1>2
  <2> QED BY <1>3, <1>4, <2>1, MaxIs, Zenon
<1> QED BY <1>1, <1>3, <1>5, ZeroIsMoment

\* The moment after.
LEMMA FollowingIs ==
  ASSUME NEW t \in Moments, Following[t] \in Moments
  PROVE  Following[t] > t
<1> DEFINE S == {u \in Moments : u > t} \cup {Days * Day}
<1>1. Following[t] = Min(S)
  BY DEF Following
<1>2. t \in Nat /\ (\A u \in Moments : u \in Nat) /\ Days * Day \in Nat
  BY MomentIs, SessionsAssumption, Lengths
<1>3. t < Days * Day
  <2>1. t = 1440 * (t \div Day) + Minute(t) /\ Minute(t) <= 1439
    BY <1>2, Lengths DEF Minute
  <2>2. t \div Day \in Int /\ t \div Day <= Days - 1 /\ Days \in Int
    BY MomentIs, SessionsAssumption
  <2>3. Minute(t) \in Int
    BY MomentIs
  <2> QED BY <1>2, <2>1, <2>2, <2>3, Lengths
<1>4. S \in SUBSET Int /\ \A n \in S : t + 1 <= n
  <2> DEFINE end == Days * Day
  <2> HIDE DEF end
  <2>1. end \in Nat /\ t < end
    BY <1>2, <1>3 DEF end
  <2>2. \A n \in S : n \in Int /\ t + 1 <= n
    BY <1>2, <2>1 DEF end
  <2> HIDE DEF S
  <2> QED BY <2>2
<1>5. S # {}
  OBVIOUS
<1>6. Min(S) \in S
  <2> HIDE DEF S
  <2>1. t + 1 \in Int
    BY <1>2
  <2> QED BY <1>4, <1>5, <2>1, MinIs, Zenon
<1> QED BY <1>1, <1>2, <1>3, <1>4, <1>6
-----------------------------------------------------------------------------
(* The exchange, whatever window of days it is looked at through. *)

Trades(d) == Scheduled(d) /\ ~Holiday(d)
OpenOf(d) == d * Day + RthOpen

LEMMA OpensAndCloses ==
  ASSUME NEW d \in Int
  PROVE  /\ OpenOf(d) = 1440 * d + 570
         /\ d \in calendar.earlies => CloseOf(d) = 1440 * d + 780
         /\ d \notin calendar.earlies => CloseOf(d) = 1440 * d + 960
         /\ CloseOf(d) <= 1440 * d + 960
         /\ OpenOf(d) \in Int /\ CloseOf(d) \in Int
BY Lengths DEF OpenOf, CloseOf

LEMMA OpensOnItsDay ==
  ASSUME NEW d \in Int
  PROVE  Weekday(OpenOf(d)) = d % 7
<1>1. (d * 1440 + 570) \div 1440 = d
  OBVIOUS
<1>2. Weekday(OpenOf(d)) = ((d * 1440 + 570) \div 1440) % 7
  BY Lengths DEF Weekday, OpenOf
<1> QED BY <1>1, <1>2

\* Within five days, both ways, the exchange trades.
LEMMA TradesNear ==
  ASSUME NEW w \in 0..(Days - 1), calendar \in Calendars
  PROVE  /\ \E d \in (w + 1)..(w + 5) : Trades(d)
         /\ \E d \in (w - 5)..(w - 1) : Trades(d)
<1>1. w + 1 \in -5..Days /\ w - 5 \in -5..Days
  BY SessionsAssumption
<1>2. \A d \in -5..Days : \E e \in d..(d + 4) : Trades(e)
  BY CalendarAssumption DEF Trades, Holiday
<1>3. (w + 1) + 4 = w + 5 /\ (w - 5) + 4 = w - 1
  OBVIOUS
<1> QED BY <1>1, <1>2, <1>3

LEMMA TradingDaysAre ==
  ASSUME NEW t
  PROVE  TradingDays(t) = {d \in (t \div Day - 5)..(t \div Day + 5) : Trades(d)}
BY DEF TradingDays, Trades

\* Regular sessions: the day tells which.
LEMMA InRthIs ==
  ASSUME NEW t \in Int, calendar \in Calendars
  PROVE  /\ InRth(t) <=> \E d \in Int : Trades(d) /\ OpenOf(d) <= t /\ t < CloseOf(d)
         /\ InRth(t) <=> /\ Trades(t \div Day) /\ OpenOf(t \div Day) <= t
                         /\ t < CloseOf(t \div Day)
<1>1. t \div Day \in Int /\ t = 1440 * (t \div Day) + Minute(t) /\ Minute(t) \in 0..1439
  BY Lengths DEF Minute
<1>2. \A d \in Int : OpenOf(d) <= t /\ t < CloseOf(d) => d = t \div Day
  <2>1. ASSUME NEW d \in Int, OpenOf(d) <= t, t < CloseOf(d)
        PROVE  d = t \div Day
    <3>1. 1440 * d <= t /\ t < 1440 * d + 1440
      BY <2>1, OpensAndCloses
    <3> QED BY <3>1, Lengths
  <2> QED BY <2>1
<1>3. t \div Day \in (t \div Day - 5)..(t \div Day + 5)
  BY <1>1
<1>4. InRth(t) <=> \E d \in TradingDays(t) : OpenOf(d) <= t /\ t < CloseOf(d)
  BY Zenon DEF InRth, OpenOf
<1>5. \A d \in TradingDays(t) : d \in Int /\ Trades(d)
  BY <1>1, TradingDaysAre
<1>6. Trades(t \div Day) => t \div Day \in TradingDays(t)
  BY <1>3, TradingDaysAre
<1> QED BY <1>1, <1>2, <1>4, <1>5, <1>6

\* The next open: no trading day opens before it.
LEMMA NextOpenIs ==
  ASSUME NEW t \in Int, t \div Day \in 0..(Days - 1), calendar \in Calendars
  PROVE  /\ NextOpen(t) \in Int /\ NextOpen(t) > t
         /\ \E d \in Int : Trades(d) /\ NextOpen(t) = OpenOf(d)
         /\ \A d \in Int : Trades(d) /\ OpenOf(d) > t => NextOpen(t) <= OpenOf(d)
<1> DEFINE w == t \div Day
           S == {o \in {d * Day + RthOpen : d \in TradingDays(t)} : o > t}
<1>1. w \in Int /\ t = 1440 * w + Minute(t) /\ Minute(t) \in 0..1439
  BY Lengths DEF Minute
<1>2. NextOpen(t) = Min(S)
  BY DEF NextOpen
<1>3. \A o : o \in S <=> \E d \in TradingDays(t) : o = OpenOf(d) /\ o > t
  BY DEF OpenOf
<1>4. \A d : d \in TradingDays(t) <=> d \in (w - 5)..(w + 5) /\ Trades(d)
  BY TradingDaysAre
<1> HIDE DEF w, S
<1>5. PICK e \in (w + 1)..(w + 5) : Trades(e)
  BY TradesNear DEF w
<1>6. e \in Int /\ e \in TradingDays(t) /\ OpenOf(e) > t
  <2>1. e \in Int /\ w + 1 <= e /\ e <= w + 5
    BY <1>1, <1>5
  <2>2. e \in (w - 5)..(w + 5)
    BY <1>1, <2>1
  <2>3. e \in TradingDays(t)
    BY <1>4, <1>5, <2>2
  <2>4. OpenOf(e) = 1440 * e + 570
    BY <2>1, OpensAndCloses
  <2>5. t <= 1440 * w + 1439
    BY <1>1
  <2> QED BY <1>1, <2>1, <2>3, <2>4, <2>5
<1>7. S # {}
  BY <1>3, <1>6
<1>8. S \in SUBSET Int /\ \A o \in S : t <= o
  <2>1. \A o \in S : o \in Int /\ t <= o
    BY <1>1, <1>3, <1>4, OpensAndCloses
  <2> QED BY <2>1
<1>9. Min(S) \in S /\ \A o \in S : Min(S) <= o
  BY <1>7, <1>8, MinIs, Zenon
<1>10. PICK d \in TradingDays(t) : Min(S) = OpenOf(d) /\ Min(S) > t
  BY <1>3, <1>9
<1>11. d \in Int /\ Trades(d) /\ OpenOf(d) \in Int
  BY <1>1, <1>4, <1>10, OpensAndCloses
<1>12. ASSUME NEW x \in Int, Trades(x), OpenOf(x) > t
       PROVE  Min(S) <= OpenOf(x)
  <2>1. CASE x <= w + 5
    <3>1. x \in (w - 5)..(w + 5)
      <4>1. x \in Int /\ x >= w - 5
        <5>1. OpenOf(x) = 1440 * x + 570
          BY <1>12, OpensAndCloses
        <5> QED BY <1>1, <1>12, <5>1
      <4> QED BY <1>1, <2>1, <4>1
    <3> QED BY <1>3, <1>4, <1>9, <1>12, <3>1
  <2>2. CASE x > w + 5
    <3>1. Min(S) <= OpenOf(e)
      BY <1>3, <1>6, <1>9
    <3>2. e \in Int /\ e <= w + 5 /\ x \in Int
      BY <1>1, <1>5, <1>12
    <3>3. OpenOf(e) <= OpenOf(x)
      BY <1>1, <2>2, <3>2, OpensAndCloses
    <3> QED BY <1>10, <1>11, <3>1, <3>2, <3>3, OpensAndCloses
  <2> QED BY <1>1, <1>12, <2>1, <2>2
<1> QED BY <1>2, <1>10, <1>11, <1>12

\* The last close: no trading day closed after it.
LEMMA LastCloseIs ==
  ASSUME NEW t \in Int, t \div Day \in 0..(Days - 1), calendar \in Calendars
  PROVE  /\ LastClose(t) \in Int /\ LastClose(t) <= t
         /\ \E d \in Int : Trades(d) /\ LastClose(t) = CloseOf(d)
         /\ \A d \in Int : Trades(d) /\ CloseOf(d) <= t => CloseOf(d) <= LastClose(t)
<1> DEFINE w == t \div Day
           S == {c \in {CloseOf(d) : d \in TradingDays(t)} : c <= t}
<1>1. w \in Int /\ t = 1440 * w + Minute(t) /\ Minute(t) \in 0..1439
  BY Lengths DEF Minute
<1>2. LastClose(t) = Max(S)
  BY DEF LastClose
<1>3. \A c : c \in S <=> \E d \in TradingDays(t) : c = CloseOf(d) /\ c <= t
  OBVIOUS
<1>4. \A d : d \in TradingDays(t) <=> d \in (w - 5)..(w + 5) /\ Trades(d)
  BY TradingDaysAre
<1> HIDE DEF w, S
<1>5. PICK e \in (w - 5)..(w - 1) : Trades(e)
  BY TradesNear DEF w
<1>6. e \in Int /\ e \in TradingDays(t) /\ CloseOf(e) <= t
  <2>1. e \in Int /\ w - 5 <= e /\ e <= w - 1
    BY <1>1, <1>5
  <2>2. e \in (w - 5)..(w + 5)
    BY <1>1, <2>1
  <2>3. e \in TradingDays(t)
    BY <1>4, <1>5, <2>2
  <2>4. CloseOf(e) <= 1440 * e + 960 /\ CloseOf(e) \in Int
    BY <2>1, OpensAndCloses
  <2>5. 1440 * w <= t
    BY <1>1
  <2> QED BY <1>1, <2>1, <2>3, <2>4, <2>5
<1>7. S # {}
  BY <1>3, <1>6
<1>8. S \in SUBSET Int /\ \A c \in S : c <= t
  <2>1. \A c \in S : c \in Int /\ c <= t
    BY <1>1, <1>3, <1>4, OpensAndCloses
  <2> QED BY <2>1
<1>9. Max(S) \in S /\ \A c \in S : c <= Max(S)
  BY <1>7, <1>8, MaxIs, Zenon
<1>10. PICK d \in TradingDays(t) : Max(S) = CloseOf(d) /\ Max(S) <= t
  BY <1>3, <1>9
<1>11. d \in Int /\ Trades(d) /\ CloseOf(d) \in Int
  BY <1>1, <1>4, <1>10, OpensAndCloses
<1>12. ASSUME NEW x \in Int, Trades(x), CloseOf(x) <= t
       PROVE  CloseOf(x) <= Max(S)
  <2>1. CASE x >= w - 5
    <3>1. x \in (w - 5)..(w + 5)
      <4>1. x \in Int /\ x <= w + 5
        <5>1. CloseOf(x) >= 1440 * x + 780 /\ CloseOf(x) \in Int
          BY <1>12, Lengths DEF CloseOf
        <5>2. t \in Int /\ CloseOf(x) <= t /\ t < 1440 * w + 1440
          BY <1>1, <1>12
        <5> QED BY <1>1, <5>1, <5>2
      <4> QED BY <1>1, <2>1, <4>1
    <3> QED BY <1>3, <1>4, <1>9, <1>12, <3>1
  <2>2. CASE x < w - 5
    <3>1. CloseOf(e) <= Max(S)
      BY <1>3, <1>6, <1>9
    <3>2. e \in Int /\ w - 5 <= e /\ x \in Int
      BY <1>1, <1>5, <1>12
    <3>3. CloseOf(x) <= CloseOf(e)
      BY <1>1, <2>2, <3>2, OpensAndCloses
    <3> QED BY <1>10, <1>11, <3>1, <3>2, <3>3, OpensAndCloses
  <2> QED BY <1>1, <1>12, <2>1, <2>2
<1> QED BY <1>2, <1>10, <1>11, <1>12

\* While no session opens nothing changes: the market stays shut until the
\* same open, and its last close stays the same.
LEMMA StillShut ==
  ASSUME calendar \in Calendars, NEW t \in Int, NEW u \in Int,
         t \div Day \in 0..(Days - 1), u \div Day \in 0..(Days - 1),
         ~InRth(t), t <= u, u < NextOpen(t)
  PROVE  ~InRth(u) /\ NextOpen(u) = NextOpen(t) /\ LastClose(u) = LastClose(t)
<1>1. \A d \in Int : Trades(d) /\ OpenOf(d) <= u => OpenOf(d) <= t
  <2>1. ASSUME NEW d \in Int, Trades(d), OpenOf(d) <= u, ~(OpenOf(d) <= t)
        PROVE  FALSE
    <3>1. OpenOf(d) \in Int /\ NextOpen(t) \in Int
      BY OpensAndCloses, NextOpenIs
    <3>2. NextOpen(t) <= OpenOf(d)
      BY <2>1, <3>1, NextOpenIs
    <3> QED BY <2>1, <3>1, <3>2
  <2> QED BY <2>1
<1>2. \A d \in Int : Trades(d) /\ OpenOf(d) <= t => CloseOf(d) <= t
  <2>1. ASSUME NEW d \in Int, Trades(d), OpenOf(d) <= t, ~(CloseOf(d) <= t)
        PROVE  FALSE
    <3>1. OpenOf(d) <= t /\ t < CloseOf(d)
      BY <2>1, OpensAndCloses
    <3> QED BY <2>1, <3>1, InRthIs
  <2> QED BY <2>1
<1>3. \A d \in Int : OpenOf(d) \in Int /\ CloseOf(d) \in Int /\ OpenOf(d) < CloseOf(d)
  BY Lengths DEF OpenOf, CloseOf
<1>4. ~InRth(u)
  <2>1. ASSUME NEW d \in Int, Trades(d), OpenOf(d) <= u, u < CloseOf(d)
        PROVE  FALSE
    <3>1. CloseOf(d) <= t
      BY <1>1, <1>2, <2>1
    <3> QED BY <1>3, <2>1, <3>1
  <2> QED BY <2>1, InRthIs
<1>5. NextOpen(u) = NextOpen(t)
  <2>1. PICK d \in Int : Trades(d) /\ NextOpen(t) = OpenOf(d)
    BY NextOpenIs
  <2>2. PICK e \in Int : Trades(e) /\ NextOpen(u) = OpenOf(e)
    BY NextOpenIs
  <2>3. NextOpen(u) <= OpenOf(d)
    BY <1>3, <2>1, NextOpenIs
  <2>4. OpenOf(e) > u
    BY <2>2, NextOpenIs
  <2>5. OpenOf(e) > t
    BY <1>3, <2>4
  <2>6. NextOpen(t) <= OpenOf(e)
    BY <2>2, <2>5, NextOpenIs
  <2> QED BY <1>3, <2>1, <2>2, <2>3, <2>6
<1>6. LastClose(u) = LastClose(t)
  <2>1. PICK d \in Int : Trades(d) /\ LastClose(t) = CloseOf(d)
    BY LastCloseIs
  <2>2. PICK e \in Int : Trades(e) /\ LastClose(u) = CloseOf(e)
    BY LastCloseIs
  <2>3. CloseOf(d) <= t /\ CloseOf(e) <= u
    BY <2>1, <2>2, LastCloseIs
  <2>4. CloseOf(d) <= LastClose(u)
    <3>1. CloseOf(d) <= u
      BY <1>3, <2>3
    <3> QED BY <2>1, <3>1, LastCloseIs
  <2>5. CloseOf(e) <= LastClose(t)
    <3>1. OpenOf(e) <= u
      BY <1>3, <2>3
    <3>2. CloseOf(e) <= t
      BY <1>1, <1>2, <2>2, <3>1
    <3> QED BY <2>2, <3>2, LastCloseIs
  <2> QED BY <1>3, <2>1, <2>2, <2>4, <2>5
<1> QED BY <1>4, <1>5, <1>6
-----------------------------------------------------------------------------
(* Closures the engine is told of. *)

LEMMA TradingDayIs ==
  ASSUME NEW t \in Int
  PROVE  /\ TradingDay(t) \in Int
         /\ 1440 * TradingDay(t) - 240 <= t /\ t < 1440 * TradingDay(t) + 1200
BY Lengths DEF TradingDay

\* A reading taken `at` tells of the closure that t lies in.
Tells(t, at) ==
  LET d == TradingDay(t) IN
  /\ Scheduled(d)
  /\ \/ Holiday(d) /\ at >= 1440 * d - 240
     \/ d \in calendar.earlies /\ at >= CloseOf(d)

\* Such a reading finds the market shut for the rest of the trading day.
LEMMA ShutForTheDay ==
  ASSUME calendar \in Calendars, NEW t \in Int, NEW at \in Int,
         at \div Day \in 0..(Days - 1), at <= t, Tells(t, at)
  PROVE  ~InRth(at) /\ NextOpen(at) >= 1440 * TradingDay(t) + 2010
<1> DEFINE d == TradingDay(t)
<1>1. /\ d \in Int /\ 1440 * d - 240 <= t /\ t < 1440 * d + 1200
      /\ \/ Holiday(d) /\ at >= 1440 * d - 240
         \/ (d \in calendar.earlies /\ at >= 1440 * d + 780)
  BY TradingDayIs, OpensAndCloses DEF Tells
<1> HIDE DEF d
<1>2. at >= 1440 * d - 240 /\ at < 1440 * d + 1200
  BY <1>1
<1>3. ~InRth(at)
  <2>1. ASSUME NEW e \in Int, Trades(e), OpenOf(e) <= at, at < CloseOf(e)
        PROVE  FALSE
    <3>1. 1440 * e + 570 <= at /\ at < 1440 * e + 960
      BY <2>1, OpensAndCloses
    <3>2. e = d
      BY <1>1, <1>2, <3>1
    <3>3. e \in calendar.earlies /\ at >= 1440 * e + 780
      BY <1>1, <2>1, <3>2 DEF Trades
    <3>4. CloseOf(e) = 1440 * e + 780
      BY <3>3, Lengths DEF OpenOf, CloseOf
    <3> QED BY <2>1, <3>3, <3>4
  <2> QED BY <2>1, InRthIs
<1>4. NextOpen(at) >= 1440 * d + 2010
  <2>1. PICK e \in Int : Trades(e) /\ NextOpen(at) = OpenOf(e)
    BY NextOpenIs
  <2>2. 1440 * e + 570 > at /\ NextOpen(at) = 1440 * e + 570
    BY <2>1, NextOpenIs, OpensAndCloses
  <2>3. e >= d
    BY <1>1, <1>2, <2>2
  <2>4. e # d
    BY <1>1, <1>2, <2>1, <2>2 DEF Trades
  <2> QED BY <1>1, <2>2, <2>3, <2>4
<1> QED BY <1>3, <1>4 DEF d

\* And forces a closure, unless it comes after hours.
LEMMA ClosureForces ==
  ASSUME calendar \in Calendars, now \in Moments, NEW at \in Moments,
         at <= now, Tells(now, at), At(now) \in {"Overnight", "PreMarket", "Regular"}
  PROVE  Forces(Reading(at))
<1> DEFINE d == TradingDay(now)
           r == Reading(at)
           w == now \div Day
           m == Minute(now)
           S == {o \in {(now \div Day + k) * Day + RthOpen : k \in 0..3} :
                   o > now /\ ~Weekend(o)}
<1>1. /\ now \in Int /\ at \in Int /\ at \div Day \in 0..(Days - 1)
      /\ w \in Int /\ m \in 0..1439 /\ now = 1440 * w + m
  BY MomentIs, Lengths DEF Minute
<1>2. /\ d \in Int /\ 1440 * d - 240 <= now /\ now < 1440 * d + 1200
      /\ d % 7 \notin {0, 6}
      /\ Holiday(d) \/ (d \in calendar.earlies /\ at >= 1440 * d + 780)
  <2>1. d \in Int /\ 1440 * d - 240 <= now /\ now < 1440 * d + 1200
    BY <1>1, TradingDayIs
  <2>2. /\ Scheduled(d)
        /\ Holiday(d) \/ (d \in calendar.earlies /\ at >= CloseOf(d))
    BY DEF Tells
  <2> HIDE DEF d
  <2> QED BY <2>1, <2>2, ScheduledIs, Lengths DEF CloseOf
<1>3. /\ r.isOpen = InRth(at) /\ r.nextOpen = NextOpen(at)
      /\ ~InRth(at) /\ NextOpen(at) >= 1440 * d + 2010 /\ NextOpen(at) \in Int
  BY <1>1, ShutForTheDay, NextOpenIs DEF Reading
<1>4. NextExpectedRTHOpen(now) = Min(S)
  BY DEF NextExpectedRTHOpen
<1>5. \A o : o \in S <=> /\ \E k \in 0..3 : o = OpenOf(w + k)
                         /\ o > now /\ ~Weekend(o)
  BY DEF OpenOf
<1>6. Tradable(At(now))
  BY DEF Tradable
<1>7. (w % 7 \notin {0, 6} /\ 570 <= m /\ m < 960 => At(now) = "Regular")
      /\ (w % 7 \notin {0, 6} /\ 960 <= m /\ m < 1200 => At(now) = "AfterHours")
  BY <1>1, AtIs
<1> HIDE DEF d, r, w, m, S
<1>8. r.nextOpen > now
  BY <1>1, <1>2, <1>3
<1>9. CASE At(now) = "Regular"
  BY <1>3, <1>6, <1>8, <1>9 DEF Forces, r
<1>10. CASE At(now) # "Regular"
  <2>1. now < 1440 * d + 570
    <3>1. ASSUME now >= 1440 * d + 570 PROVE FALSE
      <4>1. w = d /\ 570 <= m /\ m < 1200
        BY <1>1, <1>2, <3>1
      <4>2. w % 7 \notin {0, 6}
        BY <1>2, <4>1
      <4> QED BY <1>1, <1>7, <1>10, <4>1, <4>2
    <3> QED BY <1>1, <1>2, <3>1
  <2>2. d = w \/ d = w + 1
    BY <1>1, <1>2
  <2>3. OpenOf(d) = 1440 * d + 570 /\ OpenOf(d) \in Int
    BY <1>2, Lengths DEF OpenOf, CloseOf
  <2>4. ~Weekend(OpenOf(d))
    <3>1. Weekday(OpenOf(d)) = d % 7
      <4>1. d \in Int
        BY <1>2
      <4> QED BY <4>1, OpensOnItsDay
    <3> QED BY <1>2, <3>1 DEF Weekend
  <2>5. \E k \in 0..3 : OpenOf(d) = OpenOf(w + k)
    <3>1. w + 0 = w /\ 0 \in 0..3 /\ 1 \in 0..3
      BY <1>1
    <3> QED BY <2>2, <3>1
  <2>6. OpenOf(d) \in S
    BY <1>5, <2>1, <2>3, <2>4, <2>5
  <2>7. S \in SUBSET Int /\ \A o \in S : now <= o
    <3>1. \A o \in S : o \in Int /\ now <= o
      <4>1. \A k \in 0..3 : OpenOf(w + k) \in Int
        BY <1>1, OpensAndCloses
      <4> QED BY <1>1, <1>5, <4>1
    <3> QED BY <3>1
  <2>8. Min(S) \in S /\ Min(S) <= OpenOf(d)
    <3>1. S # {}
      BY <2>6
    <3>2. Min(S) \in S /\ \A o \in S : Min(S) <= o
      <4>1. now \in Int
        BY <1>1
      <4> QED BY <2>7, <3>1, <4>1, MinIs, Zenon
    <3> QED BY <2>6, <3>2
  <2>9. Min(S) \in Int
    BY <2>7, <2>8
  <2>10. r.nextOpen > NextExpectedRTHOpen(now) + Slack
    BY <1>2, <1>3, <1>4, <2>3, <2>8, <2>9, Lengths
  <2> QED BY <1>3, <1>6, <1>8, <2>10 DEF Forces, r
<1> QED BY <1>9, <1>10

\* Why the engine may depart from the wall clock.
Excused(t) ==
  \/ \E d \in calendar.earlies : CloseOf(d) = LastClose(t)
  \/ \E d \in calendar.holidays :
       LastClose(t) < d * Day + RthOpen /\ d * Day + RthOpen < NextOpen(t)

\* A reading that forces a closure has one of these reasons.
LEMMA ForcedExcused ==
  ASSUME calendar \in Calendars, now \in Moments, NEW at \in Moments,
         at <= now, Forces(Reading(at))
  PROVE  ~InRth(now) /\ NextOpen(now) = NextOpen(at) /\ Excused(now)
<1> DEFINE r == Reading(at)
           w == now \div Day
           m == Minute(now)
           S == {o \in {(now \div Day + k) * Day + RthOpen : k \in 0..3} :
                   o > now /\ ~Weekend(o)}
<1>1. /\ now \in Int /\ at \in Int /\ at \div Day \in 0..(Days - 1)
      /\ now \div Day \in 0..(Days - 1)
      /\ w \in Int /\ m \in 0..1439 /\ now = 1440 * w + m
  BY MomentIs, Lengths DEF Minute
<1>2. r.isOpen = InRth(at) /\ r.nextOpen = NextOpen(at)
  BY DEF Reading
<1>3. /\ ~InRth(at) /\ NextOpen(at) > now
      /\ At(now) = "Regular" \/ NextOpen(at) > NextExpectedRTHOpen(now) + Slack
  BY <1>2 DEF Forces
<1>4. ~InRth(now) /\ NextOpen(now) = NextOpen(at)
  BY <1>1, <1>3, StillShut
<1>5. LastClose(now) <= now /\ LastClose(now) \in Int /\ NextOpen(now) \in Int
  BY <1>1, LastCloseIs, NextOpenIs
<1>6. NextExpectedRTHOpen(now) = Min(S)
  BY DEF NextExpectedRTHOpen
<1>7. \A o : o \in S <=> /\ \E k \in 0..3 : o = OpenOf(w + k)
                         /\ o > now /\ ~Weekend(o)
  BY DEF OpenOf
<1>8. At(now) = "Regular" => w % 7 \notin {0, 6} /\ 570 <= m /\ m < 960
  BY <1>1, AtIs
<1>9. OpenOf(w) <= now /\ now < 1440 * w + 960 => InRth(now) \/ Holiday(w) \/ ~Scheduled(w)
                                               \/ (w \in calendar.earlies /\ now >= CloseOf(w))
  BY <1>1, InRthIs, Lengths DEF Trades, OpenOf, CloseOf
<1> HIDE DEF r, w, m, S
<1>10. CASE At(now) = "Regular"
  <2>1. Scheduled(w) /\ OpenOf(w) <= now /\ now < 1440 * w + 960
    BY <1>1, <1>8, <1>10, ScheduledIs, Lengths DEF OpenOf, CloseOf
  <2>2. CASE Holiday(w)
    <3>1. PICK e \in Int : Trades(e) /\ LastClose(now) = CloseOf(e)
      BY <1>1, LastCloseIs
    <3>2. e # w
      BY <2>2, <3>1 DEF Trades
    <3>3. CloseOf(e) <= now /\ CloseOf(e) >= 1440 * e + 780 /\ CloseOf(e) <= 1440 * e + 960
      BY <1>5, <3>1, Lengths DEF OpenOf, CloseOf
    <3>4. e < w
      <4>1. 1440 * e + 780 < 1440 * w + 960
        BY <1>1, <2>1, <3>3, OpensAndCloses
      <4> QED BY <1>1, <3>2, <4>1
    <3>5. LastClose(now) < OpenOf(w)
      BY <1>1, <3>1, <3>3, <3>4, OpensAndCloses
    <3>6. OpenOf(w) < NextOpen(now)
      BY <1>1, <1>3, <1>4, <1>5, <2>1, OpensAndCloses
    <3>7. w \in calendar.holidays
      BY <2>2 DEF Holiday
    <3> QED BY <1>4, <3>5, <3>6, <3>7, Zenon DEF Excused, OpenOf
  <2>3. CASE w \in calendar.earlies /\ now >= CloseOf(w) /\ ~Holiday(w)
    <3>1. PICK e \in Int : Trades(e) /\ LastClose(now) = CloseOf(e)
      BY <1>1, LastCloseIs
    <3>2. CloseOf(w) <= LastClose(now)
      BY <1>1, <2>1, <2>3, LastCloseIs, OpensAndCloses DEF Trades
    <3>3. CloseOf(w) = 1440 * w + 780 /\ CloseOf(e) \in Int
      BY <1>1, <2>3, <3>1, Lengths DEF OpenOf, CloseOf
    <3>4. CloseOf(e) >= 1440 * e + 780 /\ CloseOf(e) <= 1440 * e + 960
      BY <3>1, Lengths DEF OpenOf, CloseOf
    <3>5. e = w
      <4>1. CloseOf(e) <= now /\ CloseOf(w) <= CloseOf(e)
        BY <1>5, <3>1, <3>2
      <4>2. 1440 * e + 780 < 1440 * w + 960 /\ 1440 * w + 780 <= 1440 * e + 960
        BY <1>1, <2>1, <3>3, <3>4, <4>1
      <4> QED BY <1>1, <4>2
    <3> QED BY <1>4, <2>3, <3>1, <3>5, Zenon DEF Excused
  <2> QED BY <1>4, <1>9, <2>1, <2>2, <2>3
<1>11. CASE NextOpen(at) > NextExpectedRTHOpen(now) + Slack
  <2>1. PICK k \in 1..3 : (w + k) % 7 \notin {0, 6}
    BY <1>1
  <2>2. \A j \in 0..3 : OpenOf(w + j) \in Int /\ w + j \in Int
    BY <1>1, OpensAndCloses
  <2>3. \A j \in 0..3 : Weekday(OpenOf(w + j)) = (w + j) % 7
    BY <1>1, Lengths, SMTT(40) DEF OpenOf, Weekday
  <2>4. k \in 0..3 /\ OpenOf(w + k) > now
    <3>1. k \in 0..3 /\ w + k \in Int /\ OpenOf(w + k) = 1440 * (w + k) + 570
      BY <1>1, <2>1, Lengths DEF OpenOf, CloseOf
    <3> QED BY <1>1, <2>1, <3>1
  <2>5. OpenOf(w + k) \in S
    BY <1>7, <2>1, <2>3, <2>4 DEF Weekend
  <2>6. S # {} /\ S \in SUBSET Int /\ \A o \in S : now <= o
    <3>1. \A o \in S : o \in Int /\ now <= o
      BY <1>1, <1>7, <2>2
    <3> QED BY <2>5, <3>1
  <2>7. Min(S) \in S
    <3>1. now \in Int
      BY <1>1
    <3> QED BY <2>6, <3>1, MinIs, Zenon
  <2>8. PICK j \in 0..3 : Min(S) = OpenOf(w + j) /\ Min(S) > now /\ ~Weekend(Min(S))
    BY <1>7, <2>7
  <2>9. w + j \in Int /\ Scheduled(w + j)
    BY <2>2, <2>3, <2>8, ScheduledIs DEF Weekend
  <2>10. OpenOf(w + j) < NextOpen(now) /\ OpenOf(w + j) \in Int
    BY <1>4, <1>5, <1>6, <1>11, <2>2, <2>8, Lengths
  <2>11. ~Trades(w + j)
    BY <1>1, <1>5, <2>8, <2>9, <2>10, NextOpenIs
  <2>12. w + j \in calendar.holidays
    BY <2>9, <2>11 DEF Trades, Holiday
  <2>13. LastClose(now) < OpenOf(w + j)
    BY <1>1, <1>5, <2>8, <2>10
  <2> QED BY <1>4, <2>10, <2>12, <2>13, Zenon DEF Excused, OpenOf
<1> QED BY <1>3, <1>4, <1>10, <1>11
-----------------------------------------------------------------------------
(* The invariant of the engine.  The readings come in order; a closure that  *)
(* lasts ends at the open the exchange names and has a reason; and one that  *)
(* the engine was told of lasts.                                             *)

InOrder == told <= now /\ (told = now => synced \/ now = 0)

Shut ==
  \A t \in Moments : t = now /\ t < forced =>
    ~InRth(t) /\ forced = NextOpen(t) /\ Excused(t)

Held ==
  \A t, at \in Moments : t = now /\ at = told /\ Tells(t, at) => t < forced

EngineInv == EngineTypeOK /\ InOrder /\ Shut /\ Held

\* What depends on the calendar alone stays.
LEMMA Frozen ==
  ASSUME calendar' = calendar
  PROVE  \A t, at : /\ InRth(t)' <=> InRth(t)
                    /\ NextOpen(t)' = NextOpen(t)
                    /\ LastClose(t)' = LastClose(t)
                    /\ Excused(t)' <=> Excused(t)
                    /\ Tells(t, at)' <=> Tells(t, at)
BY DEF InRth, NextOpen, LastClose, Excused, Tells, TradingDays, CloseOf, Holiday,
       Scheduled, TradingDay

LEMMA EngineStarts ==
  ASSUME EngineInit
  PROVE  EngineInv
<1>1. now = 0 /\ calendar \in Calendars /\ synced = FALSE /\ forced = 0 /\ told = 0
  BY DEF EngineInit
<1>2. EngineTypeOK
  BY <1>1, ZeroIsMoment DEF EngineTypeOK
<1>3. InOrder /\ Shut
  BY <1>1 DEF InOrder, Shut
<1>4. Held
  <2>1. ASSUME Tells(0, 0) PROVE FALSE
    <3>1. TradingDay(0) = 0
      BY Lengths DEF TradingDay
    <3>2. ~Scheduled(0)
      BY ScheduledIs
    <3> QED BY <2>1, <3>1, <3>2 DEF Tells
  <2> QED BY <1>1, <2>1 DEF Held
<1> QED BY <1>2, <1>3, <1>4 DEF EngineInv

\* The moments a reading can be of.
LEMMA ReadingAt ==
  ASSUME EngineInv, NEW at \in {now} \cup IF synced THEN {} ELSE {Preceding[now]}
  PROVE  at \in Moments /\ at <= now /\ told <= at
<1>1. now \in Moments /\ told \in Moments
  BY DEF EngineInv, EngineTypeOK
<1>2. now \in Nat /\ told \in Nat /\ told <= now
  BY <1>1, MomentIs DEF EngineInv, InOrder
<1>3. CASE at = now
  BY <1>1, <1>2, <1>3
<1>4. CASE at = Preceding[now] /\ ~synced
  <2>1. at \in Moments /\ at <= now /\ at \in Nat
    BY <1>1, <1>4, PrecedingIs, MomentIs
  <2>2. CASE told < now
    BY <1>1, <1>4, <2>1, <2>2, PrecedingIs
  <2>3. CASE told = now
    BY <1>2, <1>4, <2>1, <2>3 DEF EngineInv, InOrder
  <2> QED BY <1>2, <2>1, <2>2, <2>3
<1> QED BY <1>3, <1>4

LEMMA TellsLater ==
  ASSUME NEW t \in Int, NEW a \in Int, NEW b \in Int, a <= b, Tells(t, a)
  PROVE  Tells(t, b)
<1>1. TradingDay(t) \in Int /\ CloseOf(TradingDay(t)) \in Int
  BY TradingDayIs, OpensAndCloses
<1> QED BY <1>1 DEF Tells

LEMMA SyncKeeps ==
  ASSUME EngineInv, ClockSync
  PROVE  EngineInv'
<1>1. PICK at \in {now} \cup IF synced THEN {} ELSE {Preceding[now]} :
        /\ forced' = SyncClock(Reading(at))
        /\ told' = IF At(now) \in {"Overnight", "PreMarket", "Regular"}
                     THEN at ELSE told
        /\ synced' = (at = now)
        /\ now' = now /\ calendar' = calendar
  BY DEF ClockSync
<1>2. /\ now \in Moments /\ told \in Moments /\ calendar \in Calendars
      /\ forced \in Nat
  BY DEF EngineInv, EngineTypeOK
<1>3. at \in Moments /\ at <= now /\ told <= at
  BY <1>1, ReadingAt
<1>4. /\ now \in Nat /\ now \in Int /\ at \in Nat /\ at \in Int /\ told \in Int
      /\ at \div Day \in 0..(Days - 1)
  BY <1>2, <1>3, MomentIs
<1>5. NextOpen(at) \in Int /\ NextOpen(at) > at
  BY <1>2, <1>4, NextOpenIs
<1>6. forced' = IF InRth(at) THEN 0
                ELSE IF Forces(Reading(at)) THEN NextOpen(at) ELSE forced
  BY <1>1 DEF SyncClock, Reading
<1>7. EngineTypeOK'
  <2>1. forced' \in Nat
    BY <1>2, <1>4, <1>5, <1>6
  <2>2. told' \in Moments /\ synced' \in BOOLEAN
    BY <1>1, <1>2, <1>3
  <2> QED BY <1>1, <1>2, <2>1, <2>2 DEF EngineTypeOK
<1>8. InOrder'
  <2>1. told <= now /\ (told = now => synced \/ now = 0)
    BY DEF EngineInv, InOrder
  <2>2. told' = at \/ told' = told
    BY <1>1
  <2>3. told' <= now'
    BY <1>1, <1>3, <2>1, <2>2
  <2>4. ASSUME told' = now' PROVE synced' \/ now' = 0
    <3>1. told' = at => at = now
      BY <1>1, <2>4
    <3>2. told' = told => at = now
      BY <1>1, <1>3, <1>4, <2>4
    <3> QED BY <1>1, <2>2, <3>1, <3>2
  <2> QED BY <2>3, <2>4 DEF InOrder
<1>9. Shut'
  <2>1. ASSUME NEW t \in Moments, t = now, t < forced'
        PROVE  ~InRth(t) /\ forced' = NextOpen(t) /\ Excused(t)
    <3>1. ~InRth(at)
      BY <1>4, <1>6, <2>1
    <3>2. CASE Forces(Reading(at))
      <4>1. forced' = NextOpen(at)
        BY <1>6, <3>1, <3>2
      <4> QED BY <1>2, <1>3, <2>1, <3>2, <4>1, ForcedExcused
    <3>3. CASE ~Forces(Reading(at))
      <4>1. forced' = forced
        BY <1>6, <3>1, <3>3
      <4> QED BY <2>1, <4>1 DEF EngineInv, Shut
    <3> QED BY <3>2, <3>3
  <2> QED BY <1>1, <2>1, Frozen DEF Shut
<1>10. Held'
  <2>1. ASSUME NEW t \in Moments, NEW a \in Moments, t = now, a = told', Tells(t, a)
        PROVE  t < forced'
    <3>1. a <= at /\ a \in Int
      BY <1>1, <1>3, <1>4, <2>1, MomentIs
    <3>2. Tells(now, at)
      BY <1>4, <2>1, <3>1, TellsLater
    <3>3. ~InRth(at) /\ NextOpen(at) >= 1440 * TradingDay(now) + 2010
      BY <1>2, <1>3, <1>4, <3>2, ShutForTheDay
    <3>4. now < NextOpen(at)
      BY <1>4, <1>5, <3>3, TradingDayIs
    <3>5. CASE Forces(Reading(at))
      BY <1>6, <2>1, <3>3, <3>4, <3>5
    <3>6. CASE ~Forces(Reading(at))
      <4>1. forced' = forced
        BY <1>6, <3>3, <3>6
      <4>2. At(now) \notin {"Overnight", "PreMarket", "Regular"}
        BY <1>2, <1>3, <3>2, <3>6, ClosureForces
      <4>3. a = told
        BY <1>1, <2>1, <4>2
      <4> QED BY <2>1, <4>1, <4>3 DEF EngineInv, Held
    <3> QED BY <3>5, <3>6
  <2> QED BY <1>1, <2>1, Frozen DEF Held
<1> QED BY <1>7, <1>8, <1>9, <1>10 DEF EngineInv

LEMMA TickKeeps ==
  ASSUME EngineInv, Tick
  PROVE  EngineInv'
<1>1. /\ Following[now] \in Moments /\ now' = Following[now]
      /\ synced' = FALSE /\ calendar' = calendar /\ forced' = forced
      /\ told' = IF Minute(now') = NightOpen THEN 0 ELSE told
  BY DEF Tick
<1>2. /\ now \in Moments /\ told \in Moments /\ calendar \in Calendars
      /\ forced \in Nat /\ told <= now
  BY DEF EngineInv, EngineTypeOK, InOrder
<1>3. now' \in Moments /\ now' > now
  BY <1>1, <1>2, FollowingIs
<1>4. /\ now \in Int /\ now' \in Int /\ told \in Int /\ now \in Nat /\ told \in Nat
      /\ now \div Day \in 0..(Days - 1) /\ now' \div Day \in 0..(Days - 1)
      /\ told \div Day \in 0..(Days - 1)
  BY <1>2, <1>3, MomentIs
<1>5. EngineTypeOK'
  BY <1>1, <1>2, <1>3, ZeroIsMoment DEF EngineTypeOK
<1>6. told' \in {0, told} /\ told' < now'
  BY <1>1, <1>2, <1>3, <1>4
<1>7. InOrder'
  BY <1>4, <1>5, <1>6, MomentIs DEF InOrder, EngineTypeOK
<1>8. Shut'
  <2>1. ASSUME NEW t \in Moments, t = now', t < forced
        PROVE  ~InRth(t) /\ forced = NextOpen(t) /\ Excused(t)
    <3>1. now < forced
      BY <1>2, <1>3, <1>4, <2>1
    <3>2. ~InRth(now) /\ forced = NextOpen(now) /\ Excused(now)
      BY <1>2, <3>1 DEF EngineInv, Shut
    <3>3. ~InRth(t) /\ NextOpen(t) = NextOpen(now) /\ LastClose(t) = LastClose(now)
      BY <1>2, <1>3, <1>4, <2>1, <3>2, StillShut
    <3> QED BY <3>2, <3>3 DEF Excused
  <2> QED BY <1>1, <2>1, Frozen DEF Shut
<1>9. Held'
  <2>1. ASSUME NEW t \in Moments, NEW a \in Moments, t = now', a = told', Tells(t, a)
        PROVE  t < forced
    <3> DEFINE d == TradingDay(t)
    <3>1. d \in Int /\ 1440 * d - 240 <= t /\ t < 1440 * d + 1200 /\ a >= 1440 * d - 240
      <4>1. t \in Int /\ a \in Int
        BY <2>1, MomentIs
      <4>2. d \in Int /\ 1440 * d - 240 <= t /\ t < 1440 * d + 1200
        BY <4>1, TradingDayIs
      <4>3. a >= 1440 * d - 240 \/ a >= CloseOf(d)
        BY <2>1 DEF Tells
      <4> HIDE DEF d
      <4> QED BY <4>1, <4>2, <4>3, Lengths DEF CloseOf
    <3> HIDE DEF d
    <3>2. a = told
      <4>1. ASSUME Minute(t) = 1200 PROVE a # 0
        <5>1. t = 1440 * (t \div Day) + Minute(t) /\ t \div Day >= 0 /\ t \div Day \in Int
          BY <1>4, <2>1, DayAndMinute
        <5>2. t >= 1200
          BY <4>1, <5>1
        <5>3. d \in Int /\ t < 1440 * d + 1200 /\ a >= 1440 * d - 240
          BY <3>1
        <5>4. d >= 1
          BY <1>4, <2>1, <5>2, <5>3
        <5> QED BY <5>3, <5>4
      <4> QED BY <1>1, <2>1, <4>1, Lengths
    <3>3. TradingDay(now) = d
      <4>1. 1440 * d - 240 <= now /\ now < 1440 * d + 1200
        BY <1>2, <1>3, <1>4, <2>1, <3>1, <3>2
      <4> QED BY <1>4, <3>1, <4>1, Lengths DEF TradingDay
    <3>4. Tells(now, told)
      BY <2>1, <3>2, <3>3 DEF Tells, d
    <3>5. now < forced
      BY <1>2, <3>4 DEF EngineInv, Held
    <3>6. forced = NextOpen(now)
      BY <1>2, <3>5 DEF EngineInv, Shut
    <3>7. ~InRth(told) /\ NextOpen(told) >= 1440 * d + 2010 /\ NextOpen(told) \in Int
      <4>1. told <= t
        BY <1>2, <1>3, <1>4, <2>1
      <4> QED BY <1>2, <1>4, <2>1, <3>2, <4>1, ShutForTheDay, NextOpenIs DEF d
    <3>8. now < NextOpen(told)
      BY <1>3, <1>4, <2>1, <3>1, <3>7
    <3>9. NextOpen(now) = NextOpen(told)
      BY <1>2, <1>4, <3>7, <3>8, StillShut
    <3> QED BY <1>4, <2>1, <3>1, <3>6, <3>7, <3>9
  <2> QED BY <1>1, <2>1, Frozen DEF Held
<1> QED BY <1>5, <1>7, <1>8, <1>9 DEF EngineInv
-----------------------------------------------------------------------------
(* What the engine says. *)

LEMMA ClassifyIs ==
  ASSUME EngineInv
  PROVE  /\ now \in Moments /\ now \in Int /\ told \in Moments
         /\ calendar \in Calendars /\ Current \in SessionNames
         /\ now < forced => Current = "Closed"
         /\ ~(now < forced) => Current = At(now)
<1>1. now \in Moments /\ now \in Int /\ told \in Moments /\ calendar \in Calendars
  BY MomentIs DEF EngineInv, EngineTypeOK
<1>2. At(now) \in SessionNames
  BY <1>1, AtIs
<1> QED BY <1>1, <1>2 DEF Current, Classify, SessionNames

LEMMA NeverShut ==
  ASSUME EngineInv
  PROVE  NeverShutOut
<1>1. ASSUME Current # At(now)
      PROVE  ~InRth(now) /\ Excused(now)
  BY <1>1, ClassifyIs DEF EngineInv, Shut
<1> QED BY <1>1 DEF NeverShutOut, Excused

LEMMA ClosuresHold ==
  ASSUME EngineInv
  PROVE  ClosureHeld
<1> DEFINE d == TradingDay(now)
           w == now \div Day
           m == Minute(now)
<1>1. /\ d \in Int /\ 1440 * d - 240 <= now /\ now < 1440 * d + 1200
      /\ w \in Int /\ m \in 0..1439 /\ now = 1440 * w + m
  <2>1. now \in Int
    BY ClassifyIs
  <2>2. d \in Int /\ 1440 * d - 240 <= now /\ now < 1440 * d + 1200
    BY <2>1, TradingDayIs
  <2>3. w \in Int /\ m \in 0..1439 /\ now = 1440 * w + m
    BY <2>1, Lengths DEF Minute
  <2> QED BY <2>2, <2>3
<1>2. w % 7 = 6 \/ (w % 7 = 0 /\ m < 1200) \/ (w % 7 = 5 /\ m >= 1200)
        => At(now) = "Closed"
  BY ClassifyIs, AtIs
<1>3. (d - 1) * Day + NightOpen = 1440 * d - 240
  <2> HIDE DEF d, w, m
  <2> QED BY <1>1, Lengths
<1>4. ASSUME \/ Holiday(d) /\ told >= (d - 1) * Day + NightOpen
             \/ (d \in calendar.earlies /\ told >= CloseOf(d))
      PROVE  Current = "Closed"
  <2>1. CASE Scheduled(d)
    <3>1. Tells(now, told)
      BY <1>3, <1>4, <2>1 DEF Tells
    <3>2. now < forced
      BY <3>1, ClassifyIs DEF EngineInv, Held
    <3> QED BY <3>2, ClassifyIs
  <2>2. CASE ~Scheduled(d)
    <3>1. d % 7 = 0 \/ d % 7 = 6
      BY <1>1, <2>2, ScheduledIs
    <3>2. (w = d /\ m < 1200) \/ (w = d - 1 /\ m >= 1200)
      <4> HIDE DEF d, w, m
      <4> QED BY <1>1
    <3>3. At(now) = "Closed"
      <4> HIDE DEF d, w, m
      <4> QED BY <1>1, <1>2, <3>1, <3>2
    <3> QED BY <3>3, ClassifyIs
  <2> QED BY <2>1, <2>2
<1> QED BY <1>4 DEF ClosureHeld
-----------------------------------------------------------------------------
(* The anchors. *)

\* What is added below does not change the greatest element.
LEMMA SameMax ==
  ASSUME NEW A \in SUBSET Int, NEW B \in SUBSET Int, NEW b \in Int,
         A # {}, A \subseteq B, \A x \in B : x <= b,
         \A x \in B \ A : \A a \in A : x <= a
  PROVE  Max(A) = Max(B)
<1>1. Max(A) \in A /\ \A x \in A : x <= Max(A)
  BY MaxIs
<1>2. Max(B) \in B /\ \A x \in B : x <= Max(B)
  <2>1. B # {}
    OBVIOUS
  <2> QED BY <2>1, MaxIs
<1>3. Max(B) <= Max(A)
  BY <1>1, <1>2
<1>4. Max(A) <= Max(B)
  BY <1>1, <1>2
<1>5. Max(A) \in Int /\ Max(B) \in Int
  BY <1>1, <1>2
<1> QED BY <1>3, <1>4, <1>5

\* The 20:00 of a day.
Evening(x) == x * Day + NightOpen

LEMMA EveningIs ==
  ASSUME NEW x \in Int
  PROVE  /\ Evening(x) \in Int /\ Evening(x) = 1440 * x + 1200
         /\ Weekday(Evening(x)) = x % 7 /\ x % 7 \in 0..6
         /\ At(Evening(x)) = "Overnight" <=> x % 7 \notin {5, 6}
         /\ At(Evening(x) - 1) # "Overnight"
         /\ At(Evening(x) - 1) = "Closed" <=> x % 7 \in {0, 6}
<1>1. Evening(x) = x * 1440 + 1200 /\ x % 7 \in 0..6
  BY Lengths DEF Evening
<1>2. (x * 1440 + 1200) \div 1440 = x /\ (x * 1440 + 1200) % 1440 = 1200
  OBVIOUS
<1>3. (x * 1440 + 1199) \div 1440 = x /\ (x * 1440 + 1199) % 1440 = 1199
  OBVIOUS
<1>4. Evening(x) \div Day = x /\ Minute(Evening(x)) = 1200
  BY <1>1, <1>2, Lengths DEF Minute
<1>5. Evening(x) - 1 = x * 1440 + 1199
  BY <1>1
<1>6. (Evening(x) - 1) \div Day = x /\ Minute(Evening(x) - 1) = 1199
  BY <1>3, <1>5, Lengths DEF Minute
<1>7. Evening(x) \in Int /\ Evening(x) - 1 \in Int
  BY <1>1
<1>8. Weekday(Evening(x)) = x % 7
  BY <1>4 DEF Weekday
<1>9. At(Evening(x)) = "Overnight" <=>
        (x % 7 = 0 /\ 1200 >= 1200) \/ (x % 7 \notin {0, 6} /\ 1200 < 240)
          \/ (x % 7 \notin {0, 5, 6} /\ 1200 >= 1200)
  BY <1>4, <1>7, AtIs
<1>10. /\ At(Evening(x) - 1) = "Overnight" <=>
            (x % 7 = 0 /\ 1199 >= 1200) \/ (x % 7 \notin {0, 6} /\ 1199 < 240)
              \/ (x % 7 \notin {0, 5, 6} /\ 1199 >= 1200)
       /\ At(Evening(x) - 1) = "Closed" <=>
            x % 7 = 6 \/ (x % 7 = 0 /\ 1199 < 1200) \/ (x % 7 = 5 /\ 1199 >= 1200)
  BY <1>6, <1>7, AtIs
<1> QED BY <1>1, <1>7, <1>8, <1>9, <1>10

\* Of any seven days one is a Sunday.
LEMMA SundayNear ==
  ASSUME NEW n \in Int
  PROVE  \E x \in (n - 7)..(n - 1) : x % 7 = 0
<1>1. PICK k \in 1..7 : (n - k) % 7 = 0
  OBVIOUS
<1>2. n - k \in (n - 7)..(n - 1)
  OBVIOUS
<1> QED BY <1>1, <1>2

LEMMA AnchorsAre ==
  ASSUME NEW t \in Int
  PROVE  LET opens == {e \in {(t \div Day - d) * Day + NightOpen : d \in 0..8} :
                         e <= t /\ At(e) = "Overnight" /\ At(e - 1) # "Overnight"}
         IN  /\ DayStart(t) = Max(opens)
             /\ WeekStart(t) = Max({e \in opens : At(e - 1) = "Closed"})
<1> DEFINE opens == {e \in {(t \div Day - d) * Day + NightOpen : d \in 0..8} :
                       e <= t /\ At(e) = "Overnight" /\ At(e - 1) # "Overnight"}
           halts == {e \in opens : At(e - 1) = "Closed"}
           days == {e \in Evenings(t) : Weekday(e) \notin {5, 6}}
           weeks == {e \in Evenings(t) : Weekday(e) = 0}
           n == t \div Day
<1>1. n \in Int /\ 1440 * n <= t
  BY Lengths
<1>2. \A e : e \in Evenings(t) <=> \E d \in 0..7 : e = Evening(n - d) /\ e <= t
  BY DEF Evenings, Evening
<1>3. \A e : e \in opens <=> \E d \in 0..8 : /\ e = Evening(n - d) /\ e <= t
                                            /\ At(e) = "Overnight"
                                            /\ At(e - 1) # "Overnight"
  BY DEF Evening
<1> HIDE DEF opens, n
<1>4. \A d \in 0..8 :
        /\ Evening(n - d) \in Int /\ Evening(n - d) = 1440 * (n - d) + 1200
        /\ Weekday(Evening(n - d)) = (n - d) % 7
        /\ At(Evening(n - d)) = "Overnight" <=> (n - d) % 7 \notin {5, 6}
        /\ At(Evening(n - d) - 1) # "Overnight"
        /\ At(Evening(n - d) - 1) = "Closed" <=> (n - d) % 7 \in {0, 6}
  <2>1. ASSUME NEW d \in 0..8
        PROVE  /\ Evening(n - d) \in Int /\ Evening(n - d) = 1440 * (n - d) + 1200
               /\ Weekday(Evening(n - d)) = (n - d) % 7
               /\ At(Evening(n - d)) = "Overnight" <=> (n - d) % 7 \notin {5, 6}
               /\ At(Evening(n - d) - 1) # "Overnight"
               /\ At(Evening(n - d) - 1) = "Closed" <=> (n - d) % 7 \in {0, 6}
    <3> DEFINE x == n - d
    <3>1. x \in Int
      BY <1>1
    <3> HIDE DEF x
    <3>2. /\ Evening(x) \in Int /\ Evening(x) = 1440 * x + 1200
          /\ Weekday(Evening(x)) = x % 7
          /\ At(Evening(x)) = "Overnight" <=> x % 7 \notin {5, 6}
          /\ At(Evening(x) - 1) # "Overnight"
          /\ At(Evening(x) - 1) = "Closed" <=> x % 7 \in {0, 6}
      BY <3>1, EveningIs
    <3> QED BY <3>2 DEF x
  <2> QED BY <2>1
<1>5. \A d \in 0..7 : d \in 0..8
  OBVIOUS
<1>6. \A e : e \in days <=> \E d \in 0..7 : /\ e = Evening(n - d) /\ e <= t
                                           /\ (n - d) % 7 \notin {5, 6}
  <2>1. \A e : e \in days <=> e \in Evenings(t) /\ Weekday(e) \notin {5, 6}
    OBVIOUS
  <2> HIDE DEF days
  <2> QED BY <1>2, <1>4, <1>5, <2>1
<1>7. \A e : e \in opens <=> \E d \in 0..8 : /\ e = Evening(n - d) /\ e <= t
                                            /\ (n - d) % 7 \notin {5, 6}
  BY <1>3, <1>4
<1>8. /\ \A e : e \in weeks <=> \E d \in 0..7 : /\ e = Evening(n - d) /\ e <= t
                                              /\ (n - d) % 7 = 0
      /\ \A e : e \in halts <=> \E d \in 0..8 : /\ e = Evening(n - d) /\ e <= t
                                              /\ (n - d) % 7 = 0
  <2>1. \A e : e \in weeks <=> \E d \in 0..7 : /\ e = Evening(n - d) /\ e <= t
                                             /\ (n - d) % 7 = 0
    <3>1. \A e : e \in weeks <=> e \in Evenings(t) /\ Weekday(e) = 0
      OBVIOUS
    <3> HIDE DEF weeks
    <3> QED BY <1>2, <1>4, <1>5, <3>1
  <2>2. \A e : e \in halts <=> \E d \in 0..8 : /\ e = Evening(n - d) /\ e <= t
                                             /\ (n - d) % 7 \notin {5, 6}
                                             /\ (n - d) % 7 \in {0, 6}
    <3>1. \A e : e \in halts <=> e \in opens /\ At(e - 1) = "Closed"
      OBVIOUS
    <3> HIDE DEF halts
    <3> QED BY <1>4, <1>7, <3>1
  <2>3. \A d \in 0..8 : (n - d) % 7 \notin {5, 6} /\ (n - d) % 7 \in {0, 6}
                          <=> (n - d) % 7 = 0
    BY <1>1
  <2> QED BY <2>1, <2>2, <2>3, Zenon
<1> HIDE DEF days, weeks, halts
<1>9. PICK x \in (n - 7)..(n - 1) : x % 7 = 0
  BY <1>1, SundayNear
<1>10. n - x \in 1..7 /\ n - (n - x) = x /\ x \in Int
  BY <1>1, <1>9
<1>11. Evening(x) <= t
  <2>1. Evening(x) = 1440 * x + 1200
    BY <1>10, EveningIs
  <2>2. x <= n - 1
    BY <1>1, <1>9
  <2> QED BY <1>1, <1>10, <2>1, <2>2
<1>12. Evening(x) \in days /\ Evening(x) \in weeks
  <2>1. n - x \in 0..7
    BY <1>10
  <2> QED BY <1>6, <1>8, <1>9, <1>10, <1>11, <2>1
<1>13. ASSUME NEW A, NEW B, NEW p,
              p = {5, 6} \/ p = {1, 2, 3, 4, 5, 6},
              \A e : e \in A <=> \E d \in 0..7 : e = Evening(n - d) /\ e <= t
                                               /\ (n - d) % 7 \notin p,
              \A e : e \in B <=> \E d \in 0..8 : e = Evening(n - d) /\ e <= t
                                               /\ (n - d) % 7 \notin p,
              A # {}
       PROVE  Max(A) = Max(B)
  <2>1. A \in SUBSET Int /\ B \in SUBSET Int /\ \A e \in B : e <= t
    BY <1>4, <1>13
  <2>2. \A d \in 0..7 : d \in 0..8
    OBVIOUS
  <2>3. A \subseteq B
    BY <1>13, <2>2
  <2>4. ASSUME NEW e \in B, e \notin A, NEW a \in A PROVE e <= a
    <3>1. PICK d \in 0..8 : e = Evening(n - d) /\ e <= t /\ (n - d) % 7 \notin p
      BY <1>13
    <3>2. d \notin 0..7
      BY <1>13, <2>4, <3>1
    <3>3. PICK c \in 0..7 : a = Evening(n - c)
      BY <1>13
    <3>4. d = 8 /\ c \in 0..8 /\ c < 8
      BY <3>2
    <3> QED BY <1>1, <1>4, <3>1, <3>3, <3>4
  <2> QED BY <1>13, <2>1, <2>3, <2>4, SameMax
<1>14. Max(days) = Max(opens)
  <2>1. days # {}
    BY <1>12
  <2>2. {5, 6} = {5, 6} \/ {5, 6} = {1, 2, 3, 4, 5, 6}
    OBVIOUS
  <2>3. /\ \A e : e \in days <=> \E d \in 0..7 : e = Evening(n - d) /\ e <= t
                                                /\ (n - d) % 7 \notin {5, 6}
        /\ \A e : e \in opens <=> \E d \in 0..8 : e = Evening(n - d) /\ e <= t
                                                /\ (n - d) % 7 \notin {5, 6}
    BY <1>6, <1>7, Zenon
  <2> QED BY <1>13, <2>1, <2>2, <2>3, ZenonT(40)
<1>15. Max(weeks) = Max(halts)
  <2>1. \A d \in 0..8 : (n - d) % 7 = 0 <=> (n - d) % 7 \notin {1, 2, 3, 4, 5, 6}
    BY <1>1
  <2>2. \A e : e \in weeks <=> \E d \in 0..7 : e = Evening(n - d) /\ e <= t
                                       /\ (n - d) % 7 \notin {1, 2, 3, 4, 5, 6}
    BY <1>5, <1>8, <2>1, Zenon
  <2>3. \A e : e \in halts <=> \E d \in 0..8 : e = Evening(n - d) /\ e <= t
                                       /\ (n - d) % 7 \notin {1, 2, 3, 4, 5, 6}
    BY <1>8, <2>1, Zenon
  <2>4. weeks # {}
    BY <1>12
  <2>5. \/ {1, 2, 3, 4, 5, 6} = {5, 6}
        \/ {1, 2, 3, 4, 5, 6} = {1, 2, 3, 4, 5, 6}
    OBVIOUS
  <2> QED BY <1>13, <2>2, <2>3, <2>4, <2>5, ZenonT(40)
<1> QED BY <1>14, <1>15 DEF DayStart, WeekStart, days, weeks, opens, halts

\* The anchors are right at every moment, whatever the engine does.
LEMMA AnchorsOpen ==
  ASSUME EngineInv
  PROVE  AnchorsAtOpens
<1>1. now \in Int
  BY ClassifyIs
<1> QED BY <1>1, AnchorsAre DEF AnchorsAtOpens
-----------------------------------------------------------------------------
(* The eligibility cache. *)

Verdicts == [symbol: Symbols, ok: BOOLEAN]

\* One verdict per symbol, and the right one.
Right(a) ==
  /\ a \in Seq(Verdicts)
  /\ \A i, j \in 1..Len(a) : a[i].symbol = a[j].symbol => i = j
  /\ \A i \in 1..Len(a) : a[i].ok = (a[i].symbol \in OvernightOK)

LEMMA TailRight ==
  ASSUME NEW a, Right(a), a # <<>>
  PROVE  Right(Tail(a)) /\ Len(Tail(a)) = Len(a) - 1 /\ Len(a) \in Nat
<1>1. a \in Seq(Verdicts) /\ Len(a) \in Nat
  BY LenProperties DEF Right
<1>2. /\ Tail(a) \in Seq(Verdicts) /\ Len(Tail(a)) = Len(a) - 1
      /\ \A i \in 1..Len(Tail(a)) : Tail(a)[i] = a[i + 1]
  BY <1>1, HeadTailProperties
<1>3. Len(Tail(a)) \in Nat
  BY <1>2, LenProperties
<1>4. \A i \in 1..Len(Tail(a)) : i \in Int /\ i + 1 \in 1..Len(a) /\ Tail(a)[i] = a[i + 1]
  BY <1>1, <1>2, <1>3
<1>5. \A i, j \in 1..Len(Tail(a)) : Tail(a)[i].symbol = Tail(a)[j].symbol => i = j
  BY <1>4 DEF Right
<1>6. \A i \in 1..Len(Tail(a)) : Tail(a)[i].ok = (Tail(a)[i].symbol \in OvernightOK)
  <2>1. ASSUME NEW i \in 1..Len(Tail(a))
        PROVE  Tail(a)[i].ok = (Tail(a)[i].symbol \in OvernightOK)
    <3>1. a[i + 1].ok = (a[i + 1].symbol \in OvernightOK)
      BY <1>4 DEF Right
    <3> QED BY <1>4, <3>1, Zenon
  <2> QED BY <2>1, Zenon
<1> QED BY <1>1, <1>2, <1>5, <1>6 DEF Right

LEMMA SliceIs ==
  ASSUME NEW S, NEW a \in Seq(S), NEW m \in 1..(Len(a) + 1), NEW n \in (m - 1)..Len(a)
  PROVE  /\ SubSeq(a, m, n) \in Seq(S) /\ Len(SubSeq(a, m, n)) = n - m + 1
         /\ \A i \in 1..(n - m + 1) : SubSeq(a, m, n)[i] = a[m + i - 1]
<1>1. m \in Int /\ n \in Int /\ Len(a) \in Nat
  BY LenProperties
<1>2. \A i \in m..n : a[i] \in S
  BY <1>1, ElementOfSeq
<1>3. SubSeq(a, m, n) \in Seq(S)
  BY <1>1, <1>2, SubSeqProperties
<1>4. Len(SubSeq(a, m, n)) = IF m <= n THEN n - m + 1 ELSE 0
  BY <1>1, <1>2, SubSeqProperties
<1>5. \A i \in 1..(n - m + 1) : SubSeq(a, m, n)[i] = a[m + i - 1]
  BY <1>1, <1>2, SubSeqProperties
<1> QED BY <1>1, <1>3, <1>4, <1>5

\* Removing the entry of a symbol.
LEMMA WithoutIs ==
  ASSUME NEW a, Right(a), NEW s
  PROVE  /\ Right(Without(a, s))
         /\ Len(Without(a, s)) <= Len(a)
         /\ \A i \in 1..Len(Without(a, s)) : Without(a, s)[i].symbol # s
<1> DEFINE at == {i \in DOMAIN a : a[i].symbol = s}
           k == CHOOSE i \in at : TRUE
           b == RemoveAt(a, k)
<1>1. /\ a \in Seq(Verdicts) /\ Len(a) \in Nat /\ DOMAIN a = 1..Len(a)
      /\ \A i \in 1..Len(a) : a[i] \in Verdicts
  BY LenProperties, ElementOfSeq DEF Right
<1>2. CASE at = {}
  <2>1. Without(a, s) = a
    BY <1>2 DEF Without
  <2>2. \A i \in 1..Len(a) : a[i].symbol # s
    BY <1>1, <1>2
  <2> QED BY <1>1, <2>1, <2>2
<1>3. CASE at # {}
  <2>1. k \in 1..Len(a) /\ a[k].symbol = s
    BY <1>1, <1>3
  <2>2. Without(a, s) = b
    BY <1>3, Zenon DEF Without
  <2> HIDE DEF at, k
  <2> DEFINE c == SubSeq(a, 1, k - 1)
             e == SubSeq(a, k + 1, Len(a))
             g(i) == IF i < k THEN i ELSE i + 1
  <2>3. c \in Seq(Verdicts) /\ Len(c) = k - 1 /\ \A i \in 1..(k - 1) : c[i] = a[i]
    <3>1. 1 \in 1..(Len(a) + 1) /\ k - 1 \in (1 - 1)..Len(a)
      BY <1>1, <2>1
    <3>2. /\ c \in Seq(Verdicts) /\ Len(c) = (k - 1) - 1 + 1
          /\ \A i \in 1..((k - 1) - 1 + 1) : c[i] = a[1 + i - 1]
      BY <1>1, <3>1, SliceIs
    <3> HIDE DEF c
    <3> QED BY <2>1, <3>2
  <2>4. /\ e \in Seq(Verdicts) /\ Len(e) = Len(a) - k
        /\ \A i \in 1..(Len(a) - k) : e[i] = a[k + i]
    <3>1. k + 1 \in 1..(Len(a) + 1) /\ Len(a) \in ((k + 1) - 1)..Len(a)
      BY <1>1, <2>1
    <3>2. /\ e \in Seq(Verdicts) /\ Len(e) = Len(a) - (k + 1) + 1
          /\ \A i \in 1..(Len(a) - (k + 1) + 1) : e[i] = a[(k + 1) + i - 1]
      BY <1>1, <3>1, SliceIs
    <3> HIDE DEF e
    <3> QED BY <1>1, <2>1, <3>2
  <2>5. b = c \o e
    BY Zenon DEF RemoveAt
  <2> HIDE DEF b, c, e
  <2>6. /\ b \in Seq(Verdicts) /\ Len(b) = Len(c) + Len(e)
        /\ \A i \in 1..(Len(c) + Len(e)) : b[i] = IF i <= Len(c) THEN c[i] ELSE e[i - Len(c)]
    BY <2>3, <2>4, <2>5, ConcatProperties
  <2>7. Len(b) = Len(a) - 1
    BY <1>1, <2>1, <2>3, <2>4, <2>6
  <2>8. \A i \in 1..Len(b) : g(i) \in 1..Len(a) /\ g(i) # k /\ b[i] = a[g(i)]
    <3>1. ASSUME NEW i \in 1..Len(b)
          PROVE  g(i) \in 1..Len(a) /\ g(i) # k /\ b[i] = a[g(i)]
      <4>1. CASE i < k
        <5>1. i \in 1..(k - 1) /\ i <= Len(c) /\ b[i] = c[i]
          BY <1>1, <2>1, <2>3, <2>6, <2>7, <4>1
        <5> QED BY <1>1, <2>1, <2>3, <4>1, <5>1
      <4>2. CASE ~(i < k)
        <5>1. /\ i - (k - 1) \in 1..(Len(a) - k) /\ k + (i - (k - 1)) = i + 1
              /\ ~(i <= Len(c)) /\ i \in 1..(Len(c) + Len(e))
          BY <1>1, <2>1, <2>3, <2>4, <2>7, <4>2
        <5>2. b[i] = e[i - (k - 1)]
          BY <2>3, <2>6, <5>1
        <5>3. b[i] = a[i + 1]
          BY <2>4, <5>1, <5>2
        <5> QED BY <1>1, <2>1, <2>7, <4>2, <5>3
      <4> QED BY <4>1, <4>2
    <3> QED BY <3>1
  <2>9. \A i, j \in 1..Len(b) : g(i) = g(j) => i = j
    BY <2>1, <2>7
  <2> HIDE DEF g
  <2>10. \A i, j \in 1..Len(b) : b[i].symbol = b[j].symbol => i = j
    BY <2>8, <2>9 DEF Right
  <2>11. \A i \in 1..Len(b) : b[i].ok = (b[i].symbol \in OvernightOK)
    <3>1. ASSUME NEW i \in 1..Len(b)
          PROVE  b[i].ok = (b[i].symbol \in OvernightOK)
      <4>1. a[g(i)].ok = (a[g(i)].symbol \in OvernightOK)
        BY <2>8 DEF Right
      <4> QED BY <2>8, <4>1, Zenon
    <3> QED BY <3>1, Zenon
  <2>12. \A i \in 1..Len(b) : b[i].symbol # s
    BY <2>1, <2>8 DEF Right
  <2>13. Right(b)
    BY <2>6, <2>10, <2>11, Zenon DEF Right
  <2> QED BY <1>1, <2>2, <2>7, <2>12, <2>13
<1> QED BY <1>2, <1>3

\* What an insert leaves: one right verdict per symbol, within the limit.
LEMMA RememberedIs ==
  ASSUME Right(elig), Len(elig) <= MaxElig, NEW s \in Symbols
  PROVE  Right(Remembered(s)) /\ Len(Remembered(s)) <= MaxElig
<1> DEFINE r == Room(elig)
           w == Without(r, s)
           v == [symbol |-> s, ok |-> s \in OvernightOK]
           a == Append(w, v)
<1>1. Len(elig) \in Nat /\ MaxElig \in Nat \ {0}
  BY LenProperties, OrderFormAssumption DEF Right
<1>2. Right(r) /\ Len(r) <= MaxElig - 1
  <2>1. CASE Len(elig) >= MaxElig
    <3>1. elig # <<>>
      BY <1>1, <2>1, EmptySeq
    <3> QED BY <1>1, <2>1, <3>1, TailRight DEF Room
  <2>2. CASE ~(Len(elig) >= MaxElig)
    BY <1>1, <2>2 DEF Room
  <2> QED BY <2>1, <2>2
<1> HIDE DEF r
<1>3. Right(w) /\ Len(w) <= Len(r) /\ \A i \in 1..Len(w) : w[i].symbol # s
  BY <1>2, WithoutIs
<1> HIDE DEF w
<1>4. w \in Seq(Verdicts) /\ Len(w) \in Nat /\ Len(r) \in Nat
  BY <1>2, <1>3, LenProperties DEF Right
<1>5. v \in Verdicts /\ v.symbol = s /\ v.ok = (v.symbol \in OvernightOK)
  BY DEF Verdicts
<1> HIDE DEF v
<1>6. /\ a \in Seq(Verdicts) /\ Len(a) = Len(w) + 1
      /\ \A i \in 1..Len(w) : a[i] = w[i]
      /\ a[Len(w) + 1] = v
  BY <1>4, <1>5, AppendProperties
<1> HIDE DEF a
<1>7. \A i \in 1..Len(a) : i \in 1..Len(w) \/ i = Len(w) + 1
  BY <1>4, <1>6
<1>8. \A i, j \in 1..Len(a) : a[i].symbol = a[j].symbol => i = j
  <2>1. \A i, j \in 1..Len(w) : w[i].symbol = w[j].symbol => i = j
    BY <1>3 DEF Right
  <2> QED BY <1>3, <1>5, <1>6, <1>7, <2>1
<1>9. \A i \in 1..Len(a) : a[i].ok = (a[i].symbol \in OvernightOK)
  <2>1. \A i \in 1..Len(w) : w[i].ok = (w[i].symbol \in OvernightOK)
    BY <1>3, Zenon DEF Right
  <2> QED BY <1>5, <1>6, <1>7, <2>1, Zenon
<1>10. Right(a)
  BY <1>6, <1>8, <1>9, Zenon DEF Right
<1>11. Remembered(s) = a
  BY Zenon DEF Remembered, a, w, r, v
<1> QED BY <1>1, <1>2, <1>3, <1>4, <1>6, <1>10, <1>11
-----------------------------------------------------------------------------
(* The invariant of the desk.  An intent keeps the session and the symbol it *)
(* was made in, and comes to be priced overnight only after a right verdict. *)

Books == [bid: QuoteAges, ask: QuoteAges, trade: TradeAges]
Intents == [at: {"none", "prompt", "submit", "asset", "price"},
            kind: Kinds, side: {"buy", "sell"}, symbol: Symbols \cup {NoSymbol},
            sess: SessionNames, seen: SessionNames]
Orders == [form: {"none", "market", "limit", "priced", "close"},
           symbol: Symbols \cup {NoSymbol}, of: Symbols \cup {NoSymbol},
           by: {"none", "bid", "ask", "trade"}, age: QuoteAges \cup TradeAges,
           pinned: SessionNames, seen: SessionNames, exit: BOOLEAN]

Pinned(i) ==
  /\ i \in Intents
  /\ i.at # "none" => i.symbol \in Symbols /\ i.sess = i.seen
  /\ i.at \in {"asset", "price"} => Extended(i.sess)
  /\ i.at = "price" /\ i.sess = "Overnight" => i.symbol \in OvernightOK

DeskInv ==
  /\ ui \in Symbols /\ switching \in Symbols \cup {NoSymbol}
  /\ book \in Books /\ Pinned(intent)
  /\ Right(elig) /\ Len(elig) <= MaxElig
  /\ prefetch \subseteq Symbols
  /\ sent \in Orders
  /\ intents \in 0..MaxIntents /\ switches \in 0..MaxSwitches

IInv == EngineInv /\ DeskInv /\ OrdersFit

LEMMA InvTypes ==
  ASSUME IInv
  PROVE  TypeOK
<1>1. DOMAIN elig = 1..Len(elig) /\ \A i \in 1..Len(elig) : elig[i] \in Verdicts
  BY LenProperties, ElementOfSeq DEF IInv, DeskInv, Right
<1>2. \A e \in ToSet(elig) : e \in [symbol: Symbols, ok: BOOLEAN]
  BY <1>1 DEF ToSet, Verdicts
<1>3. \A i, j \in DOMAIN elig : elig[i].symbol = elig[j].symbol => i = j
  BY <1>1, Zenon DEF IInv, DeskInv, Right
<1>4. EngineTypeOK
  BY DEF IInv, EngineInv
<1> QED BY <1>2, <1>3, <1>4, Zenon
        DEF IInv, DeskInv, TypeOK, Pinned, Books, Intents, Orders

\* What the desk does leaves the engine alone.
LEMMA EngineRests ==
  ASSUME EngineInv, UNCHANGED engineVars
  PROVE  EngineInv' /\ Current' = Current /\ now' = now
<1>1. /\ now' = now /\ calendar' = calendar /\ synced' = synced
      /\ forced' = forced /\ told' = told
  BY Zenon DEF engineVars
<1>2. EngineTypeOK' /\ InOrder'
  BY <1>1 DEF EngineInv, EngineTypeOK, InOrder
<1>3. Shut'
  BY <1>1, Frozen DEF EngineInv, Shut
<1>4. Held'
  BY <1>1, Frozen DEF EngineInv, Held
<1>5. Current' = Current
  BY <1>1, Zenon DEF Current, Classify
<1> QED BY <1>1, <1>2, <1>3, <1>4, <1>5 DEF EngineInv

\* Told of what closes the market, the engine says Regular in it only.
LEMMA RegularInRth ==
  ASSUME EngineInv, Informed, Current = "Regular"
  PROVE  InRth(now)
<1> DEFINE d == TradingDay(now)
           w == now \div Day
           m == Minute(now)
<1>1. /\ now \in Int /\ calendar \in Calendars /\ At(now) = "Regular"
  BY ClassifyIs
<1>2. /\ d \in Int /\ 1440 * d - 240 <= now /\ now < 1440 * d + 1200
      /\ w \in Int /\ m \in 0..1439 /\ now = 1440 * w + m
  <2>1. d \in Int /\ 1440 * d - 240 <= now /\ now < 1440 * d + 1200
    BY <1>1, TradingDayIs
  <2>2. w \in Int /\ m \in 0..1439 /\ now = 1440 * w + m
    BY <1>1, Lengths DEF Minute
  <2> QED BY <2>1, <2>2
<1>3. w % 7 \notin {0, 6} /\ m >= 570 /\ m < 960
  BY <1>1, AtIs
<1>4. ~(Holiday(d) /\ told >= (d - 1) * Day + NightOpen)
      /\ ~(d \in calendar.earlies /\ told >= CloseOf(d))
  BY ClosuresHold DEF ClosureHeld
<1>5. ~Holiday(d) /\ (d \in calendar.earlies => now < CloseOf(d))
  BY <1>4 DEF Informed
<1> HIDE DEF d, w, m
<1>6. d = w
  BY <1>2, <1>3
<1>7. Trades(w)
  BY <1>2, <1>3, <1>5, <1>6, ScheduledIs DEF Trades
<1>8. OpenOf(w) <= now /\ now < CloseOf(w)
  <2>1. /\ OpenOf(w) = 1440 * w + 570
        /\ w \notin calendar.earlies => CloseOf(w) = 1440 * w + 960
    BY <1>2, OpensAndCloses
  <2>2. w \in calendar.earlies => now < CloseOf(w)
    BY <1>5, <1>6
  <2> QED BY <1>2, <1>3, <2>1, <2>2
<1> QED BY <1>1, <1>7, <1>8, InRthIs DEF w
-----------------------------------------------------------------------------
(* Steps of the desk that send nothing. *)

LEMMA NothingFits ==
  ASSUME NothingSent
  PROVE  sent' \in Orders /\ OrdersFit'
<1>1. sent' = NoOrder
  BY DEF NothingSent
<1>2. sent' \in Orders
  BY <1>1 DEF NoOrder, Orders, SessionNames, QuoteAges, TradeAges
<1>3. sent'.form = "none"
  BY <1>1 DEF NoOrder
<1> QED BY <1>2, <1>3 DEF OrdersFit, FormPinned, MarketOnlyInRth, PricedFresh,
        EligibleOvernight

LEMMA Quietly ==
  ASSUME IInv, NothingSent, UNCHANGED engineVars
  PROVE  EngineInv' /\ sent' \in Orders /\ OrdersFit'
BY NothingFits, EngineRests DEF IInv

LEMMA BookSet ==
  ASSUME book \in Books
  PROVE  /\ \A side \in {"bid", "ask"}, age \in QuoteAges :
              [book EXCEPT ![side] = age] \in Books
         /\ \A age \in TradeAges : [book EXCEPT !.trade = age] \in Books
<1>1. ASSUME NEW age \in QuoteAges
      PROVE  [book EXCEPT !.bid = age] \in Books /\ [book EXCEPT !.ask = age] \in Books
  BY <1>1 DEF Books
<1>2. ASSUME NEW age \in TradeAges
      PROVE  [book EXCEPT !.trade = age] \in Books
  BY <1>2 DEF Books
<1> QED BY <1>1, <1>2

LEMMA NoBookIs == NoBook \in Books
BY DEF NoBook, Books, QuoteAges, TradeAges

LEMMA AgedIs ==
  ASSUME book \in Books
  PROVE  Aged \in Books
<1>1. /\ book.bid \in QuoteAges /\ book.ask \in QuoteAges
      /\ "old" \in QuoteAges /\ "old" \in TradeAges
  BY DEF Books, QuoteAges, TradeAges
<1> QED BY <1>1 DEF Aged, Books

LEMMA PinnedNext ==
  ASSUME Pinned(intent)
  PROVE  /\ Pinned(NoIntent)
         /\ intent.at # "none" => Pinned([intent EXCEPT !.at = "submit"])
         /\ intent.at # "none" /\ Extended(intent.sess)
              => Pinned([intent EXCEPT !.at = "asset"])
         /\ /\ intent.at # "none" /\ Extended(intent.sess)
            /\ intent.sess = "Overnight" => intent.symbol \in OvernightOK
            => Pinned([intent EXCEPT !.at = "price"])
<1>1. intent \in Intents
  BY DEF Pinned
<1>2. Pinned(NoIntent)
  BY DEF Pinned, NoIntent, Intents, Kinds, SessionNames
<1>3. ASSUME NEW at \in {"submit", "asset", "price"}
      PROVE  /\ [intent EXCEPT !.at = at] \in Intents
             /\ [intent EXCEPT !.at = at].at = at
             /\ [intent EXCEPT !.at = at].symbol = intent.symbol
             /\ [intent EXCEPT !.at = at].sess = intent.sess
             /\ [intent EXCEPT !.at = at].seen = intent.seen
  BY <1>1, <1>3 DEF Intents
<1> QED BY <1>2, <1>3 DEF Pinned

\* A verdict in the cache is the right one.
LEMMA CachedRight ==
  ASSUME Right(elig), NEW s, TRUE \in Cached(s)
  PROVE  s \in OvernightOK
<1>1. PICK e \in ToSet(elig) : e.symbol = s /\ e.ok = TRUE
  BY DEF Cached
<1>2. DOMAIN elig = 1..Len(elig)
  BY LenProperties DEF Right
<1>3. PICK i \in 1..Len(elig) : e = elig[i]
  BY <1>1, <1>2 DEF ToSet
<1>4. elig[i].ok = (elig[i].symbol \in OvernightOK)
  BY Zenon DEF Right
<1> QED BY <1>1, <1>3, <1>4, Zenon

LEMMA BookMoves ==
  ASSUME IInv, (\E side \in {"bid", "ask"} : Quote(side)) \/ Trade \/ Ages
  PROVE  IInv'
<1>1. book' \in Books
  <2>1. book \in Books /\ "fresh" \in QuoteAges /\ "old" \in QuoteAges
        /\ "fresh" \in TradeAges /\ "quiet" \in TradeAges /\ "old" \in TradeAges
    BY DEF IInv, DeskInv, QuoteAges, TradeAges
  <2> QED BY <2>1, BookSet, ZenonT(60) DEF Quote, Trade, Ages
<1>2. /\ NothingSent /\ UNCHANGED engineVars
      /\ UNCHANGED <<ui, switching, intent, elig, prefetch, intents, switches>>
  BY Zenon DEF Quote, Trade, Ages
<1>3. EngineInv' /\ sent' \in Orders /\ OrdersFit'
  BY <1>2, Quietly
<1>4. DeskInv'
  BY <1>1, <1>2, <1>3 DEF IInv, DeskInv, Pinned, Right
<1> QED BY <1>3, <1>4 DEF IInv

LEMMA SwitchMoves ==
  ASSUME IInv, (\E s \in Symbols : SwitchOpen(s)) \/ SwitchDone \/ SwitchRollBack
  PROVE  IInv'
<1>1. /\ NothingSent /\ UNCHANGED engineVars
      /\ UNCHANGED <<intent, elig, intents>>
  BY Zenon DEF SwitchOpen, SwitchDone, SwitchRollBack
<1>2. EngineInv' /\ sent' \in Orders /\ OrdersFit'
  BY <1>1, Quietly
<1>3. Pinned(intent)' /\ Right(elig)' /\ (Len(elig) <= MaxElig)' /\ intents' \in 0..MaxIntents
  BY <1>1 DEF IInv, DeskInv, Pinned, Right
<1>4. /\ ui \in Symbols /\ switching \in Symbols \cup {NoSymbol} /\ book \in Books
      /\ prefetch \subseteq Symbols /\ switches \in 0..MaxSwitches
  BY DEF IInv, DeskInv
<1>5. ASSUME NEW s \in Symbols, SwitchOpen(s)
      PROVE  DeskInv'
  <2>1. switches' \in 0..MaxSwitches
    BY <1>4, <1>5, OrderFormAssumption DEF SwitchOpen
  <2>2. /\ ui' = ui /\ switching' = s /\ book' = NoBook /\ prefetch' = prefetch
    BY <1>5 DEF SwitchOpen
  <2> QED BY <1>2, <1>3, <1>4, <2>1, <2>2, NoBookIs DEF DeskInv
<1>6. CASE SwitchDone
  <2>1. /\ switching # NoSymbol /\ ui' = switching /\ switching' = NoSymbol
        /\ book' = book /\ switches' = switches
        /\ prefetch' = prefetch \cup {s \in {switching} : Cached(s) = {}}
    BY <1>6 DEF SwitchDone
  <2>2. switching \in Symbols
    BY <1>4, <2>1
  <2>3. prefetch' \subseteq Symbols
    BY <1>4, <2>1, <2>2
  <2>4. ui' \in Symbols /\ switching' \in Symbols \cup {NoSymbol}
    BY <2>1, <2>2
  <2>5. book' \in Books /\ switches' \in 0..MaxSwitches
    BY <1>4, <2>1
  <2> QED BY <1>2, <1>3, <2>3, <2>4, <2>5, Zenon DEF DeskInv, IInv
<1>7. CASE SwitchRollBack
  <2>1. /\ switching' = NoSymbol /\ book' = NoBook
        /\ ui' = ui /\ prefetch' = prefetch /\ switches' = switches
    BY <1>7 DEF SwitchRollBack
  <2>2. /\ ui' \in Symbols /\ switching' \in Symbols \cup {NoSymbol}
        /\ book' \in Books /\ prefetch' \subseteq Symbols /\ switches' \in 0..MaxSwitches
    BY <1>4, <2>1, NoBookIs
  <2> QED BY <1>2, <1>3, <2>2, Zenon DEF DeskInv, IInv
<1> QED BY <1>2, <1>5, <1>6, <1>7 DEF IInv

LEMMA CacheMoves ==
  ASSUME IInv, EligExpires \/ (\E s \in Symbols : Prefetched(s))
  PROVE  IInv'
<1>1. /\ NothingSent /\ UNCHANGED engineVars
      /\ UNCHANGED <<ui, switching, book, intent, intents, switches>>
  BY Zenon DEF EligExpires, Prefetched
<1>2. EngineInv' /\ sent' \in Orders /\ OrdersFit'
  BY <1>1, Quietly
<1>3. Right(elig) /\ Len(elig) <= MaxElig /\ MaxElig \in Nat /\ prefetch \subseteq Symbols
  BY OrderFormAssumption DEF IInv, DeskInv
<1>4. Right(elig') /\ Len(elig') <= MaxElig /\ prefetch' \subseteq Symbols
  <2>1. CASE EligExpires
    <3>1. elig # <<>> /\ elig' = Tail(elig) /\ prefetch' = prefetch
      BY <2>1 DEF EligExpires
    <3>2. Right(Tail(elig)) /\ Len(Tail(elig)) = Len(elig) - 1 /\ Len(elig) \in Nat
      BY <1>3, <3>1, TailRight
    <3> QED BY <1>3, <3>1, <3>2
  <2>2. ASSUME NEW s \in Symbols, Prefetched(s)
        PROVE  Right(elig') /\ Len(elig') <= MaxElig /\ prefetch' \subseteq Symbols
    <3>1. prefetch' = prefetch \ {s} /\ elig' \in {elig, Remembered(s)}
      BY <2>2 DEF Prefetched
    <3>2. Right(Remembered(s)) /\ Len(Remembered(s)) <= MaxElig
      BY <1>3, RememberedIs
    <3> QED BY <1>3, <3>1, <3>2
  <2> QED BY <2>1, <2>2
<1>5. DeskInv'
  BY <1>1, <1>2, <1>4 DEF IInv, DeskInv, Pinned, Right
<1> QED BY <1>2, <1>5 DEF IInv

LEMMA IntentMoves ==
  ASSUME IInv,
         \/ \E kind \in Kinds, side \in Sides : Intend(kind, side)
         \/ Answer \/ RefuseFraction \/ RefuseClosed \/ Admit \/ AssetArrives
         \/ AssetFails \/ RefuseUnpriced
  PROVE  IInv'
<1>1. /\ NothingSent /\ UNCHANGED engineVars
      /\ UNCHANGED <<ui, switching, book, prefetch, switches>>
  BY Zenon DEF Intend, Answer, RefuseFraction, RefuseClosed, Admit, AssetArrives,
               AssetFails, RefuseUnpriced, Refuse
<1>2. EngineInv' /\ sent' \in Orders /\ OrdersFit'
  BY <1>1, Quietly
<1>3. /\ Pinned(intent) /\ Right(elig) /\ Len(elig) <= MaxElig
      /\ intents \in 0..MaxIntents /\ ui \in Symbols
  BY DEF IInv, DeskInv
<1>4. Pinned(intent') /\ Right(elig') /\ Len(elig') <= MaxElig /\ intents' \in 0..MaxIntents
  <2>1. ASSUME NEW kind \in Kinds, NEW side \in Sides, Intend(kind, side)
        PROVE  /\ Pinned(intent') /\ Right(elig') /\ Len(elig') <= MaxElig
               /\ intents' \in 0..MaxIntents
    <3>1. PICK at \in {"prompt", "submit"} :
            intent' = [at |-> at, kind |-> kind, side |-> side, symbol |-> ui,
                       sess |-> Current, seen |-> Current]
      BY <2>1 DEF Intend, PinnedSession
    <3>2. Current \in SessionNames /\ side \in {"buy", "sell"}
      BY ClassifyIs, OrderFormAssumption DEF IInv
    <3>3. Pinned(intent')
      BY <1>3, <3>1, <3>2 DEF Pinned, Intents
    <3>4. intents' \in 0..MaxIntents
      BY <1>3, <2>1, OrderFormAssumption DEF Intend
    <3> QED BY <1>3, <2>1, <3>3, <3>4 DEF Intend
  <2>2. CASE Answer
    <3>1. /\ intent.at = "prompt" /\ intent' \in {NoIntent, [intent EXCEPT !.at = "submit"]}
          /\ elig' = elig /\ intents' = intents
      BY <2>2 DEF Answer
    <3>2. Pinned(intent')
      BY <1>3, <3>1, PinnedNext
    <3> QED BY <1>3, <3>1, <3>2
  <2>3. CASE RefuseFraction \/ RefuseClosed \/ AssetFails \/ RefuseUnpriced
    <3>1. intent' = NoIntent /\ elig' = elig /\ intents' = intents
      BY <2>3, Zenon DEF RefuseFraction, RefuseClosed, AssetFails, RefuseUnpriced, Refuse
    <3> QED BY <1>3, <3>1, PinnedNext
  <2>4. CASE Admit
    <3>1. /\ intent.at = "submit" /\ Extended(intent.sess)
          /\ elig' = elig /\ intents' = intents
          /\ intent' = IF intent.sess # "Overnight" \/ TRUE \in Cached(intent.symbol)
                         THEN [intent EXCEPT !.at = "price"]
                       ELSE IF FALSE \in Cached(intent.symbol) THEN NoIntent
                       ELSE [intent EXCEPT !.at = "asset"]
      BY <2>4 DEF Admit
    <3>2. intent.sess # "Overnight" \/ TRUE \in Cached(intent.symbol)
            => (intent.sess = "Overnight" => intent.symbol \in OvernightOK)
      BY <1>3, CachedRight
    <3>3. Pinned(intent')
      BY <1>3, <3>1, <3>2, PinnedNext
    <3> QED BY <1>3, <3>1, <3>3
  <2>5. CASE AssetArrives
    <3>1. /\ intent.at = "asset" /\ elig' = Remembered(intent.symbol)
          /\ intents' = intents
          /\ intent' = IF intent.symbol \in OvernightOK
                         THEN [intent EXCEPT !.at = "price"] ELSE NoIntent
      BY <2>5 DEF AssetArrives
    <3>2. Pinned(intent')
      <4>1. Extended(intent.sess)
        BY <1>3, <3>1 DEF Pinned
      <4> QED BY <1>3, <3>1, <4>1, PinnedNext
    <3>3. Right(elig') /\ Len(elig') <= MaxElig
      <4>1. intent.symbol \in Symbols
        BY <1>3, <3>1 DEF Pinned
      <4> QED BY <1>3, <3>1, <4>1, RememberedIs
    <3> QED BY <1>3, <3>1, <3>2, <3>3
  <2> QED BY <2>1, <2>2, <2>3, <2>4, <2>5, Zenon
          DEF Answer, Intend
<1>5. /\ ui' \in Symbols /\ switching' \in Symbols \cup {NoSymbol}
      /\ book' \in Books /\ prefetch' \subseteq Symbols /\ switches' \in 0..MaxSwitches
  BY <1>1 DEF IInv, DeskInv
<1>6. DeskInv'
  BY <1>2, <1>4, <1>5, Zenon DEF DeskInv, Pinned, Right
<1> QED BY <1>2, <1>6 DEF IInv
-----------------------------------------------------------------------------
(* Steps that send an order. *)

LEMMA OrderIs ==
  ASSUME IInv, intent.at # "none",
         NEW form \in {"market", "limit", "priced", "close"},
         NEW by \in {"none", "bid", "ask", "trade"}
  PROVE  /\ Order(form, by) \in Orders
         /\ Order(form, by).form = form
         /\ Order(form, by).symbol = intent.symbol
         /\ Order(form, by).by = by
         /\ Order(form, by).age = IF by = "none" THEN "old" ELSE book[by]
         /\ Order(form, by).pinned = intent.sess
         /\ Order(form, by).seen = intent.seen
         /\ Order(form, by).exit = IsExit
         /\ intent.seen = intent.sess
<1>1. /\ intent.symbol \in Symbols /\ intent.sess \in SessionNames
      /\ intent.seen = intent.sess
  BY DEF IInv, DeskInv, Pinned, Intents
<1>2. Tape \in Symbols \cup {NoSymbol}
  BY DEF IInv, DeskInv, Tape
<1>3. (IF by = "none" THEN "old" ELSE book[by]) \in QuoteAges \cup TradeAges
  <2>1. /\ book.bid \in QuoteAges /\ book.ask \in QuoteAges /\ book.trade \in TradeAges
        /\ "old" \in QuoteAges
    BY DEF IInv, DeskInv, Books, QuoteAges
  <2> QED BY <2>1
<1>4. IsExit \in BOOLEAN /\ IsExit = (intent.kind \in {"exit", "fraction"})
  BY DEF IsExit
<1> DEFINE age == IF by = "none" THEN "old" ELSE book[by]
<1>5. Order(form, by) =
        [form |-> form, symbol |-> intent.symbol, of |-> Tape, by |-> by,
         age |-> age, pinned |-> intent.sess, seen |-> intent.seen, exit |-> IsExit]
  BY Zenon DEF Order, IsExit
<1> HIDE DEF age
<1>6. Order(form, by) \in Orders
  BY <1>1, <1>2, <1>3, <1>4, <1>5 DEF Orders, age
<1> QED BY <1>1, <1>5, <1>6 DEF age

\* What an extended order is priced from, if from anything, is fresh enough.
LEMMA SourceIs ==
  ASSUME IInv, NEW exit \in BOOLEAN, Source(intent.side, exit) # "none"
  PROVE  /\ Source(intent.side, exit) \in {"bid", "ask", "trade"}
         /\ \/ book[Source(intent.side, exit)] = "fresh"
            \/ /\ Source(intent.side, exit) = "trade"
               /\ book.trade = "quiet" /\ exit
<1> DEFINE far == FarSide(intent.side)
<1>1. far \in {"bid", "ask"}
  BY DEF FarSide
<1>2. QuoteFresh(book) /\ book[far] # "none" => book[far] = "fresh"
  BY <1>1 DEF QuoteFresh
<1>3. Source(intent.side, exit) =
        IF QuoteFresh(book) /\ book[far] # "none" THEN far
        ELSE IF book.trade = "fresh" \/ (exit /\ book.trade = "quiet") THEN "trade"
        ELSE "none"
  BY Zenon DEF Source
<1> HIDE DEF far
<1> QED BY <1>1, <1>2, <1>3

\* Whatever leaves fits, if it is one of these.
LEMMA SendKeeps ==
  ASSUME IInv, intent.at # "none",
         NEW form \in {"market", "limit", "priced", "close"},
         NEW by \in {"none", "bid", "ask", "trade"},
         Send(Order(form, by)),
         form = "market" => intent.sess = "Regular",
         form = "close" => intent.sess \in {"Closed", "Regular"},
         form = "limit" => intent.at = "price" \/ intent.sess = "Regular",
         form = "priced" => intent.at = "price",
         form = "priced" => /\ by # "none"
                            /\ book[by] = "fresh"
                                 \/ (by = "trade" /\ book[by] = "quiet" /\ IsExit)
  PROVE  IInv'
<1>1. /\ sent' = Order(form, by) /\ intent' = NoIntent /\ UNCHANGED engineVars
      /\ UNCHANGED <<ui, switching, book, elig, prefetch, intents, switches>>
  BY DEF Send
<1>2. EngineInv' /\ EngineInv /\ Current' = Current /\ now' = now
  BY <1>1, EngineRests DEF IInv
<1>3. /\ sent' \in Orders /\ sent'.form = form /\ sent'.symbol = intent.symbol
      /\ sent'.by = by /\ sent'.age = IF by = "none" THEN "old" ELSE book[by]
      /\ sent'.pinned = intent.sess /\ sent'.seen = intent.sess
      /\ sent'.exit = IsExit
  <2> DEFINE o == Order(form, by)
  <2>1. /\ o \in Orders /\ o.form = form /\ o.symbol = intent.symbol /\ o.by = by
        /\ o.age = IF by = "none" THEN "old" ELSE book[by]
        /\ o.pinned = intent.sess /\ o.seen = intent.seen /\ o.exit = IsExit
        /\ intent.seen = intent.sess
    BY OrderIs
  <2>2. sent' = o
    BY <1>1
  <2> HIDE DEF o
  <2> QED BY <2>1, <2>2
<1>4. DeskInv'
  <2>1. Pinned(NoIntent)
    BY PinnedNext DEF IInv, DeskInv
  <2> QED BY <1>1, <1>3, <2>1 DEF IInv, DeskInv, Pinned, Right
<1>5. MarketOnlyInRth'
  <2>1. Informed' <=> Informed
    BY <1>1, Zenon DEF engineVars, Informed, Holiday, CloseOf
  <2>2. InRth(now)' <=> InRth(now)
    BY <1>1, Zenon DEF engineVars, InRth, TradingDays, CloseOf, Holiday
  <2>3. ASSUME sent'.form \in {"market", "close"}, sent'.seen = Current', Informed'
        PROVE  InRth(now)' \/ (sent'.form = "close" /\ Current' = "Closed")
    <3>1. Informed /\ intent.sess = Current /\ form \in {"market", "close"}
      BY <1>2, <1>3, <2>1, <2>3
    <3>2. CASE Current = "Regular"
      BY <1>2, <2>2, <3>1, <3>2, RegularInRth
    <3>3. CASE Current # "Regular"
      BY <1>2, <1>3, <3>1, <3>3
    <3> QED BY <3>2, <3>3
  <2> QED BY <2>3, Zenon DEF MarketOnlyInRth
<1>6. PricedFresh'
  BY <1>3 DEF PricedFresh
<1>7. EligibleOvernight'
  <2>1. intent.at = "price" /\ intent.sess = "Overnight" => intent.symbol \in OvernightOK
    BY DEF IInv, DeskInv, Pinned
  <2> QED BY <1>3, <2>1 DEF EligibleOvernight
<1>8. FormPinned'
  <2>1. intent.at = "price" => Extended(intent.sess)
    BY DEF IInv, DeskInv, Pinned
  <2> QED BY <1>3, <2>1 DEF FormPinned, Extended, Tradable
<1> QED BY <1>2, <1>4, <1>5, <1>6, <1>7, <1>8 DEF IInv, OrdersFit

LEMMA SendMoves ==
  ASSUME IInv, ClosePosition \/ SendRegular \/ SendExtended
  PROVE  IInv'
<1>1. CASE ClosePosition
  <2>1. /\ intent.at = "submit" /\ Send(Order("close", "none"))
        /\ intent.sess \in {"Closed", "Regular"}
    BY <1>1 DEF ClosePosition
  <2> QED BY <2>1, SendKeeps
<1>2. CASE SendRegular
  <2>1. PICK form \in {"limit", "market"} :
          intent.at = "submit" /\ intent.sess = "Regular" /\ Send(Order(form, "none"))
    BY <1>2 DEF SendRegular
  <2> QED BY <2>1, SendKeeps
<1>3. CASE SendExtended
  <2> DEFINE by == Source(intent.side, IsExit)
  <2>1. /\ intent.at = "price"
        /\ Send(Order("limit", "none")) \/ (by # "none" /\ Send(Order("priced", by)))
    BY <1>3 DEF SendExtended
  <2>2. CASE Send(Order("limit", "none"))
    BY <2>1, <2>2, SendKeeps
  <2>3. CASE by # "none" /\ Send(Order("priced", by))
    <3>1. by \in {"bid", "ask", "trade"}
          /\ (book[by] = "fresh" \/ (by = "trade" /\ book[by] = "quiet" /\ IsExit))
      <4>1. IsExit \in BOOLEAN
        BY DEF IsExit
      <4> QED BY <2>3, <4>1, SourceIs
    <3> HIDE DEF by
    <3> QED BY <2>1, <2>3, <3>1, SendKeeps
  <2> QED BY <2>1, <2>2, <2>3
<1> QED BY <1>1, <1>2, <1>3
-----------------------------------------------------------------------------
(* The theorems. *)

LEMMA EngineMoves ==
  ASSUME IInv, EngineStep
  PROVE  IInv'
<1>1. /\ NothingSent
      /\ UNCHANGED <<ui, switching, intent, elig, prefetch, intents, switches>>
  BY DEF EngineStep
<1>2. book \in Books
  BY DEF IInv, DeskInv
<1>3. EngineInv' /\ book' \in Books
  <2>1. CASE ClockSync /\ book' = book
    BY <1>2, <2>1, SyncKeeps DEF IInv
  <2>2. CASE Tick /\ book' = Aged
    BY <1>2, <2>2, TickKeeps, AgedIs DEF IInv
  <2> QED BY <2>1, <2>2 DEF EngineStep
<1>4. sent' \in Orders /\ OrdersFit'
  BY <1>1, NothingFits
<1>5. DeskInv'
  BY <1>1, <1>3, <1>4 DEF IInv, DeskInv, Pinned, Right
<1> QED BY <1>3, <1>4, <1>5 DEF IInv

LEMMA InitHolds ==
  ASSUME Init
  PROVE  IInv
<1>1. EngineInv
  BY EngineStarts DEF Init
<1>2. sent \in Orders /\ OrdersFit
  <2>1. sent = NoOrder
    BY DEF Init
  <2>2. sent \in Orders
    BY <2>1 DEF NoOrder, Orders, SessionNames, QuoteAges, TradeAges
  <2>3. sent.form = "none"
    BY <2>1 DEF NoOrder
  <2> QED BY <2>2, <2>3 DEF OrdersFit, FormPinned, MarketOnlyInRth, PricedFresh,
            EligibleOvernight
<1>3. Pinned(intent)
  BY DEF Init, Pinned, NoIntent, Intents, Kinds, SessionNames
<1>4. Right(elig) /\ Len(elig) <= MaxElig
  <2>1. elig = <<>> /\ elig \in Seq(Verdicts) /\ Len(elig) = 0
    BY EmptySeq DEF Init
  <2> QED BY <2>1, OrderFormAssumption DEF Right
<1>5. DeskInv
  BY <1>2, <1>3, <1>4, NoBookIs, OrderFormAssumption DEF Init, DeskInv
<1> QED BY <1>1, <1>2, <1>5 DEF IInv

LEMMA NextKeeps ==
  ASSUME IInv, [Next]_vars
  PROVE  IInv'
<1>1. CASE EngineStep
  BY <1>1, EngineMoves
<1>2. CASE (\E side \in {"bid", "ask"} : Quote(side)) \/ Trade \/ Ages
  BY <1>2, BookMoves
<1>3. CASE (\E s \in Symbols : SwitchOpen(s)) \/ SwitchDone \/ SwitchRollBack
  BY <1>3, SwitchMoves
<1>4. CASE EligExpires \/ (\E s \in Symbols : Prefetched(s))
  BY <1>4, CacheMoves
<1>5. CASE \/ \E kind \in Kinds, side \in Sides : Intend(kind, side)
           \/ Answer \/ RefuseFraction \/ RefuseClosed \/ Admit \/ AssetArrives
           \/ AssetFails \/ RefuseUnpriced
  BY <1>5, IntentMoves
<1>6. CASE ClosePosition \/ SendRegular \/ SendExtended
  BY <1>6, SendMoves
<1>7. CASE UNCHANGED vars
  <2>1. UNCHANGED engineVars /\ UNCHANGED deskVars
    BY <1>7 DEF vars
  <2>2. EngineInv'
    BY <2>1, EngineRests DEF IInv
  <2>3. DeskInv'
    BY <2>1 DEF deskVars, IInv, DeskInv, Pinned, Right
  <2>4. OrdersFit'
    <3>1. /\ sent' = sent /\ now' = now /\ forced' = forced /\ told' = told
          /\ calendar' = calendar
      BY <2>1 DEF deskVars, engineVars
    <3> QED BY <3>1, Zenon DEF IInv, OrdersFit, FormPinned, MarketOnlyInRth,
                    PricedFresh, EligibleOvernight, Informed, InRth, TradingDays, CloseOf,
                    Holiday, Current, Classify
  <2> QED BY <2>2, <2>3, <2>4 DEF IInv
<1> QED BY <1>1, <1>2, <1>3, <1>4, <1>5, <1>6, <1>7, Zenon DEF Next

LEMMA Invariance == Spec => []IInv
BY InitHolds, NextKeeps, PTL DEF Spec

\* Whatever the calendar, the engine, the desk, the eligibility cache within
\* its limit and the orders keep their types; the cache has one entry a symbol.
THEOREM TypeCorrect == Spec => []TypeOK
<1>1. IInv => TypeOK
  BY InvTypes
<1> QED BY <1>1, Invariance, PTL

\* However late the readings of /v2/clock reach Engine.SyncClock, the engine
\* leaves the wall clock only outside the regular session, after an early close
\* or before an open that a holiday skips.
THEOREM NeverShutsTheMarket == Spec => []NeverShutOut
<1>1. IInv => NeverShutOut
  BY NeverShut DEF IInv
<1> QED BY <1>1, Invariance, PTL

\* A closure that SyncClock was told of is held to the end of the trading day.
THEOREM HoldsClosures == Spec => []ClosureHeld
<1>1. IInv => ClosureHeld
  BY ClosuresHold DEF IInv
<1> QED BY <1>1, Invariance, PTL

\* DayStart and WeekStart are the last opening of an overnight session, of the
\* day and of the week, on every day there is.
THEOREM AnchorsRight == Spec => []AnchorsAtOpens
<1>1. IInv => AnchorsAtOpens
  BY AnchorsOpen DEF IInv
<1> QED BY <1>1, Invariance, PTL

\* However the book, the cache and the tape move under an intent, what leaves
\* has the form of the session the engine reported at the intent, whether that
\* session turned since or not, is priced off something fresh, and overnight is
\* for a symbol that trades overnight.  What leaves before the session of its
\* intent has turned leaves into its market; what leaves after may not.
THEOREM OrdersAlwaysFit == Spec => []OrdersFit
<1>1. IInv => OrdersFit
  BY DEF IInv
<1> QED BY <1>1, Invariance, PTL
=============================================================================
