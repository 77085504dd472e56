------------------------- MODULE TapeIngest_proofs --------------------------
(***************************************************************************)
(* Theorems about TapeIngest: for every set of symbols, buffer size and    *)
(* number of prints, what is in the bars while the websocket streams.      *)
(***************************************************************************)
EXTENDS TapeIngest, FiniteSetTheorems, SequenceTheorems, TLAPS
-----------------------------------------------------------------------------
(* The aggregator's operations. *)

Aggs == [minute: Series, sub: Series, buffering: BOOLEAN,
         buf: Seq(Prints), last: Tape, quote: Tape]

\* What a full buffer drops leaves room for the next print.
LEMMA DroppedIs ==
  ASSUME NEW a \in Aggs, Len(a.buf) <= MaxBuf
  PROVE  /\ Dropped(a) \in Nat /\ Dropped(a) <= Len(a.buf)
         /\ a.buffering => Len(a.buf) - Dropped(a) + 1 <= MaxBuf
<1>1. MaxBuf \in Nat /\ MaxBuf >= 2
  BY TapeAssumption DEF TapeAssumption
<1>2. MaxBuf \div 2 \in Nat /\ MaxBuf \div 2 + 1 <= MaxBuf
  BY <1>1
<1>3. a.buf \in Seq(Prints) /\ Len(a.buf) \in Nat /\ a.buffering \in BOOLEAN
  BY DEF Aggs
<1>4. CASE BufferFull(a)
  <2>1. Len(a.buf) = MaxBuf
    BY <1>1, <1>3, <1>4 DEF BufferFull
  <2>2. Dropped(a) = Len(a.buf) - MaxBuf \div 2
    BY <1>4 DEF Dropped
  <2> QED BY <1>1, <1>2, <2>1, <2>2
<1>5. CASE ~BufferFull(a)
  <2>1. Dropped(a) = 0
    BY <1>5 DEF Dropped
  <2>2. a.buffering => Len(a.buf) < MaxBuf
    BY <1>1, <1>3, <1>5 DEF BufferFull
  <2> QED BY <1>1, <1>3, <2>1, <2>2
<1> QED BY <1>4, <1>5

\* The buffer after a print: what is not dropped, then the print.
LEMMA BufferedIs ==
  ASSUME NEW a \in Aggs, a.buffering, Len(a.buf) <= MaxBuf, NEW p \in Prints
  PROVE  LET d == Dropped(a)
             n == Len(a.buf) - d
             b == Append(SubSeq(a.buf, d + 1, Len(a.buf)), p)
         IN  /\ b \in Seq(Prints) /\ Len(b) <= MaxBuf
             /\ n \in Nat /\ Len(b) = n + 1 /\ b[n + 1] = p
             /\ \A i \in 1..n : d + i \in 1..Len(a.buf) /\ b[i] = a.buf[d + i]
<1> DEFINE d == Dropped(a)
           L == Len(a.buf)
           n == L - d
           t == SubSeq(a.buf, d + 1, L)
           b == Append(t, p)
<1>1. /\ d \in Nat /\ d <= L /\ n + 1 <= MaxBuf
      /\ a.buf \in Seq(Prints) /\ L \in Nat
  BY DroppedIs DEF Aggs
<1> HIDE DEF d
<1>2. n \in Nat
  BY <1>1
<1>3. /\ t \in Seq(Prints) /\ Len(t) = n
      /\ \A i \in 1..n : t[i] = a.buf[d + i]
  <2>1. d + 1 \in 1..(L + 1) /\ L \in d..L
    BY <1>1
  <2>2. /\ t \in Seq(Prints)
        /\ Len(t) = IF d + 1 <= L THEN L - (d + 1) + 1 ELSE 0
        /\ \A i \in 1..(L - (d + 1) + 1) : t[i] = a.buf[d + 1 + i - 1]
    BY <1>1, <2>1, SubSeqProperties
  <2> HIDE DEF t
  <2>3. Len(t) = n
    BY <1>1, <2>2
  <2>4. ASSUME NEW i \in 1..n PROVE t[i] = a.buf[d + i]
    <3>1. i \in 1..(L - (d + 1) + 1) /\ d + 1 + i - 1 = d + i
      BY <1>1
    <3> QED BY <2>2, <3>1
  <2> QED BY <2>2, <2>3, <2>4
<1> HIDE DEF t
<1>4. /\ b \in Seq(Prints) /\ Len(b) = n + 1
      /\ \A i \in 1..n : b[i] = t[i]
      /\ b[n + 1] = p
  BY <1>3, AppendProperties
<1> HIDE DEF b
<1>5. \A i \in 1..n : d + i \in 1..L
  BY <1>1
<1> QED BY <1>1, <1>2, <1>3, <1>4, <1>5 DEF b, t, d

\* A series has a print once more.
LEMMA CountedIs ==
  ASSUME NEW series \in Series, NEW p \in Prints
  PROVE  /\ Counted(series, p) \in Series
         /\ \A q \in Prints :
              Counted(series, p)[q] = IF q = p THEN series[q] + 1 ELSE series[q]
BY DEF Counted, Series

\* A print while the buffer is armed, and while it is not.
LEMMA OnTradeIs ==
  ASSUME NEW a \in Aggs, Len(a.buf) <= MaxBuf, NEW p \in Prints
  PROVE  LET b == OnTrade(a, p) IN
         /\ b \in Aggs /\ Len(b.buf) <= MaxBuf
         /\ b.buffering = a.buffering /\ b.last = p.symbol /\ b.quote = a.quote
         /\ a.buffering =>
              /\ b.minute = a.minute /\ b.sub = a.sub
              /\ b.buf = Append(SubSeq(a.buf, Dropped(a) + 1, Len(a.buf)), p)
         /\ ~a.buffering =>
              /\ b.minute = Counted(a.minute, p) /\ b.sub = Counted(a.sub, p)
              /\ b.buf = a.buf
<1> DEFINE l == [a EXCEPT !.last = p.symbol]
<1>1. /\ l \in Aggs /\ l.minute = a.minute /\ l.sub = a.sub /\ l.buf = a.buf
      /\ l.buffering = a.buffering /\ l.quote = a.quote /\ l.last = p.symbol
  <2>1. p.symbol \in Tape
    BY DEF Prints, Tape
  <2> QED BY <2>1 DEF Aggs
<1> HIDE DEF l
<1>2. CASE a.buffering
  <2> DEFINE new == Append(SubSeq(a.buf, Dropped(a) + 1, Len(a.buf)), p)
             b == [l EXCEPT !.buf = new]
  <2>1. OnTrade(a, p) = b
    BY <1>1, <1>2 DEF OnTrade, l
  <2>2. new \in Seq(Prints) /\ Len(new) <= MaxBuf
    BY <1>2, BufferedIs
  <2> HIDE DEF new
  <2>3. /\ b \in Aggs /\ b.buf = new /\ b.minute = l.minute /\ b.sub = l.sub
        /\ b.buffering = l.buffering /\ b.last = l.last /\ b.quote = l.quote
    BY <1>1, <2>2 DEF Aggs
  <2> HIDE DEF b
  <2> QED BY <1>1, <1>2, <2>1, <2>2, <2>3 DEF new
<1>3. CASE ~a.buffering
  <2> DEFINE x == Counted(a.minute, p)
             y == Counted(a.sub, p)
             m == [l EXCEPT !.minute = x]
             b == [m EXCEPT !.sub = y]
  <2>1. OnTrade(a, p) = [m EXCEPT !.sub = Counted(m.sub, p)]
    BY <1>1, <1>3 DEF OnTrade, l
  <2>2. x \in Series /\ y \in Series
    BY CountedIs DEF Aggs
  <2> HIDE DEF x, y
  <2>3. /\ m \in Aggs /\ m.buf = l.buf /\ m.minute = x /\ m.sub = l.sub
        /\ m.buffering = l.buffering /\ m.last = l.last /\ m.quote = l.quote
    BY <1>1, <2>2 DEF Aggs
  <2> HIDE DEF m
  <2>4. /\ b \in Aggs /\ b.buf = m.buf /\ b.minute = m.minute /\ b.sub = y
        /\ b.buffering = m.buffering /\ b.last = m.last /\ b.quote = m.quote
    BY <2>2, <2>3 DEF Aggs
  <2>5. OnTrade(a, p) = b
    BY <1>1, <2>1, <2>3 DEF y
  <2> HIDE DEF b
  <2> QED BY <1>1, <1>3, <2>3, <2>4, <2>5 DEF x, y
<1> QED BY <1>2, <1>3

\* A buffered print: what stays of the buffer, then the print.
LEMMA OnTradeBuffered ==
  ASSUME NEW a \in Aggs, Len(a.buf) <= MaxBuf, a.buffering, NEW p \in Prints
  PROVE  LET b == OnTrade(a, p)
             d == Dropped(a)
             n == Len(a.buf) - d
         IN  /\ b.minute = a.minute /\ b.sub = a.sub
             /\ d \in Nat /\ n \in Nat /\ DOMAIN a.buf = 1..(d + n)
             /\ DOMAIN b.buf = 1..(n + 1) /\ b.buf[n + 1] = p
             /\ \A i \in 1..n : d + i \in DOMAIN a.buf /\ b.buf[i] = a.buf[d + i]
<1> DEFINE b == OnTrade(a, p)
           d == Dropped(a)
           L == Len(a.buf)
           n == L - d
           e == Append(SubSeq(a.buf, d + 1, L), p)
<1>1. b.minute = a.minute /\ b.sub = a.sub /\ b.buf = e
  BY OnTradeIs
<1>2. a.buf \in Seq(Prints) /\ L \in Nat /\ DOMAIN a.buf = 1..L
  BY DEF Aggs
<1>3. d \in Nat /\ d <= L
  BY DroppedIs
<1>4. /\ e \in Seq(Prints) /\ n \in Nat /\ Len(e) = n + 1 /\ e[n + 1] = p
      /\ \A i \in 1..n : d + i \in 1..L /\ e[i] = a.buf[d + i]
  BY BufferedIs
<1> HIDE DEF e
<1>5. DOMAIN e = 1..(n + 1) /\ d + n = L
  BY <1>2, <1>3, <1>4
<1> HIDE DEF b, d, n, L
<1> QED BY <1>1, <1>2, <1>3, <1>4, <1>5 DEF b, d, n, L

\* A print that is counted at once.
LEMMA OnTradeCounted ==
  ASSUME NEW a \in Aggs, Len(a.buf) <= MaxBuf, ~a.buffering, NEW p \in Prints
  PROVE  LET b == OnTrade(a, p) IN
         /\ b.buf = a.buf
         /\ \A q \in Prints :
              /\ b.minute[q] = IF q = p THEN a.minute[q] + 1 ELSE a.minute[q]
              /\ b.sub[q] = IF q = p THEN a.sub[q] + 1 ELSE a.sub[q]
<1> DEFINE b == OnTrade(a, p)
<1>1. b.minute = Counted(a.minute, p) /\ b.sub = Counted(a.sub, p) /\ b.buf = a.buf
  BY OnTradeIs
<1>2. a.minute \in Series /\ a.sub \in Series
  BY DEF Aggs
<1> HIDE DEF b
<1> QED BY <1>1, <1>2, CountedIs DEF b

\* A print is in a buffer, and at most once.
Held(buf, p) == \E i \in DOMAIN buf : buf[i] = p
Single(buf, p) == \A i, j \in DOMAIN buf : buf[i] = p /\ buf[j] = p => i = j

LEMMA OnTradeHeld ==
  ASSUME NEW a \in Aggs, Len(a.buf) <= MaxBuf, a.buffering, NEW p \in Prints,
         NEW q
  PROVE  LET b == OnTrade(a, p)
             gone == {a.buf[i] : i \in 1..Dropped(a)}
         IN  /\ Held(b.buf, p)
             /\ Held(b.buf, q) => q = p \/ Held(a.buf, q)
             /\ Held(a.buf, q) => q \in gone \/ Held(b.buf, q)
             /\ Single(a.buf, q) /\ (q = p => ~Held(a.buf, q)) => Single(b.buf, q)
<1> DEFINE b == OnTrade(a, p)
           gone == {a.buf[i] : i \in 1..Dropped(a)}
           d == Dropped(a)
           n == Len(a.buf) - d
<1>1. /\ d \in Nat /\ n \in Nat /\ DOMAIN a.buf = 1..(d + n)
      /\ DOMAIN b.buf = 1..(n + 1) /\ b.buf[n + 1] = p
      /\ \A i \in 1..n : d + i \in DOMAIN a.buf /\ b.buf[i] = a.buf[d + i]
  BY OnTradeBuffered
<1>2. \A i \in 1..d : a.buf[i] \in gone
  OBVIOUS
<1> HIDE DEF b, d, n, gone
<1>3. \A i \in 1..(n + 1) : i \in Nat /\ (i \in 1..n \/ i = n + 1)
  BY <1>1
<1>4. Held(b.buf, p)
  <2>1. n + 1 \in 1..(n + 1)
    BY <1>1
  <2> QED BY <1>1, <2>1 DEF Held
<1>5. Held(b.buf, q) => q = p \/ Held(a.buf, q)
  BY <1>1, <1>3 DEF Held
<1>6. ASSUME Held(a.buf, q), q \notin gone PROVE Held(b.buf, q)
  <2>1. PICK j \in DOMAIN a.buf : a.buf[j] = q
    BY <1>6 DEF Held
  <2>2. j \in 1..(d + n) /\ j \notin 1..d
    BY <1>1, <1>2, <1>6, <2>1
  <2>3. j - d \in 1..n /\ d + (j - d) = j /\ j - d \in 1..(n + 1)
    BY <1>1, <2>2
  <2>4. b.buf[j - d] = q
    BY <1>1, <2>1, <2>3
  <2> QED BY <1>1, <2>3, <2>4 DEF Held
<1>7. ASSUME Single(a.buf, q), q = p => ~Held(a.buf, q),
             NEW i \in DOMAIN b.buf, NEW j \in DOMAIN b.buf,
             b.buf[i] = q, b.buf[j] = q
      PROVE  i = j
  <2>1. ASSUME NEW k \in 1..n, b.buf[k] = q
        PROVE  d + k \in DOMAIN a.buf /\ a.buf[d + k] = q /\ k \in Nat
    <3>1. d + k \in DOMAIN a.buf /\ b.buf[k] = a.buf[d + k]
      BY <1>1, <2>1
    <3>2. k \in Nat
      BY <2>1, <1>1
    <3> QED BY <2>1, <3>1, <3>2
  <2>2. CASE i \in 1..n /\ j \in 1..n
    <3>1. d + i = d + j
      BY <1>7, <2>1, <2>2 DEF Single
    <3>2. i \in Nat /\ j \in Nat /\ d \in Nat
      BY <1>1, <2>2
    <3> QED BY <3>1, <3>2
  <2>3. CASE ~(i \in 1..n /\ j \in 1..n)
    <3>1. q = p
      BY <1>1, <1>3, <1>7, <2>3
    <3>2. i \notin 1..n /\ j \notin 1..n
      BY <1>7, <2>1, <3>1 DEF Held
    <3> QED BY <1>1, <1>3, <1>7, <3>2
  <2> QED BY <2>2, <2>3
<1>8. Single(a.buf, q) /\ (q = p => ~Held(a.buf, q)) => Single(b.buf, q)
  BY <1>7 DEF Single
<1> QED BY <1>4, <1>5, <1>6, <1>8 DEF b, gone

\* How often a print is buffered is a number.
LEMMA DrainedType ==
  ASSUME NEW series \in Series, NEW buf \in Seq(Prints), NEW cutoff
  PROVE  Drained(series, buf, cutoff) \in Series
<1> DEFINE Times(p) == {i \in DOMAIN buf : buf[i] = p}
<1>1. ASSUME NEW p \in Prints PROVE Cardinality(Times(p)) \in Nat
  <2>1. Len(buf) \in Nat /\ DOMAIN buf = 1..Len(buf)
    OBVIOUS
  <2>2. IsFiniteSet(1..Len(buf))
    BY <2>1, FS_Interval
  <2>3. Times(p) \in SUBSET (1..Len(buf))
    BY <2>1
  <2> QED BY <2>2, <2>3, FS_Subset, FS_CardinalityType
<1> DEFINE more(p) == IF p.ts > cutoff THEN Cardinality(Times(p)) ELSE 0
<1>2. \A p \in Prints : more(p) \in Nat
  BY <1>1
<1>3. Drained(series, buf, cutoff) = [p \in Prints |-> series[p] + more(p)]
  BY DEF Drained
<1> HIDE DEF more
<1>4. \A p \in Prints : series[p] + more(p) \in Nat
  BY <1>2 DEF Series
<1> QED BY <1>3, <1>4 DEF Series

\* Of a print it has at most once, the buffer adds one if it is after the
\* cutoff.
LEMMA DrainedIs ==
  ASSUME NEW series \in Series, NEW buf \in Seq(Prints), NEW cutoff,
         NEW p \in Prints, Single(buf, p)
  PROVE  Drained(series, buf, cutoff)[p] =
           series[p] + IF p.ts > cutoff /\ Held(buf, p) THEN 1 ELSE 0
<1> DEFINE T == {i \in DOMAIN buf : buf[i] = p}
<1>1. Drained(series, buf, cutoff)[p] =
        series[p] + IF p.ts > cutoff THEN Cardinality(T) ELSE 0
  BY DEF Drained
<1>2. CASE Held(buf, p)
  <2>1. PICK i \in DOMAIN buf : buf[i] = p
    BY <1>2 DEF Held
  <2>2. T = {i}
    BY <2>1 DEF Single
  <2>3. Cardinality(T) = 1
    BY <2>2, FS_Singleton
  <2> QED BY <1>1, <1>2, <2>3
<1>3. CASE ~Held(buf, p)
  <2>1. T = {}
    BY <1>3 DEF Held
  <2>2. Cardinality(T) = 0
    BY <2>1, FS_EmptySet
  <2> QED BY <1>1, <1>3, <2>2
<1> QED BY <1>2, <1>3

LEMMA EndBackfillIs ==
  ASSUME NEW a \in Aggs, NEW s, NEW m
  PROVE  LET b == EndBackfill(a, s, m) IN
         /\ b \in Aggs /\ ~b.buffering /\ b.buf = <<>> /\ Len(b.buf) = 0
         /\ b.last = a.last /\ b.quote = a.quote
         /\ b.minute = Drained(a.minute, a.buf, m)
         /\ b.sub = Drained(a.sub, a.buf, s)
<1>1. Drained(a.minute, a.buf, m) \in Series /\ Drained(a.sub, a.buf, s) \in Series
  BY DrainedType DEF Aggs
<1>2. <<>> \in Seq(Prints) /\ Len(<<>>) = 0
  OBVIOUS
<1>3. a.last \in Tape /\ a.quote \in Tape
  BY DEF Aggs
<1> QED BY <1>1, <1>2, <1>3 DEF EndBackfill, Aggs

LEMMA BeginBackfillIs ==
  ASSUME NEW a \in Aggs, Len(a.buf) <= MaxBuf
  PROVE  LET b == BeginBackfill(a) IN
         /\ b \in Aggs /\ b.buffering /\ Len(b.buf) <= MaxBuf
         /\ b.minute = a.minute /\ b.sub = a.sub
         /\ b.last = a.last /\ b.quote = a.quote
         /\ b.buf = IF a.buffering THEN a.buf ELSE <<>>
<1>1. <<>> \in Seq(Prints) /\ Len(<<>>) = 0 /\ 0 <= MaxBuf
  BY TapeAssumption DEF TapeAssumption
<1>2. CASE a.buffering
  BY <1>2 DEF BeginBackfill
<1>3. CASE ~a.buffering
  <2> DEFINE l == [a EXCEPT !.buffering = TRUE]
             b == [l EXCEPT !.buf = <<>>]
  <2>1. /\ l \in Aggs /\ l.minute = a.minute /\ l.sub = a.sub /\ l.buffering
        /\ l.quote = a.quote /\ l.last = a.last
    BY DEF Aggs
  <2>2. BeginBackfill(a) = b
    BY <1>3 DEF BeginBackfill
  <2> HIDE DEF l
  <2>3. /\ b \in Aggs /\ b.buf = <<>> /\ b.minute = l.minute /\ b.sub = l.sub
        /\ b.buffering = l.buffering /\ b.last = l.last /\ b.quote = l.quote
    BY <1>1, <2>1 DEF Aggs
  <2> HIDE DEF b
  <2> QED BY <1>1, <1>3, <2>1, <2>2, <2>3
<1> QED BY <1>2, <1>3

LEMMA ResetIs ==
  ASSUME NEW a
  PROVE  LET b == ResetMarket(a) IN
         /\ b \in Aggs /\ ~b.buffering /\ b.buf = <<>> /\ Len(b.buf) <= MaxBuf
         /\ b.minute = Empty /\ b.sub = Empty
         /\ b.last = NoSymbol /\ b.quote = NoSymbol
<1>1. <<>> \in Seq(Prints) /\ Len(<<>>) = 0 /\ 0 <= MaxBuf
  BY TapeAssumption DEF TapeAssumption
<1>2. Empty \in Series /\ NoSymbol \in Tape
  BY DEF Empty, Series, Tape
<1> HIDE DEF Empty
<1> QED BY <1>1, <1>2 DEF ResetMarket, Aggs

LEMMA OpenedIs ==
  ASSUME NEW a \in Aggs, Len(a.buf) <= MaxBuf
  PROVE  LET b == Opened(a) IN
         /\ b \in Aggs /\ b.buffering /\ Len(b.buf) <= MaxBuf
         /\ b.minute = a.minute /\ b.sub = a.sub
         /\ b.last = a.last /\ b.quote = a.quote
         /\ b.buf = IF a.buffering THEN a.buf ELSE <<>>
BY BeginBackfillIs DEF Opened

\* Each update of one field leaves the others.
LEMMA QuoteIs ==
  ASSUME NEW a \in Aggs, NEW s \in Tape
  PROVE  LET b == [a EXCEPT !.quote = s] IN
         /\ b \in Aggs /\ b.quote = s /\ b.minute = a.minute /\ b.sub = a.sub
         /\ b.buffering = a.buffering /\ b.buf = a.buf /\ b.last = a.last
BY DEF Aggs

LEMMA MinuteIs ==
  ASSUME NEW a \in Aggs, NEW m \in Series
  PROVE  LET b == [a EXCEPT !.minute = m] IN
         /\ b \in Aggs /\ b.minute = m /\ b.sub = a.sub /\ b.quote = a.quote
         /\ b.buffering = a.buffering /\ b.buf = a.buf /\ b.last = a.last
BY DEF Aggs

LEMMA OnceIs ==
  ASSUME NEW ps
  PROVE  /\ Once(ps) \in Series
         /\ \A p \in Prints : Once(ps)[p] = IF p \in ps THEN 1 ELSE 0
BY DEF Once, Series

LEMMA ReplayIs ==
  ASSUME NEW a \in Aggs, NEW ps
  PROVE  LET b == ReplayTrades(a, ps) IN
         /\ b \in Aggs /\ b.sub = Once(ps) /\ b.minute = a.minute
         /\ b.buffering = a.buffering /\ b.buf = a.buf /\ b.last = a.last
         /\ b.quote = a.quote
<1>1. Once(ps) \in Series
  BY OnceIs
<1> QED BY <1>1 DEF ReplayTrades, Aggs
-----------------------------------------------------------------------------
(* Types, and where the holder of backfillMu is. *)

Steps == {"idle", "paused", "cleared", "armed", "bars", "trades", "drain"}
Busy == {"armed", "bars", "trades", "drain"}
Tasks == [who: {"none", "switch", "backfill"}, symbol: Tape, prev: Tape,
          at: Steps, reqEnd: Time, served: Time, tradeEnd: Time]
Hands == [kind: {"none", "trade", "quote"}, symbol: Tape, ts: Time]
WindowSet == [reqEnd: Time, served: Time, tradeEnd: Time]
Polls == [symbol: Tape, cursor: Time, at: {"idle", "fetched", "apply"},
          from: Time, batch: SUBSET Prints]

\* What a hand holds: nothing, a print of the tape, or a quote.
Handy(h) ==
  /\ h.kind = "trade" => HeldPrint(h) \in tape
  /\ h.kind # "trade" => h.ts = 0
  /\ h.kind = "none" => h = NoHand

\* The filter is closed exactly during a switch's pause; the buffer is armed
\* exactly while a backfill loads, and then the backfill is about the active
\* symbol; only the stream puts a message into the read goroutine's hand.
Stage ==
  /\ task.at \in {"paused", "cleared"} <=> active = NoSymbol
  /\ task.at \in {"paused", "cleared"} =>
       task.who = "switch" /\ task.symbol \in Symbols
  /\ Handy(hand) /\ Handy(stray)
  /\ hand # NoHand => up /\ feed = "sip"
  /\ task.at \in Busy <=> agg.buffering
  /\ task.at \in Busy => task.symbol = active
  /\ task.who = "switch" => task.prev \in Symbols
  /\ task.at = "idle" => task = NoTask

Base == TypeOK /\ Stage

LEMMA TypeIs ==
  TypeOK <=>
    /\ feed \in Feeds /\ now \in Time /\ tape \subseteq Prints
    /\ active \in Tape /\ mark \in [symbol: Tape, at: Time]
    /\ up \in BOOLEAN /\ jobs \subseteq Symbols
    /\ hand \in Hands /\ stray \in Hands
    /\ task \in Tasks
    /\ agg \in Aggs /\ Len(agg.buf) <= MaxBuf
    /\ poll \in Polls
    /\ window \in WindowSet
    /\ whole \subseteq {"minute", "sub"}
    /\ lost \subseteq Prints /\ late \subseteq Prints
    /\ switches \in 0..MaxSwitches /\ drops \in 0..MaxDrops
BY DEF TypeOK, Aggs, Tasks, Steps, Polls, Hands, WindowSet

LEMMA TypeIsNext ==
  TypeOK' <=>
    /\ feed' \in Feeds /\ now' \in Time /\ tape' \subseteq Prints
    /\ active' \in Tape /\ mark' \in [symbol: Tape, at: Time]
    /\ up' \in BOOLEAN /\ jobs' \subseteq Symbols
    /\ hand' \in Hands /\ stray' \in Hands
    /\ task' \in Tasks
    /\ agg' \in Aggs /\ Len(agg'.buf) <= MaxBuf
    /\ poll' \in Polls
    /\ window' \in WindowSet
    /\ whole' \subseteq {"minute", "sub"}
    /\ lost' \subseteq Prints /\ late' \subseteq Prints
    /\ switches' \in 0..MaxSwitches /\ drops' \in 0..MaxDrops
BY DEF TypeOK, Aggs, Tasks, Steps, Polls, Hands, WindowSet

LEMMA Constant ==
  /\ 0 \in Time /\ DefaultSymbol \in Symbols /\ NoSymbol \notin Symbols
  /\ Symbols \subseteq Tape /\ NoSymbol \in Tape
  /\ MaxTime \in Nat /\ MaxNight \in 0..MaxTime
  /\ TicksPerSecond \in Nat \ {0} /\ Feeds \subseteq {"sip", "boats"}
  /\ MaxSwitches \in Nat /\ MaxDrops \in Nat /\ MaxBuf \in Nat
BY TapeAssumption DEF TapeAssumption, Time, Tape

LEMMA NewTaskIs ==
  ASSUME NEW who \in {"none", "switch", "backfill"}, NEW s \in Tape,
         NEW prev \in Tape, NEW at \in Steps
  PROVE  LET t == Task(who, s, prev, at) IN
         /\ t \in Tasks /\ t.who = who /\ t.symbol = s /\ t.prev = prev
         /\ t.at = at /\ t.reqEnd = 0 /\ t.served = 0 /\ t.tradeEnd = 0
BY Constant DEF Task, Tasks

LEMMA NoTaskIs ==
  /\ NoTask \in Tasks /\ NoTask.who = "none" /\ NoTask.at = "idle"
BY Constant, NewTaskIs DEF NoTask, Steps

LEMMA GoesOnIs ==
  ASSUME NEW t \in Tasks, NEW at \in Steps
  PROVE  LET u == GoesOn(t, at) IN
         /\ u \in Tasks /\ u.at = at /\ u.who = t.who /\ u.symbol = t.symbol
         /\ u.prev = t.prev /\ u.reqEnd = t.reqEnd /\ u.served = t.served
         /\ u.tradeEnd = t.tradeEnd
BY DEF GoesOn, Tasks

\* The steps that stamp a window's end.
LEMMA ReqEndIs ==
  ASSUME NEW t \in Tasks, NEW end \in Time
  PROVE  LET u == [t EXCEPT !.reqEnd = end] IN
         /\ u \in Tasks /\ u.at = t.at /\ u.who = t.who /\ u.symbol = t.symbol
         /\ u.prev = t.prev /\ u.reqEnd = end
BY DEF Tasks

LEMMA ServedIs ==
  ASSUME NEW t \in Tasks, NEW end \in Time
  PROVE  LET u == [t EXCEPT !.served = end] IN
         /\ u \in Tasks /\ u.at = t.at /\ u.who = t.who /\ u.symbol = t.symbol
         /\ u.prev = t.prev /\ u.reqEnd = t.reqEnd /\ u.served = end
BY DEF Tasks

LEMMA TradeEndIs ==
  ASSUME NEW t \in Tasks, NEW end \in Time
  PROVE  LET u == [t EXCEPT !.tradeEnd = end] IN
         /\ u \in Tasks /\ u.at = t.at /\ u.who = t.who /\ u.symbol = t.symbol
         /\ u.prev = t.prev /\ u.reqEnd = t.reqEnd /\ u.served = t.served
         /\ u.tradeEnd = end
BY DEF Tasks

\* A hand, and what it holds.
LEMMA HandIs ==
  /\ NoHand \in Hands /\ NoHand.kind = "none" /\ NoHand.ts = 0
  /\ \A s \in Tape, t \in Time, k \in {"none", "trade", "quote"} :
       /\ Hand(k, s, t) \in Hands /\ Hand(k, s, t).kind = k
       /\ Hand(k, s, t).symbol = s /\ Hand(k, s, t).ts = t
       /\ HeldPrint(Hand(k, s, t)) = [symbol |-> s, ts |-> t]
BY Constant DEF NoHand, Hand, Hands, HeldPrint

LEMMA HandyStays ==
  ASSUME NEW h, Handy(h), tape \subseteq tape'
  PROVE  Handy(h)'
BY DEF Handy

LEMMA RestingIs ==
  ASSUME poll \in Polls, NEW cursor \in Time
  PROVE  Resting(cursor) \in Polls /\ Resting(cursor).at = "idle"
BY Constant DEF Resting, Polls

\* Startup.
LEMMA InitBase == Init => Base
<1> SUFFICES ASSUME Init PROVE Base
  OBVIOUS
<1> DEFINE a == [minute |-> Empty, sub |-> Empty, buffering |-> FALSE,
                 buf |-> <<>>, last |-> NoSymbol, quote |-> NoSymbol]
<1>1. agg = a
  BY DEF Init
<1>2. a \in Aggs /\ ~a.buffering /\ Len(a.buf) <= MaxBuf
  <2>1. a = ResetMarket(agg)
    BY DEF ResetMarket
  <2> HIDE DEF a
  <2> QED BY <2>1, ResetIs
<1> HIDE DEF a
<1>3. NoPoll \in Polls /\ NoMark \in [symbol: Tape, at: Time]
  BY Constant DEF NoPoll, NoMark, Polls
<1>4. TypeOK
  <2>1. /\ feed \in Feeds /\ now \in Time /\ tape \subseteq Prints
        /\ active \in Tape /\ up \in BOOLEAN /\ jobs \subseteq Symbols
    BY Constant DEF Init
  <2>2. window \in WindowSet /\ hand \in Hands /\ stray \in Hands
    BY Constant, HandIs DEF Init, WindowSet
  <2>3. /\ whole \subseteq {"minute", "sub"} /\ lost \subseteq Prints
        /\ late \subseteq Prints /\ switches \in 0..MaxSwitches /\ drops \in 0..MaxDrops
    BY Constant DEF Init
  <2>4. mark = NoMark /\ task = NoTask /\ poll = NoPoll
    BY DEF Init
  <2> QED BY <1>1, <1>2, <1>3, <2>1, <2>2, <2>3, <2>4, NoTaskIs, TypeIs
<1>5. Handy(hand) /\ Handy(stray) /\ hand = NoHand
  BY HandIs DEF Init, Handy
<1>6. Stage
  BY <1>1, <1>2, <1>5, Constant, NoTaskIs DEF Init, Stage, Busy
<1> QED BY <1>4, <1>6 DEF Base

\* The exchange and the websocket.
LEMMA TickBase ==
  ASSUME Base, NEW s \in Symbols, Tick(s)
  PROVE  /\ Base'
         /\ now' = now + 1 /\ [symbol |-> s, ts |-> now + 1] \in Prints
<1> DEFINE p == [symbol |-> s, ts |-> now + 1]
<1>1. /\ now < IF feed = "sip" THEN MaxTime ELSE MaxNight
      /\ now' = now + 1 /\ tape' = tape \cup {p}
      /\ hand' = IF Passes(s) THEN Hand("trade", s, now + 1) ELSE hand
      /\ UNCHANGED <<feed, active, mark, up, jobs, task, agg, poll, window, whole,
                     lost, switches, drops, stray, late>>
  BY DEF Tick
<1>2. now \in Time /\ now + 1 \in 1..MaxTime /\ now + 1 \in Time /\ s \in Tape
  BY <1>1, Constant, TypeIs DEF Base, Time
<1>3. p \in Prints /\ now' \in Time
  BY <1>1, <1>2, Constant DEF Prints, Time
<1>4. hand' \in Hands /\ Handy(hand)' /\ (hand' # NoHand => up /\ feed = "sip")
  <2>1. CASE Passes(s)
    <3> DEFINE h == Hand("trade", s, now + 1)
    <3>1. h \in Hands /\ h.kind = "trade" /\ HeldPrint(h) = p
      BY <1>2, HandIs
    <3>2. hand' = h /\ p \in tape' /\ up /\ feed = "sip"
      BY <1>1, <2>1 DEF Passes
    <3> HIDE DEF h, p
    <3> QED BY <3>1, <3>2 DEF Handy
  <2>2. CASE ~Passes(s)
    BY <1>1, <2>2, HandyStays, TypeIs DEF Base, Stage, Handy
  <2> QED BY <2>1, <2>2
<1> HIDE DEF p
<1>5. Handy(stray)'
  BY <1>1 DEF Base, Stage, Handy
<1>6. TypeOK'
  BY <1>1, <1>3, <1>4, TypeIs, TypeIsNext DEF Base
<1>7. Stage'
  BY <1>1, <1>4, <1>5 DEF Base, Stage
<1> QED BY <1>1, <1>3, <1>6, <1>7 DEF Base, p

LEMMA QuoteBase ==
  ASSUME Base, NEW s \in Symbols, Quote(s)
  PROVE  Base'
<1>1. /\ hand' = Hand("quote", s, 0) /\ up /\ feed = "sip"
      /\ UNCHANGED <<feed, now, tape, up, drops, active, mark, jobs, task, agg,
                     poll, window, whole, lost, switches, stray, late>>
  BY DEF Quote, Passes, feedVars
<1>2. hand' \in Hands /\ hand'.kind = "quote" /\ hand'.ts = 0
  BY <1>1, Constant, HandIs
<1>3. TypeOK'
  BY <1>1, <1>2, TypeIs, TypeIsNext DEF Base
<1>4. Stage'
  BY <1>1, <1>2 DEF Base, Stage, Handy
<1> QED BY <1>3, <1>4 DEF Base

\* The print in the hand has been printed.
LEMMA HeldIs ==
  ASSUME Base, hand.kind = "trade"
  PROVE  HeldPrint(hand) \in tape /\ HeldPrint(hand) \in Prints
BY TypeIs DEF Base, Stage, Handy

LEMMA FoldsBase ==
  ASSUME Base, TradeFolds \/ QuoteFolds
  PROVE  Base'
<1>1. /\ hand' = NoHand
      /\ UNCHANGED <<feed, now, tape, up, drops, active, mark, jobs, task, poll,
                     window, whole, switches, stray, late>>
  BY DEF TradeFolds, QuoteFolds, feedVars
<1>2. /\ agg \in Aggs /\ Len(agg.buf) <= MaxBuf /\ lost \subseteq Prints
      /\ agg.buf \in Seq(Prints) /\ hand \in Hands
  BY TypeIs DEF Base, Aggs
<1>3. /\ agg' \in Aggs /\ Len(agg'.buf) <= MaxBuf
      /\ agg'.buffering = agg.buffering /\ lost' \subseteq Prints
  <2>1. CASE TradeFolds
    <3>1. /\ HeldPrint(hand) \in Prints /\ agg' = OnTrade(agg, HeldPrint(hand))
          /\ lost' = lost \cup {agg.buf[i] : i \in 1..Dropped(agg)}
      BY <2>1, HeldIs DEF TradeFolds
    <3>2. \A i \in 1..Dropped(agg) : agg.buf[i] \in Prints
      BY <1>2, DroppedIs
    <3> QED BY <1>2, <3>1, <3>2, OnTradeIs
  <2>2. CASE QuoteFolds
    <3>1. agg' = [agg EXCEPT !.quote = hand.symbol] /\ lost' = lost
      BY <2>2 DEF QuoteFolds
    <3>2. hand.symbol \in Tape
      BY <1>2 DEF Hands
    <3> QED BY <1>2, <3>1, <3>2, QuoteIs
  <2> QED BY <2>1, <2>2
<1>4. TypeOK'
  BY <1>1, <1>2, <1>3, HandIs, TypeIs, TypeIsNext DEF Base
<1>5. Handy(hand)' /\ Handy(stray)'
  BY <1>1, HandIs DEF Base, Stage, Handy
<1>6. Stage'
  BY <1>1, <1>3, <1>5 DEF Base, Stage
<1> QED BY <1>4, <1>6 DEF Base

LEMMA SocketBase ==
  ASSUME Base, Drop \/ Connect
  PROVE  Base'
<1>1. /\ UNCHANGED <<feed, now, tape, active, mark, task, agg, poll, window, whole,
                     lost, switches, hand, stray, late>>
      /\ hand # NoHand => up'
  BY DEF Drop, Connect, wire
<1>2. Stage'
  BY <1>1 DEF Base, Stage, Handy
<1>3. drops' \in 0..MaxDrops /\ up' \in BOOLEAN
  <2>1. drops \in 0..MaxDrops /\ MaxDrops \in Nat
    BY Constant, TypeIs DEF Base
  <2>2. CASE Drop
    <3>1. up' = FALSE /\ drops < MaxDrops /\ drops' = drops + 1
      BY <2>2 DEF Drop
    <3>2. drops' \in 0..MaxDrops
      BY <2>1, <3>1
    <3> QED BY <3>1, <3>2
  <2>3. CASE Connect
    <3>1. up' = TRUE /\ drops' = drops
      BY <2>3 DEF Connect
    <3> QED BY <2>1, <3>1
  <2> QED BY <2>2, <2>3
<1>4. jobs' \subseteq Symbols
  <2>1. CASE Drop
    BY <2>1, TypeIs DEF Base, Drop
  <2>2. CASE Connect
    <3>1. active # NoSymbol => active \in Symbols
      BY TypeIs DEF Base, Tape
    <3>2. active = NoSymbol => task.prev \in Symbols /\ task.symbol \in Symbols
      BY DEF Base, Stage
    <3> QED BY <2>2, <3>1, <3>2, TypeIs DEF Base, Connect
  <2> QED BY <2>1, <2>2
<1>5. TypeOK'
  BY <1>1, <1>3, <1>4, TypeIs, TypeIsNext DEF Base
<1> QED BY <1>2, <1>5 DEF Base

\* The steps of a switch or a backfill.
LEMMA PauseBase ==
  ASSUME Base, NEW s \in Symbols, SwitchPause(s)
  PROVE  Base'
<1>1. /\ Idle /\ switches < MaxSwitches /\ switches' = switches + 1
      /\ task' = Task("switch", s, active, "paused")
      /\ active' = NoSymbol /\ mark' = NoMark
      /\ UNCHANGED <<feed, now, tape, up, drops, jobs, agg, poll, window, whole,
                     lost, hand, stray, late>>
  BY DEF SwitchPause, feedVars, wire
<1>2. active \in Symbols
  <2>1. task.at \notin {"paused", "cleared"}
    BY <1>1, NoTaskIs DEF Idle
  <2>2. active # NoSymbol /\ active \in Tape
    BY <2>1, TypeIs DEF Base, Stage
  <2> QED BY <2>2 DEF Tape
<1>3. /\ task' \in Tasks /\ task'.who = "switch" /\ task'.symbol = s
      /\ task'.prev = active /\ task'.at = "paused"
  BY <1>1, <1>2, Constant, NewTaskIs DEF Steps
<1>4. NoMark \in [symbol: Tape, at: Time] /\ switches' \in 0..MaxSwitches
  BY <1>1, Constant, TypeIs DEF Base, NoMark
<1>5. TypeOK'
  BY <1>1, <1>3, <1>4, Constant, TypeIs, TypeIsNext DEF Base
<1>6. ~agg.buffering
  BY <1>1, NoTaskIs DEF Base, Stage, Idle, Busy
<1>8. Handy(hand)' /\ Handy(stray)' /\ (hand' # NoHand => up' /\ feed' = "sip")
  BY <1>1 DEF Base, Stage, Handy
<1>7. Stage'
  BY <1>1, <1>2, <1>3, <1>6, <1>8 DEF Stage, Busy
<1> QED BY <1>5, <1>7 DEF Base

LEMMA ClearBase ==
  ASSUME Base, SwitchClear
  PROVE  /\ Base'
         /\ agg'.minute = Empty /\ agg'.sub = Empty /\ ~agg'.buffering
         /\ agg'.buf = <<>> /\ agg'.last = NoSymbol /\ agg'.quote = NoSymbol
         /\ task'.symbol = task.symbol
<1>1. /\ task.at = "paused" /\ agg' = ResetMarket(agg) /\ whole' = {} /\ lost' = {}
      /\ late' = {} /\ stray' = hand /\ task' = GoesOn(task, "cleared")
      /\ UNCHANGED <<feed, now, tape, up, drops, active, mark, jobs, poll, window,
                     switches, hand>>
  BY DEF SwitchClear, feedVars
<1>2. /\ agg' \in Aggs /\ ~agg'.buffering /\ agg'.buf = <<>>
      /\ Len(agg'.buf) <= MaxBuf
      /\ agg'.minute = Empty /\ agg'.sub = Empty
      /\ agg'.last = NoSymbol /\ agg'.quote = NoSymbol
  BY <1>1, ResetIs
<1> HIDE DEF Empty
<1>3. /\ task' \in Tasks /\ task'.at = "cleared" /\ task'.who = task.who
      /\ task'.symbol = task.symbol /\ task'.prev = task.prev
  BY <1>1, GoesOnIs, TypeIs DEF Base, Steps
<1>4. TypeOK'
  BY <1>1, <1>2, <1>3, Constant, TypeIs, TypeIsNext DEF Base
<1>5. Handy(hand)' /\ Handy(stray)' /\ (hand' # NoHand => up' /\ feed' = "sip")
  BY <1>1 DEF Base, Stage, Handy
<1>6. Stage'
  BY <1>1, <1>2, <1>3, <1>5, Constant DEF Base, Stage, Busy
<1> QED BY <1>2, <1>3, <1>4, <1>6 DEF Base

LEMMA OpenBase ==
  ASSUME Base, SwitchOpen
  PROVE  Base'
<1>1. /\ task.at = "cleared" /\ agg' = Opened(agg)
      /\ active' = task.symbol /\ task' = GoesOn(task, "armed")
      /\ UNCHANGED <<feed, now, tape, up, drops, mark, jobs, poll, window, whole,
                     lost, switches, hand, stray, late>>
  BY DEF SwitchOpen, feedVars, wire
<1>2. /\ agg' \in Aggs /\ agg'.buffering /\ Len(agg'.buf) <= MaxBuf
  BY <1>1, OpenedIs, TypeIs DEF Base
<1>3. /\ task' \in Tasks /\ task'.at = "armed" /\ task'.who = task.who
      /\ task'.symbol = task.symbol /\ task'.prev = task.prev
  BY <1>1, GoesOnIs, TypeIs DEF Base, Steps
<1>4. task.symbol \in Symbols
  BY <1>1 DEF Base, Stage
<1>5. TypeOK'
  BY <1>1, <1>2, <1>3, <1>4, Constant, TypeIs, TypeIsNext DEF Base
<1>7. Handy(hand)' /\ Handy(stray)' /\ (hand' # NoHand => up' /\ feed' = "sip")
  BY <1>1 DEF Base, Stage, Handy
<1>6. Stage'
  BY <1>1, <1>2, <1>3, <1>4, <1>7, Constant DEF Base, Stage, Busy
<1> QED BY <1>5, <1>6 DEF Base

LEMMA JobBase ==
  ASSUME Base, NEW s \in Symbols, JobDropped(s) \/ JobBegin(s)
  PROVE  Base'
<1>1. CASE JobDropped(s)
  <2>1. /\ jobs' = jobs \ {s}
        /\ whole' = IF s = active THEN {} ELSE whole
        /\ UNCHANGED <<feed, now, tape, up, drops, active, mark, task, agg, poll,
                       window, lost, switches, hand, stray, late>>
    BY <1>1 DEF JobDropped, feedVars, wire
  <2>2. TypeOK'
    BY <2>1, TypeIs, TypeIsNext DEF Base
  <2>3. Stage'
    BY <2>1 DEF Base, Stage, Handy
  <2> QED BY <2>2, <2>3 DEF Base
<1>2. CASE JobBegin(s)
  <2>1. /\ Idle /\ s = active /\ jobs' = jobs \ {s}
        /\ task' = Task("backfill", s, NoSymbol, "armed")
        /\ agg' = BeginBackfill(agg)
        /\ UNCHANGED <<feed, now, tape, up, drops, active, mark, poll, window,
                       whole, lost, switches, hand, stray, late>>
    BY <1>2 DEF JobBegin, feedVars, wire
  <2>2. /\ task' \in Tasks /\ task'.who = "backfill" /\ task'.symbol = s
        /\ task'.at = "armed"
    BY <2>1, Constant, NewTaskIs DEF Steps
  <2>3. /\ agg' \in Aggs /\ agg'.buffering /\ Len(agg'.buf) <= MaxBuf
    BY <2>1, BeginBackfillIs, TypeIs DEF Base
  <2>4. TypeOK'
    BY <2>1, <2>2, <2>3, TypeIs, TypeIsNext DEF Base
  <2>5. Stage'
    BY <2>1, <2>2, <2>3, Constant DEF Base, Stage, Busy, Handy
  <2> QED BY <2>4, <2>5 DEF Base
<1> QED BY <1>1, <1>2

LEMMA StampBase ==
  ASSUME Base, StampReqEnd
  PROVE  /\ Base'
         /\ task'.at = "bars" /\ task'.reqEnd = now /\ task'.symbol = task.symbol
<1>1. /\ task.at = "armed" /\ task' = [GoesOn(task, "bars") EXCEPT !.reqEnd = now]
      /\ UNCHANGED <<feed, now, tape, up, drops, active, mark, jobs, agg, poll,
                     window, whole, lost, switches, hand, stray, late>>
  BY DEF StampReqEnd, feedVars, wire
<1>2. /\ task' \in Tasks /\ task'.at = "bars" /\ task'.who = task.who
      /\ task'.symbol = task.symbol /\ task'.prev = task.prev
      /\ task'.reqEnd = now
  <2>1. task \in Tasks /\ now \in Time /\ "bars" \in Steps
    BY TypeIs DEF Base, Steps
  <2> DEFINE g == GoesOn(task, "bars")
  <2>2. /\ g \in Tasks /\ g.at = "bars" /\ g.who = task.who
        /\ g.symbol = task.symbol /\ g.prev = task.prev
        /\ g.reqEnd = task.reqEnd
    BY <2>1, GoesOnIs
  <2>3. task' = [g EXCEPT !.reqEnd = now]
    BY <1>1
  <2> HIDE DEF g
  <2> QED BY <2>1, <2>2, <2>3, ReqEndIs
<1>3. TypeOK'
  BY <1>1, <1>2, TypeIs, TypeIsNext DEF Base
<1>4. Stage'
  BY <1>1, <1>2 DEF Base, Stage, Busy, Handy
<1> QED BY <1>2, <1>3, <1>4 DEF Base

LEMMA BarsBase ==
  ASSUME Base, LoadBars
  PROVE  /\ Base'
         /\ task'.at = "trades" /\ task'.symbol = task.symbol
         /\ task'.reqEnd = task.reqEnd /\ task'.tradeEnd = now
         /\ agg'.sub = agg.sub /\ agg'.buf = agg.buf
         /\ agg'.last = agg.last /\ agg'.quote = agg.quote
         /\ task'.served \in task.reqEnd..now
         /\ LET hist == Listed(task.symbol, 0, task'.served) IN
            \/ /\ agg'.minute = IF hist = {} THEN agg.minute ELSE Once(hist)
               /\ whole' = whole \cup {"minute"}
            \/ agg'.minute = Empty /\ whole' = whole \ {"minute"}
<1>0. PICK served \in task.reqEnd..now :
        /\ task' = [GoesOn(task, "trades") EXCEPT !.served = served,
                                                  !.tradeEnd = now]
        /\ LET hist == Listed(task.symbol, 0, served) IN
           \/ /\ agg' = IF hist = {} THEN agg
                        ELSE [agg EXCEPT !.minute = Once(hist)]
              /\ whole' = whole \cup {"minute"}
           \/ /\ agg' = [agg EXCEPT !.minute = Empty]
              /\ whole' = whole \ {"minute"}
  BY DEF LoadBars
<1> DEFINE hist == Listed(task.symbol, 0, served)
<1>1. /\ task.at = "bars"
      /\ \/ /\ agg' = IF hist = {} THEN agg ELSE [agg EXCEPT !.minute = Once(hist)]
            /\ whole' = whole \cup {"minute"}
         \/ /\ agg' = [agg EXCEPT !.minute = Empty]
            /\ whole' = whole \ {"minute"}
      /\ UNCHANGED <<feed, now, tape, up, drops, active, mark, jobs, poll, window,
                     lost, switches, hand, stray, late>>
  BY <1>0 DEF LoadBars, feedVars, wire
<1> HIDE DEF hist
<1>2. /\ task' \in Tasks /\ task'.at = "trades" /\ task'.who = task.who
      /\ task'.symbol = task.symbol /\ task'.prev = task.prev
      /\ task'.reqEnd = task.reqEnd /\ task'.served = served
      /\ task'.tradeEnd = now
  <2>1. task \in Tasks /\ now \in Time /\ "trades" \in Steps
    BY TypeIs DEF Base, Steps
  <2>4. served \in Time
    BY <2>1, Constant DEF Tasks, Time
  <2> DEFINE g == GoesOn(task, "trades")
  <2>2. /\ g \in Tasks /\ g.at = "trades" /\ g.who = task.who
        /\ g.symbol = task.symbol /\ g.prev = task.prev
        /\ g.reqEnd = task.reqEnd
    BY <2>1, GoesOnIs
  <2> DEFINE f == [g EXCEPT !.served = served]
  <2>3. task' = [f EXCEPT !.tradeEnd = now]
    BY <1>0
  <2> HIDE DEF g
  <2>5. /\ f \in Tasks /\ f.at = "trades" /\ f.who = task.who
        /\ f.symbol = task.symbol /\ f.prev = task.prev
        /\ f.reqEnd = task.reqEnd /\ f.served = served
    BY <2>2, <2>4, ServedIs
  <2> HIDE DEF f
  <2> QED BY <2>1, <2>3, <2>5, TradeEndIs
<1>3. Empty \in Series /\ Once(hist) \in Series
  BY OnceIs DEF Empty, Series
<1> HIDE DEF Empty
<1>4. agg \in Aggs /\ Len(agg.buf) <= MaxBuf
  BY TypeIs DEF Base
<1> DEFINE full == [agg EXCEPT !.minute = Once(hist)]
           none == [agg EXCEPT !.minute = Empty]
<1>9. /\ full \in Aggs /\ full.minute = Once(hist) /\ full.sub = agg.sub
      /\ full.quote = agg.quote /\ full.buffering = agg.buffering
      /\ full.buf = agg.buf /\ full.last = agg.last
  BY <1>3, <1>4, MinuteIs
<1>10. /\ none \in Aggs /\ none.minute = Empty /\ none.sub = agg.sub
       /\ none.quote = agg.quote /\ none.buffering = agg.buffering
       /\ none.buf = agg.buf /\ none.last = agg.last
  BY <1>3, <1>4, MinuteIs
<1>11. \/ /\ agg' = IF hist = {} THEN agg ELSE full
          /\ whole' = whole \cup {"minute"}
       \/ agg' = none /\ whole' = whole \ {"minute"}
  BY <1>1
<1> HIDE DEF full, none
<1>5. /\ agg' \in Aggs /\ agg'.buffering = agg.buffering
      /\ agg'.sub = agg.sub /\ agg'.buf = agg.buf
      /\ agg'.last = agg.last /\ agg'.quote = agg.quote
  BY <1>4, <1>9, <1>10, <1>11
<1>6. \/ /\ agg'.minute = IF hist = {} THEN agg.minute ELSE Once(hist)
         /\ whole' = whole \cup {"minute"}
      \/ agg'.minute = Empty /\ whole' = whole \ {"minute"}
  BY <1>9, <1>10, <1>11
<1>12. task'.served \in task.reqEnd..now /\ hist = Listed(task.symbol, 0, task'.served)
  BY <1>2 DEF hist
<1>7. TypeOK'
  BY <1>1, <1>2, <1>4, <1>5, TypeIs, TypeIsNext DEF Base
<1>8. Stage'
  BY <1>1, <1>2, <1>5 DEF Base, Stage, Busy, Handy
<1> QED BY <1>2, <1>5, <1>6, <1>7, <1>8, <1>12 DEF Base

LEMMA FailedBase ==
  ASSUME Base, BarsFailed
  PROVE  Base'
<1>1. /\ agg' = EndBackfill(agg, 0, 0) /\ task' = NoTask /\ whole' = {}
      /\ task.at = "bars"
      /\ UNCHANGED <<feed, now, tape, up, drops, active, mark, jobs, poll, window,
                     lost, switches, hand, stray, late>>
  BY DEF BarsFailed, feedVars, wire
<1>2. agg' \in Aggs /\ ~agg'.buffering /\ Len(agg'.buf) <= MaxBuf
  BY <1>1, Constant, EndBackfillIs, TypeIs DEF Base
<1>3. TypeOK'
  BY <1>1, <1>2, NoTaskIs, TypeIs, TypeIsNext DEF Base
<1>4. Stage'
  BY <1>1, <1>2, NoTaskIs DEF Base, Stage, Busy, Handy
<1> QED BY <1>3, <1>4 DEF Base

LEMMA RollBackBase ==
  ASSUME Base, RollBack
  PROVE  Base'
<1>1. /\ task.at = "bars" /\ task.who = "switch"
      /\ active' = task.prev /\ agg' = ResetMarket(agg)
      /\ whole' = {} /\ lost' = {} /\ late' = {} /\ stray' = hand
      /\ mark' = NoMark /\ jobs' = jobs \cup {task.prev} /\ task' = NoTask
      /\ UNCHANGED <<feed, now, tape, up, drops, poll, window, switches, hand>>
  BY DEF RollBack, feedVars
<1>2. agg' \in Aggs /\ ~agg'.buffering /\ Len(agg'.buf) <= MaxBuf
  BY <1>1, ResetIs
<1>3. task.prev \in Symbols /\ NoMark \in [symbol: Tape, at: Time]
  BY <1>1, Constant DEF Base, Stage, NoMark
<1>4. TypeOK'
  BY <1>1, <1>2, <1>3, Constant, NoTaskIs, TypeIs, TypeIsNext DEF Base
<1>5. Handy(hand)' /\ Handy(stray)' /\ (hand' # NoHand => up' /\ feed' = "sip")
  BY <1>1 DEF Base, Stage, Handy
<1>6. Stage'
  BY <1>1, <1>2, <1>3, <1>5, Constant, NoTaskIs DEF Stage, Busy
<1> QED BY <1>4, <1>6 DEF Base

LEMMA ReplayBase ==
  ASSUME Base, Replay
  PROVE  /\ Base'
         /\ task'.at = "drain" /\ task'.symbol = task.symbol
         /\ task'.reqEnd = task.reqEnd /\ task'.served = task.served
         /\ task'.tradeEnd = task.tradeEnd
         /\ agg'.minute = agg.minute /\ agg'.buf = agg.buf
         /\ agg'.last = agg.last /\ agg'.quote = agg.quote
         /\ \/ /\ agg'.sub = Once(Listed(task.symbol, 0, Floor(task.tradeEnd)))
               /\ whole' = whole \cup {"sub"}
            \/ agg'.sub = Once({}) /\ whole' = whole \ {"sub"}
<1> DEFINE hist == Listed(task.symbol, 0, Floor(task.tradeEnd))
<1>1. /\ task.at = "trades"
      /\ \/ agg' = ReplayTrades(agg, hist) /\ whole' = whole \cup {"sub"}
         \/ agg' = ReplayTrades(agg, {}) /\ whole' = whole \ {"sub"}
      /\ mark' = [symbol |-> task.symbol, at |-> HighWater]
      /\ task' = GoesOn(task, "drain")
      /\ UNCHANGED <<feed, now, tape, up, drops, active, jobs, poll, window, lost,
                     switches, hand, stray, late>>
  BY DEF Replay, feedVars, wire
<1> HIDE DEF hist
<1>2. /\ task' \in Tasks /\ task'.at = "drain" /\ task'.who = task.who
      /\ task'.symbol = task.symbol /\ task'.prev = task.prev
      /\ task'.reqEnd = task.reqEnd /\ task'.served = task.served
      /\ task'.tradeEnd = task.tradeEnd
  BY <1>1, GoesOnIs, TypeIs DEF Base, Steps
<1>3. agg \in Aggs /\ Len(agg.buf) <= MaxBuf
  BY TypeIs DEF Base
<1>4. /\ agg' \in Aggs /\ agg'.buffering = agg.buffering
      /\ agg'.minute = agg.minute /\ agg'.buf = agg.buf
      /\ agg'.last = agg.last /\ agg'.quote = agg.quote
      /\ \/ agg'.sub = Once(hist) /\ whole' = whole \cup {"sub"}
         \/ agg'.sub = Once({}) /\ whole' = whole \ {"sub"}
  BY <1>1, <1>3, ReplayIs
<1>5. mark' \in [symbol: Tape, at: Time]
  BY <1>1, TypeIs DEF Base, HighWater, Tasks
<1>6. TypeOK'
  BY <1>1, <1>2, <1>3, <1>4, <1>5, TypeIs, TypeIsNext DEF Base
<1>7. Stage'
  BY <1>1, <1>2, <1>4 DEF Base, Stage, Busy, Handy
<1> QED BY <1>2, <1>4, <1>6, <1>7 DEF Base, hist

LEMMA DrainBase ==
  ASSUME Base, Drain
  PROVE  Base'
<1>1. /\ task.at = "drain"
      /\ agg' = EndBackfill(agg, task.tradeEnd, task.reqEnd)
      /\ window' = [reqEnd |-> task.reqEnd, served |-> task.served,
                    tradeEnd |-> task.tradeEnd]
      /\ late' = IF hand.kind = "trade" THEN {HeldPrint(hand)} ELSE {}
      /\ task' = NoTask
      /\ UNCHANGED <<feed, now, tape, up, drops, active, mark, jobs, poll, whole,
                     lost, switches, hand, stray>>
  BY DEF Drain, feedVars
<1>2. agg' \in Aggs /\ ~agg'.buffering /\ Len(agg'.buf) <= MaxBuf
  BY <1>1, Constant, EndBackfillIs, TypeIs DEF Base
<1>3. window' \in WindowSet /\ late' \subseteq Prints
  BY <1>1, HeldIs, TypeIs DEF Base, Tasks, WindowSet
<1>4. TypeOK'
  BY <1>1, <1>2, <1>3, NoTaskIs, TypeIs, TypeIsNext DEF Base
<1>5. Stage'
  BY <1>1, <1>2, NoTaskIs DEF Base, Stage, Busy, Handy
<1> QED BY <1>4, <1>5 DEF Base

\* The poller.
LEMMA PollBase ==
  ASSUME Base, PollBegin \/ PollFailed \/ PollQuote \/ PollApply \/ PollEnd
  PROVE  Base'
<1>1. /\ UNCHANGED <<feed, now, tape, up, drops, active, mark, jobs, task, window,
                     whole, switches, hand, stray, late>>
  BY DEF PollBegin, PollFailed, PollQuote, PollApply, PollEnd, feedVars, wire
<1>2. /\ poll \in Polls /\ agg \in Aggs /\ Len(agg.buf) <= MaxBuf
      /\ lost \subseteq Prints /\ agg.buf \in Seq(Prints)
  BY TypeIs DEF Base, Aggs
<1>3. poll.cursor \in Time /\ poll.from \in Time /\ poll.symbol \in Tape
      /\ poll.batch \subseteq Prints
  BY <1>2 DEF Polls
<1>4. /\ poll' \in Polls
      /\ agg' \in Aggs /\ Len(agg'.buf) <= MaxBuf
      /\ agg'.buffering = agg.buffering
      /\ lost' \subseteq Prints
  <2>1. CASE PollBegin
    <3> DEFINE kept == IF poll.symbol = active THEN poll.cursor ELSE 0
               from == Later(kept, MarkFor(active))
               batch == Listed(active, from, Floor(now))
    <3>1. /\ poll' = [symbol |-> active, cursor |-> kept, at |-> "fetched",
                      from |-> from, batch |-> batch]
          /\ UNCHANGED <<agg, lost>>
      BY <2>1 DEF PollBegin
    <3>2. kept \in Time /\ from \in Time
      BY <1>3, Constant, TypeIs DEF Base, MarkFor, Later
    <3>3. batch \in SUBSET Prints
      BY TypeIs DEF Base, Listed
    <3> HIDE DEF kept, from, batch
    <3>4. poll' \in Polls
      BY <3>1, <3>2, <3>3, TypeIs DEF Base, Polls
    <3> QED BY <1>2, <3>1, <3>4
  <2>2. CASE PollFailed
    BY <1>2, <1>3, <2>2, RestingIs DEF PollFailed
  <2>3. CASE PollQuote
    <3>1. poll' = [poll EXCEPT !.at = "apply"] /\ UNCHANGED lost
      BY <2>3 DEF PollQuote
    <3>2. poll' \in Polls
      BY <1>2, <3>1 DEF Polls
    <3>3. agg' \in Aggs /\ agg'.buf = agg.buf /\ agg'.buffering = agg.buffering
      <4> DEFINE b == [agg EXCEPT !.quote = poll.symbol]
      <4>1. b \in Aggs /\ b.buf = agg.buf /\ b.buffering = agg.buffering
        BY <1>2, <1>3, QuoteIs
      <4>2. agg' = agg \/ agg' = b
        BY <2>3 DEF PollQuote
      <4> HIDE DEF b
      <4> QED BY <1>2, <4>1, <4>2
    <3> QED BY <1>2, <3>1, <3>2, <3>3
  <2>4. CASE PollApply
    <3>1. PICK p \in poll.batch :
            /\ agg' = OnTrade(agg, p)
            /\ lost' = lost \cup {agg.buf[i] : i \in 1..Dropped(agg)}
            /\ poll' = [[poll EXCEPT !.batch = @ \ {p}] EXCEPT !.from = p.ts]
      BY <2>4 DEF PollApply
    <3>2. p \in Prints /\ p.ts \in Time
      BY <1>3, Constant DEF Prints, Time
    <3>3. /\ agg' \in Aggs /\ Len(agg'.buf) <= MaxBuf
          /\ agg'.buffering = agg.buffering
      BY <1>2, <3>1, <3>2, OnTradeIs
    <3>4. \A i \in 1..Dropped(agg) : agg.buf[i] \in Prints
      BY <1>2, DroppedIs
    <3> DEFINE q == [poll EXCEPT !.batch = poll.batch \ {p}]
    <3>5. q \in Polls
      BY <1>2, <1>3 DEF Polls
    <3>6. poll' = [q EXCEPT !.from = p.ts]
      BY <3>1
    <3> HIDE DEF q
    <3>7. poll' \in Polls
      BY <3>2, <3>5, <3>6 DEF Polls
    <3> QED BY <1>2, <3>1, <3>3, <3>4, <3>7
  <2>5. CASE PollEnd
    BY <1>2, <1>3, <2>5, RestingIs DEF PollEnd, CursorAfter
  <2> QED BY <2>1, <2>2, <2>3, <2>4, <2>5
<1>5. TypeOK'
  BY <1>1, <1>4, TypeIs, TypeIsNext DEF Base
<1>6. Stage'
  BY <1>1, <1>4 DEF Base, Stage, Handy
<1> QED BY <1>5, <1>6 DEF Base

LEMMA BaseInductive == Base /\ [Next]_vars => Base'
<1> SUFFICES ASSUME Base, [Next]_vars PROVE Base'
  OBVIOUS
<1>1. ASSUME NEW s \in Symbols,
             Tick(s) \/ Quote(s) \/ SwitchPause(s) \/ JobDropped(s) \/ JobBegin(s)
      PROVE  Base'
  BY <1>1, TickBase, QuoteBase, PauseBase, JobBase
<1>2. CASE TradeFolds \/ QuoteFolds \/ Drop \/ Connect
  BY <1>2, FoldsBase, SocketBase
<1>3. CASE SwitchClear \/ SwitchOpen \/ StampReqEnd \/ LoadBars
  BY <1>3, ClearBase, OpenBase, StampBase, BarsBase
<1>4. CASE BarsFailed \/ RollBack \/ Replay \/ Drain
  BY <1>4, FailedBase, RollBackBase, ReplayBase, DrainBase
<1>5. CASE PollBegin \/ PollFailed \/ PollQuote \/ PollApply \/ PollEnd
  BY <1>5, PollBase
<1>6. CASE UNCHANGED vars
  BY <1>6 DEF vars, feedVars, wire, Base, TypeOK, Stage, Handy
<1> QED BY <1>1, <1>2, <1>3, <1>4, <1>5, <1>6 DEF Next

THEOREM TypeCorrect == Spec => []TypeOK
<1>1. Base => TypeOK
  BY DEF Base
<1> QED BY InitBase, BaseInductive, <1>1, PTL DEF Spec
-----------------------------------------------------------------------------
(* Whose prints are in the bars while the websocket streams. *)

\* Another symbol's print that got past the filter in time: it is waiting in
\* the hand (`out`), or in the buffer, or in the bars, and once at most.
Guest(a, p, out) ==
  /\ Single(a.buf, p)
  /\ out => ~Held(a.buf, p)
  /\ out \/ Held(a.buf, p) => a.minute[p] = 0 /\ a.sub[p] = 0
  /\ a.minute[p] <= 1 /\ a.sub[p] <= 1

\* Of a print of another symbol than s there is nothing in an aggregator,
\* unless it is the stray h; g is the read goroutine's hand.
Alien(a, p, h, g) ==
  IF p = HeldPrint(h) THEN Guest(a, p, g = h)
  ELSE a.minute[p] = 0 /\ a.sub[p] = 0 /\ ~Held(a.buf, p)

\* Nothing but symbol s and the stray h is in an aggregator's bars, buffer and
\* prices, and nothing else is in the hand.
Only(a, s, h, g) ==
  /\ \A p \in Prints : p.symbol # s => Alien(a, p, h, g)
  /\ a.last \in {NoSymbol, s, h.symbol} /\ a.quote \in {NoSymbol, s, h.symbol}
  /\ g.kind = "none" \/ g.symbol = s \/ g = h

\* The symbol the book is about; during the pause, until it is cleared, it
\* still is the symbol switched away from.
Owner == IF task.at = "cleared" THEN task.symbol ELSE active
StreamInv ==
  feed = "sip" =>
    /\ poll.at = "idle"
    /\ task.at # "paused" => Only(agg, Owner, stray, hand)

\* A print's hand holds that print and no other.
LEMMA HandedIs ==
  ASSUME NEW h \in Hands, NEW g \in Hands
  PROVE  /\ HeldPrint(h).symbol = h.symbol /\ HeldPrint(h).ts = h.ts
         /\ g.kind = "trade" /\ h.kind = "trade" /\ HeldPrint(g) = HeldPrint(h)
              => g = h
BY DEF HeldPrint, Hands

\* The print in the hand is folded.
LEMMA FoldedAlien ==
  ASSUME NEW a \in Aggs, Len(a.buf) <= MaxBuf, NEW g \in Hands, NEW h \in Hands,
         NEW q \in Prints, Alien(a, q, h, g),
         g.kind = "trade", HeldPrint(g) \in Prints,
         HeldPrint(g) = q => g = h
  PROVE  Alien(OnTrade(a, HeldPrint(g)), q, h, NoHand)
<1> DEFINE p == HeldPrint(g)
           b == OnTrade(a, p)
<1>1. NoHand # h \/ h.ts = 0
  BY HandIs
<1>2. q.ts # 0
  BY DEF Prints
<1>3. q = HeldPrint(h) => NoHand # h
  BY <1>1, <1>2, HandedIs
<1>4. p = q => g = h /\ q = HeldPrint(h)
  OBVIOUS
<1>5. CASE a.buffering
  <2>1. b.minute = a.minute /\ b.sub = a.sub
    BY <1>5, OnTradeIs
  <2>2. /\ Held(b.buf, q) => q = p \/ Held(a.buf, q)
        /\ Single(a.buf, q) /\ (q = p => ~Held(a.buf, q)) => Single(b.buf, q)
    BY <1>5, OnTradeHeld
  <2> HIDE DEF b, p
  <2>3. CASE q = HeldPrint(h)
    <3>1. Guest(a, q, g = h)
      BY <2>3 DEF Alien
    <3>2. CASE q = p
      BY <1>3, <1>4, <2>1, <2>2, <2>3, <3>1, <3>2 DEF Guest, Alien, b, p
    <3>3. CASE q # p
      BY <1>3, <2>1, <2>2, <2>3, <3>1, <3>3 DEF Guest, Alien, b, p
    <3> QED BY <3>2, <3>3
  <2>4. CASE q # HeldPrint(h)
    BY <1>4, <2>1, <2>2, <2>4 DEF Alien, b, p
  <2> QED BY <2>3, <2>4
<1>6. CASE ~a.buffering
  <2>1. /\ b.buf = a.buf
        /\ b.minute[q] = IF q = p THEN a.minute[q] + 1 ELSE a.minute[q]
        /\ b.sub[q] = IF q = p THEN a.sub[q] + 1 ELSE a.sub[q]
    BY <1>6, OnTradeCounted
  <2>2. a.minute[q] \in Nat /\ a.sub[q] \in Nat
    BY DEF Aggs, Series
  <2> HIDE DEF b, p
  <2>3. CASE q = HeldPrint(h)
    <3>1. Guest(a, q, g = h)
      BY <2>3 DEF Alien
    <3>2. CASE q = p
      BY <1>3, <1>4, <2>1, <2>2, <2>3, <3>1, <3>2 DEF Guest, Alien, b, p
    <3>3. CASE q # p
      BY <1>3, <2>1, <2>2, <2>3, <3>1, <3>3 DEF Guest, Alien, b, p
    <3> QED BY <3>2, <3>3
  <2>4. CASE q # HeldPrint(h)
    BY <1>4, <2>1, <2>4 DEF Alien, b, p
  <2> QED BY <2>3, <2>4
<1> QED BY <1>5, <1>6

LEMMA FoldedOnly ==
  ASSUME NEW a \in Aggs, Len(a.buf) <= MaxBuf, NEW s, NEW g \in Hands,
         NEW h \in Hands, Handy(h), Only(a, s, h, g),
         g.kind = "trade", HeldPrint(g) \in Prints
  PROVE  Only(OnTrade(a, HeldPrint(g)), s, h, NoHand)
<1> DEFINE b == OnTrade(a, HeldPrint(g))
<1>1. ASSUME NEW q \in Prints, q.symbol # s
      PROVE  Alien(b, q, h, NoHand)
  <2>1. Alien(a, q, h, g)
    BY <1>1 DEF Only
  <2>2. HeldPrint(g) = q => g = h
    BY <1>1, HandedIs DEF Only
  <2> QED BY <2>1, <2>2, FoldedAlien
<1>2. b.last = HeldPrint(g).symbol /\ b.quote = a.quote
  BY OnTradeIs
<1>3. HeldPrint(g).symbol \in {s, h.symbol} /\ NoHand.kind = "none"
  BY HandedIs, HandIs DEF Only
<1> HIDE DEF b
<1> QED BY <1>1, <1>2, <1>3 DEF Only, b

LEMMA DrainedAlien ==
  ASSUME NEW a \in Aggs, NEW p \in Prints, NEW h, NEW g, Alien(a, p, h, g),
         NEW c, NEW m
  PROVE  Alien(EndBackfill(a, c, m), p, h, g)
<1> DEFINE b == EndBackfill(a, c, m)
<1>1. /\ b.buf = <<>>
      /\ b.minute = Drained(a.minute, a.buf, m)
      /\ b.sub = Drained(a.sub, a.buf, c)
  BY EndBackfillIs
<1>2. DOMAIN <<>> = {} /\ a.minute \in Series /\ a.sub \in Series /\ a.buf \in Seq(Prints)
      /\ a.minute[p] \in Nat /\ a.sub[p] \in Nat
  BY DEF Aggs, Series
<1>3. ~Held(b.buf, p) /\ Single(b.buf, p)
  BY <1>1, <1>2 DEF Held, Single
<1>4. Single(a.buf, p)
  BY DEF Alien, Guest, Single, Held
<1>5. /\ b.minute[p] = a.minute[p] + IF p.ts > m /\ Held(a.buf, p) THEN 1 ELSE 0
      /\ b.sub[p] = a.sub[p] + IF p.ts > c /\ Held(a.buf, p) THEN 1 ELSE 0
  BY <1>1, <1>2, <1>4, DrainedIs
<1> HIDE DEF b
<1>6. CASE p = HeldPrint(h)
  <2>1. Guest(a, p, g = h)
    BY <1>6 DEF Alien
  <2>2. /\ b.minute[p] <= 1 /\ b.sub[p] <= 1
        /\ g = h => b.minute[p] = 0 /\ b.sub[p] = 0
    <3>1. CASE Held(a.buf, p)
      <4>1. a.minute[p] = 0 /\ a.sub[p] = 0 /\ ~(g = h)
        BY <2>1, <3>1 DEF Guest
      <4> QED BY <1>5, <4>1
    <3>2. CASE ~Held(a.buf, p)
      <4>1. b.minute[p] = a.minute[p] /\ b.sub[p] = a.sub[p]
        BY <1>2, <1>5, <3>2
      <4> QED BY <2>1, <4>1 DEF Guest
    <3> QED BY <3>1, <3>2
  <2>3. Guest(b, p, g = h)
    BY <1>3, <2>2 DEF Guest
  <2> QED BY <1>6, <2>3 DEF Alien, b
<1>7. CASE p # HeldPrint(h)
  <2>1. a.minute[p] = 0 /\ a.sub[p] = 0 /\ ~Held(a.buf, p)
    BY <1>7 DEF Alien
  <2>2. b.minute[p] = 0 /\ b.sub[p] = 0
    BY <1>5, <2>1
  <2> QED BY <1>3, <1>7, <2>2 DEF Alien, b
<1> QED BY <1>6, <1>7

LEMMA EndBackfillOnly ==
  ASSUME NEW a \in Aggs, NEW s, NEW h, NEW g, Only(a, s, h, g), NEW c, NEW m
  PROVE  Only(EndBackfill(a, c, m), s, h, g)
<1> DEFINE b == EndBackfill(a, c, m)
<1>1. \A p \in Prints : p.symbol # s => Alien(b, p, h, g)
  BY DrainedAlien DEF Only
<1>2. b.last = a.last /\ b.quote = a.quote
  BY EndBackfillIs
<1> HIDE DEF b
<1> QED BY <1>1, <1>2 DEF Only, b

\* An empty aggregator.
LEMMA EmptyOnly ==
  ASSUME NEW a, NEW s, NEW h
  PROVE  Only(ResetMarket(a), s, h, h)
<1> DEFINE b == ResetMarket(a)
<1>1. \A p \in Prints : Empty[p] = 0
  BY DEF Empty
<1>2. DOMAIN <<>> = {}
  OBVIOUS
<1>3. b.minute = Empty /\ b.sub = Empty /\ b.buf = <<>> /\ b.last = NoSymbol
      /\ b.quote = NoSymbol
  BY ResetIs
<1> HIDE DEF Empty, b
<1>4. ASSUME NEW p \in Prints PROVE Alien(b, p, h, h)
  <2>1. b.minute[p] = 0 /\ b.sub[p] = 0
    BY <1>1, <1>3
  <2> QED BY <1>2, <1>3, <2>1 DEF Alien, Guest, Held, Single
<1> QED BY <1>3, <1>4 DEF Only, b

LEMMA BeginBackfillOnly ==
  ASSUME NEW a \in Aggs, Len(a.buf) <= MaxBuf, NEW s, NEW h, NEW g,
         Only(a, s, h, g)
  PROVE  Only(BeginBackfill(a), s, h, g)
<1> DEFINE b == BeginBackfill(a)
<1>1. DOMAIN <<>> = {}
  OBVIOUS
<1>2. /\ b.minute = a.minute /\ b.sub = a.sub
      /\ b.last = a.last /\ b.quote = a.quote
      /\ b.buf = IF a.buffering THEN a.buf ELSE <<>>
  BY BeginBackfillIs
<1> HIDE DEF b
<1>3. ASSUME NEW p \in Prints, Alien(a, p, h, g) PROVE Alien(b, p, h, g)
  <2>1. CASE a.buffering
    BY <1>2, <1>3, <2>1 DEF Alien, Guest
  <2>2. CASE ~a.buffering
    BY <1>1, <1>2, <1>3, <2>2 DEF Alien, Guest, Held, Single
  <2> QED BY <2>1, <2>2
<1> QED BY <1>2, <1>3 DEF Only, b

\* A series of the bars is replaced by one that has none of the other symbols.
LEMMA ReplacedOnly ==
  ASSUME NEW a \in Aggs, NEW b \in Aggs, NEW s, NEW h, NEW g, Only(a, s, h, g),
         b.buf = a.buf, b.last = a.last, b.quote = a.quote,
         \A p \in Prints : p.symbol # s =>
           /\ b.minute[p] = a.minute[p] \/ b.minute[p] = 0
           /\ b.sub[p] = a.sub[p] \/ b.sub[p] = 0
  PROVE  Only(b, s, h, g)
<1>1. ASSUME NEW p \in Prints, p.symbol # s PROVE Alien(b, p, h, g)
  <2>1. /\ Alien(a, p, h, g)
        /\ b.minute[p] = a.minute[p] \/ b.minute[p] = 0
        /\ b.sub[p] = a.sub[p] \/ b.sub[p] = 0
    BY <1>1 DEF Only
  <2>2. a.minute[p] \in Nat /\ a.sub[p] \in Nat
    BY DEF Aggs, Series
  <2> QED BY <2>1, <2>2 DEF Alien, Guest
<1> QED BY <1>1 DEF Only

\* What REST lists for a symbol is about it.
LEMMA OnceOnly ==
  ASSUME NEW s, NEW after, NEW until, NEW p \in Prints, p.symbol # s
  PROVE  Once(Listed(s, after, until))[p] = 0 /\ Once({})[p] = 0
BY OnceIs DEF Listed

LEMMA StreamInitial == Init => StreamInv
<1> SUFFICES ASSUME Init PROVE Only(agg, active, stray, hand) /\ poll.at = "idle"
  BY NoTaskIs DEF StreamInv, Owner, Init
<1>1. agg = ResetMarket(agg) /\ stray = hand
  BY DEF Init, ResetMarket
<1>2. Only(ResetMarket(agg), active, hand, hand)
  BY EmptyOnly
<1> QED BY <1>1, <1>2 DEF Init, NoPoll

\* What the steps make of the one thing StreamInv says.
Kept == poll' = poll /\ (task'.at # "paused" => Only(agg', Owner', stray', hand'))

LEMMA StreamInductive == Base /\ StreamInv /\ [Next]_vars => StreamInv'
<1> SUFFICES ASSUME Base, StreamInv, [Next]_vars, feed' = "sip"
             PROVE  poll'.at = "idle" /\
                    (task'.at # "paused" => Only(agg', Owner', stray', hand'))
  BY DEF StreamInv
<1>1. feed = "sip"
  BY DEF Next, vars, feedVars, Tick, Quote, TradeFolds, QuoteFolds, SwitchPause,
         JobDropped, JobBegin, Drop, Connect, SwitchClear, SwitchOpen, StampReqEnd,
         LoadBars, BarsFailed, RollBack, Replay, Drain, PollBegin, PollFailed,
         PollQuote, PollApply, PollEnd
<1>2. poll.at = "idle" /\ (task.at # "paused" => Only(agg, Owner, stray, hand))
  BY <1>1 DEF StreamInv
<1>3. /\ agg \in Aggs /\ Len(agg.buf) <= MaxBuf
      /\ hand \in Hands /\ stray \in Hands /\ Handy(hand) /\ Handy(stray)
  BY TypeIs DEF Base, Stage
<1>4. ASSUME NEW s \in Symbols, Tick(s) \/ Quote(s) PROVE Kept
  <2>1. /\ UNCHANGED <<agg, active, task, poll, stray>> /\ hand = NoHand
        /\ \/ hand' = hand
           \/ active = s /\ hand'.symbol = s
    <3>1. Tick(s) => now + 1 \in Time
      BY Constant, TickBase DEF Prints, Time
    <3>2. 0 \in Time /\ s \in Tape
      BY Constant
    <3> QED BY <1>4, <3>1, <3>2, HandIs DEF Tick, Quote, Passes, feedVars
  <2>2. Owner' = Owner
    BY <2>1 DEF Owner
  <2>3. (hand' = hand) \/ (Owner = s /\ hand'.symbol = s) \/ task.at = "cleared"
    BY <2>1 DEF Owner
  <2>4. task.at = "cleared" => hand' = hand
    BY <2>1, Constant DEF Base, Stage
  <2>5. ASSUME task.at # "paused", NEW p \in Prints, p.symbol # Owner
        PROVE  Alien(agg, p, stray, hand')
    <3>1. Alien(agg, p, stray, NoHand)
      BY <1>2, <2>1, <2>5 DEF Only
    <3>2. CASE hand' = hand
      BY <2>1, <3>1, <3>2
    <3>3. CASE Owner = s /\ hand'.symbol = s
      <4>1. p = HeldPrint(stray) => hand' # stray
        BY <1>3, <2>5, <3>3, HandedIs
      <4>2. p = HeldPrint(stray) => Guest(agg, p, FALSE)
        BY <3>1 DEF Alien, Guest
      <4> QED BY <3>1, <4>1, <4>2 DEF Alien
    <3> QED BY <2>3, <2>4, <3>2, <3>3
  <2>6. task.at # "paused" => Only(agg, Owner, stray, hand')
    BY <1>2, <2>1, <2>3, <2>4, <2>5 DEF Only
  <2> QED BY <2>1, <2>2, <2>6 DEF Kept
<1>5. ASSUME TradeFolds \/ QuoteFolds PROVE Kept
  <2>1. /\ UNCHANGED <<active, task, poll, stray>> /\ hand' = NoHand
        /\ Owner' = Owner
    BY <1>5 DEF TradeFolds, QuoteFolds, feedVars, Owner
  <2>2. CASE TradeFolds
    <3>1. hand.kind = "trade" /\ agg' = OnTrade(agg, HeldPrint(hand))
      BY <2>2 DEF TradeFolds
    <3>2. HeldPrint(hand) \in Prints
      BY <3>1, HeldIs
    <3> QED BY <1>2, <1>3, <2>1, <3>1, <3>2, FoldedOnly DEF Kept
  <2>3. CASE QuoteFolds
    <3>1. hand.kind = "quote" /\ agg' = [agg EXCEPT !.quote = hand.symbol]
      BY <2>3 DEF QuoteFolds
    <3>2. /\ agg'.minute = agg.minute /\ agg'.sub = agg.sub /\ agg'.buf = agg.buf
          /\ agg'.last = agg.last /\ agg'.quote = hand.symbol
      BY <1>3, <3>1, QuoteIs DEF Hands
    <3>3. ASSUME NEW p \in Prints, Alien(agg, p, stray, hand)
          PROVE  Alien(agg', p, stray, NoHand)
      <4>1. p.ts # 0 /\ hand.ts = 0 /\ NoHand.ts = 0
        BY <1>3, <3>1, HandIs DEF Prints, Handy
      <4>2. p = HeldPrint(stray) => stray # hand /\ stray # NoHand
        BY <1>3, <4>1, HandedIs
      <4> QED BY <3>2, <3>3, <4>2 DEF Alien, Guest
    <3> QED BY <1>2, <2>1, <3>1, <3>2, <3>3, HandIs DEF Only, Kept
  <2> QED BY <1>5, <2>2, <2>3
<1>6. ASSUME NEW s \in Symbols, SwitchPause(s) PROVE poll' = poll /\ task'.at = "paused"
  BY <1>6 DEF SwitchPause, Task
<1>7. ASSUME NEW s \in Symbols, JobDropped(s) \/ JobBegin(s) PROVE Kept
  <2>1. /\ Idle /\ UNCHANGED <<active, poll, hand, stray>>
        /\ agg' \in {agg, BeginBackfill(agg)}
        /\ task' = task \/ task' = Task("backfill", s, NoSymbol, "armed")
    BY <1>7 DEF JobDropped, JobBegin, feedVars, wire
  <2>2. Owner = active /\ Owner' = active /\ task.at # "paused"
    BY <2>1, NoTaskIs DEF Idle, Owner, Task
  <2>3. Only(agg, active, stray, hand)
    BY <1>2, <2>2
  <2> QED BY <1>3, <2>1, <2>2, <2>3, BeginBackfillOnly DEF Kept
<1>8. ASSUME Drop \/ Connect PROVE Kept
  BY <1>2, <1>8 DEF Drop, Connect, wire, Kept, Owner
<1>9. ASSUME SwitchClear \/ RollBack PROVE Kept
  <2>1. agg' = ResetMarket(agg) /\ stray' = hand /\ hand' = hand /\ poll' = poll
    BY <1>9 DEF SwitchClear, RollBack, feedVars
  <2>2. Only(ResetMarket(agg), Owner', hand, hand)
    BY EmptyOnly
  <2> QED BY <2>1, <2>2 DEF Kept
<1>16. ASSUME SwitchOpen PROVE Kept
  <2>1. /\ agg' = BeginBackfill(agg) /\ task.at = "cleared" /\ active' = task.symbol
        /\ UNCHANGED <<poll, hand, stray>> /\ task' = GoesOn(task, "armed")
    BY <1>16 DEF SwitchOpen, Opened, wire
  <2>2. task'.at = "armed"
    BY <2>1, GoesOnIs, TypeIs DEF Base, Steps
  <2>3. Owner = task.symbol /\ Owner' = task.symbol
    BY <2>1, <2>2 DEF Owner
  <2> QED BY <1>2, <1>3, <2>1, <2>3, BeginBackfillOnly DEF Kept
<1>10. ASSUME StampReqEnd PROVE Kept
  <2>1. UNCHANGED <<poll, agg, active, hand, stray>> /\ task.at = "armed"
    BY <1>10 DEF StampReqEnd, feedVars, wire
  <2>2. task'.at = "bars"
    BY <1>10, StampBase
  <2> QED BY <1>2, <2>1, <2>2 DEF Kept, Owner
<1>11. ASSUME LoadBars PROVE Kept
  <2>1. UNCHANGED <<poll, active, hand, stray>> /\ task.at = "bars"
    BY <1>11 DEF LoadBars, feedVars, wire
  <2>2. /\ task.symbol = active /\ Owner = active /\ task'.at = "trades"
        /\ agg' \in Aggs
    BY <1>11, <2>1, BarsBase, TypeIsNext DEF Base, Stage, Busy, Owner
  <2>3. /\ agg'.sub = agg.sub /\ agg'.buf = agg.buf
        /\ agg'.last = agg.last /\ agg'.quote = agg.quote
        /\ agg'.minute \in {agg.minute, Once(Listed(task.symbol, 0, task'.served)), Empty}
    BY <1>11, BarsBase
  <2>4. \A p \in Prints : p.symbol # active =>
          \/ agg'.minute[p] = agg.minute[p]
          \/ agg'.minute[p] = 0
    BY <2>2, <2>3, OnceOnly DEF Empty
  <2>5. Only(agg, active, stray, hand)
    BY <1>2, <2>1, <2>2
  <2>6. Only(agg', active, stray, hand)
    BY <1>3, <2>2, <2>3, <2>4, <2>5, ReplacedOnly
  <2> QED BY <2>1, <2>2, <2>6 DEF Kept, Owner
<1>12. ASSUME BarsFailed \/ Drain PROVE Kept
  <2>1. /\ UNCHANGED <<poll, active, hand, stray>> /\ task.at \in {"bars", "drain"}
        /\ agg' \in {EndBackfill(agg, 0, 0), EndBackfill(agg, task.tradeEnd, task.reqEnd)}
        /\ task' = NoTask
    BY <1>12 DEF BarsFailed, Drain, feedVars, wire
  <2>2. Owner = active /\ Owner' = active
    BY <2>1, NoTaskIs DEF Owner
  <2>3. Only(agg, active, stray, hand)
    BY <1>2, <2>1, <2>2
  <2> QED BY <1>3, <2>1, <2>2, <2>3, EndBackfillOnly DEF Kept
<1>13. ASSUME Replay PROVE Kept
  <2>1. UNCHANGED <<poll, active, hand, stray>> /\ task.at = "trades"
    BY <1>13 DEF Replay, feedVars, wire
  <2>2. /\ task.symbol = active /\ Owner = active /\ task'.at = "drain"
        /\ agg' \in Aggs
    BY <1>13, <2>1, ReplayBase, TypeIsNext DEF Base, Stage, Busy, Owner
  <2>3. /\ agg'.minute = agg.minute /\ agg'.buf = agg.buf
        /\ agg'.last = agg.last /\ agg'.quote = agg.quote
        /\ agg'.sub \in {Once(Listed(task.symbol, 0, Floor(task.tradeEnd))), Once({})}
    BY <1>13, ReplayBase
  <2>4. ASSUME NEW p \in Prints, p.symbol # active PROVE agg'.sub[p] = 0
    <3>1. /\ Once(Listed(task.symbol, 0, Floor(task.tradeEnd)))[p] = 0
          /\ Once({})[p] = 0
      BY <2>2, <2>4, OnceOnly
    <3> QED BY <2>3, <3>1
  <2>5. Only(agg, active, stray, hand)
    BY <1>2, <2>1, <2>2
  <2>6. Only(agg', active, stray, hand)
    BY <1>3, <2>2, <2>3, <2>4, <2>5, ReplacedOnly
  <2> QED BY <2>1, <2>2, <2>6 DEF Kept, Owner
<1>14. ~(PollBegin \/ PollFailed \/ PollQuote \/ PollApply \/ PollEnd)
  BY <1>1, <1>2 DEF PollBegin, PollFailed, PollQuote, PollApply, PollEnd
<1>15. ASSUME UNCHANGED vars PROVE Kept
  BY <1>2, <1>15 DEF vars, feedVars, wire, Kept, Owner
<1> QED BY <1>2, <1>4, <1>5, <1>6, <1>7, <1>8, <1>9, <1>10, <1>11, <1>12, <1>13,
           <1>14, <1>15, <1>16 DEF Next, Kept

\* StreamOnlyActive: while the websocket streams, the one thing of another
\* symbol in the bars, in the buffer or in the prices orders are placed from
\* is the message that was past the filter when the book was last cleared, and
\* it counts once at most.
THEOREM OnlyActiveShown == Spec => []StreamOnlyActive
<1> DEFINE I == Base /\ StreamInv
<1>1. Init => I
  BY InitBase, StreamInitial
<1>2. I /\ [Next]_vars => I'
  BY BaseInductive, StreamInductive
<1>3. I => StreamOnlyActive
  <2> SUFFICES ASSUME Base, StreamInv, feed = "sip", active # NoSymbol
               PROVE  StreamOnlyActive
    BY DEF StreamOnlyActive
  <2>1. Only(agg, active, stray, hand)
    BY DEF StreamInv, Owner, Base, Stage
  <2>2. ASSUME NEW p \in Prints, p.symbol # active
        PROVE  /\ agg.minute[p] + agg.sub[p] = 0 \/ p = HeldPrint(stray)
               /\ agg.minute[p] <= 1 /\ agg.sub[p] <= 1
    <3>1. Alien(agg, p, stray, hand)
      BY <2>1, <2>2 DEF Only
    <3> QED BY <3>1 DEF Alien, Guest
  <2>3. ASSUME NEW i \in DOMAIN agg.buf
        PROVE  agg.buf[i].symbol = active \/ agg.buf[i] = HeldPrint(stray)
    <3>1. agg.buf[i] \in Prints
      BY <2>3, TypeIs DEF Base, Aggs
    <3>2. Held(agg.buf, agg.buf[i])
      BY <2>3 DEF Held
    <3>3. agg.buf[i].symbol # active => Alien(agg, agg.buf[i], stray, hand)
      BY <2>1, <3>1 DEF Only
    <3> QED BY <3>2, <3>3 DEF Alien
  <2> QED BY <2>1, <2>2, <2>3 DEF StreamOnlyActive, Only
<1> QED BY <1>1, <1>2, <1>3, PTL DEF Spec
-----------------------------------------------------------------------------
(* How often a print is in the bars while the websocket streams. *)

\* The print in the read goroutine's hand, and the prints that got past it.
Waiting(p) == hand.kind = "trade" /\ HeldPrint(hand) = p
Reached == {p \in tape : ~Waiting(p)}

\* The tape is of the past, and the print in the hand is its last.
Stamped ==
  /\ \A p \in tape : p.ts <= now
  /\ \A p \in Reached, q \in tape : Waiting(q) => p.ts < q.ts

\* No print is in an aggregator before it is on the tape T, nor in the buffer
\* before it reached it, and the buffer keeps the tape's order.
From(a, T, R) ==
  /\ \A p \in Prints : p \notin T => a.minute[p] = 0 /\ a.sub[p] = 0
  /\ \A i \in DOMAIN a.buf : a.buf[i] \in R
  /\ \A i, j \in DOMAIN a.buf : i < j => a.buf[i].ts < a.buf[j].ts

\* The ends of the two windows are read off the clock in turn.
Windows ==
  /\ task.at \in {"bars", "trades", "drain"} => task.reqEnd <= now
  /\ task.at \in {"trades", "drain"} =>
       /\ task.reqEnd <= task.served /\ task.served <= now
       /\ task.reqEnd <= task.tradeEnd /\ task.tradeEnd <= now

\* Every print of the active symbol is streamed: a drop of the websocket
\* leaves a job behind.
Covered == up /\ active \notin jobs

\* What is later than the bar window is in the buffer, or on its way there.
Buffered ==
  Covered /\ task.at \in {"bars", "trades", "drain"} =>
    \A p \in Own \ lost :
      p.ts > task.reqEnd => Held(agg.buf, p) \/ Waiting(p)

\* Before the bars are loaded nothing after reqEnd is in them; after that,
\* exactly what was there when the request was served.
MinuteLoaded ==
  /\ task.at = "bars" =>
       \A p \in Prints : p.ts > task.reqEnd => agg.minute[p] = 0
  /\ task.at \in {"trades", "drain"} /\ "minute" \in whole =>
       \A p \in Own : agg.minute[p] = IF p.ts <= task.served THEN 1 ELSE 0

SubLoaded ==
  task.at = "drain" /\ "sub" \in whole =>
    \A p \in Own : agg.sub[p] = IF p.ts <= Floor(task.tradeEnd) THEN 1 ELSE 0

\* How often a print of the active symbol counts once it got past the hand
\* (n = 1), and one short of that while it waits there (n = 0).
MinuteTimes(p, n) ==
  \/ agg.minute[p] = n
  \/ agg.minute[p] = n + 1 /\ (InPartialBar(p) \/ p \in late)
SubTimes(p, n) ==
  \/ agg.sub[p] = n
  \/ agg.sub[p] = 0 /\ InCutSecond(p)
  \/ agg.sub[p] = n + 1 /\ p \in late

\* StreamOnce, of a symbol no backfill waits for.
SettledOnce ==
  Idle /\ Covered =>
    \A p \in Own \ lost :
      /\ "minute" \in whole =>
           IF Waiting(p) THEN MinuteTimes(p, 0) ELSE MinuteTimes(p, 1)
      /\ "sub" \in whole =>
           IF Waiting(p) THEN SubTimes(p, 0) ELSE SubTimes(p, 1)

Counts ==
  Stamped /\ From(agg, tape, Reached) /\ Windows /\ Buffered /\ MinuteLoaded
  /\ SubLoaded /\ SettledOnce

CountInv == feed = "sip" => Counts

LEMMA FloorIs == ASSUME NEW t \in Time PROVE Floor(t) \in Nat /\ Floor(t) <= t
<1>1. t \in Nat /\ TicksPerSecond \in Nat \ {0}
  BY Constant DEF Time
<1>2. t % TicksPerSecond \in 0..(TicksPerSecond - 1) /\ t % TicksPerSecond <= t
  BY <1>1
<1> QED BY <1>1, <1>2 DEF Floor

\* A print is buffered at most once.
LEMMA FromDistinct ==
  ASSUME NEW a \in Aggs, NEW T, NEW R, R \subseteq Prints, From(a, T, R)
  PROVE  \A p : Single(a.buf, p)
<1> SUFFICES ASSUME NEW i \in DOMAIN a.buf, NEW j \in DOMAIN a.buf,
                    a.buf[i] = a.buf[j], i # j
             PROVE  FALSE
  BY DEF Single
<1>1. i \in Nat /\ j \in Nat /\ a.buf[i] \in Prints
  BY DEF Aggs
<1>2. a.buf[i].ts \in Nat
  BY <1>1, Constant DEF Prints
<1>3. i < j \/ j < i
  BY <1>1
<1> QED BY <1>2, <1>3 DEF From

\* The tape grows.
LEMMA FromMore ==
  ASSUME NEW a, NEW T, NEW U, NEW R, NEW S, From(a, T, R), T \subseteq U,
         R \subseteq S
  PROVE  From(a, U, S)
BY DEF From

\* The next print of the tape.
LEMMA OnTradeFrom ==
  ASSUME NEW a \in Aggs, Len(a.buf) <= MaxBuf, NEW T, NEW R, From(a, T, R),
         NEW p \in Prints, p \in T, \A q \in R : q.ts < p.ts
  PROVE  From(OnTrade(a, p), T, R \cup {p})
<1> DEFINE b == OnTrade(a, p)
<1>2. CASE a.buffering
  <2> DEFINE d == Dropped(a)
             n == Len(a.buf) - d
  <2>1. /\ b.minute = a.minute /\ b.sub = a.sub
        /\ d \in Nat /\ n \in Nat
        /\ DOMAIN b.buf = 1..(n + 1) /\ b.buf[n + 1] = p
        /\ \A i \in 1..n : d + i \in DOMAIN a.buf /\ b.buf[i] = a.buf[d + i]
    BY <1>2, OnTradeBuffered
  <2> HIDE DEF b, d, n
  <2>2. \A i \in 1..(n + 1) : i \in Nat /\ (i \in 1..n \/ i = n + 1)
    BY <2>1
  <2>3. \A i \in 1..n : b.buf[i] \in R
    BY <2>1 DEF From
  <2>4. ASSUME NEW i \in 1..(n + 1), NEW j \in 1..(n + 1), i < j
        PROVE  b.buf[i].ts < b.buf[j].ts
    <3>1. i \in 1..n
      BY <2>1, <2>4
    <3>2. CASE j = n + 1
      BY <2>1, <2>3, <3>1, <3>2
    <3>3. CASE j \in 1..n
      <4>1. d + i < d + j
        BY <2>1, <2>2, <2>4
      <4>2. /\ d + i \in DOMAIN a.buf /\ b.buf[i] = a.buf[d + i]
            /\ d + j \in DOMAIN a.buf /\ b.buf[j] = a.buf[d + j]
        BY <2>1, <3>1, <3>3
      <4> QED BY <4>1, <4>2 DEF From
    <3> QED BY <2>2, <3>2, <3>3
  <2>5. \A i \in 1..(n + 1) : b.buf[i] \in R \cup {p}
    BY <2>1, <2>2, <2>3
  <2> QED BY <2>1, <2>4, <2>5 DEF From, b
<1>3. CASE ~a.buffering
  <2>1. /\ b.buf = a.buf
        /\ \A q \in Prints :
             /\ b.minute[q] = IF q = p THEN a.minute[q] + 1 ELSE a.minute[q]
             /\ b.sub[q] = IF q = p THEN a.sub[q] + 1 ELSE a.sub[q]
    BY <1>3, OnTradeCounted
  <2> HIDE DEF b
  <2> QED BY <2>1 DEF From, b
<1> QED BY <1>2, <1>3

\* The backfill's operations add nothing that is not on the tape.
LEMMA FromBackfill ==
  ASSUME NEW a \in Aggs, Len(a.buf) <= MaxBuf, NEW T, NEW R, From(a, T, R),
         R \subseteq T, NEW c, NEW m
  PROVE  /\ From(BeginBackfill(a), T, R) /\ From(EndBackfill(a, c, m), T, R)
         /\ From(ResetMarket(a), T, R)
<1>1. DOMAIN <<>> = {}
  OBVIOUS
<1>2. From(BeginBackfill(a), T, R)
  BY <1>1, BeginBackfillIs DEF From
<1>3. From(ResetMarket(a), T, R)
  <2>1. \A p \in Prints : Empty[p] = 0
    BY DEF Empty
  <2> HIDE DEF Empty
  <2> QED BY <1>1, <2>1, ResetIs DEF From
<1>4. From(EndBackfill(a, c, m), T, R)
  <2> DEFINE b == EndBackfill(a, c, m)
  <2>1. /\ b.buf = <<>>
        /\ b.minute = Drained(a.minute, a.buf, m)
        /\ b.sub = Drained(a.sub, a.buf, c)
    BY EndBackfillIs
  <2> HIDE DEF b
  <2>2. ASSUME NEW p \in Prints, p \notin T, NEW series, NEW cutoff,
               series[p] = 0
        PROVE  Drained(series, a.buf, cutoff)[p] = 0
    <3> DEFINE S == {i \in DOMAIN a.buf : a.buf[i] = p}
    <3>1. S = {}
      BY <2>2 DEF From
    <3>2. Cardinality(S) = 0
      BY <3>1, FS_EmptySet
    <3>3. Drained(series, a.buf, cutoff)[p]
            = series[p] + IF p.ts > cutoff THEN Cardinality(S) ELSE 0
      BY DEF Drained
    <3> HIDE DEF S
    <3> QED BY <2>2, <3>2, <3>3
  <2>3. \A p \in Prints : p \notin T => b.minute[p] = 0 /\ b.sub[p] = 0
    BY <2>1, <2>2 DEF From
  <2> QED BY <1>1, <2>1, <2>3 DEF From, b
<1> QED BY <1>2, <1>3, <1>4

LEMMA OwnIs == Base => Own \subseteq tape /\ tape \subseteq Prints
BY TypeIs DEF Base, Own

\* Stages that make no claim yet about what is loaded.
LEMMA CountsEarly ==
  ASSUME Stamped', From(agg, tape, Reached)',
         task'.at \in {"paused", "cleared", "armed"}
  PROVE  Counts'
<1>1. Windows' /\ Buffered' /\ MinuteLoaded' /\ SubLoaded'
  BY DEF Windows, Buffered, MinuteLoaded, SubLoaded
<1>2. SettledOnce'
  BY NoTaskIs DEF SettledOnce, Idle
<1> QED BY <1>1, <1>2 DEF Counts

\* What the claims about a print depend on.
LEMMA TimesSame ==
  ASSUME NEW p, NEW n \in 0..1, UNCHANGED <<window, late>>,
         agg'.minute[p] = agg.minute[p], agg'.sub[p] = agg.sub[p]
  PROVE  /\ MinuteTimes(p, n) => MinuteTimes(p, n)'
         /\ SubTimes(p, n) => SubTimes(p, n)'
BY DEF MinuteTimes, SubTimes, InPartialBar, InCutSecond

LEMMA SettledSame ==
  ASSUME SettledOnce, UNCHANGED <<task, tape, active, lost, window, late>>,
         whole' \subseteq whole, Covered' => Covered \/ task.at # "idle",
         agg'.minute = agg.minute, agg'.sub = agg.sub,
         \A p : Waiting(p)' <=> Waiting(p)
  PROVE  SettledOnce'
<1> SUFFICES ASSUME Idle, Covered', NEW p \in Own, p \notin lost
             PROVE  /\ "minute" \in whole =>
                         (IF Waiting(p) THEN MinuteTimes(p, 0) ELSE MinuteTimes(p, 1))'
                    /\ "sub" \in whole =>
                         (IF Waiting(p) THEN SubTimes(p, 0) ELSE SubTimes(p, 1))'
  BY DEF SettledOnce, Idle, Own
<1>1. task.at = "idle"
  BY NoTaskIs DEF Idle
<1>2. /\ "minute" \in whole =>
           IF Waiting(p) THEN MinuteTimes(p, 0) ELSE MinuteTimes(p, 1)
      /\ "sub" \in whole => IF Waiting(p) THEN SubTimes(p, 0) ELSE SubTimes(p, 1)
  BY <1>1 DEF SettledOnce
<1>3. \A n \in 0..1 : /\ MinuteTimes(p, n) => MinuteTimes(p, n)'
                      /\ SubTimes(p, n) => SubTimes(p, n)'
  BY TimesSame
<1> HIDE DEF MinuteTimes, SubTimes, Waiting
<1> QED BY <1>2, <1>3

LEMMA TickCounts ==
  ASSUME Base, feed = "sip", Counts, NEW s \in Symbols, Tick(s)
  PROVE  Counts'
<1> DEFINE p == [symbol |-> s, ts |-> now + 1]
<1>1. /\ now' = now + 1 /\ tape' = tape \cup {p} /\ hand = NoHand
      /\ hand' = IF Passes(s) THEN Hand("trade", s, now + 1) ELSE hand
      /\ UNCHANGED <<feed, active, mark, up, jobs, task, agg, poll, window, whole,
                     lost, switches, drops, stray, late>>
  BY DEF Tick
<1>2. p \in Prints /\ p.symbol = s /\ p.ts = now + 1
  BY TickBase
<1>3. /\ now \in Nat /\ tape \subseteq Prints /\ agg \in Aggs
      /\ task \in Tasks /\ agg.buffering \in BOOLEAN
      /\ task.reqEnd \in Nat /\ task.tradeEnd \in Nat /\ task.served \in Nat
  BY Constant, TypeIs DEF Base, Time, Tasks, Aggs
<1>22. /\ \A q : ~Waiting(q)
       /\ \A q : Waiting(q)' <=> q = p /\ Passes(s)
  <2>1. \A q : ~Waiting(q)
    BY <1>1, HandIs DEF Waiting
  <2>2. now + 1 \in Time /\ s \in Tape
    BY <1>2, Constant, TickBase DEF Prints, Time
  <2>3. HeldPrint(Hand("trade", s, now + 1)) = p /\ Hand("trade", s, now + 1).kind = "trade"
    BY <2>2, HandIs
  <2> HIDE DEF p
  <2>4. CASE Passes(s)
    BY <1>1, <2>1, <2>3, <2>4 DEF Waiting
  <2>5. CASE ~Passes(s)
    BY <1>1, <2>1, <2>5 DEF Waiting
  <2> QED BY <2>1, <2>4, <2>5
<1> HIDE DEF p
<1>4. \A q \in tape : q.ts \in Nat /\ q.ts <= now /\ q.ts < p.ts
  <2>1. \A q \in tape : q.ts <= now
    BY DEF Counts, Stamped
  <2>2. \A q \in tape : q.ts \in Nat
    BY <1>3, Constant DEF Prints
  <2> QED BY <1>2, <1>3, <2>1, <2>2
<1>5. p \notin tape
  BY <1>2, <1>3, <1>4
<1>6. From(agg, tape, Reached) /\ agg.minute[p] = 0 /\ agg.sub[p] = 0
  BY <1>2, <1>5 DEF Counts, From
<1>7. Reached = tape /\ Reached' = {q \in tape' : q = p => ~Passes(s)}
  BY <1>22 DEF Reached
<1>8. Reached \subseteq Reached'
  BY <1>1, <1>5, <1>7
<1>9. Stamped'
  <2>1. \A q \in tape' : q.ts <= now'
    BY <1>1, <1>2, <1>3, <1>4
  <2>2. ASSUME NEW x \in Reached', NEW q \in tape', Waiting(q)'
        PROVE  x.ts < q.ts
    <3>1. q = p /\ x # p /\ x \in tape'
      BY <1>7, <1>22, <2>2
    <3> QED BY <1>1, <1>4, <3>1
  <2> QED BY <2>1, <2>2 DEF Stamped
<1>10. From(agg', tape', Reached')
  BY <1>1, <1>6, <1>8, FromMore
<1>11. Windows'
  BY <1>1, <1>3 DEF Counts, Windows
<1>12. Own' \subseteq Own \cup {p} /\ (p \in Own' => s = active)
  BY <1>1, <1>2 DEF Own
<1>15. (s = active /\ Covered') => Passes(s)
  BY <1>1 DEF Passes, Covered
<1>16. Buffered'
  <2> SUFFICES ASSUME Covered', task.at \in {"bars", "trades", "drain"},
                      NEW q \in Own', q \notin lost', q.ts > task.reqEnd
               PROVE  Held(agg'.buf, q) \/ Waiting(q)'
    BY <1>1 DEF Buffered
  <2>1. CASE q = p
    BY <1>12, <1>15, <1>22, <2>1
  <2>2. CASE q # p
    <3>1. q \in Own \ lost /\ Covered
      BY <1>1, <1>12, <2>2 DEF Covered
    <3>2. Held(agg.buf, q)
      BY <1>22, <3>1 DEF Counts, Buffered
    <3> QED BY <1>1, <3>2
  <2> QED BY <2>1, <2>2
<1>17. MinuteLoaded'
  <2>1. task.at = "bars" => \A q \in Prints : q.ts > task.reqEnd => agg'.minute[q] = 0
    BY <1>1 DEF Counts, MinuteLoaded
  <2>2. ASSUME task.at \in {"trades", "drain"}, "minute" \in whole, NEW q \in Own'
        PROVE  agg'.minute[q] = IF q.ts <= task.served THEN 1 ELSE 0
    <3>2. CASE q = p
      <4>1. ~(p.ts <= task.served)
        BY <1>2, <1>3, <2>2 DEF Counts, Windows
      <4> QED BY <1>1, <1>6, <3>2, <4>1
    <3>3. CASE q # p
      BY <1>1, <1>12, <2>2, <3>3 DEF Counts, MinuteLoaded
    <3> QED BY <3>2, <3>3
  <2> QED BY <1>1, <2>1, <2>2 DEF MinuteLoaded
<1>18. SubLoaded'
  <2>2. ASSUME task.at = "drain", "sub" \in whole, NEW q \in Own'
        PROVE  agg'.sub[q] = IF q.ts <= Floor(task.tradeEnd) THEN 1 ELSE 0
    <3>2. CASE q = p
      <4>1. task.tradeEnd <= now /\ task.tradeEnd \in Time
        BY <1>3, <2>2 DEF Counts, Windows, Tasks
      <4>2. ~(p.ts <= Floor(task.tradeEnd))
        BY <1>2, <1>3, <4>1, FloorIs
      <4> QED BY <1>1, <1>6, <3>2, <4>2
    <3>3. CASE q # p
      BY <1>1, <1>12, <2>2, <3>3 DEF Counts, SubLoaded
    <3> QED BY <3>2, <3>3
  <2> QED BY <1>1, <2>2 DEF SubLoaded
<1>19. SettledOnce'
  <2> SUFFICES ASSUME Idle, Covered', NEW q \in Own', q \notin lost
               PROVE  /\ "minute" \in whole =>
                           (IF Waiting(q) THEN MinuteTimes(q, 0) ELSE MinuteTimes(q, 1))'
                      /\ "sub" \in whole =>
                           (IF Waiting(q) THEN SubTimes(q, 0) ELSE SubTimes(q, 1))'
    BY <1>1 DEF SettledOnce, Idle
  <2>1. Covered
    BY <1>1 DEF Covered
  <2>2. CASE q = p
    <3>1. Waiting(q)'
      BY <1>12, <1>15, <1>22, <2>2
    <3>2. MinuteTimes(q, 0)' /\ SubTimes(q, 0)'
      BY <1>1, <1>6, <2>2 DEF MinuteTimes, SubTimes
    <3> QED BY <3>1, <3>2
  <2>3. CASE q # p
    <3>1. q \in Own \ lost /\ q \in Prints /\ ~Waiting(q) /\ ~Waiting(q)'
      BY <1>1, <1>3, <1>12, <1>22, <2>3 DEF Own
    <3>2. /\ "minute" \in whole => MinuteTimes(q, 1)
          /\ "sub" \in whole => SubTimes(q, 1)
      BY <2>1, <3>1 DEF Counts, SettledOnce
    <3>3. /\ MinuteTimes(q, 1) => MinuteTimes(q, 1)'
          /\ SubTimes(q, 1) => SubTimes(q, 1)'
      BY <1>1, TimesSame
    <3> QED BY <3>1, <3>2, <3>3
  <2> QED BY <2>2, <2>3
<1> QED BY <1>9, <1>10, <1>11, <1>16, <1>17, <1>18, <1>19 DEF Counts

LEMMA FoldCounts ==
  ASSUME Base, Counts, TradeFolds
  PROVE  Counts'
<1> DEFINE p == HeldPrint(hand)
           gone == {agg.buf[i] : i \in 1..Dropped(agg)}
           b == OnTrade(agg, p)
<1>1. /\ hand.kind = "trade" /\ agg' = b /\ lost' = lost \cup gone
      /\ hand' = NoHand
      /\ UNCHANGED <<now, tape, active, up, jobs, task, window, whole, late>>
  BY DEF TradeFolds, feedVars
<1>2. p \in Prints /\ p \in tape
  BY <1>1, HeldIs
<1>3. /\ now \in Nat /\ tape \subseteq Prints /\ agg \in Aggs
      /\ Len(agg.buf) <= MaxBuf /\ agg.buffering \in BOOLEAN
  BY Constant, TypeIs DEF Base, Time, Aggs
<1>4. /\ \A q : Waiting(q) <=> q = p
      /\ \A q : ~Waiting(q)'
  BY <1>1, HandIs DEF Waiting
<1>5. Reached' = Reached \cup {p} /\ Reached' = tape /\ p \notin Reached
  BY <1>1, <1>2, <1>4 DEF Reached
<1>6. From(b, tape, Reached \cup {p})
  <2>1. \A q \in Reached : q.ts < p.ts
    BY <1>2, <1>4 DEF Counts, Stamped
  <2> QED BY <1>2, <1>3, <2>1, OnTradeFrom DEF Counts
<1>7. ~agg.buffering =>
         \A q \in Prints :
           /\ b.minute[q] = IF q = p THEN agg.minute[q] + 1 ELSE agg.minute[q]
           /\ b.sub[q] = IF q = p THEN agg.sub[q] + 1 ELSE agg.sub[q]
  BY <1>2, <1>3, OnTradeCounted
<1>8. agg.buffering =>
         /\ b.minute = agg.minute /\ b.sub = agg.sub
         /\ Held(b.buf, p)
         /\ \A q : Held(agg.buf, q) => q \in gone \/ Held(b.buf, q)
  BY <1>2, <1>3, OnTradeBuffered, OnTradeHeld
<1> HIDE DEF b, gone, p
<1>9. Stamped'
  BY <1>1, <1>4 DEF Counts, Stamped
<1>10. From(agg', tape', Reached')
  BY <1>1, <1>5, <1>6
<1>11. Windows'
  BY <1>1 DEF Counts, Windows
<1>12. Own' = Own /\ Covered' = Covered
  BY <1>1 DEF Own, Covered
<1>14. task.at \in {"bars", "trades", "drain"} => agg.buffering
  BY DEF Base, Stage, Busy
<1>16. Buffered'
  <2> SUFFICES ASSUME Covered, task.at \in {"bars", "trades", "drain"},
                      NEW q \in Own, q \notin lost', q.ts > task.reqEnd
               PROVE  Held(agg'.buf, q)
    BY <1>1, <1>12 DEF Buffered
  <2>1. CASE q = p
    BY <1>1, <1>8, <1>14, <2>1
  <2>2. CASE q # p
    <3>1. Held(agg.buf, q)
      BY <1>1, <1>4, <2>2 DEF Counts, Buffered
    <3> QED BY <1>1, <1>8, <1>14, <3>1
  <2> QED BY <2>1, <2>2
<1>17. MinuteLoaded' /\ SubLoaded'
  <2>1. task.at \in {"bars", "trades", "drain"} =>
          agg'.minute = agg.minute /\ agg'.sub = agg.sub
    BY <1>1, <1>8, <1>14
  <2> QED BY <1>1, <1>12, <2>1 DEF Counts, MinuteLoaded, SubLoaded
<1>19. SettledOnce'
  <2> SUFFICES ASSUME Idle, Covered, NEW q \in Own, q \notin lost
               PROVE  /\ "minute" \in whole => MinuteTimes(q, 1)'
                      /\ "sub" \in whole => SubTimes(q, 1)'
    BY <1>1, <1>4, <1>12 DEF SettledOnce, Idle
  <2>1. ~agg.buffering
    BY NoTaskIs DEF Base, Stage, Busy, Idle
  <2>2. /\ q \in Prints /\ agg.minute[q] \in Nat /\ agg.sub[q] \in Nat
    BY <1>3 DEF Own, Aggs, Series
  <2>3. CASE q = p
    <3>1. /\ "minute" \in whole => MinuteTimes(q, 0)
          /\ "sub" \in whole => SubTimes(q, 0)
      BY <1>4, <2>3 DEF Counts, SettledOnce
    <3>2. agg'.minute[q] = agg.minute[q] + 1 /\ agg'.sub[q] = agg.sub[q] + 1
      BY <1>1, <1>7, <2>1, <2>2, <2>3
    <3>3. InPartialBar(q)' = InPartialBar(q) /\ late' = late
      BY <1>1 DEF InPartialBar
    <3>4. MinuteTimes(q, 0) => MinuteTimes(q, 1)'
      BY <2>2, <3>2, <3>3 DEF MinuteTimes
    <3>5. SubTimes(q, 0) => SubTimes(q, 1)'
      BY <2>2, <3>2, <3>3 DEF SubTimes
    <3> QED BY <1>1, <3>1, <3>4, <3>5
  <2>4. CASE q # p
    <3>1. /\ "minute" \in whole => MinuteTimes(q, 1)
          /\ "sub" \in whole => SubTimes(q, 1)
      BY <1>4, <2>4 DEF Counts, SettledOnce
    <3>2. agg'.minute[q] = agg.minute[q] /\ agg'.sub[q] = agg.sub[q]
      BY <1>1, <1>7, <2>1, <2>2, <2>4
    <3>3. /\ MinuteTimes(q, 1) => MinuteTimes(q, 1)'
          /\ SubTimes(q, 1) => SubTimes(q, 1)'
      BY <1>1, <3>2, TimesSame
    <3> QED BY <3>1, <3>3
  <2> QED BY <2>3, <2>4
<1> QED BY <1>9, <1>10, <1>11, <1>16, <1>17, <1>19 DEF Counts

LEMMA SocketCounts ==
  ASSUME Base, Counts, NEW s \in Symbols,
         Quote(s) \/ QuoteFolds \/ Drop \/ Connect
  PROVE  Counts'
<1>1. UNCHANGED <<now, tape, active, task, window, whole, lost, late>>
  BY DEF Quote, QuoteFolds, Drop, Connect, feedVars, wire
<1>2. /\ agg'.minute = agg.minute /\ agg'.sub = agg.sub /\ agg'.buf = agg.buf
  <2>1. CASE QuoteFolds
    <3>1. agg' = [agg EXCEPT !.quote = hand.symbol] /\ hand.symbol \in Tape
      BY <2>1, TypeIs DEF Base, QuoteFolds, Hands
    <3> QED BY <3>1, QuoteIs, TypeIs DEF Base
  <2>2. CASE Quote(s) \/ Drop \/ Connect
    BY <2>2 DEF Quote, Drop, Connect
  <2> QED BY <2>1, <2>2
<1>3. Covered' => Covered \/ active = NoSymbol
  <2>1. CASE Quote(s) \/ QuoteFolds
    <3>1. UNCHANGED <<up, active, jobs>>
      BY <2>1, Zenon DEF Quote, QuoteFolds, feedVars
    <3> QED BY <3>1 DEF Covered
  <2>2. CASE Drop
    BY <2>2 DEF Drop, Covered
  <2>3. CASE Connect
    BY <2>3 DEF Connect, Covered
  <2> QED BY <2>1, <2>2, <2>3
<1>4. Own' = Own
  BY <1>1 DEF Own
<1>9. \A p : ~Waiting(p)' /\ ~Waiting(p)
  <2>1. CASE Quote(s)
    BY <2>1, Constant, HandIs DEF Quote, Waiting
  <2>2. CASE QuoteFolds
    BY <2>2, HandIs DEF QuoteFolds, Waiting
  <2>3. CASE Drop
    BY <2>3, HandIs DEF Drop, wire, Waiting
  <2>4. CASE Connect
    <3>1. hand = NoHand /\ hand' = hand
      BY <2>4 DEF Connect, wire, Base, Stage
    <3> QED BY <3>1, HandIs DEF Waiting
  <2> QED BY <2>1, <2>2, <2>3, <2>4
<1>10. Reached' = Reached
  BY <1>1, <1>9 DEF Reached
<1>5. Stamped' /\ From(agg', tape', Reached') /\ Windows'
  BY <1>1, <1>2, <1>9, <1>10 DEF Counts, Stamped, From, Windows
<1>6. Buffered'
  <2>1. task.at \in {"bars", "trades", "drain"} => active # NoSymbol
    BY DEF Base, Stage
  <2> QED BY <1>1, <1>2, <1>3, <1>4, <1>9, <2>1 DEF Counts, Buffered
<1>7. MinuteLoaded' /\ SubLoaded'
  BY <1>1, <1>2, <1>4 DEF Counts, MinuteLoaded, SubLoaded
<1>8. SettledOnce'
  <2>1. Covered' => Covered \/ task.at # "idle"
    BY <1>3 DEF Base, Stage
  <2> QED BY <1>1, <1>2, <1>9, <2>1, SettledSame DEF Counts
<1> QED BY <1>5, <1>6, <1>7, <1>8 DEF Counts

\* The steps that leave the tape, the clock and the hand alone.
LEMMA StillReached ==
  ASSUME UNCHANGED <<tape, hand>>
  PROVE  Reached' = Reached /\ \A p : Waiting(p)' <=> Waiting(p)
BY DEF Reached, Waiting

LEMMA StillStamped ==
  ASSUME UNCHANGED <<now, tape, hand>>, Counts
  PROVE  Stamped'
<1>1. Reached' = Reached /\ \A p : Waiting(p)' <=> Waiting(p)
  BY StillReached
<1> QED BY <1>1 DEF Counts, Stamped

LEMMA TurnCounts ==
  ASSUME Base, Counts, NEW s \in Symbols,
         SwitchPause(s) \/ SwitchClear \/ SwitchOpen \/ JobBegin(s)
         \/ JobDropped(s)
  PROVE  Counts'
<1>1. UNCHANGED <<now, tape, hand>>
  BY DEF SwitchPause, SwitchClear, SwitchOpen, JobBegin, JobDropped, feedVars,
         wire
<1>2. Stamped' /\ Reached' = Reached /\ \A p : Waiting(p)' <=> Waiting(p)
  BY <1>1, StillStamped, StillReached
<1>3. /\ agg \in Aggs /\ Len(agg.buf) <= MaxBuf
      /\ From(agg, tape, Reached) /\ Reached \subseteq tape
  BY TypeIs DEF Base, Counts, Reached
<1>4. CASE SwitchPause(s)
  <2>1. agg' = agg /\ task'.at = "paused"
    BY <1>4 DEF SwitchPause, Task
  <2> QED BY <1>1, <1>2, <1>3, <2>1, CountsEarly
<1>5. CASE SwitchClear
  <2>1. agg' = ResetMarket(agg) /\ task' = GoesOn(task, "cleared")
    BY <1>5 DEF SwitchClear
  <2>2. task'.at = "cleared"
    BY <2>1, GoesOnIs, TypeIs DEF Base, Steps
  <2> QED BY <1>1, <1>2, <1>3, <2>1, <2>2, CountsEarly, FromBackfill
<1>6. CASE SwitchOpen
  <2>1. agg' = BeginBackfill(agg) /\ task' = GoesOn(task, "armed")
    BY <1>6 DEF SwitchOpen, Opened
  <2>2. task'.at = "armed"
    BY <2>1, GoesOnIs, TypeIs DEF Base, Steps
  <2> QED BY <1>1, <1>2, <1>3, <2>1, <2>2, CountsEarly, FromBackfill
<1>7. CASE JobBegin(s)
  <2>1. agg' = BeginBackfill(agg) /\ task'.at = "armed"
    BY <1>7 DEF JobBegin, Task
  <2> QED BY <1>1, <1>2, <1>3, <2>1, CountsEarly, FromBackfill
<1>8. CASE JobDropped(s)
  <2>1. /\ Idle /\ jobs' = jobs \ {s}
        /\ whole' = IF s = active THEN {} ELSE whole
        /\ UNCHANGED <<feed, now, tape, up, active, task, agg, window, lost,
                       late>>
    BY <1>8 DEF JobDropped, feedVars, wire
  <2>2. task.at = "idle" /\ task'.at = "idle"
    BY <2>1, NoTaskIs DEF Idle
  <2>3. /\ From(agg', tape', Reached') /\ Windows' /\ Buffered'
        /\ MinuteLoaded' /\ SubLoaded'
    BY <1>2, <1>3, <2>1, <2>2
       DEF Windows, Buffered, MinuteLoaded, SubLoaded
  <2>4. SettledOnce'
    <3>1. CASE s = active
      BY <2>1, <3>1 DEF SettledOnce
    <3>2. CASE s # active
      <4>1. Covered' => Covered
        BY <2>1, <3>2 DEF Covered
      <4>2. whole' = whole /\ agg' = agg
        BY <2>1, <3>2
      <4> QED BY <1>2, <2>1, <4>1, <4>2, SettledSame DEF Counts
    <3> QED BY <3>1, <3>2
  <2> QED BY <1>2, <2>3, <2>4 DEF Counts
<1> QED BY <1>4, <1>5, <1>6, <1>7, <1>8

LEMMA StampCounts ==
  ASSUME Base, Counts, StampReqEnd
  PROVE  Counts'
<1>1. /\ task'.at = "bars" /\ task'.reqEnd = now
      /\ UNCHANGED <<now, tape, active, up, jobs, agg, whole, lost, hand>>
  BY StampBase DEF StampReqEnd, feedVars, wire
<1>2. now \in Nat /\ tape \subseteq Prints
  BY Constant, TypeIs DEF Base, Time
<1>3. \A p \in tape : ~(p.ts > now)
  <2>1. \A p \in tape : p.ts \in Nat
    BY <1>2, Constant DEF Prints
  <2> QED BY <1>2, <2>1 DEF Counts, Stamped
<1>4. Stamped' /\ From(agg', tape', Reached')
  BY <1>1, StillStamped, StillReached DEF Counts
<1>5. Windows' /\ SubLoaded'
  BY <1>1, <1>2 DEF Windows, SubLoaded
<1>6. Buffered'
  BY <1>1, <1>3 DEF Buffered, Own
<1>7. MinuteLoaded'
  BY <1>1, <1>3, <1>4 DEF From, MinuteLoaded
<1>8. SettledOnce'
  BY <1>1, NoTaskIs DEF SettledOnce, Idle
<1> QED BY <1>4, <1>5, <1>6, <1>7, <1>8 DEF Counts

LEMMA BarsCounts ==
  ASSUME Base, Counts, LoadBars
  PROVE  Counts'
<1> DEFINE hist == Listed(task.symbol, 0, task'.served)
<1>1. /\ task'.at = "trades" /\ task'.reqEnd = task.reqEnd /\ task'.tradeEnd = now
      /\ task'.served \in task.reqEnd..now
      /\ agg'.sub = agg.sub /\ agg'.buf = agg.buf
      /\ \/ /\ agg'.minute = IF hist = {} THEN agg.minute ELSE Once(hist)
            /\ whole' = whole \cup {"minute"}
         \/ agg'.minute = Empty /\ whole' = whole \ {"minute"}
  BY BarsBase
<1>2. /\ task.at = "bars"
      /\ UNCHANGED <<now, tape, active, up, jobs, lost, hand>>
  BY DEF LoadBars, feedVars, wire
<1>3. /\ now \in Nat /\ tape \subseteq Prints /\ task.reqEnd \in Nat
      /\ task.symbol = active /\ task'.served \in Nat
      /\ task.reqEnd <= task'.served /\ task'.served <= now
  <2>1. now \in Nat /\ tape \subseteq Prints /\ task.reqEnd \in Nat
    BY Constant, TypeIs DEF Base, Time, Tasks
  <2>2. task.symbol = active
    BY <1>2 DEF Base, Stage, Busy
  <2> QED BY <1>1, <2>1, <2>2
<1>4. \A p \in tape : p.ts \in Nat /\ p.ts > 0
  BY <1>3, Constant DEF Prints
<1>5. \A p \in Prints : p \in hist <=> p \in Own /\ p.ts <= task'.served
  BY <1>3, <1>4 DEF Listed, Own
<1>6. \A p \in Prints : Once(hist)[p] = IF p \in hist THEN 1 ELSE 0
  BY OnceIs
<1> HIDE DEF hist
<1>7. Stamped' /\ Reached' = Reached /\ \A p : Waiting(p)' <=> Waiting(p)
  BY <1>2, StillStamped, StillReached
<1>8. From(agg', tape', Reached')
  <2>1. \A p \in Prints : p \notin tape => agg'.minute[p] = 0
    <3> SUFFICES ASSUME NEW p \in Prints, p \notin tape
                 PROVE  agg'.minute[p] = 0
      OBVIOUS
    <3>1. agg.minute[p] = 0 /\ Empty[p] = 0
      BY DEF Counts, From, Empty
    <3>2. p \notin hist
      BY <1>5 DEF Own
    <3> QED BY <1>1, <1>6, <3>1, <3>2
  <2> QED BY <1>1, <1>2, <1>7, <2>1 DEF Counts, From
<1>9. Windows'
  BY <1>1, <1>2, <1>3 DEF Counts, Windows
<1>10. Own' = Own /\ (Covered' => Covered)
  BY <1>2 DEF Own, Covered
<1>11. Buffered'
  BY <1>1, <1>2, <1>7, <1>10 DEF Counts, Buffered
<1>12. MinuteLoaded'
  <2> SUFFICES ASSUME "minute" \in whole', NEW p \in Own
               PROVE  agg'.minute[p] = IF p.ts <= task'.served THEN 1 ELSE 0
    BY <1>1, <1>10 DEF MinuteLoaded
  <2>1. agg'.minute = IF hist = {} THEN agg.minute ELSE Once(hist)
    BY <1>1
  <2>2. p \in Prints /\ p.ts \in Nat
    BY <1>3, <1>4 DEF Own
  <2>3. CASE hist = {}
    <3>1. p.ts > task'.served /\ p.ts > task.reqEnd
      BY <1>3, <1>5, <2>2, <2>3
    <3>2. agg.minute[p] = 0
      BY <1>2, <2>2, <3>1 DEF Counts, MinuteLoaded
    <3>3. ~(p.ts <= task'.served)
      BY <1>3, <2>2, <3>1
    <3> QED BY <2>1, <2>3, <3>2, <3>3
  <2>4. CASE hist # {}
    BY <1>5, <1>6, <2>1, <2>2, <2>4
  <2> QED BY <2>3, <2>4
<1>13. SubLoaded' /\ SettledOnce'
  BY <1>1, NoTaskIs DEF SubLoaded, SettledOnce, Idle
<1> QED BY <1>7, <1>8, <1>9, <1>11, <1>12, <1>13 DEF Counts

LEMMA FailedCounts ==
  ASSUME Base, Counts, BarsFailed \/ RollBack
  PROVE  Counts'
<1>1. /\ UNCHANGED <<now, tape, hand>> /\ whole' = {} /\ task' = NoTask
      /\ agg' \in {EndBackfill(agg, 0, 0), ResetMarket(agg)}
  BY DEF BarsFailed, RollBack, feedVars, wire
<1>2. /\ agg \in Aggs /\ Len(agg.buf) <= MaxBuf 
      /\ From(agg, tape, Reached) /\ Reached \subseteq tape
  BY TypeIs DEF Base, Counts, Reached
<1>3. Stamped' /\ From(agg', tape', Reached')
  <2>1. Stamped' /\ Reached' = Reached
    BY <1>1, StillStamped, StillReached
  <2> QED BY <1>1, <1>2, <2>1, FromBackfill
<1>4. task'.at = "idle"
  BY <1>1, NoTaskIs
<1>5. Windows' /\ Buffered' /\ MinuteLoaded' /\ SubLoaded'
  BY <1>4 DEF Windows, Buffered, MinuteLoaded, SubLoaded
<1>6. SettledOnce'
  BY <1>1 DEF SettledOnce
<1> QED BY <1>3, <1>5, <1>6 DEF Counts

LEMMA ReplayCounts ==
  ASSUME Base, Counts, Replay
  PROVE  Counts'
<1> DEFINE hist == Listed(task.symbol, 0, Floor(task.tradeEnd))
<1>1. /\ task'.at = "drain"
      /\ task'.reqEnd = task.reqEnd /\ task'.tradeEnd = task.tradeEnd
      /\ task'.served = task.served
      /\ agg'.minute = agg.minute /\ agg'.buf = agg.buf
      /\ \/ agg'.sub = Once(hist) /\ whole' = whole \cup {"sub"}
         \/ agg'.sub = Once({}) /\ whole' = whole \ {"sub"}
  BY ReplayBase
<1>2. /\ task.at = "trades"
      /\ UNCHANGED <<now, tape, active, up, jobs, lost, hand>>
  BY DEF Replay, feedVars, wire
<1>3. /\ tape \subseteq Prints /\ task.tradeEnd \in Time /\ task.symbol = active
  BY <1>2, TypeIs DEF Base, Tasks, Stage, Busy
<1>4. \A p \in tape : p.ts \in Nat /\ p.ts > 0
  BY <1>3, Constant DEF Prints
<1>5. \A p \in Prints : p \in hist <=> p \in Own /\ p.ts <= Floor(task.tradeEnd)
  BY <1>3, <1>4 DEF Listed, Own
<1>6. \A p \in Prints : /\ Once(hist)[p] = IF p \in hist THEN 1 ELSE 0
                        /\ Once({})[p] = 0
  BY OnceIs
<1> HIDE DEF hist
<1>7. /\ Stamped' /\ Windows' /\ Reached' = Reached
      /\ \A p : Waiting(p)' <=> Waiting(p)
  BY <1>1, <1>2, StillStamped, StillReached DEF Counts, Windows
<1>8. From(agg', tape', Reached')
  <2>1. \A p \in Prints : p \notin tape => agg'.sub[p] = 0
    BY <1>1, <1>5, <1>6 DEF Own
  <2> QED BY <1>1, <1>2, <1>7, <2>1 DEF Counts, From
<1>9. Own' = Own /\ (Covered' => Covered)
  BY <1>2 DEF Own, Covered
<1>10. Buffered'
  BY <1>1, <1>2, <1>7, <1>9 DEF Counts, Buffered
<1>11. MinuteLoaded'
  <2>1. "minute" \in whole' => "minute" \in whole
    BY <1>1
  <2> QED BY <1>1, <1>2, <1>9, <2>1 DEF Counts, MinuteLoaded
<1>12. SubLoaded'
  <2> SUFFICES ASSUME "sub" \in whole', NEW p \in Own
               PROVE  agg'.sub[p] = IF p.ts <= Floor(task.tradeEnd) THEN 1 ELSE 0
    BY <1>1, <1>9 DEF SubLoaded
  <2>1. agg'.sub = Once(hist) /\ p \in Prints
    BY <1>1, <1>3 DEF Own
  <2> QED BY <1>5, <1>6, <2>1
<1>13. SettledOnce'
  BY <1>1, NoTaskIs DEF SettledOnce, Idle
<1> QED BY <1>7, <1>8, <1>10, <1>11, <1>12, <1>13 DEF Counts

LEMMA DrainCounts ==
  ASSUME Base, Counts, Drain
  PROVE  Counts'
<1>1. /\ task.at = "drain"
      /\ agg' = EndBackfill(agg, task.tradeEnd, task.reqEnd)
      /\ window' = [reqEnd |-> task.reqEnd, served |-> task.served,
                    tradeEnd |-> task.tradeEnd]
      /\ late' = IF hand.kind = "trade" THEN {HeldPrint(hand)} ELSE {}
      /\ task' = NoTask
      /\ UNCHANGED <<now, tape, active, up, jobs, whole, lost, hand>>
  BY DEF Drain, feedVars
<1>2. /\ agg \in Aggs /\ Len(agg.buf) <= MaxBuf
      /\ From(agg, tape, Reached) /\ Reached \subseteq tape
      /\ agg.buf \in Seq(Prints) /\ tape \subseteq Prints
      /\ task.reqEnd \in Nat /\ task.served \in Nat
      /\ task.tradeEnd \in Time /\ task.tradeEnd \in Nat
  BY Constant, TypeIs DEF Base, Counts, Aggs, Tasks, Time, Reached
<1>3. Stamped' /\ From(agg', tape', Reached')
  <2>1. Stamped' /\ Reached' = Reached
    BY <1>1, StillStamped, StillReached
  <2> QED BY <1>1, <1>2, <2>1, FromBackfill
<1>4. task'.at = "idle"
  BY <1>1, NoTaskIs
<1>5. Windows' /\ Buffered' /\ MinuteLoaded' /\ SubLoaded'
  BY <1>4 DEF Windows, Buffered, MinuteLoaded, SubLoaded
<1>6. ASSUME Covered, NEW p \in Own, p \notin lost
      PROVE  /\ "minute" \in whole =>
                  IF Waiting(p) THEN MinuteTimes(p, 0)' ELSE MinuteTimes(p, 1)'
             /\ "sub" \in whole =>
                  IF Waiting(p) THEN SubTimes(p, 0)' ELSE SubTimes(p, 1)'
  <2>1. p \in Prints /\ p.ts \in Nat
    BY <1>2, Constant DEF Own, Prints
  <2> DEFINE held == Held(agg.buf, p)
  <2>2. Single(agg.buf, p)
    BY <1>2, FromDistinct
  <2>3. agg'.minute = Drained(agg.minute, agg.buf, task.reqEnd)
        /\ agg'.sub = Drained(agg.sub, agg.buf, task.tradeEnd)
    BY <1>1, <1>2, EndBackfillIs
  <2>4. /\ agg'.minute[p] = agg.minute[p] + IF p.ts > task.reqEnd /\ held THEN 1 ELSE 0
        /\ agg'.sub[p] = agg.sub[p] + IF p.ts > task.tradeEnd /\ held THEN 1 ELSE 0
    <3>1. agg.minute \in Series /\ agg.sub \in Series
      BY <1>2 DEF Aggs
    <3> QED BY <1>2, <2>1, <2>2, <2>3, <3>1, DrainedIs
  <2>5. p.ts > task.reqEnd => held \/ Waiting(p)
    BY <1>1, <1>6 DEF Counts, Buffered
  <2>6. Waiting(p) => ~held
    BY <1>2 DEF From, Held, Reached
  <2>7. Waiting(p) => p \in late'
    BY <1>1 DEF Waiting
  <2>8. /\ task.reqEnd <= task.served /\ task.reqEnd <= task.tradeEnd
    BY <1>1 DEF Counts, Windows
  <2> HIDE DEF held
  <2>9. ASSUME "minute" \in whole
        PROVE  IF Waiting(p) THEN MinuteTimes(p, 0)' ELSE MinuteTimes(p, 1)'
    <3> DEFINE inBar == p.ts > task.reqEnd /\ p.ts <= task.served
    <3>1. agg.minute[p] = IF p.ts <= task.served THEN 1 ELSE 0
      BY <1>1, <2>9 DEF Counts, MinuteLoaded
    <3>2. inBar => InPartialBar(p)'
      BY <1>1 DEF InPartialBar
    <3>3. CASE Waiting(p)
      <4>1. agg'.minute[p] = 0 \/ agg'.minute[p] = 1
        BY <1>2, <2>1, <2>4, <2>6, <3>1, <3>3
      <4> QED BY <2>7, <3>3, <4>1 DEF MinuteTimes
    <3>4. CASE ~Waiting(p)
      <4>1. agg'.minute[p] = 1 \/ (agg'.minute[p] = 2 /\ inBar)
        BY <1>2, <2>1, <2>4, <2>5, <2>8, <3>1, <3>4
      <4> HIDE DEF inBar
      <4>2. MinuteTimes(p, 1)'
        BY <3>2, <4>1 DEF MinuteTimes
      <4> QED BY <3>4, <4>2
    <3> QED BY <3>3, <3>4
  <2>10. ASSUME "sub" \in whole
         PROVE  IF Waiting(p) THEN SubTimes(p, 0)' ELSE SubTimes(p, 1)'
    <3> DEFINE cut == Floor(task.tradeEnd)
               inCut == p.ts > cut /\ p.ts <= task.tradeEnd
    <3>1. agg.sub[p] = IF p.ts <= cut THEN 1 ELSE 0
      BY <1>1, <2>10 DEF Counts, SubLoaded
    <3>2. cut \in Nat /\ cut <= task.tradeEnd
      BY <1>2, FloorIs
    <3>3. inCut => InCutSecond(p)'
      BY <1>1 DEF InCutSecond, Floor
    <3> HIDE DEF cut
    <3>4. CASE Waiting(p)
      <4>1. agg'.sub[p] = 0 \/ agg'.sub[p] = 1
        BY <1>2, <2>1, <2>4, <2>6, <3>1, <3>4
      <4> QED BY <2>7, <3>4, <4>1 DEF SubTimes
    <3>5. CASE ~Waiting(p)
      <4>1. agg'.sub[p] = 1 \/ (agg'.sub[p] = 0 /\ inCut)
        BY <1>2, <2>1, <2>4, <2>5, <2>8, <3>1, <3>2, <3>5
      <4> HIDE DEF inCut
      <4>2. SubTimes(p, 1)'
        BY <3>3, <4>1 DEF SubTimes
      <4> QED BY <3>5, <4>2
    <3> QED BY <3>4, <3>5
  <2> QED BY <2>9, <2>10
<1>7. SettledOnce'
  <2>1. Own' = Own /\ (Covered' => Covered) /\ \A p : Waiting(p)' <=> Waiting(p)
    BY <1>1, StillReached DEF Own, Covered
  <2> HIDE DEF MinuteTimes, SubTimes, Waiting
  <2> SUFFICES ASSUME Covered, NEW p \in Own, p \notin lost
               PROVE  /\ "minute" \in whole =>
                           IF Waiting(p)' THEN MinuteTimes(p, 0)'
                                          ELSE MinuteTimes(p, 1)'
                      /\ "sub" \in whole =>
                           IF Waiting(p)' THEN SubTimes(p, 0)'
                                          ELSE SubTimes(p, 1)'
    BY <1>1, <2>1 DEF SettledOnce
  <2> QED BY <1>6, <2>1
<1> QED BY <1>3, <1>5, <1>7 DEF Counts

LEMMA CountsInitial == Init => CountInv
<1> SUFFICES ASSUME Init PROVE Counts
  BY DEF CountInv
<1>1. agg = ResetMarket(agg) /\ tape = {} /\ task = NoTask /\ whole = {}
  BY DEF Init, ResetMarket
<1>2. DOMAIN <<>> = {} /\ \A p \in Prints : Empty[p] = 0
  BY DEF Empty
<1>3. From(agg, tape, Reached) /\ Stamped
  BY <1>1, <1>2, ResetIs DEF From, Stamped, Reached
<1>4. Windows /\ Buffered /\ MinuteLoaded /\ SubLoaded /\ SettledOnce
  BY <1>1, NoTaskIs DEF Windows, Buffered, MinuteLoaded, SubLoaded, SettledOnce
<1> QED BY <1>3, <1>4 DEF Counts

LEMMA CountsInductive ==
  Base /\ StreamInv /\ CountInv /\ [Next]_vars => CountInv'
<1> SUFFICES ASSUME Base, StreamInv, CountInv, [Next]_vars, feed' = "sip"
             PROVE  Counts'
  BY DEF CountInv
<1>1. feed = "sip"
  BY DEF Next, vars, feedVars, Tick, Quote, TradeFolds, QuoteFolds, SwitchPause,
         SwitchClear, JobDropped, JobBegin, Drop, Connect, SwitchOpen,
         StampReqEnd, LoadBars, BarsFailed, RollBack, Replay, Drain, PollBegin,
         PollFailed, PollQuote, PollApply, PollEnd
<1>2. Counts
  BY <1>1 DEF CountInv
<1>3. ASSUME NEW s \in Symbols,
             \/ Tick(s) \/ Quote(s) \/ SwitchPause(s)
             \/ JobDropped(s) \/ JobBegin(s)
      PROVE  Counts'
  BY <1>1, <1>2, <1>3, TickCounts, SocketCounts, TurnCounts
<1>4. CASE QuoteFolds \/ Drop \/ Connect \/ SwitchClear \/ SwitchOpen
  BY <1>2, <1>4, Constant, SocketCounts, TurnCounts
<1>8. CASE TradeFolds
  BY <1>1, <1>2, <1>8, FoldCounts
<1>5. CASE StampReqEnd \/ LoadBars \/ BarsFailed \/ RollBack \/ Replay \/ Drain
  BY <1>2, <1>5, StampCounts, BarsCounts, FailedCounts, ReplayCounts, DrainCounts
<1>6. ~(PollBegin \/ PollFailed \/ PollQuote \/ PollApply \/ PollEnd)
  BY <1>1 DEF StreamInv, PollBegin, PollFailed, PollQuote, PollApply, PollEnd
<1>7. CASE UNCHANGED vars
  <2>1. UNCHANGED <<now, tape, hand, active, up, jobs, task, agg, whole, lost,
                    window, late>>
    BY <1>7 DEF vars, feedVars, wire
  <2>2. Stamped' /\ Reached' = Reached /\ \A p : Waiting(p)' <=> Waiting(p)
    BY <1>2, <2>1, StillStamped, StillReached
  <2>3. SettledOnce'
    BY <1>2, <2>1, <2>2, SettledSame DEF Counts, Covered
  <2> QED BY <1>2, <2>1, <2>2, <2>3
          DEF Counts, From, Windows, Buffered, MinuteLoaded, SubLoaded,
              Covered, Own
<1> QED BY <1>3, <1>4, <1>5, <1>6, <1>7, <1>8 DEF Next

\* StreamOnce: while the websocket streams, once the last backfill is over
\* every print of the active symbol that the buffer did not have to drop counts
\* in the bars, and in the sub-minute bars unless it fell in the second cut off
\* the trade window.  It counts once; twice at most, and only if the REST bar of
\* the moment held it when it was served, or if it was in the read goroutine's
\* hand while the buffer drained.
THEOREM CountedOnce == Spec => []StreamOnce
<1> DEFINE I == Base /\ StreamInv /\ CountInv
<1>1. Init => I
  BY InitBase, StreamInitial, CountsInitial
<1>2. I /\ [Next]_vars => I'
  BY BaseInductive, StreamInductive, CountsInductive
<1>3. I => StreamOnce
  <2> SUFFICES ASSUME CountInv, feed = "sip", Settled
               PROVE  StreamOnce
    BY DEF StreamOnce
  <2>1. SettledOnce /\ Idle /\ Covered
    BY DEF CountInv, Counts, Settled, Covered
  <2>2. \A p : ~Waiting(p)
    BY HandIs DEF Settled, Waiting
  <2> SUFFICES ASSUME NEW p \in Own \ lost
               PROVE  /\ "minute" \in whole =>
                           \/ agg.minute[p] = 1
                           \/ agg.minute[p] = 2 /\ (InPartialBar(p) \/ p \in late)
                      /\ "sub" \in whole =>
                           \/ agg.sub[p] = 1
                           \/ agg.sub[p] = 0 /\ InCutSecond(p)
                           \/ agg.sub[p] = 2 /\ p \in late
    BY DEF StreamOnce
  <2>3. /\ "minute" \in whole => MinuteTimes(p, 1)
        /\ "sub" \in whole => SubTimes(p, 1)
    BY <2>1, <2>2 DEF SettledOnce
  <2> QED BY <2>3 DEF MinuteTimes, SubTimes
<1> QED BY <1>1, <1>2, <1>3, PTL DEF Spec
-----------------------------------------------------------------------------
(* The overnight poller. *)

\* The symbol the book is about: between the reset of a switch and the end of
\* its pause, the one that will be active.
Subject == IF task.at = "cleared" THEN task.symbol ELSE active
Booked == {p \in tape : p.symbol = Subject}

\* The prints of that symbol the poller has handed on, and those of the active
\* symbol it will not ask for again: a fetch that fails takes back the second,
\* and keeps the first.
Passed(p) ==
  /\ poll.symbol = Subject
  /\ p.ts <= IF poll.at = "apply" THEN poll.from ELSE poll.cursor
Skipped(p) ==
  /\ poll.symbol = active
  /\ p.ts <= IF poll.at = "idle" THEN poll.cursor ELSE poll.from

\* The tape, the mark and the cursor are of the past, and no two prints share
\* a stamp.
Past ==
  /\ \A p \in tape : p.ts <= now
  /\ \A p, q \in tape : p.ts = q.ts => p = q
  /\ mark.at <= now /\ poll.cursor <= now /\ poll.from <= now

\* What is left of a batch is every print of its symbol from the last one
\* applied to the newest one fetched.
Batch ==
  /\ poll.at = "idle" => poll.batch = {}
  /\ poll.at # "idle" => poll.cursor <= poll.from
  /\ poll.batch \subseteq tape
  /\ \A p \in poll.batch : p.symbol = poll.symbol /\ p.ts > poll.from
  /\ \A p \in poll.batch, q \in tape :
       q.symbol = poll.symbol /\ q.ts > poll.from /\ q.ts <= p.ts => q \in poll.batch

\* No print is in an aggregator before it is on the tape.
Known(a, T) ==
  \A p \in Prints :
    p \notin T => a.minute[p] = 0 /\ a.sub[p] = 0 /\ ~Held(a.buf, p)

NightBase == Past /\ Batch /\ Known(agg, tape)

\* The stamp up to which the bars may hold what REST listed.
Fetched ==
  IF task.at \in {"trades", "drain"} THEN task.tradeEnd ELSE window.tradeEnd

\* A print the poller has not reached is neither in the buffer nor, beyond
\* what REST listed, in the bars; one it has is in one of them, once.
Twice ==
  \A p \in Booked :
    /\ Single(agg.buf, p)
    /\ ~Passed(p) => ~Held(agg.buf, p)
    /\ p.ts > Fetched =>
         /\ agg.minute[p] <= 1 /\ agg.sub[p] <= 1
         /\ ~Passed(p) \/ Held(agg.buf, p) => agg.minute[p] = 0 /\ agg.sub[p] = 0

\* The mark a backfill found is of before its own windows, the one it leaves is
\* the end of the second.
NightWindows ==
  /\ task.at \in {"bars", "trades", "drain"} => task.reqEnd <= now
  /\ task.at \in {"bars", "trades"} => MarkFor(active) <= task.reqEnd
  /\ task.at \in {"trades", "drain"} =>
       /\ task.reqEnd <= task.served
       /\ task.reqEnd <= task.tradeEnd /\ task.tradeEnd <= now
  /\ task.at = "drain" => mark.at = task.tradeEnd

\* What the poller put behind it since reqEnd is in the buffer, unless the
\* mark made it skip what lies between the two windows.
PolledBuffered ==
  task.at \in {"bars", "trades", "drain"} =>
    \A p \in Own \ lost :
      p.ts > task.reqEnd /\ Skipped(p) =>
        Held(agg.buf, p) \/ (task.at = "drain" /\ p.ts <= task.tradeEnd)

\* What the requests of the running backfill listed is in the bars.
MinuteListed ==
  task.at \in {"trades", "drain"} /\ "minute" \in whole =>
    \A p \in Own : p.ts <= task.reqEnd => agg.minute[p] >= 1

SubListed ==
  task.at = "drain" /\ "sub" \in whole =>
    \A p \in Own : p.ts <= Floor(task.tradeEnd) => agg.sub[p] >= 1

\* PolledHolesBounded, of every poll between two backfills.
HolesBounded ==
  Idle =>
    \A p \in Own \ lost : p.ts <= MarkFor(active) \/ Skipped(p) =>
      /\ "minute" \in whole => agg.minute[p] >= 1 \/ InWindow(p)
      /\ "sub" \in whole => agg.sub[p] >= 1 \/ InCutSecond(p)

Holes ==
  NightWindows /\ PolledBuffered /\ MinuteListed /\ SubListed /\ HolesBounded

Night == NightBase /\ Twice /\ Holes
NightInv == feed = "boats" => Night

LEMMA NightTypes ==
  ASSUME Base
  PROVE  /\ now \in Nat /\ tape \subseteq Prints /\ agg \in Aggs
         /\ Len(agg.buf) <= MaxBuf /\ agg.buf \in Seq(Prints)
         /\ agg.minute \in Series /\ agg.sub \in Series
         /\ task \in Tasks /\ task.reqEnd \in Nat /\ task.tradeEnd \in Time
         /\ task.tradeEnd \in Nat /\ window.tradeEnd \in Nat
         /\ mark.at \in Nat /\ MarkFor(active) \in Nat /\ MarkFor(active) \in {0, mark.at}
         /\ poll.cursor \in Nat /\ poll.from \in Nat /\ poll.batch \subseteq Prints
         /\ task.served \in Nat /\ Own \subseteq tape /\ Booked \subseteq tape
         /\ \A p \in Prints : p.ts \in Nat /\ p.ts > 0
<1>1. /\ now \in Time /\ tape \subseteq Prints /\ agg \in Aggs
      /\ Len(agg.buf) <= MaxBuf /\ task \in Tasks /\ poll \in Polls
      /\ mark \in [symbol: Tape, at: Time]
      /\ window \in WindowSet
  BY TypeIs DEF Base
<1>2. Time \subseteq Nat
  BY Constant DEF Time
<1>3. /\ agg.buf \in Seq(Prints) /\ agg.minute \in Series /\ agg.sub \in Series
  BY <1>1 DEF Aggs
<1>4. /\ task.reqEnd \in Nat /\ task.tradeEnd \in Time /\ task.tradeEnd \in Nat
      /\ window.tradeEnd \in Nat /\ task.served \in Nat
  BY <1>1, <1>2 DEF Tasks, WindowSet
<1>5. /\ mark.at \in Nat /\ MarkFor(active) \in {0, mark.at}
      /\ MarkFor(active) \in Nat
  BY <1>1, <1>2 DEF MarkFor
<1>6. poll.cursor \in Nat /\ poll.from \in Nat /\ poll.batch \subseteq Prints
  BY <1>1, <1>2 DEF Polls
<1>7. Own \subseteq tape /\ Booked \subseteq tape
  BY DEF Own, Booked
<1>8. \A p \in Prints : p.ts \in Nat /\ p.ts > 0
  BY Constant DEF Prints
<1> QED BY <1>1, <1>2, <1>3, <1>4, <1>5, <1>6, <1>7, <1>8

\* Backfills add nothing that is not on the tape.
LEMMA KnownBackfill ==
  ASSUME NEW a \in Aggs, Len(a.buf) <= MaxBuf, NEW T, Known(a, T), NEW c, NEW m
  PROVE  /\ Known(BeginBackfill(a), T) /\ Known(EndBackfill(a, c, m), T)
         /\ Known(ResetMarket(a), T)
<1>1. \A p : ~Held(<<>>, p)
  BY DEF Held
<1>2. \A p \in Prints : Empty[p] = 0
  BY DEF Empty
<1> HIDE DEF Empty
<1>3. Known(BeginBackfill(a), T)
  BY <1>1, BeginBackfillIs DEF Known
<1>4. Known(ResetMarket(a), T)
  BY <1>1, <1>2, ResetIs DEF Known
<1>5. Known(EndBackfill(a, c, m), T)
  <2> DEFINE b == EndBackfill(a, c, m)
  <2>1. /\ b.buf = <<>> /\ b.minute = Drained(a.minute, a.buf, m)
        /\ b.sub = Drained(a.sub, a.buf, c)
    BY EndBackfillIs
  <2>2. a.minute \in Series /\ a.sub \in Series /\ a.buf \in Seq(Prints)
    BY DEF Aggs
  <2> HIDE DEF b
  <2>3. ASSUME NEW p \in Prints, p \notin T
        PROVE  b.minute[p] = 0 /\ b.sub[p] = 0
    <3>1. a.minute[p] = 0 /\ a.sub[p] = 0 /\ ~Held(a.buf, p)
      BY <2>3 DEF Known
    <3>2. Single(a.buf, p)
      BY <3>1 DEF Single, Held
    <3> QED BY <2>1, <2>2, <3>1, <3>2, DrainedIs
  <2> QED BY <1>1, <2>1, <2>3 DEF Known, b
<1> QED BY <1>3, <1>4, <1>5

\* The poller hands on a print of the tape.
LEMMA OnTradeKnown ==
  ASSUME NEW a \in Aggs, Len(a.buf) <= MaxBuf, NEW T, Known(a, T),
         NEW p \in Prints, p \in T
  PROVE  Known(OnTrade(a, p), T)
<1> DEFINE b == OnTrade(a, p)
<1> SUFFICES ASSUME NEW q \in Prints, q \notin T
             PROVE  b.minute[q] = 0 /\ b.sub[q] = 0 /\ ~Held(b.buf, q)
  BY DEF Known
<1>1. a.minute[q] = 0 /\ a.sub[q] = 0 /\ ~Held(a.buf, q) /\ q # p
  BY DEF Known
<1>2. CASE a.buffering
  <2>1. b.minute = a.minute /\ b.sub = a.sub
    BY <1>2, OnTradeBuffered
  <2>2. Held(b.buf, q) => q = p \/ Held(a.buf, q)
    BY <1>2, OnTradeHeld
  <2> QED BY <1>1, <2>1, <2>2
<1>3. CASE ~a.buffering
  <2>1. b.buf = a.buf /\ b.minute[q] = a.minute[q] /\ b.sub[q] = a.sub[q]
    BY <1>1, <1>3, OnTradeCounted
  <2> QED BY <1>1, <2>1
<1> QED BY <1>2, <1>3

\* Nothing the aggregator's operations of a backfill add is off the tape.
LEMMA LoadKnown ==
  ASSUME Base, Known(agg, tape), LoadBars \/ Replay
  PROVE  Known(agg', tape)
<1>1. \A s, t : \A p \in Prints : p \notin tape =>
        Once(Listed(s, 0, t))[p] = 0 /\ Once({})[p] = 0 /\ Empty[p] = 0
  <2>1. \A p \in Prints : Empty[p] = 0
    BY DEF Empty
  <2> HIDE DEF Empty
  <2> QED BY <2>1, OnceIs DEF Listed
<1>2. CASE LoadBars
  <2>1. /\ agg'.sub = agg.sub /\ agg'.buf = agg.buf
        /\ agg'.minute \in {agg.minute, Empty,
                            Once(Listed(task.symbol, 0, task'.served))}
    BY <1>2, BarsBase
  <2> QED BY <1>1, <2>1 DEF Known
<1>3. CASE Replay
  <2>1. /\ agg'.minute = agg.minute /\ agg'.buf = agg.buf
        /\ agg'.sub \in {Once(Listed(task.symbol, 0, Floor(task.tradeEnd))), Once({})}
    BY <1>3, ReplayBase
  <2> QED BY <1>1, <2>1 DEF Known
<1> QED BY <1>2, <1>3

\* What the switches and backfills do to the aggregator.
LEMMA WorkKnown ==
  ASSUME Base, Known(agg, tape), NEW s \in Symbols,
         \/ SwitchPause(s) \/ JobDropped(s) \/ JobBegin(s) \/ Connect
         \/ SwitchClear \/ SwitchOpen
         \/ StampReqEnd \/ LoadBars \/ BarsFailed \/ RollBack \/ Replay \/ Drain
  PROVE  Known(agg', tape)
<1>1. agg \in Aggs /\ Len(agg.buf) <= MaxBuf
  BY NightTypes
<1>2. CASE SwitchPause(s) \/ JobDropped(s) \/ Connect \/ StampReqEnd
  <2>1. agg' = agg
    BY <1>2 DEF SwitchPause, JobDropped, Connect, StampReqEnd
  <2> QED BY <2>1
<1>3. CASE \/ JobBegin(s) \/ SwitchClear \/ SwitchOpen \/ BarsFailed
           \/ RollBack \/ Drain
  <2>1. agg' \in {BeginBackfill(agg), ResetMarket(agg), EndBackfill(agg, 0, 0),
                  EndBackfill(agg, task.tradeEnd, task.reqEnd)}
    BY <1>3 DEF JobBegin, SwitchClear, SwitchOpen, Opened, BarsFailed, RollBack,
                Drain
  <2> QED BY <1>1, <2>1, KnownBackfill
<1>4. CASE LoadBars \/ Replay
  BY <1>4, LoadKnown
<1> QED BY <1>2, <1>3, <1>4

LEMMA WorkNightBase ==
  ASSUME Base, NightBase, NEW s \in Symbols, NightWindows,
         \/ SwitchPause(s) \/ JobDropped(s) \/ JobBegin(s) \/ Connect
         \/ SwitchClear \/ SwitchOpen
         \/ StampReqEnd \/ LoadBars \/ BarsFailed \/ RollBack \/ Replay \/ Drain
  PROVE  NightBase'
<1>1. UNCHANGED <<now, tape, poll>>
  BY DEF SwitchPause, JobDropped, JobBegin, Connect, SwitchClear, SwitchOpen, StampReqEnd,
         LoadBars, BarsFailed, RollBack, Replay, Drain, feedVars
<1>2. ASSUME Replay PROVE mark'.at <= now
  <2>1. task.at = "trades" /\ mark' = [symbol |-> task.symbol, at |-> HighWater]
    BY <1>2 DEF Replay
  <2>2. mark'.at <= now
    BY <2>1 DEF HighWater, NightWindows
  <2> QED BY <2>2
<1>3. ASSUME ~Replay PROVE mark'.at <= now
  <2>1. mark' \in {mark, NoMark}
    BY <1>3 DEF SwitchPause, JobDropped, JobBegin, Connect, SwitchClear, SwitchOpen, StampReqEnd,
                LoadBars, BarsFailed, RollBack, Drain, feedVars
  <2>2. mark.at <= now /\ NoMark.at <= now
    BY NightTypes DEF NightBase, Past, NoMark
  <2> QED BY <2>1, <2>2
<1>4. mark'.at <= now
  BY <1>2, <1>3
<1>5. Past'
  BY <1>1, <1>4 DEF NightBase, Past
<1>6. Batch'
  BY <1>1 DEF NightBase, Batch
<1>7. Known(agg', tape')
  BY <1>1, WorkKnown DEF NightBase
<1> QED BY <1>5, <1>6, <1>7 DEF NightBase

\* The poller changes the bars only when it hands on a print.
LEMMA PollLeavesBars ==
  ASSUME Base, PollBegin \/ PollFailed \/ PollQuote \/ PollEnd
  PROVE  agg'.minute = agg.minute /\ agg'.sub = agg.sub /\ agg'.buf = agg.buf
<1>1. CASE PollQuote
  <2> DEFINE b == [agg EXCEPT !.quote = poll.symbol]
  <2>1. agg' = agg \/ agg' = b
    BY <1>1 DEF PollQuote
  <2>2. b.minute = agg.minute /\ b.sub = agg.sub /\ b.buf = agg.buf
    BY QuoteIs, TypeIs DEF Base, Polls
  <2> HIDE DEF b
  <2> QED BY <2>1, <2>2
<1>2. CASE PollBegin \/ PollFailed \/ PollEnd
  BY <1>2 DEF PollBegin, PollFailed, PollEnd
<1> QED BY <1>1, <1>2

LEMMA TickNightBase ==
  ASSUME Base, feed = "boats", NightBase, NEW s \in Symbols, Tick(s)
  PROVE  NightBase'
<1> DEFINE p == [symbol |-> s, ts |-> now + 1]
<1>1. /\ now' = now + 1 /\ tape' = tape \cup {p} /\ agg' = agg
      /\ UNCHANGED <<mark, poll>>
  BY DEF Tick, Passes
<1>2. p \in Prints /\ p.ts = now + 1
  BY TickBase
<1> HIDE DEF p
<1>3. /\ now \in Nat /\ mark.at \in Nat /\ poll.cursor \in Nat /\ poll.from \in Nat
      /\ tape \subseteq Prints /\ poll.batch \subseteq tape
      /\ \A q \in Prints : q.ts \in Nat
  BY NightTypes DEF NightBase, Batch
<1>4. \A q \in tape : q.ts \in Nat /\ q.ts <= now /\ q.ts < p.ts
  <2>1. \A q \in tape : q.ts <= now
    BY DEF NightBase, Past
  <2> QED BY <1>2, <1>3, <2>1
<1>5. Past'
  <2>1. \A q \in tape' : q.ts <= now'
    BY <1>1, <1>2, <1>3, <1>4
  <2>2. ASSUME NEW q \in tape', NEW r \in tape', q.ts = r.ts PROVE q = r
    <3>1. CASE q \in tape /\ r \in tape
      BY <2>2, <3>1 DEF NightBase, Past
    <3>2. CASE q = p \/ r = p
      BY <1>1, <1>2, <1>3, <1>4, <2>2, <3>2
    <3> QED BY <1>1, <3>1, <3>2
  <2>3. mark'.at <= now' /\ poll'.cursor <= now' /\ poll'.from <= now'
    <3>1. mark.at <= now /\ poll.cursor <= now /\ poll.from <= now
      BY DEF NightBase, Past
    <3> QED BY <1>1, <1>3, <3>1
  <2> QED BY <2>1, <2>2, <2>3 DEF Past
<1>6. Batch'
  <2>1. ASSUME NEW r \in poll.batch, NEW q \in tape',
               q.symbol = poll.symbol, q.ts > poll.from, q.ts <= r.ts
        PROVE  q \in poll.batch
    <3>1. r \in tape /\ r.ts < p.ts /\ r.ts \in Nat
      BY <1>3, <1>4
    <3>2. q # p
      BY <1>2, <1>3, <2>1, <3>1
    <3> QED BY <1>1, <2>1, <3>2 DEF NightBase, Batch
  <2> QED BY <1>1, <1>3, <2>1 DEF NightBase, Batch
<1>7. Known(agg', tape')
  BY <1>1 DEF NightBase, Known
<1> QED BY <1>5, <1>6, <1>7 DEF NightBase

LEMMA PollBeginIs ==
  ASSUME Base, Past, PollBegin
  PROVE  /\ poll'.symbol = active /\ poll'.at = "fetched"
         /\ poll'.cursor = IF poll.symbol = active THEN poll.cursor ELSE 0
         /\ poll'.from = Later(poll'.cursor, MarkFor(active))
         /\ poll'.from \in {poll'.cursor, MarkFor(active)}
         /\ poll'.cursor <= poll'.from /\ MarkFor(active) <= poll'.from
         /\ poll'.from <= now
         /\ poll'.batch = Listed(active, poll'.from, Floor(now))
         /\ poll.at = "idle" /\ UNCHANGED <<now, tape, active, mark, task, agg,
                                            window, whole, lost>>
<1> DEFINE kept == IF poll.symbol = active THEN poll.cursor ELSE 0
           from == Later(kept, MarkFor(active))
<1>1. /\ poll.at = "idle"
      /\ poll' = [symbol |-> active, cursor |-> kept, at |-> "fetched",
                  from |-> from, batch |-> Listed(active, from, Floor(now))]
      /\ UNCHANGED <<now, tape, active, mark, task, agg, window, whole, lost>>
  BY DEF PollBegin, feedVars
<1>2. /\ kept \in Nat /\ MarkFor(active) \in Nat /\ now \in Nat
      /\ kept <= now /\ MarkFor(active) <= now
  BY NightTypes DEF Past
<1>3. /\ from \in {kept, MarkFor(active)} /\ kept <= from /\ MarkFor(active) <= from
      /\ from <= now
  BY <1>2 DEF Later
<1> HIDE DEF kept, from
<1> QED BY <1>1, <1>3 DEF kept, from

LEMMA PollApplyIs ==
  ASSUME Base, NightBase, PollApply
  PROVE  \E p \in poll.batch :
           /\ p \in tape /\ p \in Prints /\ p.symbol = poll.symbol
           /\ p.ts > poll.from /\ p.ts <= now
           /\ \A q \in poll.batch : q # p => p.ts < q.ts
           /\ agg' = OnTrade(agg, p)
           /\ lost' = lost \cup {agg.buf[i] : i \in 1..Dropped(agg)}
           /\ poll.at = "apply" /\ poll'.at = "apply" /\ poll'.symbol = poll.symbol
           /\ poll'.cursor = poll.cursor /\ poll'.from = p.ts
           /\ poll'.batch = poll.batch \ {p}
           /\ UNCHANGED <<now, tape, active, mark, task, window, whole>>
<1>1. PICK p \in poll.batch :
        /\ \A q \in poll.batch : p.ts <= q.ts
        /\ agg' = OnTrade(agg, p)
        /\ lost' = lost \cup {agg.buf[i] : i \in 1..Dropped(agg)}
        /\ poll' = [[poll EXCEPT !.batch = @ \ {p}] EXCEPT !.from = p.ts]
  BY DEF PollApply
<1>2. /\ poll.at = "apply"
      /\ UNCHANGED <<now, tape, active, mark, task, window, whole>>
  BY DEF PollApply, feedVars
<1>3. /\ p \in tape /\ p \in Prints /\ p.symbol = poll.symbol /\ p.ts > poll.from
      /\ p.ts <= now
  BY NightTypes DEF NightBase, Batch, Past
<1>4. ASSUME NEW q \in poll.batch, q # p PROVE p.ts < q.ts
  <2>1. q \in tape /\ p.ts # q.ts
    BY <1>3, <1>4 DEF NightBase, Batch, Past
  <2>2. p.ts \in Nat /\ q.ts \in Nat /\ p.ts <= q.ts
    BY <1>1, <1>3, <2>1, NightTypes
  <2> QED BY <2>1, <2>2
<1>5. /\ poll'.at = poll.at /\ poll'.symbol = poll.symbol
      /\ poll'.cursor = poll.cursor /\ poll'.from = p.ts
      /\ poll'.batch = poll.batch \ {p}
  <2> DEFINE q == [poll EXCEPT !.batch = poll.batch \ {p}]
  <2>1. poll \in Polls
    BY TypeIs DEF Base
  <2>2. /\ q.at = poll.at /\ q.symbol = poll.symbol /\ q.cursor = poll.cursor
        /\ q.batch = poll.batch \ {p} /\ DOMAIN q = DOMAIN poll
    BY <2>1 DEF Polls
  <2>3. poll' = [q EXCEPT !.from = p.ts]
    BY <1>1
  <2>4. DOMAIN poll = {"symbol", "cursor", "at", "from", "batch"}
    BY <2>1 DEF Polls
  <2> HIDE DEF q
  <2> QED BY <2>2, <2>3, <2>4
<1> QED BY <1>1, <1>2, <1>3, <1>4, <1>5

LEMMA PollNightBase ==
  ASSUME Base, NightBase,
         PollBegin \/ PollFailed \/ PollQuote \/ PollApply \/ PollEnd
  PROVE  NightBase'
<1>1. UNCHANGED <<now, tape, mark>>
  BY DEF PollBegin, PollFailed, PollQuote, PollApply, PollEnd, feedVars
<1>2. /\ poll.batch \subseteq tape /\ poll.cursor <= now /\ poll.from <= now
      /\ tape \subseteq Prints /\ \A p \in Prints : p.ts \in Nat
      /\ poll.cursor \in Nat /\ poll.from \in Nat /\ now \in Nat
  BY NightTypes DEF NightBase, Past, Batch
<1>3. Past' <=> poll'.cursor <= now /\ poll'.from <= now
  BY <1>1 DEF NightBase, Past
<1>4. CASE PollBegin
  <2>1. /\ poll'.symbol = active /\ poll'.at = "fetched"
        /\ poll'.cursor <= poll'.from /\ poll'.from <= now
        /\ poll'.batch = Listed(active, poll'.from, Floor(now))
        /\ poll'.cursor \in Nat /\ poll'.from \in Nat /\ agg' = agg
    <3>1. poll'.cursor \in Nat /\ poll'.from \in Nat
      BY <1>4, BaseInductive, PollBase, TypeIsNext, Constant DEF Base, Polls, Time
    <3> QED BY <1>4, <3>1, PollBeginIs DEF NightBase
  <2>2. Past'
    BY <1>2, <1>3, <2>1
  <2>3. Floor(now) \in Nat
    BY FloorIs, TypeIs DEF Base
  <2>4. Batch'
    BY <1>1, <1>2, <2>1, <2>3 DEF Batch, Listed
  <2> QED BY <1>1, <2>1, <2>2, <2>4 DEF NightBase
<1>5. CASE PollFailed \/ PollEnd
  <2>1. poll'.at = "idle" /\ poll'.batch = {} /\ poll'.from = 0
        /\ poll'.cursor \in {poll.cursor, poll.from} /\ agg' = agg
    BY <1>5 DEF PollFailed, PollEnd, Resting, CursorAfter
  <2>2. Past' /\ Batch'
    BY <1>2, <1>3, <2>1 DEF Batch
  <2> QED BY <1>1, <2>1, <2>2 DEF NightBase
<1>6. CASE PollQuote
  <2>1. poll' = [poll EXCEPT !.at = "apply"] /\ poll.at = "fetched"
    BY <1>6 DEF PollQuote
  <2>2. /\ poll'.at = "apply" /\ poll'.symbol = poll.symbol
        /\ poll'.cursor = poll.cursor /\ poll'.from = poll.from
        /\ poll'.batch = poll.batch
    BY <2>1, TypeIs DEF Base, Polls
  <2>3. agg'.minute = agg.minute /\ agg'.sub = agg.sub /\ agg'.buf = agg.buf
    BY <1>6, PollLeavesBars
  <2>4. Past' /\ Batch'
    BY <1>1, <1>3, <2>1, <2>2 DEF NightBase, Past, Batch
  <2> QED BY <1>1, <2>3, <2>4 DEF NightBase, Known
<1>7. CASE PollApply
  <2>1. PICK p \in poll.batch :
           /\ p \in tape /\ p \in Prints /\ p.symbol = poll.symbol
           /\ p.ts > poll.from /\ p.ts <= now
           /\ \A q \in poll.batch : q # p => p.ts < q.ts
           /\ agg' = OnTrade(agg, p)
           /\ poll.at = "apply" /\ poll'.at = "apply" /\ poll'.symbol = poll.symbol
           /\ poll'.cursor = poll.cursor /\ poll'.from = p.ts
           /\ poll'.batch = poll.batch \ {p}
    BY <1>7, PollApplyIs
  <2>2. Past'
    BY <1>2, <1>3, <2>1
  <2>3. ASSUME NEW r \in poll'.batch, NEW q \in tape, q.symbol = poll.symbol,
               q.ts > p.ts, q.ts <= r.ts
        PROVE  q \in poll'.batch
    <3>1. r \in poll.batch /\ q # p
      BY <1>2, <2>1, <2>3
    <3>2. q.ts > poll.from
      BY <1>2, <2>1, <2>3
    <3>3. q \in poll.batch
      BY <2>3, <3>1, <3>2 DEF NightBase, Batch
    <3> QED BY <2>1, <3>1, <3>3
  <2>4. poll.cursor <= p.ts
    <3>1. poll.cursor <= poll.from
      BY <2>1 DEF NightBase, Batch
    <3> QED BY <1>2, <2>1, <3>1
  <2>5. \A r \in poll'.batch : r.symbol = poll.symbol /\ r.ts > p.ts
    BY <1>2, <2>1 DEF NightBase, Batch
  <2>6. Batch'
    BY <1>1, <1>2, <2>1, <2>3, <2>4, <2>5 DEF Batch
  <2>7. Known(agg', tape)
    BY <2>1, NightTypes, OnTradeKnown DEF NightBase
  <2> QED BY <1>1, <2>2, <2>6, <2>7 DEF NightBase
<1> QED BY <1>4, <1>5, <1>6, <1>7

\* A step that changes no print of the book's symbol, nor unsays that the
\* poller passed one.
LEMMA TwiceSame ==
  ASSUME Twice, agg'.minute = agg.minute, agg'.sub = agg.sub,
         agg'.buf = agg.buf \/ agg'.buf = <<>>, Booked' = Booked, Fetched' = Fetched,
         \A p \in Booked : Passed(p) => Passed(p)'
  PROVE  Twice'
<1>1. \A p : ~Held(<<>>, p) /\ Single(<<>>, p)
  BY DEF Held, Single
<1>2. \A p \in Booked : /\ Held(agg'.buf, p) => Held(agg.buf, p)
                        /\ Single(agg.buf, p) => Single(agg'.buf, p)
  BY <1>1
<1> SUFFICES ASSUME NEW p \in Booked
             PROVE  /\ Single(agg'.buf, p)
                    /\ ~Passed(p)' => ~Held(agg'.buf, p)
                    /\ p.ts > Fetched =>
                         /\ agg'.minute[p] <= 1 /\ agg'.sub[p] <= 1
                         /\ ~Passed(p)' \/ Held(agg'.buf, p) =>
                              agg'.minute[p] = 0 /\ agg'.sub[p] = 0
  BY DEF Twice
<1>3. Passed(p) => Passed(p)'
  OBVIOUS
<1>4. /\ Single(agg.buf, p)
      /\ ~Passed(p) => ~Held(agg.buf, p)
      /\ p.ts > Fetched =>
           /\ agg.minute[p] <= 1 /\ agg.sub[p] <= 1
           /\ ~Passed(p) \/ Held(agg.buf, p) => agg.minute[p] = 0 /\ agg.sub[p] = 0
  BY DEF Twice
<1>5. Single(agg'.buf, p) /\ (Held(agg'.buf, p) => Held(agg.buf, p))
  BY <1>2, <1>4
<1> QED BY <1>3, <1>4, <1>5

\* An empty aggregator holds nothing twice.
LEMMA TwiceEmpty ==
  ASSUME agg'.minute = Empty, agg'.sub = Empty, agg'.buf = <<>>, Booked' \subseteq Prints
  PROVE  Twice'
<1>1. \A p : ~Held(<<>>, p) /\ Single(<<>>, p)
  BY DEF Held, Single
<1>2. \A p \in Prints : Empty[p] = 0
  BY DEF Empty
<1> HIDE DEF Empty
<1> QED BY <1>1, <1>2 DEF Twice

\* Everything the buffer holds is drained, or what is after a cutoff.
LEMMA TwiceDrained ==
  ASSUME Base, Twice, NEW c, NEW m, agg' = EndBackfill(agg, c, m),
         Booked' = Booked, Fetched' = Fetched, poll' = poll, Subject' = Subject
  PROVE  Twice'
<1>1. /\ agg'.buf = <<>>
      /\ agg'.minute = Drained(agg.minute, agg.buf, m)
      /\ agg'.sub = Drained(agg.sub, agg.buf, c)
  BY EndBackfillIs, NightTypes
<1>2. \A p : ~Held(<<>>, p) /\ Single(<<>>, p)
  BY DEF Held, Single
<1> SUFFICES ASSUME NEW p \in Booked, p.ts > Fetched
             PROVE  /\ agg'.minute[p] <= 1 /\ agg'.sub[p] <= 1
                    /\ ~Passed(p) => agg'.minute[p] = 0 /\ agg'.sub[p] = 0
  <2>1. \A p : Passed(p)' <=> Passed(p)
    BY DEF Passed, Subject
  <2> QED BY <1>1, <1>2, <2>1 DEF Twice
<1>3. /\ Single(agg.buf, p) /\ p \in Prints
      /\ agg.minute[p] <= 1 /\ agg.sub[p] <= 1
      /\ ~Passed(p) => ~Held(agg.buf, p)
      /\ ~Passed(p) \/ Held(agg.buf, p) => agg.minute[p] = 0 /\ agg.sub[p] = 0
  BY NightTypes DEF Twice
<1> DEFINE x == agg.minute[p]
           y == agg.sub[p]
<1>4. /\ agg'.minute[p] = x + IF p.ts > m /\ Held(agg.buf, p) THEN 1 ELSE 0
      /\ agg'.sub[p] = y + IF p.ts > c /\ Held(agg.buf, p) THEN 1 ELSE 0
  BY <1>1, <1>3, DrainedIs, NightTypes
<1>5. x \in Nat /\ y \in Nat
  BY <1>3, NightTypes DEF Series
<1> HIDE DEF x, y
<1>6. /\ x <= 1 /\ y <= 1
      /\ ~Passed(p) => ~Held(agg.buf, p)
      /\ ~Passed(p) \/ Held(agg.buf, p) => x = 0 /\ y = 0
  BY <1>3 DEF x, y
<1>7. CASE Held(agg.buf, p)
  BY <1>4, <1>5, <1>6, <1>7
<1>8. CASE ~Held(agg.buf, p)
  BY <1>4, <1>5, <1>6, <1>8
<1> QED BY <1>7, <1>8

LEMMA TickTwice ==
  ASSUME Base, feed = "boats", NightBase, Twice, NEW s \in Symbols, Tick(s)
  PROVE  Twice'
<1> DEFINE p == [symbol |-> s, ts |-> now + 1]
<1>1. /\ tape' = tape \cup {p} /\ agg' = agg
      /\ UNCHANGED <<active, poll, task, window>>
  BY DEF Tick, Passes
<1>2. p \in Prints /\ p.ts = now + 1
  BY TickBase
<1> HIDE DEF p
<1>3. p \notin tape
  BY <1>2, NightTypes DEF NightBase, Past
<1>4. agg.minute[p] = 0 /\ agg.sub[p] = 0 /\ ~Held(agg.buf, p)
  BY <1>2, <1>3 DEF NightBase, Known
<1>5. Single(agg.buf, p)
  BY <1>4 DEF Single, Held
<1>6. Booked' \subseteq Booked \cup {p} /\ Fetched' = Fetched
  BY <1>1 DEF Booked, Subject, Fetched
<1> SUFFICES ASSUME NEW q \in Booked'
             PROVE  /\ Single(agg.buf, q)
                    /\ ~Passed(q) => ~Held(agg.buf, q)
                    /\ q.ts > Fetched =>
                         /\ agg.minute[q] <= 1 /\ agg.sub[q] <= 1
                         /\ ~Passed(q) \/ Held(agg.buf, q) =>
                              agg.minute[q] = 0 /\ agg.sub[q] = 0
  BY <1>1, <1>6 DEF Twice, Passed, Subject
<1>7. CASE q = p
  BY <1>4, <1>5, <1>7
<1>8. CASE q \in Booked
  BY <1>8 DEF Twice
<1> QED BY <1>6, <1>7, <1>8

LEMMA ApplyTwice ==
  ASSUME Base, NightBase, Twice, PollApply
  PROVE  Twice'
<1>1. PICK p \in poll.batch :
         /\ p \in tape /\ p \in Prints /\ p.symbol = poll.symbol
         /\ p.ts > poll.from /\ p.ts <= now
         /\ \A q \in poll.batch : q # p => p.ts < q.ts
         /\ agg' = OnTrade(agg, p)
         /\ lost' = lost \cup {agg.buf[i] : i \in 1..Dropped(agg)}
         /\ poll.at = "apply" /\ poll'.at = "apply" /\ poll'.symbol = poll.symbol
         /\ poll'.cursor = poll.cursor /\ poll'.from = p.ts
         /\ poll'.batch = poll.batch \ {p}
         /\ UNCHANGED <<now, tape, active, mark, task, window, whole>>
  BY PollApplyIs
<1>2. Booked' = Booked /\ Fetched' = Fetched
  BY <1>1 DEF Booked, Subject, Fetched
<1> SUFFICES ASSUME NEW q \in Booked
             PROVE  /\ Single(agg'.buf, q)
                    /\ ~Passed(q)' => ~Held(agg'.buf, q)
                    /\ q.ts > Fetched =>
                         /\ agg'.minute[q] <= 1 /\ agg'.sub[q] <= 1
                         /\ ~Passed(q)' \/ Held(agg'.buf, q) =>
                              agg'.minute[q] = 0 /\ agg'.sub[q] = 0
  BY <1>2 DEF Twice
<1>3. q \in Prints /\ q.ts \in Nat /\ p.ts \in Nat /\ poll.from \in Nat
  BY <1>1, NightTypes
<1>4. /\ Single(agg.buf, q)
      /\ ~Passed(q) => ~Held(agg.buf, q)
      /\ q.ts > Fetched =>
           /\ agg.minute[q] <= 1 /\ agg.sub[q] <= 1
           /\ ~Passed(q) \/ Held(agg.buf, q) => agg.minute[q] = 0 /\ agg.sub[q] = 0
  BY DEF Twice
\* What was passed stays passed, and the print applied had not been.
<1>5. /\ Passed(q) => Passed(q)'
      /\ q = p => ~Passed(q) /\ Passed(q)'
  <2>1. Passed(q) <=> poll.symbol = Subject /\ q.ts <= poll.from
    BY <1>1 DEF Passed, Subject
  <2>2. Passed(q)' <=> poll.symbol = Subject /\ q.ts <= p.ts
    BY <1>1 DEF Passed, Subject
  <2>3. q = p => poll.symbol = Subject
    BY <1>1 DEF Booked, Subject
  <2> QED BY <1>1, <1>3, <2>1, <2>2, <2>3
<1>6. agg \in Aggs /\ Len(agg.buf) <= MaxBuf
  BY NightTypes
<1>7. CASE agg.buffering
  <2>1. agg'.minute = agg.minute /\ agg'.sub = agg.sub
    BY <1>1, <1>6, <1>7, OnTradeBuffered
  <2>2. /\ Held(agg'.buf, q) => q = p \/ Held(agg.buf, q)
        /\ Single(agg.buf, q) /\ (q = p => ~Held(agg.buf, q)) => Single(agg'.buf, q)
    BY <1>1, <1>6, <1>7, OnTradeHeld
  <2> QED BY <1>4, <1>5, <2>1, <2>2
<1>8. CASE ~agg.buffering
  <2>1. /\ agg'.buf = agg.buf
        /\ agg'.minute[q] = IF q = p THEN agg.minute[q] + 1 ELSE agg.minute[q]
        /\ agg'.sub[q] = IF q = p THEN agg.sub[q] + 1 ELSE agg.sub[q]
    BY <1>1, <1>3, <1>6, <1>8, OnTradeCounted
  <2>2. CASE q = p
    BY <1>4, <1>5, <2>1, <2>2
  <2>3. CASE q # p
    BY <1>4, <1>5, <2>1, <2>3
  <2> QED BY <2>2, <2>3
<1> QED BY <1>7, <1>8

LEMMA PollTwice ==
  ASSUME Base, NightBase, Twice, PollBegin \/ PollFailed \/ PollQuote \/ PollEnd
  PROVE  Twice'
<1>1. UNCHANGED <<tape, active, task, window>>
  BY DEF PollBegin, PollFailed, PollQuote, PollEnd, feedVars
<1>2. Booked' = Booked /\ Fetched' = Fetched
  BY <1>1 DEF Booked, Subject, Fetched
<1>3. agg'.minute = agg.minute /\ agg'.sub = agg.sub /\ agg'.buf = agg.buf
  BY PollLeavesBars
<1>4. poll.cursor \in Nat /\ poll.from \in Nat /\ poll \in Polls
      /\ (poll.at # "idle" => poll.cursor <= poll.from)
  BY NightTypes, TypeIs DEF Base, NightBase, Batch
<1>5. ASSUME NEW p \in Booked, Passed(p) PROVE Passed(p)'
  <2>1. p.ts \in Nat
    BY NightTypes
  <2>2. CASE PollBegin
    <3>1. /\ poll'.symbol = active /\ poll'.at = "fetched" /\ poll.at = "idle"
          /\ poll.symbol = active => poll'.cursor = poll.cursor
      BY <2>2, PollBeginIs DEF NightBase
    <3>2. Subject = active
      BY <2>2 DEF PollBegin, Subject, Base, Stage
    <3> QED BY <1>1, <1>5, <3>1, <3>2 DEF Passed, Subject
  <2>3. CASE PollFailed
    <3>1. /\ poll.at = "fetched" /\ poll'.symbol = poll.symbol /\ poll'.at = "idle"
          /\ poll'.cursor = poll.cursor
      BY <2>3 DEF PollFailed, Resting
    <3> QED BY <1>1, <1>5, <3>1 DEF Passed, Subject
  <2>4. CASE PollQuote
    <3>1. poll.at = "fetched" /\ poll' = [poll EXCEPT !.at = "apply"]
      BY <2>4 DEF PollQuote
    <3>2. /\ poll'.symbol = poll.symbol /\ poll'.at = "apply"
          /\ poll'.from = poll.from
      BY <1>4, <3>1 DEF Polls
    <3> QED BY <1>1, <1>4, <1>5, <2>1, <3>1, <3>2 DEF Passed, Subject
  <2>5. CASE PollEnd
    <3>1. /\ poll.at = "apply" /\ poll'.symbol = poll.symbol /\ poll'.at = "idle"
          /\ poll'.cursor = poll.from
      BY <2>5 DEF PollEnd, Resting, CursorAfter
    <3> QED BY <1>1, <1>5, <3>1 DEF Passed, Subject
  <2> QED BY <2>2, <2>3, <2>4, <2>5
<1> QED BY <1>2, <1>3, <1>5, TwiceSame

\* Switches and backfills.
LEMMA WorkTwice ==
  ASSUME Base, NightBase, Twice, NightWindows, NEW s \in Symbols,
         \/ SwitchPause(s) \/ JobDropped(s) \/ JobBegin(s) \/ Connect
         \/ SwitchClear \/ SwitchOpen
         \/ StampReqEnd \/ LoadBars \/ BarsFailed \/ RollBack \/ Replay \/ Drain
  PROVE  Twice'
<1>1. /\ tape' = tape /\ poll' = poll /\ agg \in Aggs /\ Len(agg.buf) <= MaxBuf
      /\ tape \subseteq Prints /\ Booked' \subseteq Prints
      /\ Subject' = Subject =>
           Booked' = Booked /\ \A p : Passed(p) => Passed(p)'
  <2>1. tape' = tape /\ poll' = poll
    BY DEF SwitchPause, JobDropped, JobBegin, Connect, SwitchClear, SwitchOpen,
           StampReqEnd, LoadBars, BarsFailed, RollBack, Replay, Drain, feedVars
  <2> QED BY <2>1, NightTypes DEF Booked, Passed
<1>2. CASE SwitchPause(s)
  <2>1. Subject' = NoSymbol
    BY <1>2 DEF SwitchPause, Task, Subject
  <2>2. Booked' = {}
    BY <1>1, <2>1, Constant DEF Booked, Prints
  <2> QED BY <2>2 DEF Twice
<1>3. CASE JobDropped(s) \/ Connect
  <2>1. UNCHANGED <<active, agg, task, window>>
    BY <1>3 DEF JobDropped, Connect
  <2>2. Fetched' = Fetched /\ Subject' = Subject
    BY <2>1 DEF Fetched, Subject
  <2> QED BY <1>1, <2>1, <2>2, TwiceSame
<1>4. CASE JobBegin(s) \/ SwitchOpen
  <2>1. /\ agg' = BeginBackfill(agg) /\ UNCHANGED window
        /\ task.at \in {"idle", "cleared"} /\ task'.at = "armed"
        /\ active' = IF task.at = "idle" THEN active ELSE task.symbol
    <3>1. CASE JobBegin(s)
      <4>1. Idle /\ agg' = BeginBackfill(agg) /\ UNCHANGED <<active, window>>
            /\ task'.at = "armed"
        BY <3>1 DEF JobBegin, Task
      <4> QED BY <4>1, NoTaskIs DEF Idle
    <3>2. CASE SwitchOpen
      <4>1. /\ agg' = BeginBackfill(agg) /\ task' = GoesOn(task, "armed")
            /\ active' = task.symbol /\ UNCHANGED window /\ task.at = "cleared"
        BY <3>2 DEF SwitchOpen, Opened
      <4>2. task'.at = "armed"
        BY <4>1, GoesOnIs, NightTypes DEF Steps
      <4> QED BY <4>1, <4>2
    <3> QED BY <1>4, <3>1, <3>2
  <2>2. Fetched' = Fetched /\ Subject' = Subject
    BY <2>1 DEF Fetched, Subject
  <2>3. /\ agg'.minute = agg.minute /\ agg'.sub = agg.sub
        /\ agg'.buf = agg.buf \/ agg'.buf = <<>>
    BY <1>1, <2>1, BeginBackfillIs
  <2> QED BY <1>1, <2>2, <2>3, TwiceSame
<1>5. CASE SwitchClear \/ RollBack
  <2>1. agg' = ResetMarket(agg)
    BY <1>5 DEF SwitchClear, RollBack
  <2>2. agg'.minute = Empty /\ agg'.sub = Empty /\ agg'.buf = <<>>
    BY <2>1, ResetIs
  <2> QED BY <1>1, <2>2, TwiceEmpty
<1>6. CASE StampReqEnd
  <2>1. /\ task.at = "armed" /\ task'.at = "bars"
        /\ UNCHANGED <<active, agg, window>>
    BY <1>6, StampBase DEF StampReqEnd
  <2>2. Fetched' = Fetched /\ Subject' = Subject
    BY <2>1 DEF Fetched, Subject
  <2> QED BY <1>1, <2>1, <2>2, TwiceSame
<1>7. CASE LoadBars
  <2>1. /\ task'.at = "trades" /\ task'.tradeEnd = now /\ agg'.buf = agg.buf
        /\ active' = active /\ task.at = "bars"
    BY <1>7, BarsBase DEF LoadBars
  <2>2. \A p \in Booked : ~(p.ts > Fetched')
    BY <2>1, NightTypes DEF Fetched, NightBase, Past
  <2>3. Subject' = Subject
    BY <2>1 DEF Subject
  <2> SUFFICES ASSUME NEW p \in Booked
               PROVE  /\ Single(agg.buf, p)
                      /\ ~Passed(p) => ~Held(agg.buf, p)
    BY <1>1, <2>1, <2>2, <2>3 DEF Twice, Passed
  <2> QED BY DEF Twice
<1>8. CASE BarsFailed \/ Drain
  <2>1. /\ \/ agg' = EndBackfill(agg, 0, 0)
           \/ agg' = EndBackfill(agg, task.tradeEnd, task.reqEnd)
        /\ active' = active /\ task.at # "cleared" /\ task'.at # "cleared"
    BY <1>8, NoTaskIs DEF BarsFailed, Drain
  <2>2. Fetched' = Fetched
    BY <1>8, NoTaskIs DEF Fetched, BarsFailed, Drain
  <2>3. Subject' = Subject
    BY <2>1 DEF Subject
  <2> QED BY <1>1, <2>1, <2>2, <2>3, TwiceDrained
<1>9. CASE Replay
  <2>1. /\ task.at = "trades" /\ task'.at = "drain" /\ task'.tradeEnd = task.tradeEnd
        /\ agg'.minute = agg.minute /\ agg'.buf = agg.buf
        /\ agg'.sub \in {Once(Listed(task.symbol, 0, Floor(task.tradeEnd))), Once({})}
        /\ active' = active
    BY <1>9, ReplayBase DEF Replay
  <2>2. Fetched' = Fetched /\ Fetched = task.tradeEnd /\ Subject' = Subject
    BY <2>1 DEF Fetched, Subject
  <2>3. \A p \in Booked : p.ts > Fetched => agg'.sub[p] = 0
    <3> SUFFICES ASSUME NEW p \in Booked, p.ts > task.tradeEnd
                 PROVE  agg'.sub[p] = 0
      BY <2>2
    <3>1. p \in Prints /\ p.ts \in Nat /\ task.tradeEnd \in Time /\ task.tradeEnd \in Nat
      BY NightTypes
    <3>2. p \notin Listed(task.symbol, 0, Floor(task.tradeEnd))
      BY <3>1, FloorIs DEF Listed
    <3> QED BY <2>1, <3>1, <3>2, OnceIs
  <2> SUFFICES ASSUME NEW p \in Booked
               PROVE  /\ Single(agg.buf, p)
                      /\ ~Passed(p) => ~Held(agg.buf, p)
                      /\ p.ts > Fetched =>
                           /\ agg.minute[p] <= 1 /\ agg'.sub[p] <= 1
                           /\ ~Passed(p) \/ Held(agg.buf, p) =>
                                agg.minute[p] = 0 /\ agg'.sub[p] = 0
    BY <1>1, <2>1, <2>2 DEF Twice, Passed
  <2> QED BY <2>3 DEF Twice
<1> QED BY <1>2, <1>3, <1>4, <1>5, <1>6, <1>7, <1>8, <1>9

\* A step that changes no print of the active symbol and makes the poller skip
\* nothing but what the mark covers.
LEMMA HolesSame ==
  ASSUME Base, Holes, agg'.minute = agg.minute, agg'.sub = agg.sub,
         agg'.buf = agg.buf, Own' = Own, active' = active, mark' = mark,
         task' = task, window' = window, lost' = lost, now' = now,
         whole' \subseteq whole,
         \A p \in Own : Skipped(p)' => Skipped(p) \/ p.ts <= MarkFor(active)
  PROVE  Holes'
<1>1. MarkFor(active)' = MarkFor(active) /\ (Idle' <=> Idle)
  BY DEF MarkFor, Idle
<1>2. NightWindows'
  BY <1>1 DEF Holes, NightWindows
<1>3. PolledBuffered'
  <2> SUFFICES ASSUME task.at \in {"bars", "trades", "drain"}, NEW p \in Own \ lost,
                      p.ts > task.reqEnd, Skipped(p)'
               PROVE  Held(agg.buf, p) \/ (task.at = "drain" /\ p.ts <= task.tradeEnd)
    BY DEF PolledBuffered
  <2>1. CASE Skipped(p)
    BY <2>1 DEF Holes, PolledBuffered
  <2>2. CASE p.ts <= MarkFor(active)
    <3>1. /\ p.ts \in Nat /\ task.reqEnd \in Nat /\ task.tradeEnd \in Nat
          /\ MarkFor(active) \in {0, mark.at} /\ MarkFor(active) \in Nat
      BY NightTypes
    <3>2. CASE task.at = "drain"
      <4>1. mark.at = task.tradeEnd
        BY <3>2 DEF Holes, NightWindows
      <4> QED BY <2>2, <3>1, <3>2, <4>1
    <3>3. CASE task.at # "drain"
      <4>1. MarkFor(active) <= task.reqEnd
        BY <3>3 DEF Holes, NightWindows
      <4> QED BY <2>2, <3>1, <4>1
    <3> QED BY <3>2, <3>3
  <2> QED BY <2>1, <2>2
<1>4. MinuteListed' /\ SubListed'
  BY DEF Holes, MinuteListed, SubListed
<1>5. HolesBounded'
  <2> SUFFICES ASSUME Idle, NEW p \in Own \ lost,
                      p.ts <= MarkFor(active) \/ Skipped(p)
               PROVE  /\ "minute" \in whole => agg.minute[p] >= 1 \/ InWindow(p)
                      /\ "sub" \in whole => agg.sub[p] >= 1 \/ InCutSecond(p)
    <3>1. \A p : (InWindow(p)' <=> InWindow(p)) /\ (InCutSecond(p)' <=> InCutSecond(p))
      BY DEF InWindow, InCutSecond
    <3> QED BY <1>1, <3>1 DEF HolesBounded
  <2> QED BY DEF Holes, HolesBounded
<1> QED BY <1>2, <1>3, <1>4, <1>5 DEF Holes

\* Stages that make no claim yet about what is loaded.
LEMMA HolesEarly ==
  ASSUME task'.at \in {"paused", "cleared", "armed"}
  PROVE  Holes'
<1>1. NightWindows' /\ PolledBuffered' /\ MinuteListed' /\ SubListed'
  BY DEF NightWindows, PolledBuffered, MinuteListed, SubListed
<1>2. HolesBounded'
  BY NoTaskIs DEF HolesBounded, Idle
<1> QED BY <1>1, <1>2 DEF Holes

LEMMA TickHoles ==
  ASSUME Base, feed = "boats", NightBase, Holes, NEW s \in Symbols, Tick(s)
  PROVE  Holes'
<1> DEFINE p == [symbol |-> s, ts |-> now + 1]
<1>1. /\ now' = now + 1 /\ tape' = tape \cup {p} /\ agg' = agg /\ lost' = lost
      /\ UNCHANGED <<active, poll, task, window, mark, whole>>
  BY DEF Tick, Passes
<1>2. p \in Prints /\ p.ts = now + 1
  BY TickBase
<1> HIDE DEF p
<1>3. /\ now \in Nat /\ poll.cursor \in Nat /\ poll.from \in Nat
      /\ task.reqEnd \in Nat /\ task.tradeEnd \in Nat /\ task.tradeEnd \in Time
      /\ MarkFor(active) \in Nat /\ MarkFor(active) \in {0, mark.at}
      /\ poll.cursor <= now /\ poll.from <= now /\ mark.at <= now
  BY NightTypes DEF NightBase, Past
<1>4. Own' \subseteq Own \cup {p}
  BY <1>1 DEF Own
<1>5. \A q : Skipped(q)' <=> Skipped(q)
  BY <1>1 DEF Skipped
\* The new print is beyond every mark and window.
<1>6. ~Skipped(p) /\ ~(p.ts <= MarkFor(active))
  BY <1>2, <1>3 DEF Skipped
<1>7. /\ task.at \in {"trades", "drain"} => ~(p.ts <= task.reqEnd)
      /\ task.at = "drain" => ~(p.ts <= Floor(task.tradeEnd))
  BY <1>2, <1>3, FloorIs DEF Holes, NightWindows
<1>8. MarkFor(active)' = MarkFor(active) /\ (Idle' <=> Idle)
  BY <1>1 DEF MarkFor, Idle
<1>9. NightWindows'
  BY <1>1, <1>3, <1>8 DEF Holes, NightWindows
<1>10. PolledBuffered'
  BY <1>1, <1>4, <1>5, <1>6 DEF Holes, PolledBuffered
<1>11. MinuteListed' /\ SubListed'
  BY <1>1, <1>4, <1>7 DEF Holes, MinuteListed, SubListed
<1>12. HolesBounded'
  BY <1>1, <1>4, <1>5, <1>6, <1>8 DEF Holes, HolesBounded, InWindow, InCutSecond
<1> QED BY <1>9, <1>10, <1>11, <1>12 DEF Holes

LEMMA ApplyHoles ==
  ASSUME Base, NightBase, Holes, PollApply
  PROVE  Holes'
<1> DEFINE gone == {agg.buf[i] : i \in 1..Dropped(agg)}
<1>1. PICK p \in poll.batch :
         /\ p \in tape /\ p \in Prints /\ p.symbol = poll.symbol
         /\ p.ts > poll.from /\ p.ts <= now
         /\ \A q \in poll.batch : q # p => p.ts < q.ts
         /\ agg' = OnTrade(agg, p)
         /\ lost' = lost \cup gone
         /\ poll.at = "apply" /\ poll'.at = "apply" /\ poll'.symbol = poll.symbol
         /\ poll'.cursor = poll.cursor /\ poll'.from = p.ts
         /\ poll'.batch = poll.batch \ {p}
         /\ UNCHANGED <<now, tape, active, mark, task, window, whole>>
  BY PollApplyIs
<1> HIDE DEF gone
<1>2. Own' = Own /\ MarkFor(active)' = MarkFor(active) /\ (Idle' <=> Idle)
  BY <1>1 DEF Own, MarkFor, Idle
<1>3. agg \in Aggs /\ Len(agg.buf) <= MaxBuf /\ \A q \in Prints : q.ts \in Nat
  BY NightTypes
\* Between the last print applied and this one there is none of the symbol.
<1>4. ASSUME NEW q \in Own, Skipped(q)' PROVE q = p \/ Skipped(q)
  <2>1. poll.symbol = active /\ q.ts <= p.ts
    BY <1>1, <1>4 DEF Skipped
  <2>2. CASE q.ts <= poll.from
    BY <1>1, <2>1, <2>2 DEF Skipped
  <2>3. CASE ~(q.ts <= poll.from)
    <3>1. q \in Prints /\ q \in tape /\ q.symbol = active /\ q.ts \in Nat /\ p.ts \in Nat
          /\ poll.from \in Nat
      BY <1>1, NightTypes DEF Own
    <3>2. q \in poll.batch
      BY <1>1, <2>1, <2>3, <3>1 DEF NightBase, Batch
    <3> QED BY <1>1, <2>1, <3>1, <3>2
  <2> QED BY <2>2, <2>3
<1>5. CASE agg.buffering
  <2>1. agg'.minute = agg.minute /\ agg'.sub = agg.sub
    BY <1>1, <1>3, <1>5, OnTradeBuffered
  <2>2. /\ Held(agg'.buf, p)
        /\ \A q : Held(agg.buf, q) => q \in gone \/ Held(agg'.buf, q)
    BY <1>1, <1>3, <1>5, OnTradeHeld DEF gone
  <2>3. NightWindows'
    BY <1>1, <1>2 DEF Holes, NightWindows
  <2>4. PolledBuffered'
    <3> SUFFICES ASSUME task.at \in {"bars", "trades", "drain"}, NEW q \in Own,
                        q \notin lost', q.ts > task.reqEnd, Skipped(q)'
                 PROVE  Held(agg'.buf, q) \/ (task.at = "drain" /\ q.ts <= task.tradeEnd)
      BY <1>1, <1>2 DEF PolledBuffered
    <3>1. CASE q = p
      BY <2>2, <3>1
    <3>2. CASE q # p
      <4>1. Skipped(q) /\ q \notin lost /\ q \notin gone
        BY <1>1, <1>4, <3>2
      <4>2. Held(agg.buf, q) \/ (task.at = "drain" /\ q.ts <= task.tradeEnd)
        BY <4>1 DEF Holes, PolledBuffered
      <4> QED BY <2>2, <4>1, <4>2
    <3> QED BY <3>1, <3>2
  <2>5. MinuteListed' /\ SubListed'
    BY <1>1, <1>2, <2>1 DEF Holes, MinuteListed, SubListed
  <2>6. HolesBounded'
    BY <1>2, <1>5, NoTaskIs DEF Base, Stage, Busy, Idle, HolesBounded
  <2> QED BY <2>3, <2>4, <2>5, <2>6 DEF Holes
<1>6. CASE ~agg.buffering
  <2>1. \A q \in Prints :
          /\ agg'.minute[q] = IF q = p THEN agg.minute[q] + 1 ELSE agg.minute[q]
          /\ agg'.sub[q] = IF q = p THEN agg.sub[q] + 1 ELSE agg.sub[q]
    BY <1>1, <1>3, <1>6, OnTradeCounted
  <2>2. task.at \notin {"armed", "bars", "trades", "drain"}
    BY <1>6 DEF Base, Stage, Busy
  <2>3. NightWindows' /\ PolledBuffered' /\ MinuteListed' /\ SubListed'
    BY <1>1, <2>2 DEF NightWindows, PolledBuffered, MinuteListed, SubListed
  <2>4. HolesBounded'
    <3> SUFFICES ASSUME Idle, NEW q \in Own, q \notin lost',
                        q.ts <= MarkFor(active) \/ Skipped(q)'
                 PROVE  /\ "minute" \in whole => agg'.minute[q] >= 1 \/ InWindow(q)
                        /\ "sub" \in whole => agg'.sub[q] >= 1 \/ InCutSecond(q)
      <4>1. \A q : (InWindow(q)' <=> InWindow(q)) /\ (InCutSecond(q)' <=> InCutSecond(q))
        BY <1>1 DEF InWindow, InCutSecond
      <4> QED BY <1>1, <1>2, <4>1 DEF HolesBounded
    <3>1. q \in Prints /\ agg.minute[q] \in Nat /\ agg.sub[q] \in Nat
      BY NightTypes DEF Series
    <3>2. CASE q = p
      BY <2>1, <3>1, <3>2
    <3>3. CASE q # p
      <4>1. q \notin lost /\ (q.ts <= MarkFor(active) \/ Skipped(q))
        BY <1>1, <1>4, <3>3
      <4>2. agg'.minute[q] = agg.minute[q] /\ agg'.sub[q] = agg.sub[q]
        BY <2>1, <3>1, <3>3
      <4> QED BY <4>1, <4>2 DEF Holes, HolesBounded
    <3> QED BY <3>2, <3>3
  <2> QED BY <2>3, <2>4 DEF Holes
<1> QED BY <1>5, <1>6

LEMMA PollHoles ==
  ASSUME Base, NightBase, Holes, PollBegin \/ PollFailed \/ PollQuote \/ PollEnd
  PROVE  Holes'
<1>1. UNCHANGED <<now, tape, active, mark, task, window, whole, lost>>
  BY DEF PollBegin, PollFailed, PollQuote, PollEnd, feedVars
<1>2. Own' = Own
  BY <1>1 DEF Own
<1>3. agg'.minute = agg.minute /\ agg'.sub = agg.sub /\ agg'.buf = agg.buf
  BY PollLeavesBars
<1>4. poll.cursor \in Nat /\ poll.from \in Nat /\ poll \in Polls
      /\ MarkFor(active) \in Nat
      /\ (poll.at # "idle" => poll.cursor <= poll.from)
  BY NightTypes, TypeIs DEF Base, NightBase, Batch
<1>5. ASSUME NEW p \in Own, Skipped(p)' PROVE Skipped(p) \/ p.ts <= MarkFor(active)
  <2>1. p.ts \in Nat /\ p.ts > 0
    BY NightTypes
  <2>2. CASE PollBegin
    <3>1. /\ poll'.at = "fetched" /\ poll.at = "idle"
          /\ poll'.from \in {poll'.cursor, MarkFor(active)}
          /\ poll'.cursor = IF poll.symbol = active THEN poll.cursor ELSE 0
      BY <2>2, PollBeginIs DEF NightBase
    <3>2. p.ts <= poll'.from
      BY <1>5, <3>1 DEF Skipped
    <3> QED BY <1>4, <2>1, <3>1, <3>2 DEF Skipped
  <2>3. CASE PollFailed
    <3>1. /\ poll.at = "fetched" /\ poll'.symbol = poll.symbol /\ poll'.at = "idle"
          /\ poll'.cursor = poll.cursor
      BY <2>3 DEF PollFailed, Resting
    <3> QED BY <1>1, <1>4, <1>5, <2>1, <3>1 DEF Skipped
  <2>4. CASE PollQuote
    <3>1. poll.at = "fetched" /\ poll' = [poll EXCEPT !.at = "apply"]
      BY <2>4 DEF PollQuote
    <3>2. /\ poll'.symbol = poll.symbol /\ poll'.at = "apply"
          /\ poll'.from = poll.from
      BY <1>4, <3>1 DEF Polls
    <3> QED BY <1>1, <1>5, <3>1, <3>2 DEF Skipped
  <2>5. CASE PollEnd
    <3>1. /\ poll.at = "apply" /\ poll'.symbol = poll.symbol /\ poll'.at = "idle"
          /\ poll'.cursor = poll.from
      BY <2>5 DEF PollEnd, Resting, CursorAfter
    <3> QED BY <1>1, <1>5, <3>1 DEF Skipped
  <2> QED BY <2>2, <2>3, <2>4, <2>5
<1> QED BY <1>1, <1>2, <1>3, <1>5, HolesSame

\* The end of a backfill: what its requests did not list, the buffer has.
LEMMA DrainHoles ==
  ASSUME Base, NightBase, Twice, Holes, Drain
  PROVE  Holes'
<1>1. /\ task.at = "drain"
      /\ agg' = EndBackfill(agg, task.tradeEnd, task.reqEnd)
      /\ window' = [reqEnd |-> task.reqEnd, served |-> task.served,
                    tradeEnd |-> task.tradeEnd]
      /\ task' = NoTask
      /\ UNCHANGED <<now, tape, active, mark, poll, whole, lost>>
  BY DEF Drain, feedVars
<1>2. task'.at = "idle"
  BY <1>1, NoTaskIs
<1>3. NightWindows' /\ PolledBuffered' /\ MinuteListed' /\ SubListed'
  BY <1>2 DEF NightWindows, PolledBuffered, MinuteListed, SubListed
<1>4. HolesBounded'
  <2> SUFFICES ASSUME NEW p \in Own, p \notin lost,
                      p.ts <= MarkFor(active) \/ Skipped(p)
               PROVE  /\ "minute" \in whole =>
                           agg'.minute[p] >= 1
                           \/ (p.ts > task.reqEnd /\ p.ts <= task.tradeEnd)
                      /\ "sub" \in whole =>
                           agg'.sub[p] >= 1
                           \/ (p.ts > Floor(task.tradeEnd) /\ p.ts <= task.tradeEnd)
    <3>1. Own' = Own /\ MarkFor(active)' = MarkFor(active)
          /\ \A p : Skipped(p)' <=> Skipped(p)
      BY <1>1 DEF Own, MarkFor, Skipped
    <3>2. \A p : /\ InWindow(p)' <=> p.ts > task.reqEnd /\ p.ts <= task.tradeEnd
                 /\ InCutSecond(p)' <=>
                      p.ts > Floor(task.tradeEnd) /\ p.ts <= task.tradeEnd
      BY <1>1 DEF InWindow, InCutSecond, Floor
    <3> QED BY <1>1, <3>1, <3>2 DEF HolesBounded
  <2>1. /\ p \in Prints /\ p.ts \in Nat /\ task.reqEnd \in Nat /\ task.tradeEnd \in Nat
        /\ agg.minute[p] \in Nat /\ agg.sub[p] \in Nat /\ task.tradeEnd \in Time
        /\ MarkFor(active) \in Nat /\ MarkFor(active) \in {0, mark.at}
    BY NightTypes DEF Series
  <2> DEFINE x == agg.minute[p]
             y == agg.sub[p]
             held == Held(agg.buf, p)
             cut == Floor(task.tradeEnd)
  <2>2. /\ agg'.minute[p] = x + IF p.ts > task.reqEnd /\ held THEN 1 ELSE 0
        /\ agg'.sub[p] = y + IF p.ts > task.tradeEnd /\ held THEN 1 ELSE 0
    <3>1. Single(agg.buf, p)
      BY <1>1 DEF Twice, Booked, Subject, Own
    <3>2. /\ agg'.minute = Drained(agg.minute, agg.buf, task.reqEnd)
          /\ agg'.sub = Drained(agg.sub, agg.buf, task.tradeEnd)
      BY <1>1, EndBackfillIs, NightTypes
    <3>3. agg.minute \in Series /\ agg.sub \in Series /\ agg.buf \in Seq(Prints)
      BY NightTypes
    <3> QED BY <2>1, <3>1, <3>2, <3>3, DrainedIs
  <2>3. /\ cut \in Nat /\ cut <= task.tradeEnd /\ task.reqEnd <= task.tradeEnd
        /\ MarkFor(active) <= task.tradeEnd
    BY <1>1, <2>1, FloorIs DEF Holes, NightWindows
  <2>4. p.ts > task.tradeEnd => held
    <3>1. p.ts > task.tradeEnd => Skipped(p) /\ p.ts > task.reqEnd
                                  /\ ~(p.ts <= task.tradeEnd)
      BY <2>1, <2>3
    <3> QED BY <1>1, <3>1 DEF Holes, PolledBuffered
  <2>5. "minute" \in whole => (p.ts <= task.reqEnd => x >= 1)
    BY <1>1 DEF Holes, MinuteListed
  <2>6. "sub" \in whole => (p.ts <= cut => y >= 1)
    BY <1>1 DEF Holes, SubListed
  <2> HIDE DEF held, cut
  <2>7. ASSUME "minute" \in whole
        PROVE  agg'.minute[p] >= 1 \/ (p.ts > task.reqEnd /\ p.ts <= task.tradeEnd)
    BY <2>1, <2>2, <2>3, <2>4, <2>5, <2>7
  <2>8. ASSUME "sub" \in whole
        PROVE  agg'.sub[p] >= 1 \/ (p.ts > cut /\ p.ts <= task.tradeEnd)
    BY <2>1, <2>2, <2>3, <2>4, <2>6, <2>8
  <2> QED BY <2>7, <2>8 DEF cut
<1> QED BY <1>3, <1>4 DEF Holes

LEMMA BarsHoles ==
  ASSUME Base, NightBase, Holes, LoadBars
  PROVE  Holes'
<1> DEFINE hist == Listed(task.symbol, 0, task'.served)
<1>1. /\ task'.at = "trades" /\ task'.reqEnd = task.reqEnd /\ task'.tradeEnd = now
      /\ agg'.buf = agg.buf /\ task'.served \in task.reqEnd..now
      /\ \/ /\ agg'.minute = IF hist = {} THEN agg.minute ELSE Once(hist)
            /\ whole' = whole \cup {"minute"}
         \/ agg'.minute = Empty /\ whole' = whole \ {"minute"}
  BY BarsBase
<1>2. task.at = "bars" /\ UNCHANGED <<now, tape, active, mark, poll, lost>>
  BY DEF LoadBars, feedVars
<1>3. task.symbol = active
  BY <1>2 DEF Base, Stage, Busy
<1>4. \A p \in Own : p \in Prints /\ (p.ts <= task.reqEnd => p \in hist)
  <2> SUFFICES ASSUME NEW p \in Own
               PROVE  p \in Prints /\ (p.ts <= task.reqEnd => p \in hist)
    OBVIOUS
  <2>1. /\ p \in Prints /\ p \in tape /\ p.symbol = task.symbol
        /\ p.ts \in Nat /\ p.ts > 0 /\ task.reqEnd \in Nat /\ now \in Nat
    BY <1>3, NightTypes DEF Own
  <2>2. task'.served \in Nat /\ task.reqEnd <= task'.served
    BY <1>1, <2>1
  <2> QED BY <2>1, <2>2 DEF Listed
<1>5. \A p \in Prints : p \in hist => Once(hist)[p] = 1
  BY OnceIs
<1> HIDE DEF hist
<1>6. /\ Own' = Own /\ MarkFor(active)' = MarkFor(active)
      /\ \A p : Skipped(p)' <=> Skipped(p)
  BY <1>2 DEF Own, MarkFor, Skipped
<1>7. NightWindows'
  BY <1>1, <1>2, <1>6, NightTypes DEF Holes, NightWindows
<1>8. PolledBuffered'
  BY <1>1, <1>2, <1>6 DEF Holes, PolledBuffered
<1>9. MinuteListed'
  <2> SUFFICES ASSUME "minute" \in whole', NEW p \in Own, p.ts <= task.reqEnd
               PROVE  agg'.minute[p] >= 1
    BY <1>1, <1>6 DEF MinuteListed
  <2>1. agg'.minute = Once(hist)
    BY <1>1, <1>4
  <2> QED BY <1>4, <1>5, <2>1
<1>10. SubListed' /\ HolesBounded'
  BY <1>1, NoTaskIs DEF SubListed, HolesBounded, Idle
<1> QED BY <1>7, <1>8, <1>9, <1>10 DEF Holes

LEMMA ReplayHoles ==
  ASSUME Base, NightBase, Holes, Replay
  PROVE  Holes'
<1> DEFINE hist == Listed(task.symbol, 0, Floor(task.tradeEnd))
<1>1. /\ task'.at = "drain" /\ task'.reqEnd = task.reqEnd
      /\ task'.served = task.served /\ task'.tradeEnd = task.tradeEnd
      /\ agg'.minute = agg.minute /\ agg'.buf = agg.buf
      /\ \/ agg'.sub = Once(hist) /\ whole' = whole \cup {"sub"}
         \/ agg'.sub = Once({}) /\ whole' = whole \ {"sub"}
  BY ReplayBase
<1>2. /\ task.at = "trades" /\ mark' = [symbol |-> task.symbol, at |-> HighWater]
      /\ UNCHANGED <<now, tape, active, poll, lost>>
  BY DEF Replay, feedVars
<1>3. task.symbol = active
  BY <1>2 DEF Base, Stage, Busy
<1>4. \A p \in Own : p \in Prints /\ (p.ts <= Floor(task.tradeEnd) => p \in hist)
  BY <1>3, NightTypes DEF Listed, Own
<1>5. \A p \in Prints : p \in hist => Once(hist)[p] = 1
  BY OnceIs
<1> HIDE DEF hist
<1>6. Own' = Own /\ \A p : Skipped(p)' <=> Skipped(p)
  BY <1>2 DEF Own, Skipped
<1>7. NightWindows'
  <2>1. mark'.at = task.tradeEnd
    BY <1>2 DEF HighWater
  <2> QED BY <1>1, <1>2, <2>1 DEF Holes, NightWindows
<1>8. PolledBuffered'
  BY <1>1, <1>2, <1>6 DEF Holes, PolledBuffered
<1>9. MinuteListed'
  <2>1. "minute" \in whole' => "minute" \in whole
    BY <1>1
  <2> QED BY <1>1, <1>2, <1>6, <2>1 DEF Holes, MinuteListed
<1>10. SubListed'
  <2> SUFFICES ASSUME "sub" \in whole', NEW p \in Own, p.ts <= Floor(task.tradeEnd)
               PROVE  agg'.sub[p] >= 1
    BY <1>1, <1>6 DEF SubListed, Floor
  <2>1. agg'.sub = Once(hist)
    BY <1>1
  <2> QED BY <1>4, <1>5, <2>1
<1>11. HolesBounded'
  BY <1>1, NoTaskIs DEF HolesBounded, Idle
<1> QED BY <1>7, <1>8, <1>9, <1>10, <1>11 DEF Holes

LEMMA WorkHoles ==
  ASSUME Base, NightBase, Twice, Holes, NEW s \in Symbols,
         \/ SwitchPause(s) \/ JobDropped(s) \/ JobBegin(s) \/ Connect
         \/ SwitchClear \/ SwitchOpen
         \/ StampReqEnd \/ LoadBars \/ BarsFailed \/ RollBack \/ Replay \/ Drain
  PROVE  Holes'
<1>1. CASE SwitchPause(s) \/ JobBegin(s)
  <2>1. task'.at \in {"paused", "armed"}
    BY <1>1 DEF SwitchPause, JobBegin, Task
  <2> QED BY <2>1, HolesEarly
<1>2. CASE SwitchClear \/ SwitchOpen
  <2>1. task' = GoesOn(task, "cleared") \/ task' = GoesOn(task, "armed")
    BY <1>2 DEF SwitchClear, SwitchOpen
  <2>2. task'.at \in {"cleared", "armed"}
    BY <2>1, GoesOnIs, NightTypes DEF Steps
  <2> QED BY <2>2, HolesEarly
<1>3. CASE JobDropped(s) \/ Connect
  <2>1. /\ UNCHANGED <<now, tape, active, mark, task, agg, window, lost, poll>>
        /\ whole' \subseteq whole
    BY <1>3 DEF JobDropped, Connect, feedVars
  <2>2. Own' = Own /\ \A p : Skipped(p)' <=> Skipped(p)
    BY <2>1 DEF Own, Skipped
  <2> QED BY <2>1, <2>2, HolesSame
<1>4. CASE StampReqEnd
  <2>1. /\ task'.at = "bars" /\ task'.reqEnd = now
        /\ UNCHANGED <<now, tape, active, mark>>
    BY <1>4, StampBase DEF StampReqEnd, feedVars
  <2>2. \A p \in Own : ~(p.ts > now)
    BY NightTypes DEF NightBase, Past
  <2>3. MarkFor(active)' = MarkFor(active) /\ MarkFor(active) <= now
    <3>1. mark.at <= now /\ MarkFor(active) \in {0, mark.at} /\ now \in Nat
      BY NightTypes DEF NightBase, Past
    <3> QED BY <2>1, <3>1 DEF MarkFor
  <2>4. NightWindows'
    BY <2>1, <2>3, NightTypes DEF NightWindows
  <2>5. PolledBuffered'
    BY <2>1, <2>2 DEF PolledBuffered, Own
  <2>6. MinuteListed' /\ SubListed' /\ HolesBounded'
    BY <2>1, NoTaskIs DEF MinuteListed, SubListed, HolesBounded, Idle
  <2> QED BY <2>4, <2>5, <2>6 DEF Holes
<1>5. CASE BarsFailed \/ RollBack
  <2>1. whole' = {} /\ task' = NoTask
    BY <1>5 DEF BarsFailed, RollBack
  <2>2. task'.at = "idle"
    BY <2>1, NoTaskIs
  <2>3. NightWindows' /\ PolledBuffered' /\ MinuteListed' /\ SubListed'
    BY <2>2 DEF NightWindows, PolledBuffered, MinuteListed, SubListed
  <2>4. HolesBounded'
    BY <2>1 DEF HolesBounded
  <2> QED BY <2>3, <2>4 DEF Holes
<1>6. CASE LoadBars \/ Replay \/ Drain
  BY <1>6, BarsHoles, ReplayHoles, DrainHoles
<1> QED BY <1>1, <1>2, <1>3, <1>4, <1>5, <1>6

LEMMA NightInitial == Init => NightInv
<1> SUFFICES ASSUME Init PROVE Night
  BY DEF NightInv
<1>1. /\ agg = ResetMarket(agg) /\ tape = {} /\ task = NoTask /\ whole = {}
      /\ mark = NoMark /\ poll = NoPoll /\ now = 0
      /\ Own = {} /\ Booked = {}
  BY DEF Init, ResetMarket, Own, Booked
<1>2. task.at = "idle" /\ mark.at = 0 /\ poll.cursor = 0 /\ poll.from = 0
      /\ poll.batch = {} /\ poll.at = "idle"
  BY <1>1, NoTaskIs DEF NoMark, NoPoll
<1>3. Past /\ Batch
  BY <1>1, <1>2 DEF Past, Batch
<1>4. Known(agg, tape)
  <2>1. \A p : ~Held(<<>>, p)
    BY DEF Held
  <2>2. \A p \in Prints : Empty[p] = 0
    BY DEF Empty
  <2> QED BY <1>1, <2>1, <2>2, ResetIs DEF Known
<1>5. Twice /\ Holes
  BY <1>1, <1>2 DEF Twice, Holes, NightWindows, PolledBuffered, MinuteListed, SubListed,
                    HolesBounded
<1> QED BY <1>3, <1>4, <1>5 DEF Night, NightBase

LEMMA NightInductive == Base /\ NightInv /\ [Next]_vars => NightInv'
<1> SUFFICES ASSUME Base, NightInv, [Next]_vars, feed' = "boats"
             PROVE  Night'
  BY DEF NightInv
<1>1. feed = "boats"
  BY DEF Next, vars, feedVars, Tick, Quote, TradeFolds, QuoteFolds, SwitchPause,
         SwitchClear, JobDropped, JobBegin, Drop, Connect, SwitchOpen,
         StampReqEnd, LoadBars, BarsFailed, RollBack, Replay, Drain, PollBegin,
         PollFailed, PollQuote, PollApply, PollEnd
<1>2. NightBase /\ Twice /\ Holes /\ NightWindows
  BY <1>1 DEF NightInv, Night, Holes
<1>3. ASSUME NEW s \in Symbols, Tick(s) PROVE Night'
  BY <1>1, <1>2, <1>3, TickNightBase, TickTwice, TickHoles DEF Night
<1>4. ASSUME NEW s \in Symbols PROVE ~Quote(s) /\ ~Drop
  BY <1>1 DEF Quote, Passes, Drop
<1>10. ~TradeFolds /\ ~QuoteFolds
  <2>1. hand = NoHand
    BY <1>1 DEF Base, Stage
  <2> QED BY <2>1, HandIs DEF TradeFolds, QuoteFolds
<1>5. ASSUME NEW s \in Symbols,
             \/ SwitchPause(s) \/ JobDropped(s) \/ JobBegin(s) \/ Connect
             \/ SwitchClear \/ SwitchOpen
             \/ StampReqEnd \/ LoadBars \/ BarsFailed \/ RollBack \/ Replay \/ Drain
      PROVE  Night'
  BY <1>2, <1>5, WorkNightBase, WorkTwice, WorkHoles DEF Night
<1>6. CASE PollBegin \/ PollFailed \/ PollQuote \/ PollEnd
  BY <1>2, <1>6, PollNightBase, PollTwice, PollHoles DEF Night
<1>7. CASE PollApply
  BY <1>2, <1>7, PollNightBase, ApplyTwice, ApplyHoles DEF Night
<1>8. CASE UNCHANGED vars
  <2>1. NightBase' /\ Twice'
    BY <1>2, <1>8 DEF vars, feedVars, NightBase, Past, Batch, Known, Twice, Booked,
                      Subject, Passed, Fetched
  <2>2. Holes'
    BY <1>2, <1>8 DEF vars, feedVars, Holes, NightWindows, PolledBuffered, MinuteListed,
                      SubListed, HolesBounded, Own, Skipped, MarkFor, Idle, InWindow,
                      InCutSecond
  <2> QED BY <2>1, <2>2 DEF Night
<1>9. \E s \in Symbols : TRUE
  BY Constant
<1> QED BY <1>3, <1>4, <1>5, <1>6, <1>7, <1>8, <1>9, <1>10 DEF Next

\* PolledTwiceBounded: overnight, between two backfills, no print after the
\* last one's trade window is in the bars twice.
THEOREM PolledTwice == Spec => []PolledTwiceBounded
<1> DEFINE I == Base /\ NightInv
<1>1. Init => I
  BY InitBase, NightInitial
<1>2. I /\ [Next]_vars => I'
  BY BaseInductive, NightInductive
<1>3. I => PolledTwiceBounded
  <2> SUFFICES ASSUME NightInv, feed = "boats", Settled
               PROVE  \A p \in Own : p.ts > window.tradeEnd =>
                        agg.minute[p] <= 1 /\ agg.sub[p] <= 1
    BY DEF PolledTwiceBounded
  <2>1. Fetched = window.tradeEnd
    BY NoTaskIs DEF Settled, Idle, Fetched
  <2>2. Booked = Own
    BY NoTaskIs DEF Settled, Idle, Booked, Subject, Own
  <2> QED BY <2>1, <2>2 DEF NightInv, Night, Twice
<1> QED BY <1>1, <1>2, <1>3, PTL DEF Spec

\* PolledHolesBounded: overnight, between two backfills, a print the poller
\* will not ask for again is in the bars, unless the buffer dropped it or it
\* lies between the two windows or in the second cut off the trade window.
THEOREM PolledHoles == Spec => []PolledHolesBounded
<1> DEFINE I == Base /\ NightInv
<1>1. Init => I
  BY InitBase, NightInitial
<1>2. I /\ [Next]_vars => I'
  BY BaseInductive, NightInductive
<1>3. I => PolledHolesBounded
  <2> SUFFICES ASSUME Base, NightInv, feed = "boats", Settled,
                      NEW p \in Own, p \notin lost, p.ts <= Behind
               PROVE  p.ts <= MarkFor(active) \/ Skipped(p)
    BY DEF PolledHolesBounded, NightInv, Night, Holes, HolesBounded, Settled
  <2>1. /\ p.ts \in Nat /\ p.ts > 0 /\ MarkFor(active) \in Nat
        /\ poll.cursor \in Nat /\ poll.at = "idle"
    BY NightTypes DEF Settled
  <2> QED BY <2>1 DEF Behind, Later, Skipped
<1> QED BY <1>1, <1>2, <1>3, PTL DEF Spec
=============================================================================
