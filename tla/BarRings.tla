------------------------------ MODULE BarRings ------------------------------
(***************************************************************************)
(* How bars.Aggregator folds prints into candles: a 1s-class series        *)
(* ("fine": 1s, 5s and 15s), a REST-backed one ("minute": 1m and coarser), *)
(* the custom chart resolution resampled from one of the two, the EMAs and *)
(* the session VWAP and the filter for absurd live prices.                 *)
(*                                                                         *)
(* Actors: the exchange with the websocket's read goroutine (Report), the  *)
(* holder of backfillMu (a switch or a scheduled backfill) and the         *)
(* goroutine that polls the session each second (WatchSession).  ChartView *)
(* adds the terminal.  TapeIngest models which prints get here: late by a  *)
(* switch, dropped by a full buffer or counted twice; this module what     *)
(* becomes of them.  A report is therefore one step, and no buffer full.   *)
(*                                                                         *)
(* A print is its place on the tape, and a candle is the prints in it and  *)
(* the one that is its close: high and low are functions of them, and its  *)
(* volume as far as each is counted once (TapeIngest counts them).  An EMA *)
(* is the sequence of closes it was fed, the VWAP the set of prints it was *)
(* fed and, apart, of those it was fed again.                              *)
(***************************************************************************)
EXTENDS Ring, SequencesExt

CONSTANTS FineLen,       \* ticks of a 1s-class bucket
          MinuteLen,     \* ticks of a bucket of TF1m
          CustomLens,    \* the custom resolutions `:tf` may ask for
          SessionLen,    \* ticks of one VWAP window: a session, or with
                         \* vwap_anchor = day a trading day
          Prices,        \* the prices a print may have
          Ratio,         \* maxLiveTradeJumpRatio
          OpenPrice,     \* the price the market starts at
          MaxTime,       \* bound: ticks
          Bounds         \* bounds, a record for each kind of history: prints
                         \* reported, how many of them unheard, the ticks a
                         \* report may be late, prices off the market and
                         \* moves of it, switches, backfills, `:tf`
                         \* requests and chart keys

ASSUME BarsAssumption ==
  /\ FineLen \in Nat \ {0} /\ MinuteLen \in Nat \ {0} /\ SessionLen \in Nat \ {0}
  /\ CustomLens \subseteq Nat \ {0}
     \* `:tf` takes whole seconds, and the fine series under it is that of TF1s;
     \* every session opens on a whole minute
  /\ \A len \in CustomLens : len % FineLen = 0
  /\ SessionLen % MinuteLen = 0
  /\ Prices \subseteq Nat \ {0} /\ Ratio \in Nat \ {0} /\ OpenPrice \in Prices
  /\ MaxTime \in Nat \ {0}
  /\ Bounds \subseteq [reports: Nat, unheard: Nat, delay: Nat, wild: Nat,
                       backfills: Nat, resets: Nat, views: Nat, keys: Nat]

VARIABLES
  now,      \* time.Now
  tape,     \* the symbol's prints: place in the order of the reports, time,
            \* time of the report, and price
  market,   \* the price the symbol trades at
  agg,      \* the aggregator: its series, customDur, the live VWAP,
            \* lastTradePrice and the backfill buffer
  fetch,    \* the backfill under way
  watched,  \* the VWAP window the session goroutine saw last
  past,     \* history, see Init
  left      \* what is left of the bounds

vars == <<now, tape, market, agg, fetch, watched, past, left>>

NoPrice == 0

Names == {"fine", "minute", "custom"}
Prints == [n: Nat \ {0}, ts: 1..MaxTime, at: 1..MaxTime, px: Prices]
\* A candle of prints in ps, and a slot of a ring.
Candles(ps) == [start: 0..MaxTime, prints: SUBSET ps, close: ps]
Entries(ps) == [bar: Candles(ps), ema: Seq(ps \cup {NoCandle}), vwap: SUBSET ps]

ASSUME NoCandleAssumption ==
  NoCandle \notin Candles(Prints) \cup Entries(Prints)

Bucket(len, t) == t - (t % len)
WindowOf(t) == t \div SessionLen

\* forming is NoCandle when `open` is false.
NewSeries == [ring |-> NewRing, forming |-> NoCandle, fed |-> <<>>]
NoPast == [early |-> {}, over |-> {}, carried |-> FALSE, overlap |-> {},
           seen |-> NoPrice, fooled |-> FALSE]
NoFetch == [at |-> "idle", switch |-> FALSE, reqEnd |-> 0, tradeEnd |-> 0]

Init ==
  /\ now = 1 /\ tape = {}
  /\ market = OpenPrice
  /\ agg = [series |-> [n \in Names |-> NewSeries], length |-> 0, vwap |-> {},
            twice |-> {}, last |-> NoPrice, buffering |-> FALSE, buf |-> <<>>,
            given |-> [n \in Names |-> {}], odd |-> {}]
     \* twice: the prints the VWAP was fed although it had them.
     \* history in agg.  given: the prints each series was handed since it
     \* was made; odd: the series in which a late print opened a candle
  /\ fetch = NoFetch
  /\ watched = WindowOf(now)
  /\ past = NoPast
     \* early: prints of a window the session goroutine had not seen yet;
     \* over: prints the buffer held over the end of their window;
     \* carried: a load found no candle of the present window; overlap: prints
     \* after the end of the request its partial bar holds; seen: the price of
     \* the last print of the market that was accepted; fooled: one off the
     \* market was, since then
  /\ left \in Bounds
-----------------------------------------------------------------------------
(* One series: foldTrade. *)

EndsAt(s, b) == s.ring.count > 0 /\ Newest(s.ring).bar.start = b

newBar(b, i) == [start |-> b, prints |-> {i}, close |-> i]
Added(bar, i) == [bar EXCEPT !.prints = @ \cup {i}, !.close = i]

\* indicators.EMA: Undo takes back the sample it is given only if that is the
\* last one; any other leaves a value no sequence of closes has.
Update(fed, v) == Append(fed, v)
Undo(fed, v) ==
  CASE fed = <<>> -> fed
    [] fed # <<>> /\ Last(fed) = v -> Front(fed)
    [] OTHER -> Append(fed, NoCandle)

closeFormingBar(s, v) ==
  LET fed == Update(s.fed, s.forming.close) IN
  [ring |-> Push(s.ring, [bar |-> s.forming, ema |-> fed, vwap |-> v]),
   forming |-> NoCandle, fed |-> fed]

\* Mutant: the EMA keeps the close of the candle that forms again.
ReopenedFed(s, i) ==
  LET bar == Newest(s.ring).bar IN
  [s EXCEPT !.ring = PopLast(@), !.forming = Added(bar, i)]

\* The newest candle is the print's own: it forms again.
Reopened(s, i) ==
  LET bar == Newest(s.ring).bar IN
  [ring |-> PopLast(s.ring), forming |-> Added(bar, i),
   fed |-> Undo(s.fed, bar.close)]

\* Mutant: only the newest closed candle is looked at.
AmendedNewest(s, b, i) ==
  IF EndsAt(s, b)
    THEN [s EXCEPT !.ring.slots[At(s.ring, s.ring.count - 1)].bar.prints = @ \cup {i}]
    ELSE s

\* A late print: the candle of its bucket, the close apart, if the walk from
\* the newest meets it before an older one.
Amended(s, b, i) ==
  LET Start(k) == s.ring.slots[At(s.ring, k)].bar.start
      reached == {k \in 0..s.ring.count - 1 : Start(k) <= b}
      k == CHOOSE k \in reached : \A j \in reached : j <= k
  IN IF reached # {} /\ Start(k) = b
       THEN [s EXCEPT !.ring.slots[At(s.ring, k)].bar.prints = @ \cup {i}]
       ELSE s

\* Mutant: a candle that was closed already is never opened again.
foldTradeNeverReopen(s, b, i, v) ==
  CASE s.forming = NoCandle -> [s EXCEPT !.forming = newBar(b, i)]
    [] s.forming # NoCandle /\ b = s.forming.start ->
         [s EXCEPT !.forming = Added(@, i)]
    [] s.forming # NoCandle /\ b > s.forming.start ->
         [closeFormingBar(s, v) EXCEPT !.forming = newBar(b, i)]
    [] OTHER -> Amended(s, b, i)

foldTrade(s, b, i, v) ==
  CASE s.forming = NoCandle /\ EndsAt(s, b) -> Reopened(s, i)
    [] s.forming = NoCandle /\ ~EndsAt(s, b) ->
         [s EXCEPT !.forming = newBar(b, i)]
    [] s.forming # NoCandle /\ b = s.forming.start ->
         [s EXCEPT !.forming = Added(@, i)]
    [] s.forming # NoCandle /\ b > s.forming.start ->
         [closeFormingBar(s, v) EXCEPT !.forming = newBar(b, i)]
    [] OTHER -> Amended(s, b, i)

\* The first print after a load is older than the newest candle.
OpensLate(s, b) ==
  s.forming = NoCandle /\ s.ring.count > 0 /\ b < Newest(s.ring).bar.start

\* The candles of a series, the forming one last.
Bars(s) ==
  [k \in 1..s.ring.count |-> Held(s.ring)[k].bar]
    \o IF s.forming = NoCandle THEN <<>> ELSE <<s.forming>>
-----------------------------------------------------------------------------
(* All series. *)

customSourceTF(len) == IF len % MinuteLen = 0 THEN "minute" ELSE "fine"

\* The series fed with source src: itself, and the custom one resampled from it.
FedWith(a, src) ==
  {src} \cup IF a.length > 0 /\ customSourceTF(a.length) = src
               THEN {"custom"} ELSE {}

LenOf(a, n) ==
  CASE n = "fine" -> FineLen [] n = "minute" -> MinuteLen [] OTHER -> a.length

\* aggregateInto and aggregateIntoCustom for the series in ns.
Aggregate(a, ns, i) ==
  [a EXCEPT
     !.series = [n \in Names |->
        IF n \in ns THEN foldTrade(@[n], Bucket(LenOf(a, n), i.ts), i, a.vwap)
                    ELSE @[n]],
     !.given = [n \in Names |-> @[n] \cup IF n \in ns THEN {i} ELSE {}],
     !.odd = @ \cup {n \in ns : OpensLate(a.series[n], Bucket(LenOf(a, n), i.ts))}]

\* The VWAP adds each price it is given, one it was given before as well.
VwapUpdate(a, i) ==
  [a EXCEPT !.vwap = @ \cup {i}, !.twice = @ \cup ({i} \cap a.vwap)]

\* The VWAP first, then the series.
AggregateMinute(a, i) == Aggregate(VwapUpdate(a, i), FedWith(a, "minute"), i)
AggregateFine(a, i) == Aggregate(a, FedWith(a, "fine"), i)

applyTradeLocked(a, i) == AggregateFine(AggregateMinute(a, i), i)

\* Mutant: the cutoff of the REST bars is left out.
DrainsAllMinutes(a, i, subAfter, minuteAfter) ==
  LET b == AggregateMinute(a, i)
  IN  IF i.ts > subAfter THEN AggregateFine(b, i) ELSE b

applyBufferedTradeLocked(a, i, subAfter, minuteAfter) ==
  LET b == IF i.ts > minuteAfter THEN AggregateMinute(a, i) ELSE a
  IN  IF i.ts > subAfter THEN AggregateFine(b, i) ELSE b

\* Zero cutoffs gate nothing: no print has time 0.
finishBackfill(a, subAfter, minuteAfter) ==
  LET after[k \in 0..Len(a.buf)] ==
        IF k = 0 THEN [a EXCEPT !.buffering = FALSE, !.buf = <<>>]
        ELSE applyBufferedTradeLocked(after[k - 1], a.buf[k], subAfter, minuteAfter)
  IN  after[Len(a.buf)]
-----------------------------------------------------------------------------
(* Load, ReplayTrades and the custom series. *)

Before(i, j) == i.ts < j.ts \/ (i.ts = j.ts /\ i.n < j.n)

\* REST's trades up to a time, oldest first.
Trades(until) ==
  LET listed == {i \in tape : i.ts <= until} IN
  CHOOSE s \in [1..Cardinality(listed) -> listed] :
    \A j, k \in DOMAIN s : j < k => Before(s[j], s[k])

\* A candle of the same bucket as the last joins it.
Joined(out, bar, len) ==
  IF out # <<>> /\ Last(out).start = Bucket(len, bar.start)
    THEN [out EXCEPT ![Len(out)].prints = @ \cup bar.prints,
                     ![Len(out)].close = bar.close]
    ELSE Append(out, [bar EXCEPT !.start = Bucket(len, @)])

resampleTo(bars, len) ==
  LET upTo[k \in 0..Len(bars)] ==
        IF k = 0 THEN <<>> ELSE Joined(upTo[k - 1], bars[k], len)
  IN  upTo[Len(bars)]

\* REST's bars up to a time.
RestBars(until) ==
  LET trades == Trades(until) IN
  resampleTo([k \in 1..Len(trades) |-> newBar(trades[k].ts, trades[k])], MinuteLen)

\* The accumulator after a history: it restarts with each VWAP window.
sessVWAP(hist) ==
  UNION {hist[j].prints :
           j \in {j \in DOMAIN hist :
                    WindowOf(hist[j].start) = WindowOf(Last(hist).start)}}

\* The series of a history: its last candle forms if its bucket is not over.
Loaded(hist, curBucket) ==
  LET forms  == hist # <<>> /\ Last(hist).start >= curBucket
      closed == IF forms THEN Front(hist) ELSE hist
      fed(k) == [j \in 1..k |-> closed[j].close]
      ring[k \in 0..Len(closed)] ==
        IF k = 0 THEN NewRing
        ELSE Push(ring[k - 1], [bar |-> closed[k], ema |-> fed(k),
                                vwap |-> sessVWAP(SubSeq(closed, 1, k))])
  IN [ring |-> ring[Len(closed)],
      forming |-> IF forms THEN Last(hist) ELSE NoCandle,
      fed |-> fed(Len(closed))]

\* Mutant: the source's forming candle is left out.
SourceClosed(a) ==
  [k \in 1..a.series[customSourceTF(a.length)].ring.count |->
     Bars(a.series[customSourceTF(a.length)])[k]]

SourceBars(a) == Bars(a.series[customSourceTF(a.length)])

rebuildCustomLocked(a) ==
  LET src == customSourceTF(a.length) IN
  [a EXCEPT
     !.series["custom"] = Loaded(resampleTo(SourceBars(a), a.length),
                                 Bucket(a.length, now)),
     !.given["custom"] = UNION {bar.prints : bar \in Range(SourceBars(a))},
     !.odd = IF src \in @ THEN @ \cup {"custom"} ELSE @ \ {"custom"}]

\* If the custom series comes from source src.
RebuiltFrom(a, src) ==
  IF "custom" \in FedWith(a, src) THEN rebuildCustomLocked(a) ELSE a

\* Load of TF1m, which stands for the coarser ones.
Load(a, hist) ==
  RebuiltFrom(
    [a EXCEPT
       !.series["minute"] = Loaded(hist, Bucket(MinuteLen, now)),
       !.vwap = sessVWAP(hist),
       !.twice = {},
       !.given["minute"] = UNION {bar.prints : bar \in Range(hist)},
       !.odd = @ \ {"minute"}],
    "minute")

\* The 1s-class series start over; the custom one is rebuilt at the end.
ReplayTrades(a, trades) ==
  LET after[k \in 0..Len(trades)] ==
        IF k = 0 THEN [a EXCEPT !.series["fine"] = NewSeries,
                                !.given["fine"] = {}, !.odd = @ \ {"fine"}]
        ELSE Aggregate(after[k - 1], {"fine"}, trades[k])
  IN  RebuiltFrom(after[Len(trades)], "fine")

BeginBackfill(a) ==
  IF a.buffering THEN a ELSE [a EXCEPT !.buffering = TRUE, !.buf = <<>>]

ResetMarket(a) ==
  [a EXCEPT !.series = [n \in Names |-> NewSeries],
            !.given = [n \in Names |-> {}], !.odd = {}, !.last = NoPrice,
            !.buffering = FALSE, !.buf = <<>>]

ResetVWAP(a) == [a EXCEPT !.vwap = {}, !.twice = {}]
-----------------------------------------------------------------------------
(* The exchange and the websocket. *)

Tick ==
  /\ now < MaxTime
  /\ now' = now + 1
  /\ UNCHANGED <<tape, market, agg, fetch, watched, past, left>>

\* A real move: a halt's gap, a reverse split.
Gap ==
  /\ left.wild > 0
  /\ \E px \in Prices \ {market} : market' = px
  /\ left' = [left EXCEPT !.wild = @ - 1]
  /\ UNCHANGED <<now, tape, agg, fetch, watched, past>>

\* Mutant: the price is remembered before it is judged.
AcceptedAnyway(a, px) == [a EXCEPT !.last = px]

\* What OnTrade keeps of a price it refuses.
Refused(a, px) == a

\* lo <= p /\ p <= hi, the band around q; it is not transitive.
Within(p, q) == p <= q * Ratio /\ q <= p * Ratio
liveTradePlausibleLocked(a, px) == a.last = NoPrice \/ Within(px, a.last)

OnTrade(a, i, px) ==
  CASE ~liveTradePlausibleLocked(a, px) -> Refused(a, px)
    [] liveTradePlausibleLocked(a, px) /\ a.buffering ->
         [a EXCEPT !.last = px, !.buf = Append(@, i)]
    [] OTHER -> applyTradeLocked([a EXCEPT !.last = px], i)

\* A report: of the present or of up to left.delay ticks ago, at the market or
\* (a bad tick) not.  It is heard unless the websocket is down.
Report ==
  /\ left.reports > 0
  /\ \E ts \in 1..now, px \in Prices, heard \in BOOLEAN :
       LET i == [n |-> Cardinality(tape) + 1, ts |-> ts, at |-> now, px |-> px]
           in == liveTradePlausibleLocked(agg, px)
           wild == IF px = market THEN 0 ELSE 1
           unheard == IF heard THEN 0 ELSE 1
       IN /\ ts + left.delay >= now /\ left.wild >= wild
          /\ left.unheard >= unheard
          /\ tape' = tape \cup {i}
          /\ agg' = IF heard THEN OnTrade(agg, i, px) ELSE agg
          /\ left' = [left EXCEPT !.reports = @ - 1, !.wild = @ - wild,
                                  !.unheard = @ - unheard]
          /\ past' = IF heard /\ in
                        THEN [past EXCEPT !.fooled = px # market,
                                          !.seen = IF px = market THEN px ELSE @]
                        ELSE past
  /\ UNCHANGED <<now, market, fetch, watched>>
-----------------------------------------------------------------------------
(* switchSymbol and backfill, under backfillMu. *)

Idle == fetch.at = "idle"

\* What a switch or a rollback starts from: the tape is another symbol's.
OtherTape == tape' = {} /\ past' = NoPast

SwitchOpen ==
  /\ Idle /\ left.resets > 0
  /\ agg' = BeginBackfill(ResetVWAP(ResetMarket(agg)))
  /\ fetch' = [NoFetch EXCEPT !.at = "armed", !.switch = TRUE]
  /\ OtherTape
  /\ left' = [left EXCEPT !.resets = @ - 1]
  /\ UNCHANGED <<now, market, watched>>

\* The backfill of a switch failed: the previous symbol's empty book.
RollBack ==
  /\ fetch.at = "failed"
  /\ agg' = ResetVWAP(ResetMarket(agg))
  /\ fetch' = NoFetch
  /\ OtherTape
  /\ UNCHANGED <<now, market, watched, left>>

\* The switch's own backfill, or a scheduled one.
BackfillBegin ==
  /\ \/ fetch.at = "armed" /\ left' = left
     \/ Idle /\ left.backfills > 0 /\ left' = [left EXCEPT !.backfills = @ - 1]
  /\ agg' = BeginBackfill(agg)
  /\ fetch' = [fetch EXCEPT !.at = "bars", !.reqEnd = now]
  /\ UNCHANGED <<now, tape, market, watched, past>>

\* When the bars of a request that ends at reqEnd may have been made: the last
\* is partial, and goes on past reqEnd until it is served.
Served(reqEnd) ==
  {t \in reqEnd..now : Bucket(MinuteLen, t) = Bucket(MinuteLen, reqEnd)}

\* No bars at all and no error: nothing is loaded.
LoadBars ==
  /\ fetch.at = "bars"
  /\ \E served \in Served(fetch.reqEnd) :
       LET hist == RestBars(served) IN
       /\ agg' = IF hist = <<>> THEN agg ELSE Load(agg, hist)
       /\ past' = IF hist = <<>> THEN past
                  ELSE [past EXCEPT
                    !.early = {},
                    !.carried = WindowOf(Last(hist).start) # WindowOf(now),
                    !.overlap = {i \in tape : i.ts > fetch.reqEnd /\ i.ts <= served}]
  /\ fetch' = [fetch EXCEPT !.at = "trades", !.tradeEnd = now]
  /\ UNCHANGED <<now, tape, market, watched, left>>

BarsFailed ==
  /\ fetch.at = "bars"
  /\ agg' = finishBackfill(agg, 0, 0)
  /\ fetch' = IF fetch.switch THEN [NoFetch EXCEPT !.at = "failed"] ELSE NoFetch
  /\ UNCHANGED <<now, tape, market, watched, past, left>>

\* The trades of the window, or none after an error that is only logged.
Replay ==
  /\ fetch.at = "trades"
  /\ \E trades \in {Trades(fetch.tradeEnd), <<>>} :
       agg' = ReplayTrades(agg, trades)
  /\ fetch' = [fetch EXCEPT !.at = "drain"]
  /\ UNCHANGED <<now, tape, market, watched, past, left>>

EndBackfill ==
  /\ fetch.at = "drain"
  /\ agg' = finishBackfill(agg, fetch.tradeEnd, fetch.reqEnd)
  /\ fetch' = NoFetch
  /\ UNCHANGED <<now, tape, market, watched, past, left>>
-----------------------------------------------------------------------------
(* The session goroutine. *)

\* sessions.Current() differs from what the last poll saw.
WatchSession ==
  /\ watched # WindowOf(now)
  /\ watched' = WindowOf(now)
  /\ agg' = ResetVWAP(agg)
  /\ past' = [past EXCEPT !.early = @ \cup agg.vwap, !.over = Range(agg.buf),
                         !.carried = FALSE]
  /\ UNCHANGED <<now, tape, market, fetch, left>>

FeedNext ==
  \/ Tick
  \/ Gap
  \/ Report
  \/ SwitchOpen
  \/ RollBack
  \/ BackfillBegin
  \/ LoadBars
  \/ BarsFailed
  \/ Replay
  \/ EndBackfill
  \/ WatchSession
-----------------------------------------------------------------------------
(* Properties. *)

SeriesOK(s) ==
  /\ s.ring.start \in Slots /\ s.ring.count \in 0..RingCap
  /\ s.ring.slots \in [Slots -> Entries(tape) \cup {NoCandle}]
  /\ \A bar \in Range(Bars(s)) : bar \in Candles(tape)
  /\ s.fed \in Seq(tape \cup {NoCandle})

\* Every variable keeps its type, and no more prints wait in the buffer than
\* were reported.
TypeOK ==
  /\ now \in 1..MaxTime /\ market \in Prices
  /\ tape \subseteq Prints /\ IsFiniteSet(tape)
  /\ DOMAIN agg.series = Names /\ \A n \in Names : SeriesOK(agg.series[n])
  /\ agg.length \in {0} \cup CustomLens
  /\ agg.vwap \subseteq tape /\ agg.twice \subseteq tape
  /\ agg.last \in Prices \cup {NoPrice}
  /\ Range(agg.buf) \subseteq tape
  /\ fetch \in [at: {"idle", "armed", "bars", "trades", "drain", "failed"},
                switch: BOOLEAN, reqEnd: 0..now, tradeEnd: 0..now]
  /\ watched \in 0..WindowOf(now)

\* Reported after a younger print.
Late(i) == \E j \in tape : j.n < i.n /\ j.ts > i.ts

\* The candles of a series ascend, one for each bucket, the forming one last:
\* reconnects, partial bars of REST that form again and late prints never give
\* two candles to one minute.  The exception is a late print that is the first
\* after a load whose last candle was closed: it opens a candle out of order.
OneCandlePerBucket ==
  \A n \in Names \ agg.odd :
    LET bars == Bars(agg.series[n]) IN
    \A j, k \in DOMAIN bars : j < k => bars[j].start < bars[k].start

\* The EMA is that of the closes of the candles in order, each counted once,
\* and each closed candle's value that of the closes up to its own, although
\* candles are closed, evicted, taken back and amended.
EmaOverCloses ==
  \A n \in Names :
    LET s == agg.series[n]
        held == Held(s.ring)
        gone == Len(s.fed) - s.ring.count
    IN /\ gone >= 0
       /\ \A k \in DOMAIN held :
            /\ held[k].ema = SubSeq(s.fed, 1, gone + k)
            /\ s.fed[gone + k] = held[k].bar.close

\* Older than the oldest candle of a series that has evicted some.
Evicted(s, b) == Len(s.fed) > s.ring.count /\ b < Bars(s)[1].start

\* A print handed to a series since its last load is in the candle of its bucket
\* and in no other.  Only an evicted candle, or one a late print found missing,
\* goes without it.  Not said of a series in which a late print opened a candle
\* out of order, nor how often the print is in the volume.
PrintsInTheirCandle ==
  \A n \in Names \ agg.odd : \A i \in agg.given[n] :
    LET bars == Bars(agg.series[n])
        b    == Bucket(LenOf(agg, n), i.ts)
        mine == {k \in DOMAIN bars : bars[k].start = b}
    IN /\ {k \in DOMAIN bars : i \in bars[k].prints} = mine
       /\ mine = {} => Late(i) \/ Evicted(agg.series[n], b)

\* Once the session goroutine has seen the present window, the VWAP is that of
\* the window's prints in the minute series: no print of an earlier one unless
\* it was reported after that, or buffered meanwhile, and none missing but
\* those that came before the goroutine noticed.  The exception: a load that
\* finds no candle of the window yet seeds the VWAP of the one before, and
\* nothing resets it until the next.  At any time, the only prints it has twice
\* are those of the overlap of the partial bar that seeded it, between the end
\* of the request and the time it was served.
VwapOfWindow ==
  /\ agg.twice \subseteq past.overlap
  /\ watched = WindowOf(now) /\ ~past.carried =>
    /\ \A i \in agg.vwap \ past.over :
         WindowOf(i.ts) = watched \/ WindowOf(i.at) # WindowOf(i.ts)
    /\ \A i \in agg.given["minute"] :
         WindowOf(i.ts) = watched => i \in agg.vwap \cup past.early

\* With prints reported in order, the live-fed custom series and the one a
\* rebuild would give have the same candles, as far as the source reaches back.
CustomIsResampled ==
  agg.length > 0 /\ (\A i \in tape : ~Late(i)) =>
    LET src  == agg.series[customSourceTF(agg.length)]
        live == Bars(agg.series["custom"])
        made == resampleTo(Bars(src), agg.length)
        kept(bar) ==
          /\ src.ring.count = RingCap =>
               bar.start > Bucket(agg.length, Bars(src)[1].start)
          /\ agg.series["custom"].ring.count = RingCap =>
               bar.start >= live[1].start
    IN {bar \in Range(live) : kept(bar)} = {bar \in Range(made) : kept(bar)}

\* A print of the market is refused only where the last print accepted was off
\* the market, or where the market has left the ratio since its last print that
\* was accepted: whatever came refused, late, buffered or before a load does not
\* count, a switch forgets the other symbol's prices, and the next print of the
\* market to be accepted makes up for a bad tick.
MarketPricesPass ==
  ~past.fooled /\ (past.seen = NoPrice \/ Within(market, past.seen)) =>
    liveTradePlausibleLocked(agg, market)

\* What the comment of maxLiveTradeJumpRatio says of a real gap: a print of the
\* market is not refused while the market has stayed within the ratio of its
\* last print that was accepted.
GapsPass ==
  past.seen # NoPrice /\ Within(market, past.seen) =>
    liveTradePlausibleLocked(agg, market)
=============================================================================
