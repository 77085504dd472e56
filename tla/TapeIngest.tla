----------------------------- MODULE TapeIngest -----------------------------
(***************************************************************************)
(* How prints reach the bars: the ingest filters and the overnight poller  *)
(* of cmd/trade-kernel, backfill(), and the buffering of bars.Aggregator   *)
(* that lets REST history and live prints meet.                            *)
(*                                                                         *)
(* Actors: the exchange and the websocket's read goroutine (Tick and       *)
(* Quote: a message comes in and meets the filter; TradeFolds and          *)
(* QuoteFolds: the aggregator takes it, which may have to wait for a.mu),  *)
(* the poller goroutine (Poll...), and the holder of backfillMu (a `:sym`  *)
(* or a scheduled backfill; SymbolSwitch models how they compete for it).  *)
(*                                                                         *)
(* A print is a symbol and a tick, and each series is a count per print:   *)
(* `minute` stands for the REST-backed rings and the session VWAP, `sub`   *)
(* for the 1s/5s/15s rings.  A series is right when every print of the     *)
(* active symbol counts once and no other print counts.                    *)
(***************************************************************************)
EXTENDS Naturals, Sequences, FiniteSets

CONSTANTS Feeds,          \* the sessions to start in, see `feed`
          Symbols,        \* tradable symbols
          NoSymbol,       \* the empty string
          DefaultSymbol,  \* cfg.DefaultSymbol
          TicksPerSecond, \* time.Now is finer than the seconds REST is sent
          MaxBuf,         \* maxBackfillBuf
          MaxTime,        \* bound: prints of the exchange by day
          MaxNight,       \* bound: and overnight
          MaxSwitches,    \* bound: `:sym` requests
          MaxDrops        \* bound: websocket drops by day; overnight none,
                          \* there the websocket only schedules backfills

ASSUME TapeAssumption ==
  /\ Feeds \subseteq {"sip", "boats"}
  /\ DefaultSymbol \in Symbols /\ NoSymbol \notin Symbols
  /\ TicksPerSecond \in Nat \ {0} /\ MaxBuf \in Nat \ {0, 1}
  /\ MaxTime \in Nat /\ MaxNight \in 0..MaxTime /\ MaxSwitches \in Nat /\ MaxDrops \in Nat

VARIABLES
  feed,      \* "sip": the websocket streams; "boats": overnight, it is silent
             \* and the poller runs
  now,       \* time.Now
  tape,      \* every print so far
  active,    \* activeSymbol
  mark,      \* liveCursor, a backfillHighWater
  up,        \* the websocket is subscribed
  hand,      \* the message its read goroutine let through the filter
  jobs,      \* runBackfill goroutines waiting for backfillMu
  task,      \* the holder of backfillMu
  agg,       \* the aggregator
  poll,      \* the overnight poller
  window,    \* history: reqEnd, served and tradeEnd of the last completed
             \* backfill
  whole,     \* history: series whose REST history arrived since the last reset
  lost,      \* history: prints the full buffer dropped
  stray,     \* history: the hand when the book was last cleared
  late,      \* history: the print in the hand when the last buffer drained
  switches, drops

feedVars == <<feed, now, tape, up, drops>>
wire == <<hand, stray, late>>
vars == <<feedVars, active, mark, jobs, task, agg, poll, window, whole, lost,
          switches, wire>>

Tape == Symbols \cup {NoSymbol}
Time == 0..MaxTime
Prints == [symbol: Symbols, ts: 1..MaxTime]
Series == [Prints -> Nat]
Empty == [p \in Prints |-> 0]
NoMark == [symbol |-> NoSymbol, at |-> 0]
Hand(kind, s, t) == [kind |-> kind, symbol |-> s, ts |-> t]
NoHand == Hand("none", NoSymbol, 0)

\* time.RFC3339 has no fraction: REST sees the second t falls in.
Floor(t) == t - (t % TicksPerSecond)

\* The prints of symbol s REST lists between the two ticks.
Listed(s, after, until) ==
  {p \in tape : p.symbol = s /\ p.ts > after /\ p.ts <= until}

Task(who, symbol, prev, at) ==
  [who |-> who, symbol |-> symbol, prev |-> prev, at |-> at, reqEnd |-> 0,
   served |-> 0, tradeEnd |-> 0]
NoTask == Task("none", NoSymbol, NoSymbol, "idle")
GoesOn(t, at) == [t EXCEPT !.at = at]
NoPoll == [symbol |-> NoSymbol, cursor |-> 0, at |-> "idle", from |-> 0,
           batch |-> {}]

Init ==
  /\ feed \in Feeds
  /\ now = 0 /\ tape = {}
  /\ active = DefaultSymbol
  /\ mark = NoMark
  /\ up = FALSE /\ hand = NoHand /\ jobs = {}
  /\ task = NoTask
  /\ agg = [minute |-> Empty, sub |-> Empty, buffering |-> FALSE,
            buf |-> <<>>, last |-> NoSymbol, quote |-> NoSymbol]
  /\ poll = NoPoll
  /\ window = [reqEnd |-> 0, served |-> 0, tradeEnd |-> 0]
  /\ whole = {} /\ lost = {} /\ stray = NoHand /\ late = {}
  /\ switches = 0 /\ drops = 0
-----------------------------------------------------------------------------
(* bars.Aggregator. *)

Once(ps) == [p \in Prints |-> IF p \in ps THEN 1 ELSE 0]
Counted(series, p) == [series EXCEPT ![p] = @ + 1]

BufferFull(a) == a.buffering /\ Len(a.buf) >= MaxBuf

\* Mutant: the cap is not applied.
DroppedNone(a) == 0

\* How many of its oldest prints the buffer drops before the next one.
Dropped(a) == IF BufferFull(a) THEN Len(a.buf) - MaxBuf \div 2 ELSE 0

OnTrade(a, p) ==
  LET b == [a EXCEPT !.last = p.symbol] IN
  IF a.buffering
    THEN [b EXCEPT !.buf = Append(SubSeq(@, Dropped(a) + 1, Len(@)), p)]
    ELSE [[b EXCEPT !.minute = Counted(@, p)] EXCEPT !.sub = Counted(@, p)]

\* What the buffer adds to a series: its prints after the cutoff.
Drained(series, buf, cutoff) ==
  [p \in Prints |->
     series[p] + IF p.ts > cutoff
                   THEN Cardinality({i \in DOMAIN buf : buf[i] = p}) ELSE 0]

\* EndBackfillAfterReplay; EndBackfill is the case of two zero cutoffs.
EndBackfill(a, subAfter, minuteAfter) ==
  [minute |-> Drained(a.minute, a.buf, minuteAfter),
   sub |-> Drained(a.sub, a.buf, subAfter),
   buffering |-> FALSE, buf |-> <<>>, last |-> a.last, quote |-> a.quote]

BeginBackfill(a) ==
  IF a.buffering THEN a
  ELSE [[a EXCEPT !.buffering = TRUE] EXCEPT !.buf = <<>>]

\* Mutant: the last trade and the quote of the previous symbol survive.
ResetMarketKeepPrices(a) ==
  [a EXCEPT !.minute = Empty, !.sub = Empty, !.buffering = FALSE,
            !.buf = <<>>]

ResetMarket(a) ==
  [minute |-> Empty, sub |-> Empty, buffering |-> FALSE, buf |-> <<>>,
   last |-> NoSymbol, quote |-> NoSymbol]
-----------------------------------------------------------------------------
(* The exchange and the websocket callbacks. *)

\* A message about s goes on to the aggregator: it is streamed, and s is the
\* symbol the OnTrade and OnQuote callbacks let through.
Passes(s) == up /\ feed = "sip" /\ active = s

\* One print of s: the clock moves, the tape grows, the callback looks at
\* activeSymbol.  The goroutine reads one message at a time and keeps up.
Tick(s) ==
  /\ now < IF feed = "sip" THEN MaxTime ELSE MaxNight
  /\ hand = NoHand
  /\ now' = now + 1
  /\ tape' = tape \cup {[symbol |-> s, ts |-> now + 1]}
  /\ hand' = IF Passes(s) THEN Hand("trade", s, now + 1) ELSE hand
  /\ UNCHANGED <<feed, active, mark, up, jobs, task, agg, poll, window, whole,
                 lost, switches, drops, stray, late>>

Quote(s) ==
  /\ Passes(s) /\ hand = NoHand
  /\ hand' = Hand("quote", s, 0)
  /\ UNCHANGED <<feedVars, active, mark, jobs, task, agg, poll, window, whole,
                 lost, switches, stray, late>>

\* The print in a hand.
HeldPrint(h) == [symbol |-> h.symbol, ts |-> h.ts]

\* The callback's second half, whatever activeSymbol has become meanwhile.
TradeFolds ==
  /\ hand.kind = "trade"
  /\ agg' = OnTrade(agg, HeldPrint(hand))
  /\ lost' = lost \cup {agg.buf[i] : i \in 1..Dropped(agg)}
  /\ hand' = NoHand
  /\ UNCHANGED <<feedVars, active, mark, jobs, task, poll, window, whole,
                 switches, stray, late>>

QuoteFolds ==
  /\ hand.kind = "quote"
  /\ agg' = [agg EXCEPT !.quote = hand.symbol]
  /\ hand' = NoHand
  /\ UNCHANGED <<feedVars, active, mark, jobs, task, poll, window, whole,
                 lost, switches, stray, late>>

\* The read goroutine itself sees the connection fail.
Drop ==
  /\ up /\ feed = "sip" /\ drops < MaxDrops /\ hand = NoHand
  /\ up' = FALSE
  /\ drops' = drops + 1
  /\ UNCHANGED <<feed, now, tape, active, mark, jobs, task, agg, poll,
                 window, whole, lost, switches, wire>>

\* OnInitial or OnReconnect schedules mws.Symbol(): the active symbol, or
\* during the pause whichever of the two SetSymbol stored last.
Connect ==
  /\ ~up
  /\ up' = TRUE
  /\ \E s \in IF active = NoSymbol THEN {task.prev, task.symbol}
              ELSE {active} :
       jobs' = jobs \cup {s}
  /\ UNCHANGED <<feed, now, tape, active, mark, task, agg, poll, window,
                 whole, lost, switches, drops, wire>>
-----------------------------------------------------------------------------
(* switchSymbol and runBackfill, under backfillMu. *)

Idle == task = NoTask

SwitchPause(s) ==
  /\ Idle /\ s # active /\ switches < MaxSwitches
  /\ switches' = switches + 1
  /\ task' = Task("switch", s, active, "paused")
  /\ active' = NoSymbol
  /\ mark' = NoMark
  /\ UNCHANGED <<feedVars, jobs, agg, poll, window, whole, lost, wire>>

SwitchClear ==
  /\ task.at = "paused"
  /\ agg' = ResetMarket(agg)
  /\ whole' = {} /\ lost' = {} /\ late' = {} /\ stray' = hand
  /\ task' = GoesOn(task, "cleared")
  /\ UNCHANGED <<feedVars, active, mark, jobs, poll, window, switches, hand>>

\* Mutant: ingest resumes before the buffer is armed.
OpenUnarmed(a) == a

\* The buffer is armed before ingest resumes.
Opened(a) == BeginBackfill(a)

SwitchOpen ==
  /\ task.at = "cleared"
  /\ agg' = Opened(agg)
  /\ active' = task.symbol
  /\ task' = GoesOn(task, "armed")
  /\ UNCHANGED <<feedVars, mark, jobs, poll, window, whole, lost, switches,
                 wire>>

\* A backfill that its turn finds superseded or about another symbol returns.
JobDropped(s) ==
  /\ Idle /\ s \in jobs
  /\ jobs' = jobs \ {s}
  /\ whole' = IF s = active THEN {} ELSE whole
  /\ UNCHANGED <<feedVars, active, mark, task, agg, poll, window, lost,
                 switches, wire>>

JobBegin(s) ==
  /\ Idle /\ s \in jobs /\ s = active
  /\ jobs' = jobs \ {s}
  /\ task' = Task("backfill", s, NoSymbol, "armed")
  /\ agg' = BeginBackfill(agg)
  /\ UNCHANGED <<feedVars, active, mark, poll, window, whole, lost, switches,
                 wire>>

StampReqEnd ==
  /\ task.at = "armed"
  /\ task' = [GoesOn(task, "bars") EXCEPT !.reqEnd = now]
  /\ UNCHANGED <<feedVars, active, mark, jobs, agg, poll, window, whole, lost,
                 switches, wire>>

\* Load of the REST bars, complete or with only the boats part (the SIP error
\* is logged).  The bar reqEnd falls in is served as it stands when REST
\* answers.  No bars at all and no error: nothing is loaded.
LoadBars ==
  /\ task.at = "bars"
  /\ \E served \in task.reqEnd..now :
     /\ task' = [GoesOn(task, "trades") EXCEPT !.served = served,
                                               !.tradeEnd = now]
     /\ LET hist == Listed(task.symbol, 0, served) IN
        \/ /\ agg' = IF hist = {} THEN agg
                     ELSE [agg EXCEPT !.minute = Once(hist)]
           /\ whole' = whole \cup {"minute"}
        \/ /\ agg' = [agg EXCEPT !.minute = Empty]
           /\ whole' = whole \ {"minute"}
  /\ UNCHANGED <<feedVars, active, mark, jobs, poll, window, lost, switches,
                 wire>>

\* A scheduled backfill without usable TF1m: the buffer drains everywhere.
BarsFailed ==
  /\ task.at = "bars" /\ task.who = "backfill"
  /\ agg' = EndBackfill(agg, 0, 0)
  /\ task' = NoTask
  /\ whole' = {}
  /\ UNCHANGED <<feedVars, active, mark, jobs, poll, window, lost, switches,
                 wire>>

\* A switch without usable TF1m: filter and book roll back, prev is re-seeded.
RollBack ==
  /\ task.at = "bars" /\ task.who = "switch"
  /\ active' = task.prev
  /\ agg' = ResetMarket(agg)
  /\ whole' = {} /\ lost' = {} /\ late' = {} /\ stray' = hand
  /\ mark' = NoMark
  /\ jobs' = jobs \cup {task.prev}
  /\ task' = NoTask
  /\ UNCHANGED <<feedVars, poll, window, switches, hand>>

\* The backfill's high-water mark, if it is about s.
MarkFor(s) == IF mark.symbol = s THEN mark.at ELSE 0

\* ReplayTrades starts from empty sub-minute rings.
ReplayTrades(a, ps) == [a EXCEPT !.sub = Once(ps)]

\* Mutant: the mark is a wall clock read after the trades arrived.
StampedLate == now

\* max(reqEnd, tradeEnd), and tradeEnd is read last.
HighWater == task.tradeEnd

\* The REST trades (or none, an error that is only logged) are replayed, and
\* the poller's mark is stored.
Replay ==
  /\ task.at = "trades"
  /\ \/ /\ agg' = ReplayTrades(agg, Listed(task.symbol, 0,
                                           Floor(task.tradeEnd)))
        /\ whole' = whole \cup {"sub"}
     \/ /\ agg' = ReplayTrades(agg, {})
        /\ whole' = whole \ {"sub"}
  /\ mark' = [symbol |-> task.symbol, at |-> HighWater]
  /\ task' = GoesOn(task, "drain")
  /\ UNCHANGED <<feedVars, active, jobs, poll, window, lost, switches, wire>>

Drain ==
  /\ task.at = "drain"
  /\ agg' = EndBackfill(agg, task.tradeEnd, task.reqEnd)
  /\ window' = [reqEnd |-> task.reqEnd, served |-> task.served,
                tradeEnd |-> task.tradeEnd]
  /\ late' = IF hand.kind = "trade" THEN {HeldPrint(hand)} ELSE {}
  /\ task' = NoTask
  /\ UNCHANGED <<feedVars, active, mark, jobs, poll, whole, lost, switches,
                 hand, stray>>
-----------------------------------------------------------------------------
(* The overnight poller: one goroutine, one poll at a time. *)

Later(t, u) == IF t > u THEN t ELSE u

Resting(cursor) ==
  [symbol |-> poll.symbol, cursor |-> cursor, at |-> "idle", from |-> 0,
   batch |-> {}]

\* run and the head of pollOnce: symbol and cursor are read, the fetch starts.
PollBegin ==
  LET kept == IF poll.symbol = active THEN poll.cursor ELSE 0
      from == Later(kept, MarkFor(active))
  IN  /\ feed = "boats" /\ poll.at = "idle" /\ active # NoSymbol
      /\ poll' = [symbol |-> active, cursor |-> kept, at |-> "fetched",
                  from |-> from,
                  batch |-> Listed(active, from, Floor(now))]
      /\ UNCHANGED <<feedVars, active, mark, jobs, task, agg, window, whole,
                     lost, switches, wire>>

PollFailed ==
  /\ poll.at = "fetched"
  /\ poll' = Resting(poll.cursor)
  /\ UNCHANGED <<feedVars, active, mark, jobs, task, agg, window, whole, lost,
                 switches, wire>>

\* The quote fetch, which may fail; then the batch is applied.
PollQuote ==
  /\ poll.at = "fetched"
  /\ agg' \in {agg, [agg EXCEPT !.quote = poll.symbol]}
  /\ poll' = [poll EXCEPT !.at = "apply"]
  /\ UNCHANGED <<feedVars, active, mark, jobs, task, window, whole, lost,
                 switches, wire>>

\* One print of the batch, oldest first; curSym is poll.symbol here, whatever
\* activeSymbol has become.
PollApply ==
  /\ poll.at = "apply"
  /\ \E p \in poll.batch :
       /\ \A q \in poll.batch : p.ts <= q.ts
       /\ agg' = OnTrade(agg, p)
       /\ lost' = lost \cup {agg.buf[i] : i \in 1..Dropped(agg)}
       /\ poll' = [[poll EXCEPT !.batch = @ \ {p}] EXCEPT !.from = p.ts]
  /\ UNCHANGED <<feedVars, active, mark, jobs, task, window, whole, switches,
                 wire>>

\* Mutant: the cursor stays where the poll began.
CursorKept == poll.cursor

\* maxTS, the newest print of the batch.
CursorAfter == poll.from

PollEnd ==
  /\ poll.at = "apply" /\ poll.batch = {}
  /\ poll' = Resting(CursorAfter)
  /\ UNCHANGED <<feedVars, active, mark, jobs, task, agg, window, whole, lost,
                 switches, wire>>
-----------------------------------------------------------------------------
Next ==
  \/ \E s \in Symbols :
       \/ Tick(s) \/ Quote(s) \/ SwitchPause(s)
       \/ JobDropped(s) \/ JobBegin(s)
  \/ TradeFolds \/ QuoteFolds \/ Drop \/ Connect
  \/ SwitchClear \/ SwitchOpen \/ StampReqEnd \/ LoadBars \/ BarsFailed
  \/ RollBack \/ Replay \/ Drain
  \/ PollBegin \/ PollFailed \/ PollQuote \/ PollApply \/ PollEnd

Spec == Init /\ [][Next]_vars
-----------------------------------------------------------------------------
TypeOK ==
  /\ feed \in Feeds /\ now \in Time /\ tape \subseteq Prints
  /\ active \in Tape /\ mark \in [symbol: Tape, at: Time]
  /\ up \in BOOLEAN /\ jobs \subseteq Symbols
  /\ {hand, stray} \subseteq [kind: {"none", "trade", "quote"}, symbol: Tape,
                              ts: Time]
  /\ task \in [who: {"none", "switch", "backfill"}, symbol: Tape, prev: Tape,
               at: {"idle", "paused", "cleared", "armed", "bars", "trades",
                    "drain"},
               reqEnd: Time, served: Time, tradeEnd: Time]
  /\ agg \in [minute: Series, sub: Series, buffering: BOOLEAN,
              buf: Seq(Prints), last: Tape, quote: Tape]
  /\ Len(agg.buf) <= MaxBuf
  /\ poll \in [symbol: Tape, cursor: Time, at: {"idle", "fetched", "apply"},
               from: Time, batch: SUBSET Prints]
  /\ window \in [reqEnd: Time, served: Time, tradeEnd: Time]
  /\ whole \subseteq {"minute", "sub"} /\ lost \cup late \subseteq Prints
  /\ switches \in 0..MaxSwitches /\ drops \in 0..MaxDrops

\* No goroutine is at work on the bars.
Settled == Idle /\ poll.at = "idle" /\ jobs = {} /\ up /\ hand = NoHand

Own == {p \in tape : p.symbol = active}
InPartialBar(p) == p.ts > window.reqEnd /\ p.ts <= window.served
InWindow(p) == p.ts > window.reqEnd /\ p.ts <= window.tradeEnd
InCutSecond(p) ==
  p.ts > Floor(window.tradeEnd) /\ p.ts <= window.tradeEnd

\* While the websocket streams, the one thing of another symbol that can be in
\* a series, in the buffer, or in the last trade and the quote orders are
\* priced from, is the one message that had passed the filter and was waiting
\* for a.mu when the switch, or the rollback of a failed one, cleared the book;
\* however switches, rollbacks and backfills interleave.
StreamOnlyActive ==
  feed = "sip" /\ active # NoSymbol =>
    /\ \A p \in Prints : p.symbol # active =>
         /\ agg.minute[p] + agg.sub[p] = 0 \/ p = HeldPrint(stray)
         /\ agg.minute[p] <= 1 /\ agg.sub[p] <= 1
    /\ \A i \in DOMAIN agg.buf :
         agg.buf[i].symbol = active \/ agg.buf[i] = HeldPrint(stray)
    /\ agg.last \in {NoSymbol, active, stray.symbol}
    /\ agg.quote \in {NoSymbol, active, stray.symbol}

\* While the websocket streams, once the last backfill is over every print of
\* the active symbol counts in the REST-backed bars and in the VWAP, those the
\* full buffer dropped excepted, and in the sub-minute bars, whose only holes
\* are in the second that RFC3339 cut off the end of the trade window.  It
\* counts once; twice, and never more often, if the REST bar of the moment
\* already held it when it was served after reqEnd, or if it waited for a.mu
\* while the buffer drained (Load, ReplayTrades, EndBackfillAfterReplay).
StreamOnce ==
  feed = "sip" /\ Settled =>
    \A p \in Own \ lost :
      /\ "minute" \in whole =>
           \/ agg.minute[p] = 1
           \/ agg.minute[p] = 2 /\ (InPartialBar(p) \/ p \in late)
      /\ "sub" \in whole =>
           \/ agg.sub[p] = 1
           \/ agg.sub[p] = 0 /\ InCutSecond(p)
           \/ agg.sub[p] = 2 /\ p \in late

\* What the poller has put behind it for the active symbol.
Behind == Later(MarkFor(active),
                IF poll.symbol = active THEN poll.cursor ELSE 0)

\* Overnight, a print the poller will not ask for again is in the bars, unless
\* it fell between the bar and the trade window of the last backfill, or for
\* the sub-minute bars in the second cut off that window.
PolledHolesBounded ==
  feed = "boats" /\ Settled =>
    \A p \in Own \ lost : p.ts <= Behind =>
      /\ "minute" \in whole => agg.minute[p] >= 1 \/ InWindow(p)
      /\ "sub" \in whole => agg.sub[p] >= 1 \/ InCutSecond(p)

\* Overnight, only prints the last backfill covered can count twice: cursor
\* and mark keep one poll from repeating another.
PolledTwiceBounded ==
  feed = "boats" /\ Settled =>
    \A p \in Own : p.ts > window.tradeEnd =>
      agg.minute[p] <= 1 /\ agg.sub[p] <= 1

\* overnight.go:173: a batch fetched for the symbol switched away from is
\* dropped.
PollerOnlyActive ==
  feed = "boats" /\ active # NoSymbol =>
    \A p \in Prints : p.symbol # active => agg.minute[p] + agg.sub[p] = 0
=============================================================================
