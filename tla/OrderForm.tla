----------------------------- MODULE OrderForm ------------------------------
(***************************************************************************)
(* From an intent to the order the broker gets: the session pinned at the  *)
(* intent, the confirm prompt, execution.Builder with its eligibility      *)
(* cache, and RESTExecutor.Flatten, while the session engine, the book the *)
(* builder prices from and a `:sym` move under them.                       *)
(*                                                                         *)
(* The book (last trade and NBBO of bars.Aggregator) belongs to the tape's *)
(* symbol, which a switch moves before the terminal's own symbol follows.  *)
(* An age stands for a time stamp: "fresh" is within quoteStaleFor,        *)
(* "quiet" within exitStaleLastTradeMax, "old" beyond.  Of a position only *)
(* its exit side matters here, and whether its size is whole.              *)
(***************************************************************************)
EXTENDS Sessions, Sequences, SequencesExt

CONSTANTS Symbols, NoSymbol, DefaultSymbol,
          Sides,        \* "buy", "sell"
          OvernightOK,  \* symbols whose asset is tradable overnight
          MaxElig,      \* maxEligibilityEntries
          DeskHours,    \* bound: moments at which the operator is at the desk
          MaxIntents,   \* bound: intents
          MaxSwitches   \* bound: `:sym` requests

ASSUME OrderFormAssumption ==
  /\ DefaultSymbol \in Symbols /\ NoSymbol \notin Symbols
  /\ Sides \subseteq {"buy", "sell"}
  /\ OvernightOK \subseteq Symbols /\ MaxElig \in Nat \ {0}
  /\ MaxIntents \in Nat /\ MaxSwitches \in Nat

VARIABLES
  ui,         \* m.symbol
  switching,  \* the symbol the tape moved to and the terminal has not
  book,       \* ages of bid, ask and last trade
  intent,     \* the pending or running action (`seen`: history, the engine's
              \* session at the intent)
  elig,       \* EligibilityCache.ent, oldest first
  prefetch,   \* symbols whose prefetchElig is running
  sent,       \* history: the order that left in the last step
  intents, switches

deskVars == <<ui, switching, book, intent, elig, prefetch, sent, intents,
              switches>>
vars == <<engineVars, deskVars>>

Tape == IF switching = NoSymbol THEN ui ELSE switching

\* A hotkey order, an explicit limit, an exit, the exit of a fraction.
Kinds == {"hotkey", "limit", "exit", "fraction"}
QuoteAges == {"none", "fresh", "old"}
TradeAges == {"old", "quiet", "fresh"}

NoBook == [bid |-> "none", ask |-> "none", trade |-> "old"]
NoIntent == [at |-> "none", kind |-> "exit", side |-> "sell",
             symbol |-> NoSymbol, sess |-> "Closed", seen |-> "Closed"]
NoOrder == [form |-> "none", symbol |-> NoSymbol, of |-> NoSymbol,
            by |-> "none", age |-> "old", pinned |-> "Closed",
            seen |-> "Closed", exit |-> FALSE]

NothingSent == sent' = NoOrder
-----------------------------------------------------------------------------
(* The book. *)

AtDesk == now \in DeskHours

\* OnQuote: each side on its own, so the other may be older.
Quote(side) ==
  /\ AtDesk
  /\ book' = [book EXCEPT ![side] = "fresh"]
  /\ NothingSent
  /\ UNCHANGED <<engineVars, ui, switching, intent, elig, prefetch, intents,
                 switches>>

Trade ==
  /\ AtDesk
  /\ book' = [book EXCEPT !.trade = "fresh"]
  /\ NothingSent
  /\ UNCHANGED <<engineVars, ui, switching, intent, elig, prefetch, intents,
                 switches>>

\* Seconds pass without news.
Ages ==
  /\ \/ \E side \in {"bid", "ask"} : /\ book[side] = "fresh"
                                     /\ book' = [book EXCEPT ![side] = "old"]
     \/ /\ book.trade = "fresh"
        /\ book' = [book EXCEPT !.trade = "quiet"]
     \/ /\ book.trade = "quiet"
        /\ book' = [book EXCEPT !.trade = "old"]
  /\ NothingSent
  /\ UNCHANGED <<engineVars, ui, switching, intent, elig, prefetch, intents,
                 switches>>

\* The unexpired verdicts on s, one at most.
Cached(s) == {e.ok : e \in {x \in ToSet(elig) : x.symbol = s}}

\* `:sym s` got through subscribe: ResetMarket and the filter, REST to come.
SwitchOpen(s) ==
  /\ AtDesk /\ switches < MaxSwitches
  /\ switching = NoSymbol /\ s # ui
  /\ switches' = switches + 1
  /\ switching' = s
  /\ book' = NoBook
  /\ NothingSent
  /\ UNCHANGED <<engineVars, ui, intent, elig, prefetch, intents>>

\* The switch commits and its reply reaches the terminal.
SwitchDone ==
  /\ switching # NoSymbol
  /\ ui' = switching /\ switching' = NoSymbol
  /\ prefetch' = prefetch \cup {s \in {switching} : Cached(s) = {}}
  /\ NothingSent
  /\ UNCHANGED <<engineVars, book, intent, elig, intents, switches>>

\* Its backfill fails: the tape returns to the terminal's symbol.
SwitchRollBack ==
  /\ switching # NoSymbol
  /\ switching' = NoSymbol
  /\ book' = NoBook
  /\ NothingSent
  /\ UNCHANGED <<engineVars, ui, intent, elig, prefetch, intents, switches>>
-----------------------------------------------------------------------------
(* EligibilityCache. *)

\* Mutant: the map grows without bound.
RoomUnbounded(entries) == entries

\* The oldest entry makes room, even for a symbol that has one already.
Room(entries) == IF Len(entries) >= MaxElig THEN Tail(entries) ELSE entries

\* One entry per symbol.
Without(entries, s) ==
  LET at == {i \in DOMAIN entries : entries[i].symbol = s} IN
  IF at = {} THEN entries ELSE RemoveAt(entries, CHOOSE i \in at : TRUE)

Remembered(s) ==
  Append(Without(Room(elig), s), [symbol |-> s, ok |-> s \in OvernightOK])

\* The oldest entry reaches the TTL; the next insert would prune it.
EligExpires ==
  /\ elig # <<>>
  /\ elig' = Tail(elig)
  /\ NothingSent
  /\ UNCHANGED <<engineVars, ui, switching, book, intent, prefetch, intents,
                 switches>>

\* A prefetch ends: a verdict, or an error that is only logged.
Prefetched(s) ==
  /\ s \in prefetch
  /\ prefetch' = prefetch \ {s}
  /\ elig' \in {elig, Remembered(s)}
  /\ NothingSent
  /\ UNCHANGED <<engineVars, ui, switching, book, intent, intents, switches>>
-----------------------------------------------------------------------------
(* Builder.Build and RESTExecutor. *)

FarSide(side) == IF side = "buy" THEN "ask" ELSE "bid"

\* Mutant: the quote is as old as its newer side.
QuoteFreshBest(b) == "fresh" \in {b.bid, b.ask}

\* LatestQuote's stamp is that of the older valid side.
QuoteFresh(b) ==
  {b.bid, b.ask} \ {"none"} # {} /\ {b.bid, b.ask} \subseteq {"none", "fresh"}

\* aggressivePrice: what the price is taken from, "none" without a price.
Source(side, exit) ==
  IF QuoteFresh(book) /\ book[FarSide(side)] # "none" THEN FarSide(side)
  ELSE IF book.trade = "fresh" \/ (exit /\ book.trade = "quiet") THEN "trade"
  ELSE "none"

Order(form, by) ==
  [form |-> form, symbol |-> intent.symbol, of |-> Tape, by |-> by,
   age |-> IF by = "none" THEN "old" ELSE book[by], pinned |-> intent.sess,
   seen |-> intent.seen, exit |-> intent.kind \in {"exit", "fraction"}]

\* pinSession.
PinnedSession == Current

\* orderIntent, flattenConfirm or panicIntent: the symbol and the session are
\* pinned, then a prompt is shown or the action starts.
Intend(kind, side) ==
  /\ AtDesk /\ intent = NoIntent /\ intents < MaxIntents
  /\ intents' = intents + 1
  /\ \E at \in {"prompt", "submit"} :
       intent' = [at |-> at, kind |-> kind, side |-> side, symbol |-> ui,
                  sess |-> PinnedSession, seen |-> Current]
  /\ NothingSent
  /\ UNCHANGED <<engineVars, ui, switching, book, elig, prefetch, switches>>

Answer ==
  /\ intent.at = "prompt"
  /\ intent' \in {NoIntent, [intent EXCEPT !.at = "submit"]}
  /\ NothingSent
  /\ UNCHANGED <<engineVars, ui, switching, book, elig, prefetch, intents,
                 switches>>

\* The order leaves, and the action is over.
Send(order) ==
  /\ sent' = order
  /\ intent' = NoIntent
  /\ UNCHANGED <<engineVars, ui, switching, book, elig, prefetch, intents,
                 switches>>

\* An error is shown instead.
Refuse ==
  /\ intent' = NoIntent
  /\ NothingSent
  /\ UNCHANGED <<engineVars, ui, switching, book, elig, prefetch, intents,
                 switches>>

IsExit == intent.kind \in {"exit", "fraction"}

\* Flatten without the builder: DELETE /v2/positions, a market order.
ClosePosition ==
  /\ intent.at = "submit" /\ IsExit
  /\ intent.sess = "Closed" \/ (intent.kind = "fraction"
                                  /\ intent.sess = "Regular")
  /\ Send(Order("close", "none"))

RefuseFraction ==
  /\ intent.at = "submit" /\ intent.kind = "fraction"
  /\ Extended(intent.sess)
  /\ Refuse

\* ErrMarketClosed.
RefuseClosed ==
  /\ intent.at = "submit" /\ ~IsExit /\ intent.sess = "Closed"
  /\ Refuse

SendRegular ==
  /\ intent.at = "submit" /\ intent.kind # "fraction"
  /\ intent.sess = "Regular"
  /\ Send(Order(IF intent.kind = "limit" THEN "limit" ELSE "market", "none"))

\* Overnight an unexpired verdict decides, or the asset is asked for.
Admit ==
  /\ intent.at = "submit" /\ intent.kind # "fraction" /\ Extended(intent.sess)
  /\ intent' = IF intent.sess # "Overnight" \/ TRUE \in Cached(intent.symbol)
                 THEN [intent EXCEPT !.at = "price"]
               ELSE IF FALSE \in Cached(intent.symbol) THEN NoIntent
               ELSE [intent EXCEPT !.at = "asset"]
  /\ NothingSent
  /\ UNCHANGED <<engineVars, ui, switching, book, elig, prefetch, intents,
                 switches>>

AssetArrives ==
  /\ intent.at = "asset"
  /\ elig' = Remembered(intent.symbol)
  /\ intent' = IF intent.symbol \in OvernightOK
                 THEN [intent EXCEPT !.at = "price"] ELSE NoIntent
  /\ NothingSent
  /\ UNCHANGED <<engineVars, ui, switching, book, prefetch, intents,
                 switches>>

\* ErrOvernightEligibility.
AssetFails == intent.at = "asset" /\ Refuse

SendExtended ==
  LET by == Source(intent.side, IsExit) IN
  /\ intent.at = "price"
  /\ \/ intent.kind = "limit" /\ Send(Order("limit", "none"))
     \/ intent.kind # "limit" /\ by # "none" /\ Send(Order("priced", by))

\* ErrNoExtendedPrice.
RefuseUnpriced ==
  /\ intent.at = "price" /\ intent.kind # "limit"
  /\ Source(intent.side, IsExit) = "none"
  /\ Refuse
-----------------------------------------------------------------------------
Init ==
  /\ EngineInit
  /\ ui = DefaultSymbol /\ switching = NoSymbol
  /\ book = NoBook /\ intent = NoIntent
  /\ elig = <<>> /\ prefetch = {DefaultSymbol}
  /\ sent = NoOrder
  /\ intents = 0 /\ switches = 0

\* Nothing stays fresh from one moment to the next; what comes right after
\* the boundary is a Quote or a Trade.
Aged ==
  LET Older(age) == IF age = "none" THEN age ELSE "old" IN
  [bid |-> Older(book.bid), ask |-> Older(book.ask), trade |-> "old"]

\* The engine moves; an intent outlives no more than the desk hours.
EngineStep ==
  /\ \/ ClockSync /\ book' = book
     \/ Tick /\ (intent = NoIntent \/ AtDesk) /\ book' = Aged
  /\ NothingSent
  /\ UNCHANGED <<ui, switching, intent, elig, prefetch, intents, switches>>

Next ==
  \/ EngineStep
  \/ \E side \in {"bid", "ask"} : Quote(side)
  \/ Trade \/ Ages
  \/ \E s \in Symbols : SwitchOpen(s) \/ Prefetched(s)
  \/ SwitchDone \/ SwitchRollBack \/ EligExpires
  \/ \E kind \in Kinds, side \in Sides : Intend(kind, side)
  \/ Answer \/ ClosePosition \/ RefuseFraction \/ RefuseClosed \/ SendRegular
  \/ Admit \/ AssetArrives \/ AssetFails \/ SendExtended \/ RefuseUnpriced

Spec == Init /\ [][Next]_vars
-----------------------------------------------------------------------------
TypeOK ==
  /\ EngineTypeOK
  /\ ui \in Symbols /\ switching \in Symbols \cup {NoSymbol}
  /\ book \in [bid: QuoteAges, ask: QuoteAges, trade: TradeAges]
  /\ intent \in [at: {"none", "prompt", "submit", "asset", "price"},
                 kind: Kinds, side: {"buy", "sell"},
                 symbol: Symbols \cup {NoSymbol},
                 sess: SessionNames, seen: SessionNames]
  /\ Len(elig) <= MaxElig
  /\ \A e \in ToSet(elig) : e \in [symbol: Symbols, ok: BOOLEAN]
  /\ \A i, j \in DOMAIN elig : elig[i].symbol = elig[j].symbol => i = j
  /\ prefetch \subseteq Symbols
  /\ sent \in [form: {"none", "market", "limit", "priced", "close"},
               symbol: Symbols \cup {NoSymbol}, of: Symbols \cup {NoSymbol},
               by: {"none", "bid", "ask", "trade"},
               age: QuoteAges \cup TradeAges, pinned: SessionNames,
               seen: SessionNames, exit: BOOLEAN]
  /\ intents \in 0..MaxIntents /\ switches \in 0..MaxSwitches

\* The engine has been told of the closure the moment lies in, if any.
Informed ==
  LET d == TradingDay(now) IN
  /\ Holiday(d) => told >= (d - 1) * Day + NightOpen
  /\ d \in calendar.earlies => now < CloseOf(d) \/ told >= CloseOf(d)

\* With the exchange's calendar known to the engine, a market order leaves
\* only while the regular session is open; the exceptions are an intent that
\* outlived the engine's session it was made in, and the request to close a
\* position, which in a Closed session waits for the next open.
MarketOnlyInRth ==
  /\ sent.form \in {"market", "close"}
  /\ sent.seen = Current /\ Informed
  => InRth(now) \/ (sent.form = "close" /\ Current = "Closed")

\* A hotkey order or exit outside the regular session is priced from the far
\* side while that very side is fresh, else from a fresh trade; only an exit
\* takes a quiet one.
PricedFresh ==
  sent.form = "priced" =>
    \/ sent.age = "fresh"
    \/ sent.by = "trade" /\ sent.age = "quiet" /\ sent.exit

\* An order pinned overnight is for a symbol that trades overnight, whatever
\* the cache evicted, expired or fetched twice.
EligibleOvernight ==
  sent.form \in {"limit", "priced"} /\ sent.pinned = "Overnight" =>
    sent.symbol \in OvernightOK

\* Whenever it leaves, an order has the form of the session the engine reported
\* at the intent, also when that session has turned under a prompt, a lookup or
\* a switch (pinSession): no market order and no DELETE /v2/positions of an
\* extended session, nothing but a close of a Closed one.
FormPinned ==
  /\ sent.form = "market" => sent.seen = "Regular"
  /\ sent.form = "close" => sent.seen \in {"Closed", "Regular"}
  /\ sent.form = "priced" => Extended(sent.seen)
  /\ sent.form = "limit" => Tradable(sent.seen)

\* However the session, the book, the cache and the tape move under an intent,
\* what leaves has the form of its intent's session (FormPinned), a price still
\* fresh (PricedFresh), a symbol that trades overnight (EligibleOvernight) and,
\* while the session of the intent lasts, its market open (MarketOnlyInRth).
OrdersFit == FormPinned /\ MarketOnlyInRth /\ PricedFresh /\ EligibleOvernight

\* bars.go:763: after a switch the order builder does not price off another
\* symbol's quote or trade.
PricedFromOwnBook == sent.form = "priced" => sent.of = sent.symbol
=============================================================================
