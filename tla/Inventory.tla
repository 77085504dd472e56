----------------------------- MODULE Inventory ------------------------------
(***************************************************************************)
(* The inventory walk of internal/state/realized.go: the day's and the     *)
(* week's realized figures, at average cost, from the executions of the    *)
(* lookback and, for positions older than that, from the broker's open     *)
(* positions (seeds) and the average entries retained of them (hints).     *)
(*                                                                         *)
(* The feed lists executions after they happen, and the positions are a    *)
(* snapshot of the last Reconcile: a refresh may see either ahead of the   *)
(* other.  The figures are an operator, Figures: a refresh may be made in  *)
(* any state.  Quantities and prices are whole numbers, prices multiples   *)
(* of enough to keep the averages whole.                                   *)
(***************************************************************************)
EXTENDS Integers, SequencesExt

CONSTANTS Symbols,
          Trades,   \* what may be executed: symbol, signed qty, price
          Old,      \* what may be held before the lookback, by symbol
          Omits,    \* symbols whose average the broker may leave out
          MaxTrades \* bound: executions in the lookback

\* A position has an average entry.
ASSUME InventoryAssumption ==
  /\ Trades \subseteq [symbol: Symbols, qty: Int \ {0}, px: Nat \ {0}]
  /\ Old \subseteq [Symbols -> [qty: Int, avg: Nat]]
  /\ \A book \in Old, s \in Symbols : book[s].qty # 0 => book[s].avg > 0
  /\ Omits \subseteq Symbols /\ MaxTrades \in Nat

VARIABLES
  old,      \* the positions before the lookback
  trades,   \* the executions since, each with the period it fell into
  listed,   \* how many of them the FILL feed has
  rest,     \* restPositions: qty, and avg or 0 if the broker left it out
  retained, \* retainedBasis: an average entry, or 0
  period    \* trading days: the last of a week, the first two of the next

vars == <<old, trades, listed, rest, retained, period>>
Periods == 0..2

Flat == [qty |-> 0, avg |-> 0]
Zero == [s \in Symbols |-> Flat]
Size(n) == IF n < 0 THEN -n ELSE n
-----------------------------------------------------------------------------
(* walkFills. *)

\* Mutant: the average is weighted by signed sizes.
SignedAverage(st, n, px) ==
  CASE st.qty = 0 -> [inv |-> [qty |-> n, avg |-> px], realized |-> 0]
    [] st.qty * n > 0 ->
         [inv |-> [qty |-> st.qty + n,
                   avg |-> (st.avg * st.qty + px * n) \div Size(st.qty + n)],
          realized |-> 0]
    [] st.qty * n < 0 /\ Size(n) < Size(st.qty) ->
         [inv |-> [st EXCEPT !.qty = @ + n], realized |-> (st.avg - px) * n]
    [] OTHER ->
         [inv |-> IF n = -st.qty THEN Flat ELSE [qty |-> st.qty + n, avg |-> px],
          realized |-> (px - st.avg) * st.qty]

\* Opens or adds; reduces; closes or flips.
applyFill(st, n, px) ==
  CASE st.qty = 0 -> [inv |-> [qty |-> n, avg |-> px], realized |-> 0]
    [] st.qty * n > 0 ->
         [inv |-> [qty |-> st.qty + n,
                   avg |-> (st.avg * Size(st.qty) + px * Size(n)) \div Size(st.qty + n)],
          realized |-> 0]
    [] st.qty * n < 0 /\ Size(n) < Size(st.qty) ->
         [inv |-> [st EXCEPT !.qty = @ + n], realized |-> (st.avg - px) * n]
    [] OTHER ->
         [inv |-> IF n = -st.qty THEN Flat ELSE [qty |-> st.qty + n, avg |-> px],
          realized |-> (px - st.avg) * st.qty]

\* A walk with one fill more.
Applied(w, f) ==
  LET done == applyFill(w.book[f.symbol], f.qty, f.px)
      counted(window) == IF f.period \in window THEN done.realized ELSE 0
  IN [book |-> [w.book EXCEPT ![f.symbol] = done.inv],
      day  |-> w.day + counted({period}),
      week |-> w.week + counted(IF period = 0 THEN {0} ELSE {1, 2})]

\* The walk over the fills of the symbols in kept that starts with a book.
WalkFrom(book, fills, kept) ==
  LET after[n \in 0..Len(fills)] ==
        IF n = 0 THEN [book |-> book, day |-> 0, week |-> 0]
        ELSE IF fills[n].symbol \in kept THEN Applied(after[n - 1], fills[n])
        ELSE after[n - 1]
  IN  after[Len(fills)]

walkFills(fills) == WalkFrom(Zero, fills, Symbols)
-----------------------------------------------------------------------------
(* RealizedFromFillsWithHints. *)

Seeded(s, seeds) == seeds[s].qty # 0
Hint(s, seeds, hints) == IF Seeded(s, seeds) THEN 0 ELSE hints[s]

\* Mutant: a seed on the other side of the book is bridged to, too.
BridgedEitherWay(s, end, seeds, hints) ==
  IF Seeded(s, seeds) THEN seeds[s].avg > 0 /\ end[s].qty # seeds[s].qty
                      ELSE end[s].qty # 0 /\ hints[s] > 0

\* Symbols given a synthetic open: up to the seed, if that takes a trade of
\* the seed's own side, or from the retained average to flat.
Bridged(s, end, seeds, hints) ==
  IF Seeded(s, seeds)
    THEN seeds[s].avg > 0 /\ (seeds[s].qty - end[s].qty) * seeds[s].qty > 0
    ELSE end[s].qty # 0 /\ hints[s] > 0

\* The fills are trusted over a seed that lags them, or that has no average.
SeedLag(s, end, seeds, hints) ==
  /\ Seeded(s, seeds) /\ end[s].qty # seeds[s].qty
  /\ ~Bridged(s, end, seeds, hints)
  /\ \/ end[s].qty * seeds[s].qty > 0
     \/ end[s].qty = 0 /\ seeds[s].avg = 0

Unreliable(s, end, seeds, hints) ==
  /\ end[s].qty # seeds[s].qty
  /\ ~Bridged(s, end, seeds, hints) /\ ~SeedLag(s, end, seeds, hints)

\* The book after the synthetic opens, which come before every other fill, one
\* for a symbol, and are in no window.
Opened(end, seeds, hints) ==
  [s \in Symbols |->
     IF Bridged(s, end, seeds, hints)
       THEN [qty |-> seeds[s].qty - end[s].qty,
             avg |-> IF Seeded(s, seeds) THEN seeds[s].avg ELSE hints[s]]
       ELSE Flat]

RealizedFromFillsWithHints(fills, seeds, hints) ==
  LET end  == walkFills(fills).book
      lag  == {s \in Symbols : SeedLag(s, end, seeds, hints)}
      bad  == {s \in Symbols : Unreliable(s, end, seeds, hints)}
      good == {s \in Symbols \ (lag \cup bad) : Seeded(s, seeds)}
      out  == WalkFrom(Opened(end, seeds, hints), fills, Symbols \ bad)
      consistent ==
        \A s \in Symbols \ lag :
          out.book[s].qty = IF s \in good THEN seeds[s].qty ELSE 0
      nothing == /\ bad # {} /\ good = {} /\ lag = {}
                 /\ \A f \in ToSet(fills) : f.symbol \in bad
  IN [ok |-> consistent /\ ~nothing, excluded |-> bad,
      day |-> out.day, week |-> out.week]

\* What a refresh publishes now.  The recompute after a fill walks likewise
\* from the live positions, and retains their averages; it is not modelled.
Figures ==
  RealizedFromFillsWithHints(SubSeq(trades, 1, listed), rest,
    [s \in Symbols |-> Hint(s, rest, retained)])
-----------------------------------------------------------------------------
(* The account. *)

\* The broker's books after the first n executions.
BookAfter(n) == WalkFrom(old, SubSeq(trades, 1, n), Symbols).book

Init ==
  /\ old \in Old /\ trades = <<>> /\ listed = 0
  /\ rest = old /\ retained = [s \in Symbols |-> old[s].avg]
  /\ period = 0

Execute(t) ==
  /\ Len(trades) < MaxTrades
  /\ trades' = Append(trades, [symbol |-> t.symbol, qty |-> t.qty, px |-> t.px,
                               period |-> period])
  /\ UNCHANGED <<old, listed, rest, retained, period>>

Lists ==
  /\ listed < Len(trades) /\ listed' = listed + 1
  /\ UNCHANGED <<old, trades, rest, retained, period>>

\* The average kept for a symbol: that of the new snapshot, else the old one's.
Retained(snapshot) ==
  [s \in Symbols |-> IF snapshot[s].avg > 0 THEN snapshot[s].avg ELSE retained[s]]

Reconcile(omitted) ==
  LET book == BookAfter(Len(trades))
      snapshot == [s \in Symbols |-> IF s \in omitted
                                       THEN [book[s] EXCEPT !.avg = 0] ELSE book[s]]
  IN /\ rest' = snapshot /\ retained' = Retained(snapshot)
     /\ UNCHANGED <<old, trades, listed, period>>

\* A week ends, then a day.
DayStarts ==
  /\ period < 2 /\ period' = period + 1
  /\ UNCHANGED <<old, trades, listed, rest, retained>>

Next ==
  \/ \E t \in Trades : Execute(t)
  \/ Lists
  \/ \E omitted \in SUBSET Omits : Reconcile(omitted)
  \/ DayStarts

Spec == Init /\ [][Next]_vars
-----------------------------------------------------------------------------
\* Every variable keeps its type; never more is listed than was executed.
TypeOK ==
  /\ old \in Old /\ listed \in 0..Len(trades)
  /\ trades \in Seq([symbol: Symbols, qty: Int, px: Nat, period: Periods])
  /\ rest \in [Symbols -> [qty: Int, avg: Nat]]
  /\ retained \in [Symbols -> Nat]
  /\ period \in Periods

\* Of the position held before the lookback each execution closed a part or
\* all, and went no further.
OnlyReduced(s) ==
  \A n \in 1..listed :
    LET before == BookAfter(n - 1)[s]
        after  == BookAfter(n)[s]
    IN after \notin {before, Flat} =>
         /\ after.avg = before.avg /\ after.qty * before.qty > 0
         /\ Size(after.qty) < Size(before.qty)

\* What the walk needs to know of a symbol: its fills from flat, and a snapshot
\* that agrees with them or lags an addition; or for an older position that
\* was only reduced, the same snapshot with the average, or its hint once flat.
Known(s) ==
  LET held == BookAfter(listed)[s] IN
  IF old[s].qty = 0
    THEN \/ rest[s].qty = held.qty
         \/ rest[s].qty * held.qty > 0 /\ Size(rest[s].qty) < Size(held.qty)
    ELSE /\ rest[s] = held /\ OnlyReduced(s)
         /\ held.qty = 0 => retained[s] = old[s].avg

\* The figures are those of the broker's books, with every execution listed so
\* far counted once in its day and week at the cost it closed, as long as the
\* walk knows enough of each symbol or leaves the symbol out; it never leaves
\* out one it knows enough of, whatever it lacks of the others.
RealizedExact ==
  LET figures == Figures
      kept    == Symbols \ figures.excluded
      true    == WalkFrom(old, SubSeq(trades, 1, listed), kept)
  IN /\ \A s \in Symbols : Known(s) => s \in kept
     /\ (\A s \in Symbols : Known(s)) => figures.ok
     /\ figures.ok /\ (\A s \in kept : Known(s)) =>
          figures.day = true.day /\ figures.week = true.week
=============================================================================
